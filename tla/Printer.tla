------------------------------ MODULE Printer ------------------------------
(***************************************************************************)
(* printNode (src/FrontEnd/cht/Frontend.cpp): a tree back as source text,  *)
(* for ncc.sh -r.  An operand is put in parentheses if its operator binds  *)
(* less tightly than the operator it belongs to, on either side; nothing   *)
(* else is.  A word is its kind and the node it was printed for, Null for  *)
(* parentheses and the SET of a declaration.                               *)
(***************************************************************************)
EXTENDS Parser

\* Mutant of Ranks: sums and products have one rank.
RanksMerged ==
    <<{"ENDL", "OUT"}, {"FUNC", "VAR"}, {"SET"}, {"QQ", "TERN_C", "TERN_Q"}, {"LAND", "LOR"},
      {"LESS", "GRTR", "GRTR_EQ", "LESS_EQ", "EQUAL", "NON_EQ"},
      {"AND", "XOR", "OR", "SHL", "SHR"}, {"ADD", "SUB", "MUL", "MOD", "DIV"}, {}, {"NOT"},
      {"WHILE", "DIFF"}, {"INC", "DEC"}, {"ADDR", "VAL"}, {"CALL", "IN"}, {"ID", "NUM"}>>

\* getPriority, loosest first.
Ranks ==
    <<{"ENDL", "OUT"}, {"FUNC", "VAR"}, {"SET"}, {"QQ", "TERN_C", "TERN_Q"}, {"LAND", "LOR"},
      {"LESS", "GRTR", "GRTR_EQ", "LESS_EQ", "EQUAL", "NON_EQ"},
      {"AND", "XOR", "OR", "SHL", "SHR"}, {"ADD", "SUB"}, {"MUL", "MOD", "DIV"}, {"NOT"},
      {"WHILE", "DIFF"}, {"INC", "DEC"}, {"ADDR", "VAL"}, {"CALL", "IN"}, {"ID", "NUM"}>>

getPriority(nodes, i) ==
    IF i = Null \/ nodes[i].kind \notin UNION {Ranks[k] : k \in DOMAIN Ranks} THEN 1000
    ELSE CHOOSE k \in DOMAIN Ranks : nodes[i].kind \in Ranks[k]

Word(kind, i) == <<[kind |-> kind, of |-> i]>>
Bracketed(w)  == Word("(", Null) \o w \o Word(")", Null)

\* The condition of PRIORITY.
Looser(nodes, i, kid) == getPriority(nodes, i) > getPriority(nodes, kid)

RECURSIVE printNode(_, _)
printNode(nodes, i) ==
    IF i = Null THEN <<>>
    ELSE LET kind    == nodes[i].kind
             KEYWORD == Word(kind, i)
             LEFT    == printNode(nodes, nodes[i].left)
             RIGHT   == printNode(nodes, nodes[i].right)
             Put(kid, w) == IF Looser(nodes, i, kid) THEN Bracketed(w) ELSE w
             PLEFT   == Put(nodes[i].left, LEFT)
             PRIGHT  == Put(nodes[i].right, RIGHT)
         IN CASE kind \in {"ENDL", "COMMA"} -> LEFT \o KEYWORD \o RIGHT
              [] kind = "FUNC"   -> KEYWORD \o LEFT \o RIGHT
              [] kind = "F_ARG"  -> Bracketed(LEFT) \o KEYWORD \o Bracketed(RIGHT)
              [] kind = "VAR"    -> KEYWORD \o LEFT \o (IF nodes[i].right = Null THEN <<>>
                                                        ELSE Word("SET", Null) \o PRIGHT)
              [] kind = "SET"    -> LEFT \o KEYWORD \o PRIGHT
              [] kind = "TERN_Q" -> PLEFT \o KEYWORD \o RIGHT
              [] kind = "WHILE"  -> KEYWORD \o Bracketed(LEFT) \o Bracketed(RIGHT)
              [] kind = "CALL"   -> LEFT \o Word("(", i) \o RIGHT \o Word(")", Null)
              [] kind = "OUT"    -> KEYWORD \o RIGHT
              [] kind \in {"INC", "DEC"} ->
                    IF nodes[i].left # Null THEN LEFT \o KEYWORD ELSE KEYWORD \o RIGHT
              [] kind \in {"IN", "ID", "NUM"} -> KEYWORD
              [] OTHER           -> PLEFT \o KEYWORD \o PRIGHT

-----------------------------------------------------------------------------
(* What is lost: the trees that are another tree, or none, when their text *)
(* is read again, because a pair of parentheses is missing.                *)

Kind(nodes, i) == IF i = Null THEN "" ELSE nodes[i].kind
Prefixed(nodes, i) == nodes[i].left = Null

\* What the parser accepts although it is no sentence.
LacksOperand(nodes, i) ==
    \/ /\ nodes[i].left = Null
       /\ nodes[i].kind \notin {"SUB", "NOT", "OUT", "ADDR", "VAL", "INC", "DEC", "ID", "NUM", "IN"}
    \/ nodes[i].right = Null /\ nodes[i].kind \notin {"VAR", "CALL", "ID", "NUM", "IN"}

\* The text of node i ends in a loop, whose body takes what comes next.
RECURSIVE EndsInLoop(_, _)
EndsInLoop(nodes, i) ==
    /\ i # Null
    /\ \/ nodes[i].kind = "WHILE"
       \/ /\ nodes[i].kind \notin {"INC", "DEC", "CALL"}
          /\ ~Looser(nodes, i, nodes[i].right) /\ EndsInLoop(nodes, nodes[i].right)

\* Left operands: an operator of the same rank is read from the right, and a
\* loop does not end before this operator.
LeftLost(nodes, i) ==
    LET l == nodes[i].left
    IN  /\ l # Null
        /\ \/ Kind(nodes, i) = "ENDL" /\ Kind(nodes, l) = "ENDL"
           \/ /\ Kind(nodes, i) = "TERN_Q" \/ getPriority(nodes, i) \in 4 .. 9
              /\ Kind(nodes, i) # "TERN_C"
              /\ \/ /\ getPriority(nodes, l) = getPriority(nodes, i)
                    /\ ~Prefixed(nodes, l)
                 \/ ~Looser(nodes, i, l) /\ EndsInLoop(nodes, l)

\* Operands of - and !, lines behind OUT and arguments of a call.
RightLost(nodes, i) ==
    LET r == Kind(nodes, nodes[i].right)
    IN  CASE Kind(nodes, i) = "SUB" /\ Prefixed(nodes, i) ->
                 r \in {"ADD", "SUB", "MUL", "DIV", "MOD", "NOT"}
          [] Kind(nodes, i) = "NOT"   -> r = "NOT"
          [] Kind(nodes, i) = "OUT"   -> r \in {"ENDL", "OUT"}
          [] Kind(nodes, i) = "CALL"  -> r = "ENDL"
          [] Kind(nodes, i) = "COMMA" -> r = "ENDL" \/ Kind(nodes, nodes[i].left) = "ENDL"
          [] OTHER -> FALSE

Lost(nodes, i) == LeftLost(nodes, i) \/ RightLost(nodes, i)
=============================================================================
