------------------------------ MODULE Grammar -------------------------------
(***************************************************************************)
(* The grammar of docs/Grammar.md, as the definition the parser is         *)
(* compared with: for a nonterminal and a span of the token sequence w,    *)
(* the trees that its productions derive.  A tree is                       *)
(* <<position of the node's token, left, right>>, or Nil.  Tokens are      *)
(* spelt as the examples spell them: ! stands before its operand, the body *)
(* of a function is introduced by F_ARG.  IN, which the document forgets,  *)
(* is a Basic.  Lists of operators associate to the right.                 *)
(***************************************************************************)
EXTENDS Integers, Sequences

Nil == <<>>
Leaf(i) == <<i, Nil, Nil>>

RECURSIVE Trees(_, _, _, _)

\* sub {opr sub}*: the tokens from i up to, not including, j.
Chain(self, sub, oprs, w, i, j) ==
    Trees(sub, w, i, j)
      \cup UNION {{<<k, l, r>> : l \in Trees(sub, w, i, k), r \in Trees(self, w, k + 1, j)} :
                  k \in {x \in i..(j - 1) : w[x] \in oprs}}

\* opr sub, a prefix operator.
Prefix(oprs, sub, w, i, j) ==
    IF i < j /\ w[i] \in oprs THEN {<<i, Nil, r>> : r \in Trees(sub, w, i + 1, j)} ELSE {}

Token(kind, w, i, j) == IF j = i + 1 /\ w[i] = kind THEN {Leaf(i)} ELSE {}

\* The positions in i..j of tokens of this kind.
Places(kind, w, i, j) == {k \in i..j : w[k] = kind}

DeclFTrees(w, i, j) ==
    IF j - i < 5 \/ w[i] # "FUNC" \/ w[i + 1] # "ID" \/ w[i + 2] # "(" THEN {}
    ELSE UNION {{<<i, Leaf(i + 1), <<k + 1, params, body>>>> :
                    params \in Trees("Params", w, i + 3, k),
                    body   \in Trees("Line", w, k + 2, j)} :
                k \in {k \in Places(")", w, i + 3, j - 2) : w[k + 1] = "F_ARG"}}

DeclVTrees(w, i, j) ==
    IF j - i < 2 \/ w[i] # "VAR" \/ w[i + 1] # "ID" THEN {}
    ELSE IF j = i + 2 THEN {<<i, Leaf(i + 1), Nil>>}
    ELSE IF w[i + 2] # "SET" THEN {}
    ELSE {<<i, Leaf(i + 1), r>> : r \in Trees("Line", w, i + 3, j)}

AsgTrees(w, i, j) ==
    UNION {{<<k, l, r>> : l \in Trees("Lval", w, i, k), r \in Trees("Line", w, k + 1, j)} :
           k \in Places("SET", w, i, j - 1)}

OptTrees(w, i, j) ==
    Trees("Logic", w, i, j)
      \cup UNION {{<<k, l, r>> : l \in Trees("Logic", w, i, k), r \in Trees("Line", w, k + 1, j)} :
                  k \in Places("QQ", w, i, j - 1)}
      \cup UNION {{<<q, l, <<k, a, b>>>> : l \in Trees("Logic", w, i, q),
                     a \in Trees("Line", w, q + 1, k), b \in Trees("Line", w, k + 1, j)} :
                  <<q, k>> \in Places("TERN_Q", w, i, j - 1) \X Places("TERN_C", w, i, j - 1)}

WhTrees(w, i, j) ==
    IF j - i < 5 \/ w[i] # "WHILE" \/ w[i + 1] # "(" THEN {}
    ELSE UNION {{<<i, l, r>> : l \in Trees("Expr", w, i + 2, k), r \in Trees("Line", w, k + 1, j)} :
                k \in Places(")", w, i + 3, j - 2)}

CallTrees(w, i, j) ==
    IF j - i < 3 \/ w[i] # "ID" \/ w[i + 1] # "(" \/ w[j - 1] # ")" THEN {}
    ELSE {<<i + 1, Leaf(i), args>> : args \in Trees("Args", w, i + 2, j - 1)}

ParTrees(w, i, j) ==
    IF j - i >= 3 /\ w[i] = "(" /\ w[j - 1] = ")" THEN Trees("Expr", w, i + 1, j - 1) ELSE {}

UnaryTrees(w, i, j) ==
    Prefix({"INC", "DEC"}, "Lval", w, i, j)
      \cup (IF j - i >= 2 /\ w[j - 1] \in {"INC", "DEC"}
            THEN {<<j - 1, l, Nil>> : l \in Token("ID", w, i, j - 1)} ELSE {})

Trees(nt, w, i, j) ==
    IF i >= j THEN IF nt \in {"Params", "Args"} THEN {Nil} ELSE {}
    ELSE CASE nt = "Expr"   -> Chain("Expr", "Line", {"ENDL"}, w, i, j)
           [] nt = "Line"   -> Prefix({"OUT"}, "OLine", w, i, j) \cup Trees("OLine", w, i, j)
           [] nt = "OLine"  -> DeclFTrees(w, i, j) \cup DeclVTrees(w, i, j)
                                 \cup AsgTrees(w, i, j) \cup OptTrees(w, i, j)
           [] nt = "Params" -> Chain("Params", "Id", {"COMMA"}, w, i, j)
           [] nt = "Args"   -> Chain("Args", "Line", {"COMMA"}, w, i, j)
           [] nt = "Logic"  -> Chain("Logic", "Comp", {"LAND", "LOR"}, w, i, j)
           [] nt = "Comp"   -> Chain("Comp", "Binary",
                                     {"LESS", "LESS_EQ", "GRTR", "GRTR_EQ", "EQUAL", "NON_EQ"},
                                     w, i, j)
           [] nt = "Binary" -> Chain("Binary", "Sum", {"AND", "OR", "XOR", "SHL", "SHR"}, w, i, j)
           [] nt = "Sum"    -> Chain("Sum", "Mul", {"ADD", "SUB"}, w, i, j)
           [] nt = "Mul"    -> Chain("Mul", "Neg", {"MUL", "DIV", "MOD"}, w, i, j)
           [] nt = "Neg"    -> Prefix({"SUB", "NOT"}, "P", w, i, j) \cup Trees("P", w, i, j)
           [] nt = "P"      -> WhTrees(w, i, j) \cup ParTrees(w, i, j) \cup Trees("Basic", w, i, j)
           [] nt = "Basic"  -> Token("NUM", w, i, j) \cup Token("IN", w, i, j)
                                 \cup CallTrees(w, i, j) \cup UnaryTrees(w, i, j)
                                 \cup Prefix({"ADDR"}, "Id", w, i, j) \cup Trees("Lval", w, i, j)
           [] nt = "Lval"   -> Token("ID", w, i, j) \cup Prefix({"VAL"}, "P", w, i, j)
           [] nt = "Id"     -> Token("ID", w, i, j)

Derived(w) == Trees("Expr", w, 1, Len(w) + 1)
=============================================================================
