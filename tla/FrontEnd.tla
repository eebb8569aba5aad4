------------------------------ MODULE FrontEnd ------------------------------
(***************************************************************************)
(* From source text to the tree a back end reads: the tokeniser's node     *)
(* list, the syntax analyser, and the .tree file that the front end        *)
(* writes, the middle end rewrites and a back end reads                    *)
(* (src/FrontEnd/cht, src/LangTree/Tree.cpp, src/MiddleEnd).               *)
(***************************************************************************)
EXTENDS Printer, Grammar

CONSTANTS Texts,          \* the source texts: sequences of words, by kind of token
          INIT_LIST_SZ,   \* capacity of a new node list
          EXPAND_COEF,    \* growth of a full one
          MaxPrinted      \* bound on the node list of a program that is printed

VARIABLES text,   \* words the tokeniser has still to read
          list,   \* NodeList
          phase,  \* the program that runs next, or how compilation ended
          root,   \* root of the tree in list
          file,   \* contents of the .tree file
          printed \* for the properties: the tree this text was printed from

vars == <<text, list, phase, root, file, printed>>

\* Another way for the compilation to end than with a tree.
Ended == {"syntax error", "abort", "overflow"}

NoFile == [size |-> 0, root |-> 0, nodes |-> <<>>]
NoTree == [nodes |-> <<>>, root |-> Null, words |-> <<>>]
EmptyList == [capacity |-> INIT_LIST_SZ, nodes |-> <<>>]

(***************************************************************************)
(* The node list and the tree file.  A pointer is the position of its node *)
(* in the list, from 1; in the file it is an index from 0, and -1 stands   *)
(* for NULL.                                                               *)
(***************************************************************************)
\* Mutant of nodeListPush: the list grows only once its end has been passed.
PushLate(l, node) ==
    [capacity |-> IF Len(l.nodes) > l.capacity THEN EXPAND_COEF * l.capacity ELSE l.capacity,
     nodes    |-> Append(l.nodes, node)]

nodeListPush(l, node) ==
    [capacity |-> IF Len(l.nodes) + 2 >= l.capacity THEN EXPAND_COEF * l.capacity
                                                    ELSE l.capacity,
     nodes    |-> Append(l.nodes, node)]

Written(p)  == IF p = Null THEN -1 ELSE p - 1

\* Mutant of Restored: 0 is taken for NULL.
RestoredZero(k) == IF k = 0 THEN Null ELSE k + 1

Restored(k) == IF k = -1 THEN Null ELSE k + 1

Convert(nodes, To(_)) ==
    [i \in DOMAIN nodes |-> [kind |-> nodes[i].kind, left |-> To(nodes[i].left),
                             right |-> To(nodes[i].right)]]

writeTree(l, r) ==
    [size |-> Len(l.nodes), root |-> r - 1, nodes |-> Convert(l.nodes, Written)]

\* The array a reader allocates has no room for another node.
readTree(f) ==
    [list |-> [capacity |-> f.size, nodes |-> Convert(f.nodes, Restored)], root |-> f.root + 1]

(***************************************************************************)
(* graphNode visits a node, then everything below it: without end if a     *)
(* node is below itself.  k bounds the nesting of a tree without cycles.   *)
(***************************************************************************)
RECURSIVE NestedBeyond(_, _, _)
NestedBeyond(nodes, i, k) ==
    /\ i # Null
    /\ \/ k = 0
       \/ NestedBeyond(nodes, nodes[i].left, k - 1)
       \/ NestedBeyond(nodes, nodes[i].right, k - 1)

Cyclic(nodes, r) == NestedBeyond(nodes, r, Len(nodes))

-----------------------------------------------------------------------------
Init ==
    /\ text \in Texts
    /\ list = EmptyList
    /\ phase = "tokens"
    /\ root = Null
    /\ file = NoFile
    /\ printed = NoTree

\* parseText: the next word.  The digits of a number are words of their own;
\* a digit that follows another one only changes its value.
Tokenise ==
    /\ phase = "tokens" /\ text # <<>>
    /\ LET last == Len(list.nodes)
       IN  list' = IF last # 0 /\ Head(text) = "NUM" /\ list.nodes[last].kind = "NUM"
                   THEN list ELSE nodeListPush(list, NewNode(Head(text)))
    /\ text' = Tail(text)
    /\ UNCHANGED <<phase, root, file, printed>>

\* frontEnd from there on: the closing node, the syntax analysis, the picture
\* of its result.  The picture is drawn before success is asked for.
Analyse ==
    /\ phase = "tokens" /\ text = <<>>
    /\ LET closed == nodeListPush(list, NewNode("NONE"))
           result == G(closed.nodes)
       IN  /\ list' = [closed EXCEPT !.nodes = result.nodes]
           /\ root' = result.root
           /\ phase' = IF result.root = Null THEN "abort"
                       ELSE IF Cyclic(result.nodes, result.root) THEN "overflow"
                       ELSE IF result.n < 0 THEN "syntax error" ELSE "write"
    /\ UNCHANGED <<text, file, printed>>

\* main of the front end
Write ==
    /\ phase = "write"
    /\ file' = writeTree(list, root)
    /\ phase' = "middle end"
    /\ UNCHANGED <<text, list, root, printed>>

\* main of the middle end.  No keyword makes a DIFF node, so that diffTree has
\* nothing to replace.
MiddleEnd ==
    /\ phase = "middle end"
    /\ LET tree == readTree(file)
       IN  file' = writeTree(tree.list, tree.root)
    /\ phase' = "back end"
    /\ UNCHANGED <<text, list, root, printed>>

\* ncc.sh -r: the front end prints the tree as a source text, which is compiled
\* next.  Bounds: a short text, and not one that was printed.
Reverse ==
    /\ phase = "back end" /\ printed = NoTree /\ Len(list.nodes) <= MaxPrinted
    /\ LET tree  == readTree(file)
           words == printNode(tree.list.nodes, tree.root)
       IN  /\ printed' = [nodes |-> tree.list.nodes, root |-> tree.root, words |-> words]
           /\ text' = [k \in DOMAIN words |-> words[k].kind]
    /\ phase' = "tokens" /\ list' = EmptyList /\ root' = Null /\ file' = NoFile

Next == Tokenise \/ Analyse \/ Write \/ MiddleEnd \/ Reverse

Spec == Init /\ [][Next]_vars

-----------------------------------------------------------------------------
\* Types.  After the tokeniser's push there is still room for another node, and
\* a link is NULL or leads to a node.
TypeOK ==
    /\ Len(list.nodes) < list.capacity
    /\ \A i \in DOMAIN list.nodes :
         {list.nodes[i].left, list.nodes[i].right} \subseteq {Null} \cup DOMAIN list.nodes
    /\ root \in {Null} \cup DOMAIN list.nodes
    /\ phase \in {"tokens", "write", "middle end", "back end"} \cup Ended

\* The positions of the nodes below and at i, one entry for each path.
RECURSIVE Visit(_, _)
Visit(nodes, i) ==
    IF i = Null THEN <<>>
    ELSE Visit(nodes, nodes[i].left) \o <<i>> \o Visit(nodes, nodes[i].right)

RECURSIVE Unfold(_, _)
Unfold(nodes, i) ==
    IF i = Null THEN Nil
    ELSE <<i, Unfold(nodes, nodes[i].left), Unfold(nodes, nodes[i].right)>>

\* Whatever the text, a tree that the front end hands on has each token at one
\* place at most: links that given-up attempts (TRY, getOprLadder) have left in
\* the array do not show through.
EachTokenOnce ==
    phase = "write" =>
        LET order == Visit(list.nodes, root)
        IN  \A a, b \in DOMAIN order : order[a] = order[b] => a = b

\* The tokens of the list, as the tokeniser made them.
Tokens ==
    [i \in 1..(Len(list.nodes) - 1) |->
        IF list.nodes[i].kind = "CALL" THEN "(" ELSE list.nodes[i].kind]

\* Three kinds of texts the parser does not take although docs/Grammar.md does.
PostfixOperator ==
    \E i \in 2..Len(Tokens) : Tokens[i - 1] = "ID" /\ Tokens[i] \in {"INC", "DEC"}

NoParameters ==
    \E i \in 1..(Len(Tokens) - 3) : Tokens[i] = "FUNC" /\ Tokens[i + 3] = ")"

CallBelowVal ==
    \E i, j \in 1..(Len(Tokens) - 1) :
        i < j /\ Tokens[i] = "VAL" /\ Tokens[j] = "ID" /\ Tokens[j + 1] = "("

\* Every sentence of docs/Grammar.md, those three apart, becomes a tree that the
\* grammar derives: nothing is lost, and every operator has the operands that
\* the precedence levels give it.
SentencesParse ==
    /\ printed = NoTree /\ phase \in {"write"} \cup Ended
    /\ ~(PostfixOperator \/ NoParameters \/ CallBelowVal)
    =>
        LET trees == Derived(Tokens)
        IN  trees # {} => phase = "write" /\ Unfold(list.nodes, root) \in trees

\* The tree a back end reads, after the middle end has read and written it, is
\* the one the parser has built.
TreeArrives ==
    phase = "back end" =>
        LET tree == readTree(file)
        IN  /\ tree.list.nodes = list.nodes /\ tree.root = root
            /\ file.size = Len(file.nodes)

\* A tree in terms of the nodes its words were printed for.
RECURSIVE Renamed(_, _)
Renamed(tree, words) ==
    IF tree = Nil THEN Nil
    ELSE <<words[tree[1]].of, Renamed(tree[2], words), Renamed(tree[3], words)>>

\* A program that ncc.sh -r writes from a tree without missing operands is read
\* back as the same tree exactly when the tree needs no parentheses but those of
\* PRIORITY (Frontend.cpp:72), which looks at ranks only and not at sides.
PrintedReadsBack ==
    printed # NoTree /\ phase \in {"write"} \cup Ended =>
        LET nodes == printed.nodes
            order == Visit(nodes, printed.root)
            Below(Bad(_, _)) == \E k \in DOMAIN order : Bad(nodes, order[k])
        IN  Below(LacksOperand)
            \/ (/\ phase = "write"
                /\ Renamed(Unfold(list.nodes, root), printed.words) = Unfold(nodes, printed.root)
                <=> ~Below(Lost))
=============================================================================
