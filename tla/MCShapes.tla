------------------------------ MODULE MCShapes ------------------------------
(***************************************************************************)
(* The programs of the run `values` have the shape and the scopes that the *)
(* theorems about the code generator ask for: TLC finds them from the root *)
(* downwards.                                                              *)
(***************************************************************************)
EXTENDS MCCodeGen, Stores

\* The node that node i is an operand of, and which one.
Uses(p, i) == {<<j, k>> \in (1 .. i - 1) \X (1 .. 8) : k \in Operands(p, j) /\ Child(p, j, k) = i}

Depths(p) ==
    LET d[i \in DOMAIN p] ==
            IF Uses(p, i) = {} THEN 0
            ELSE LET u == CHOOSE u \in Uses(p, i) : TRUE
                 IN  Start(p[u[1]].op, d[u[1]], u[2])
    IN  d

Values(p) ==
    LET v[i \in DOMAIN p] ==
            IF p[i].op = "endl" /\ Child(p, i, 2) # 0 THEN v[Child(p, i, 2)]
            ELSE p[i].op # "while"
    IN  v

ShapeOf(p) == [dep |-> Depths(p), one |-> Values(p)]

\* The scopes behind the first n nodes, from those before them.
Afters(p, before) ==
    LET a[i \in DOMAIN before] ==
            LET q == [before |-> before, after |-> [j \in i + 1 .. Len(before) |-> a[j]]]
            IN  Behind(p, q, i)
    IN  a

\* In these programs no argument declares a variable of the frame it is in.
NextScope(p, before) ==
    LET i == Len(before) + 1
        q == [before |-> before, after |-> Afters(p, before)]
        u == CHOOSE u \in Uses(p, i) : TRUE
    IN  CASE Uses(p, i) = {} -> Fresh(frameWords(p, 1), {})
          [] p[u[1]].op = "call" -> before[u[1]]
          [] OTHER -> StartScope(p, q, u[1], u[2])

Befores(p) == FoldLeft(LAMBDA b, i : Append(b, NextScope(p, b)), <<>>, [i \in DOMAIN p |-> i])

ScopesOf(p) == LET b == Befores(p) IN [before |-> b, after |-> Afters(p, b)]

\* The names stored behind the first n nodes, from those before them.
Lefts(p, q, before) ==
    LET a[i \in DOMAIN before] ==
            LET v == [before |-> before, after |-> [j \in i + 1 .. Len(before) |-> a[j]]]
            IN  Left(p, q, v, i)
    IN  a

NextStored(p, q, before) ==
    LET i == Len(before) + 1
        v == [before |-> before, after |-> Lefts(p, q, before)]
        u == CHOOSE u \in Uses(p, i) : TRUE
    IN  CASE i = 1 -> {}
          [] Uses(p, i) = {} -> Names
          [] p[u[1]].op = "call" -> before[u[1]]
          [] OTHER -> StartStored(p, v, u[1], u[2])

StoresOf(p) ==
    LET q == ScopesOf(p)
        b == FoldLeft(LAMBDA b, i : Append(b, NextStored(p, q, b)), <<>>, [i \in DOMAIN p |-> i])
    IN  [before |-> b, after |-> Lefts(p, q, b)]

ASSUME ValueProgramsStored ==
    \A p \in ValuePrograms :
        LET s == ShapeOf(p)
            q == ScopesOf(p)
        IN  Shaped(p, s) /\ Scoped(p, s, q) /\ Stored(p, s, q, StoresOf(p))
=============================================================================
