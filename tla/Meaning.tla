------------------------------ MODULE Meaning ------------------------------
(***************************************************************************)
(* What a program means, from the comments of LangTree.h, and the promise  *)
(* of a backend: the code it makes prints what the program means, word by  *)
(* word, and then stops.  AsmCodeGen is shown to keep this promise.        *)
(*                                                                         *)
(* A program is a table of nodes in preorder, the root first; a child 0 is *)
(* a NULL pointer.  `arg` is the operator of a class (ADD, LESS, LAND ...) *)
(* or the name the node mentions, `num` the number, or what INC and DEC    *)
(* add.  The comma tree of a parameter or argument list is a sequence.     *)
(***************************************************************************)
EXTENDS Integers, Sequences

CONSTANT
    Input           \* what the user types, a sequence of words; then zeros

VARIABLES
    tree,           \* the program, any table of nodes
    printed,        \* what it has printed
    over            \* whether it has stopped

vars == <<tree, printed, over>>

Arith(o, a, b) ==
    CASE o = "ADD" -> a + b [] o = "SUB" -> a - b [] o = "MUL" -> a * b

Test(o, a, b) ==
    CASE o = "LESS"    -> a < b  [] o = "GRTR"    -> a > b
      [] o = "LESS_EQ" -> a <= b [] o = "GRTR_EQ" -> a >= b
      [] o = "EQUAL"   -> a = b  [] o = "NON_EQ"  -> a # b

Truth(b) == IF b THEN 1 ELSE 0

\* The n-th word the program reads.
Typed(n) == IF n <= Len(Input) THEN Input[n] ELSE 0

(* The state of an evaluation: the cells allocated so far, the cell of     *)
(* each name in scope, the words read and printed, and the last value.     *)
Start == [mem |-> <<>>, env |-> [x \in {} |-> 0], read |-> 0, out |-> <<>>, val |-> 0]

Value(s, v)  == [s EXCEPT !.val = v]
Store(s, c, v) == [s EXCEPT !.mem[c] = v, !.val = v]
Bound(s, x, v) ==
    [s EXCEPT !.mem = Append(@, v), !.val = v,
              !.env = [y \in DOMAIN @ \union {x} |->
                          IF y = x THEN Len(s.mem) + 1 ELSE s.env[y]]]
Leave(s, t)  == [t EXCEPT !.env = s.env]        \* out of the scope t, into that of s

RECURSIVE Eval(_, _, _), Loop(_, _, _), Evals(_, _, _), BindAll(_, _, _)

\* The arguments ks one after the other: the state after them and their values.
Evals(t, ks, s) ==
    IF ks = <<>> THEN [s |-> s, vals |-> <<>>]
    ELSE LET one  == Eval(t, Head(ks), s)
             rest == Evals(t, Tail(ks), one)
         IN  [s |-> rest.s, vals |-> <<one.val>> \o rest.vals]

BindAll(s, xs, vs) ==
    IF xs = <<>> THEN s ELSE BindAll(Bound(s, Head(xs), Head(vs)), Tail(xs), Tail(vs))

\* while(L) R: the value is that of R the last time.
Loop(t, i, s) ==
    LET c == Eval(t, t[i].kids[1], s)
    IN  IF c.val = 0 THEN Value(c, s.val)
        ELSE Loop(t, i, Eval(t, t[i].kids[2], c))

\* The state after node i.
Eval(t, i, s) ==
    IF i = 0 THEN Value(s, 0)
    ELSE LET nd      == t[i]
             L       == Eval(t, nd.kids[1], s)
             R       == Eval(t, nd.kids[2], L)
             cell    == s.env[nd.arg]
             fun     == CHOOSE j \in DOMAIN t : t[j].op = "func" /\ t[j].arg = nd.arg
         IN CASE nd.op = "number"  -> Value(s, nd.num)
              [] nd.op = "ident"   -> Value(s, s.mem[cell])
              [] nd.op = "addr"    -> Value(s, cell)
              [] nd.op = "val"     -> Value(L, L.mem[L.val])
              [] nd.op = "binary"  -> Value(R, Arith(nd.arg, L.val, R.val))
              [] nd.op = "compare" -> Value(R, Truth(Test(nd.arg, L.val, R.val)))
              [] nd.op = "not"     -> Value(L, Truth(L.val = 0))
              [] nd.op = "land"    -> IF L.val = 0 THEN L ELSE Value(R, Truth(R.val # 0))
              [] nd.op = "lor"     -> IF L.val # 0 THEN Value(L, 1) ELSE Value(R, Truth(R.val # 0))
              [] nd.op = "qq"      -> IF L.val # 0 THEN L ELSE R
              [] nd.op = "tern"    -> IF L.val # 0 THEN R ELSE Eval(t, nd.kids[3], L)
              [] nd.op = "endl"    -> IF nd.kids[2] # 0 THEN R ELSE L
              [] nd.op = "set"     -> Store(L, L.env[nd.arg], L.val)
              [] nd.op = "setmem"  -> Store(R, L.val, R.val)
              [] nd.op = "var"     -> Bound(L, nd.arg, L.val)
              [] nd.op = "post"    -> Value(Store(s, cell, s.mem[cell] + nd.num), s.mem[cell])
              [] nd.op = "pre"     -> Store(s, cell, s.mem[cell] + nd.num)
              [] nd.op = "in"      -> Value([s EXCEPT !.read = @ + 1], Typed(s.read + 1))
              [] nd.op = "out"     -> [L EXCEPT !.out = Append(@, L.val)]
              [] nd.op = "func"    -> Value(s, 0)
              [] nd.op = "while"   -> Leave(s, Loop(t, i, s))
              [] nd.op = "call"    ->
                    LET args == Evals(t, nd.kids, s)
                        own  == [args.s EXCEPT !.env = Start.env]
                    IN  Leave(s, Eval(t, t[fun].kids[1], BindAll(own, t[fun].params, args.vals)))

\* What a program prints: its outputs, and at the end its value.
Prints(t) == LET s == Eval(t, 1, Start) IN Append(s.out, s.val)

-----------------------------------------------------------------------------
Init == printed = <<>> /\ over = FALSE

PrintNext ==
    /\ ~over /\ Len(printed) < Len(Prints(tree))
    /\ printed' = Append(printed, Prints(tree)[Len(printed) + 1])
    /\ UNCHANGED <<tree, over>>

Stop ==
    /\ ~over /\ printed = Prints(tree)
    /\ over' = TRUE
    /\ UNCHANGED <<tree, printed>>

Next == PrintNext \/ Stop

\* The promise.  That everything due is printed in the end is Terminates of AsmCodeGen.
Spec == Init /\ [][Next]_vars
=============================================================================
