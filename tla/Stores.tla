------------------------------- MODULE Stores -------------------------------
(***************************************************************************)
(* Which programs compute their values.  Next to a shape and scopes, a     *)
(* program has to read from variables only what it has stored in them, on  *)
(* every path: a storing gives every node the names that hold a value      *)
(* where its code starts and where it ends.  And some operators take fixed *)
(* registers without a look at what is in them.                            *)
(***************************************************************************)
EXTENDS Scopes

Storings(p) ==
    [before : [1 .. Len(p) -> SUBSET Names], after : [1 .. Len(p) -> SUBSET Names]]

\* The names that hold a value around the first operand of node i.
FirstStored(p, v, i) ==
    CASE p[i].op = "var"  -> v.before[i] \ {p[i].names[1]}
      [] p[i].op = "func" -> {p[i].names[k] : k \in DOMAIN p[i].names}
      [] OTHER            -> v.before[i]

FirstLeft(p, v, i) ==
    IF Child(p, i, 1) = 0 THEN FirstStored(p, v, i) ELSE v.after[Child(p, i, 1)]

\* Before operand k: arguments are generated from the last to the first.
StartStored(p, v, i, k) ==
    CASE p[i].op = "call" -> IF k = Len(p[i].kids) THEN v.before[i] ELSE v.after[p[i].kids[k + 1]]
      [] p[i].op # "call" /\ k = 1 -> FirstStored(p, v, i)
      [] OTHER -> FirstLeft(p, v, i)

EndStored(p, v, i, k) ==
    IF Child(p, i, k) = 0 THEN StartStored(p, v, i, k) ELSE v.after[Child(p, i, k)]

\* Behind node i.  What an arm, a loop or a function stores is not counted on;
\* nor is anything behind a right operand that declares and may be skipped.
Left(p, q, v, i) ==
    CASE p[i].op \in TwoOperand \union {"compare", "endl"} -> EndStored(p, v, i, 2)
      [] p[i].op = "logic" ->
            IF EndScope(p, q, i, 2) = EndScope(p, q, i, 1) THEN EndStored(p, v, i, 1) ELSE {}
      [] p[i].op \in {"unary", "out", "tern"} -> EndStored(p, v, i, 1)
      [] p[i].op \in {"set", "var"} -> EndStored(p, v, i, 1) \union {p[i].names[1]}
      [] p[i].op = "call" /\ p[i].kids # <<>> -> EndStored(p, v, i, 1)
      [] OTHER -> v.before[i]

\* The rules for node i.  The remainder is lost when r1 is RAX (Backend.cpp:186);
\* ncc_in and ncc_out change RDI and RSI (:487, :441); a call takes its saved
\* registers back one too high (:338).
NodeStored(p, s, q, v, i) ==
    LET op == p[i].op
    IN  /\ \A k \in Operands(p, i) : Child(p, i, k) # 0 =>
              v.before[Child(p, i, k)] = StartStored(p, v, i, k)
        /\ v.after[i] = Left(p, q, v, i)
        /\ op \in {"ident", "post", "pre"} => p[i].names # <<>> /\ p[i].names[1] \in v.before[i]
        /\ op = "addr" => p[i].names # <<>> /\ p[i].names[1] \in q.before[i].names
        /\ op = "mod" => s.dep[i] # 0
        /\ op = "in" => s.dep[i] <= 1
        /\ op = "out" => s.dep[i] <= 2
        /\ op = "call" => s.dep[i] = 0

Stored(p, s, q, v) ==
    /\ v \in Storings(p)
    /\ v.before[1] = {}
    /\ \A i \in DOMAIN p : NodeStored(p, s, q, v, i)

WellStored(p) ==
    \E s \in Annotations(p), q \in Scopings(p), v \in Storings(p) :
        Shaped(p, s) /\ Scoped(p, s, q) /\ Stored(p, s, q, v)
=============================================================================
