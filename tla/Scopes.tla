------------------------------- MODULE Scopes -------------------------------
(***************************************************************************)
(* Which programs find their variables.  A scope is what the compiler      *)
(* knows about the innermost name frame at a place of the program: how     *)
(* many of its words are taken (above), how many createFrame reserved      *)
(* (nSub), and which names a lookup finds from there.  A scoping gives     *)
(* every node the scope its code starts in and the scope it leaves.        *)
(***************************************************************************)
EXTENDS Shapes

Scope       == [above : Nat, nSub : Nat, names : SUBSET Names]
Scopings(p) == [before : [1 .. Len(p) -> Scope], after : [1 .. Len(p) -> Scope]]

Fresh(n, S)   == [above |-> 0, nSub |-> n, names |-> S]
Declare(c, x) == [c EXCEPT !.above = @ + 1, !.names = @ \union {x}]

\* What the parameters of function i make of its frame.
Parameters(p, i) ==
    LET ps == p[i].names
    IN  [above |-> MinOf(6, Len(ps)), nSub |-> frameWords(p, i),
         names |-> {ps[k] : k \in DOMAIN ps}]

\* The scopes around the first operand of node i.
FirstScope(p, q, i) ==
    CASE p[i].op = "var"   -> Declare(q.before[i], p[i].names[1])
      [] p[i].op = "while" -> Fresh(frameWords(p, i), q.before[i].names)
      [] p[i].op = "func"  -> Parameters(p, i)
      [] OTHER             -> q.before[i]

FirstDone(p, q, i) ==
    IF Child(p, i, 1) = 0 THEN FirstScope(p, q, i) ELSE q.after[Child(p, i, 1)]

\* The scopes around operand k: arguments from the last to the first.
StartScope(p, q, i, k) ==
    CASE p[i].op = "call" -> IF k = Len(p[i].kids) THEN q.before[i] ELSE q.after[p[i].kids[k + 1]]
      [] p[i].op # "call" /\ k = 1 -> FirstScope(p, q, i)
      [] p[i].op = "tern" /\ k # 1 -> Fresh(frameWords(p, Child(p, i, k)), FirstDone(p, q, i).names)
      [] OTHER -> FirstDone(p, q, i)

EndScope(p, q, i, k) ==
    IF Child(p, i, k) = 0 THEN StartScope(p, q, i, k) ELSE q.after[Child(p, i, k)]

\* Operators behind which the scope is that behind the second operand.
ScopeThrough == TwoOperand \union {"compare", "logic", "endl"}

\* The scope behind node i: a frame of its own leaves nothing.
Behind(p, q, i) ==
    CASE p[i].op \in ScopeThrough -> EndScope(p, q, i, 2)
      [] p[i].op \in OneOperand \union {"tern"} -> EndScope(p, q, i, 1)
      [] p[i].op = "call" /\ p[i].kids # <<>> -> EndScope(p, q, i, 1)
      [] OTHER -> q.before[i]

\* The rules for node i.  A declaration needs a word that is reserved and free,
\* a store a name that is declared; frames open where no register is in use
\* (getOffset does not count the registers createFrame saves, StFrame.cpp:42);
\* the parser makes no call with a NULL argument, and a call of more than six
\* takes the others off the stack uncounted (Backend.cpp:334).
NodeScoped(p, s, q, i) ==
    LET op == p[i].op
    IN  /\ \A k \in Operands(p, i) : Child(p, i, k) # 0 =>
              q.before[Child(p, i, k)] = StartScope(p, q, i, k)
        /\ q.after[i] = Behind(p, q, i)
        /\ op = "var" => q.before[i].above < q.before[i].nSub
        /\ op \in {"set", "var", "post", "pre"} =>
              p[i].names # <<>> /\ p[i].names[1] \in q.after[i].names
        /\ op \in {"tern", "while"} => s.dep[i] = 0
        /\ op # "qq"
        /\ op = "call" => Len(p[i].kids) <= 6 /\ \A k \in DOMAIN p[i].kids : p[i].kids[k] # 0

Scoped(p, s, q) ==
    /\ q \in Scopings(p)
    /\ q.before[1] = Fresh(frameWords(p, 1), {})
    /\ \A i \in DOMAIN p : NodeScoped(p, s, q, i)

WellScoped(p) ==
    \E s \in Annotations(p), q \in Scopings(p) : Shaped(p, s) /\ Scoped(p, s, q)
=============================================================================
