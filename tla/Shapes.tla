------------------------------- MODULE Shapes -------------------------------
(***************************************************************************)
(* Which programs the code generator keeps its books for.  codeGen counts  *)
(* the registers in use as it goes and never looks ahead; whether the      *)
(* count comes out right depends on the shape of the tree.  A shape gives  *)
(* every node the number of registers in use where its code starts (dep)   *)
(* and says whether it leaves a value in the next one (one), and the rules *)
(* are local: they relate a node to its operands.  An operator that would  *)
(* spill has no shape: it leaves the count at one (Backend.cpp:539),       *)
(* whatever was in use.                                                    *)
(***************************************************************************)
EXTENDS CodeGen

\* The operands that codeGen is called for.
Operands(p, i) ==
    CASE p[i].op \in TwoOperand \union {"compare", "logic", "qq", "endl", "while"} -> {1, 2}
      [] p[i].op \in OneOperand \union {"func"} -> {1}
      [] p[i].op = "tern" -> {1, 2, 3}
      [] p[i].op = "call" -> DOMAIN p[i].kids
      [] OTHER -> {}

\* Registers in use where operand k of a node that starts with d is generated.
Start(op, d, k) ==
    CASE op \in TwoOperand -> d + k - 1
      [] op = "compare" -> d + k
      [] op = "while" -> 2 - k
      [] op = "call" \/ (op \in {"endl", "tern", "qq"} /\ k # 1) -> 0
      [] OTHER -> d

\* Operands whose register the code does not count on: what follows starts from
\* a count of its own, or, behind the last statement, passes it on.
Uncounted == {<<"while", 2>>, <<"tern", 2>>, <<"tern", 3>>, <<"qq", 2>>, <<"func", 1>>,
              <<"endl", 2>>}

Annotations(p) ==
    [dep : [1 .. Len(p) -> 0 .. regStackSz - 4], one : [1 .. Len(p) -> BOOLEAN]]

\* The rules for node i.
NodeShaped(p, s, i) ==
    LET op == p[i].op
    IN  /\ op \notin {"unsup", "stray"}
        /\ \A k \in Operands(p, i) : Child(p, i, k) # 0 =>
              /\ s.dep[Child(p, i, k)] = Start(op, s.dep[i], k)
              /\ <<op, k>> \notin Uncounted => s.one[Child(p, i, k)]
        /\ op = "tern" => Child(p, i, 2) # 0 /\ Child(p, i, 3) # 0
        /\ op = "func" => s.dep[i] = 0
        /\ op = "endl" /\ Child(p, i, 2) # 0 =>
              s.dep[i] = 0 /\ s.one[i] = s.one[Child(p, i, 2)]
        /\ op = "while" => ~ s.one[i]
        /\ op # "while" /\ ~ (op = "endl" /\ Child(p, i, 2) # 0) => s.one[i]
        /\ ~ s.one[i] => \E j \in i .. p[i].last : p[j].op = "while"

Shaped(p, s) ==
    /\ s \in Annotations(p)
    /\ s.dep[1] = 0
    /\ \A i \in DOMAIN p : NodeShaped(p, s, i)

WellShaped(p) == \E s \in Annotations(p) : Shaped(p, s)
=============================================================================
