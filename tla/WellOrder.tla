------------------------------ MODULE WellOrder ------------------------------
(***************************************************************************)
(* A set of natural numbers has a least element, and a bounded one has a   *)
(* greatest.  These take the place of induction: they need no predicate to *)
(* be passed to a lemma.                                                   *)
(***************************************************************************)
EXTENDS Integers, TLAPS, WellFoundedInduction

Before == {p \in Nat \X Nat : p[1] < p[2]}

LEMMA BeforeWellFounded == IsWellFoundedOn(Before, Nat)
<1>1. OpToRel(<, Nat) = Before BY DEF OpToRel, Before
<1>. QED BY <1>1, NatLessThanWellFounded

LEMMA Least ==
    ASSUME NEW T, T \subseteq Nat, T # {}
    PROVE  \E x \in T : \A y \in T : x <= y
<1>1. PICK x \in T : \A y \in T : ~ (<<y, x>> \in Before)
  BY BeforeWellFounded, WFMin
<1>2. ASSUME NEW y \in T PROVE x <= y
  <2>1. x \in Nat /\ y \in Nat OBVIOUS
  <2>2. ~ (y < x) BY <1>1, <2>1 DEF Before
  <2>. QED BY <2>1, <2>2
<1>. QED BY <1>2

LEMMA Greatest ==
    ASSUME NEW n \in Nat, NEW T, T \subseteq 0 .. n, T # {}
    PROVE  \E x \in T : \A y \in T : y <= x
<1>. DEFINE U == {n - y : y \in T}
<1>1. U \subseteq Nat /\ U # {} OBVIOUS
<1>2. PICK u \in U : \A v \in U : u <= v
  <2>. HIDE DEF U
  <2>. QED BY <1>1, Least
<1>3. PICK x \in T : u = n - x OBVIOUS
<1>4. ASSUME NEW y \in T PROVE y <= x
  <2>1. u <= n - y BY <1>2
  <2>. HIDE DEF U
  <2>2. x \in 0 .. n /\ y \in 0 .. n OBVIOUS
  <2>. QED BY <1>3, <2>1, <2>2
<1>. QED BY <1>4
==============================================================================
