--------------------------- MODULE CodeGenProofs ---------------------------
(***************************************************************************)
(* Proofs about CodeGen.  For every program: TypeOK and FramesBalanced.    *)
(* Neither is inductive: closeFrame needs a frame to close and registerVar *)
(* one to register in, so the invariant says how many frames are open at   *)
(* every activation of the stack.                                          *)
(*                                                                         *)
(* For every program that has a shape (Shapes), about the registers it     *)
(* counts: UsesOneRegister and CompilesThrough.  What an operator makes of *)
(* regStackUsed rests on what its operands left there, and the activations *)
(* that wait for them say what they will find; what comes back from a name *)
(* frame rests on regSaved, which has to be found in the frame the         *)
(* activation opened.                                                      *)
(***************************************************************************)
EXTENDS Shapes, WellOrder, FiniteSetTheorems, TLAPS

(* Every instruction takes a machine to a machine.                         *)

\* The tokens are tokens, and what can be read from a machine is one.
LEMMA Tokens ==
    /\ \A i \in Nat : Val(i) \in Token /\ Slot(i) \in Token /\ SavedBp(i) \in Token
    /\ Ret \in Token /\ Junk \in Token
BY DEF Token, Val, Slot, SavedBp, Ret, Junk

LEMMA BlankType == Blank \in Machine
BY Tokens DEF Blank, Machine

LEMMA TopType ==
    ASSUME NEW mm \in Machine
    PROVE  Top(mm) \in Token
BY Tokens DEF Top, Machine

LEMMA UnderType ==
    ASSUME NEW mm \in Machine, NEW n \in Nat
    PROVE  Under(mm, n) \in Token
BY Tokens DEF Under, Machine

LEMMA MovType ==
    ASSUME NEW mm \in Machine, NEW r, NEW t \in Token
    PROVE  Mov(mm, r, t) \in Machine
BY DEF Mov, Machine

LEMMA MovRRType ==
    ASSUME NEW mm \in Machine, NEW r, NEW s \in Regs
    PROVE  MovRR(mm, r, s) \in Machine
BY MovType DEF MovRR, Machine

LEMMA ResultType ==
    ASSUME NEW mm \in Machine, NEW r, NEW i \in Nat, NEW ok
    PROVE  Result(mm, r, i, ok) \in Machine
BY MovType, Tokens DEF Result

\* A machine whose stack or RBP is replaced by one of the right type.
LEMMA WithStack ==
    ASSUME NEW mm \in Machine, NEW s \in Seq(Token), NEW b \in Nat
    PROVE  /\ [mm EXCEPT !.stk = s] \in Machine
           /\ [mm EXCEPT !.stk = s, !.bp = b] \in Machine
BY DEF Machine

LEMMA Concat ==
    ASSUME NEW S, NEW s \in Seq(S), NEW t \in Seq(S)
    PROVE  s \o t \in Seq(S) /\ Len(s \o t) = Len(s) + Len(t)
OBVIOUS

LEMMA Prefix ==
    ASSUME NEW S, NEW s \in Seq(S), NEW k \in 0 .. Len(s)
    PROVE  SubSeq(s, 1, k) \in Seq(S) /\ Len(SubSeq(s, 1, k)) = k
           /\ \A i \in 1 .. k : SubSeq(s, 1, k)[i] = s[i]
OBVIOUS

LEMMA DropType ==
    ASSUME NEW mm \in Machine, NEW n \in Nat
    PROVE  Drop(mm, n) \in Machine
<1>. DEFINE k == IF n < Len(mm.stk) THEN Len(mm.stk) - n ELSE 0
<1>1. mm.stk \in Seq(Token) /\ Len(mm.stk) \in Nat BY DEF Machine
<1>2. k \in 0 .. Len(mm.stk) BY <1>1
<1>3. SubSeq(mm.stk, 1, k) \in Seq(Token) BY <1>1, <1>2, Prefix
<1>. QED BY <1>3, WithStack DEF Drop

LEMMA PushType ==
    ASSUME NEW mm \in Machine, NEW r \in Regs
    PROVE  Push(mm, r) \in Machine
BY DEF Push, Machine

LEMMA PopType ==
    ASSUME NEW mm \in Machine, NEW r
    PROVE  Pop(mm, r) \in Machine
BY MovType, TopType, DropType DEF Pop

LEMMA PushRangeType ==
    ASSUME NEW mm \in Machine, NEW lo \in Regs, NEW hi \in Int, hi < regStackSz
    PROVE  PushRange(mm, lo, hi) \in Machine
<1>1. [i \in 1 .. hi - lo + 1 |-> mm.reg[lo + i - 1]] \in Seq(Token)
  <2>1. CASE hi - lo + 1 \in Nat
    BY <2>1 DEF Regs, regStackSz, Machine
  <2>2. CASE hi - lo + 1 \notin Nat
    BY <2>2 DEF Regs, regStackSz, Machine
  <2>. QED BY <2>1, <2>2
<1>2. mm.stk \in Seq(Token) BY DEF Machine
<1>. QED BY <1>1, <1>2, Concat, WithStack DEF PushRange

LEMMA PopRangeType ==
    ASSUME NEW mm \in Machine, NEW lo \in Int, NEW hi \in Int, hi >= lo - 1
    PROVE  PopRange(mm, lo, hi) \in Machine
<1>1. [mm EXCEPT !.reg = [r \in Regs |->
           IF r \in lo .. hi THEN Under(mm, hi - r) ELSE mm.reg[r]]] \in Machine
  <2>1. \A r \in Regs :
          (IF r \in lo .. hi THEN Under(mm, hi - r) ELSE mm.reg[r]) \in Token
    <3>. TAKE r \in Regs
    <3>1. r \in Int BY DEF Regs, regStackSz
    <3>2. CASE r \in lo .. hi BY <3>1, <3>2, UnderType
    <3>3. CASE r \notin lo .. hi BY <3>3 DEF Machine
    <3>. QED BY <3>2, <3>3
  <2>. QED BY <2>1 DEF Machine
<1>. QED BY <1>1, DropType DEF PopRange

LEMMA PopUpType ==
    ASSUME NEW mm \in Machine, NEW lo \in Int, NEW hi \in Int, hi >= lo - 1
    PROVE  PopUp(mm, lo, hi) \in Machine
<1>1. [mm EXCEPT !.reg = [r \in Regs |->
           IF r \in lo .. hi THEN Under(mm, r - lo) ELSE mm.reg[r]]] \in Machine
  <2>1. \A r \in Regs :
          (IF r \in lo .. hi THEN Under(mm, r - lo) ELSE mm.reg[r]) \in Token
    <3>. TAKE r \in Regs
    <3>1. r \in Int BY DEF Regs, regStackSz
    <3>2. CASE r \in lo .. hi BY <3>1, <3>2, UnderType
    <3>3. CASE r \notin lo .. hi BY <3>3 DEF Machine
    <3>. QED BY <3>2, <3>3
  <2>. QED BY <2>1 DEF Machine
<1>. QED BY <1>1, DropType DEF PopUp

LEMMA ClobberType ==
    ASSUME NEW mm \in Machine, NEW S
    PROVE  Clobber(mm, S) \in Machine
BY Tokens DEF Clobber, Machine

LEMMA PokeType ==
    ASSUME NEW mm \in Machine, NEW D, NEW t \in Token
    PROVE  Poke(mm, D, t) \in Machine
<1>1. [d \in 1 .. Len(mm.stk) |-> IF d \in D THEN t ELSE mm.stk[d]] \in Seq(Token)
  BY DEF Machine
<1>. QED BY <1>1 DEF Poke, Machine

LEMMA EnterType ==
    ASSUME NEW mm \in Machine
    PROVE  Enter(mm) \in Machine
<1>1. mm.stk \in Seq(Token) /\ mm.bp \in Nat BY DEF Machine
<1>2. Append(mm.stk, SavedBp(mm.bp)) \in Seq(Token) BY <1>1, Tokens
<1>3. Len(mm.stk) + 1 \in Nat BY <1>1
<1>. QED BY <1>2, <1>3, WithStack DEF Enter

LEMMA ReserveType ==
    ASSUME NEW mm \in Machine, NEW n \in Nat
    PROVE  Reserve(mm, n) \in Machine
<1>1. [i \in 1 .. n |-> Junk] \in Seq(Token) BY Tokens
<1>2. mm.stk \in Seq(Token) BY DEF Machine
<1>. QED BY <1>1, <1>2, Concat, WithStack DEF Reserve

LEMMA UnwindType ==
    ASSUME NEW mm \in Machine
    PROVE  Unwind(mm) \in Machine
<1>. DEFINE saved == IF mm.bp \in 1 .. Len(mm.stk) THEN mm.stk[mm.bp] ELSE Junk
            k == IF mm.bp > 0 THEN mm.bp - 1 ELSE 0
            s == [d \in 1 .. k |-> IF d <= Len(mm.stk) THEN mm.stk[d] ELSE Junk]
<1>1. saved \in Token BY Tokens DEF Machine
<1>2. (IF saved[1] = "bp" THEN saved[2] ELSE 0) \in Nat BY <1>1 DEF Token
<1>3. k \in Nat BY DEF Machine
<1>4. s \in Seq(Token)
  <2>1. \A d \in 1 .. k : (IF d <= Len(mm.stk) THEN mm.stk[d] ELSE Junk) \in Token
    BY <1>3, Tokens DEF Machine
  <2>. QED BY <1>3, <2>1
<1>. QED BY <1>2, <1>4 DEF Unwind, Machine

-----------------------------------------------------------------------------

\* Where an activation has opened a frame and not yet closed it.
FrameOpen == {<<"tern", "then">>, <<"tern", "else">>, <<"qq", "right">>,
              <<"while", "test">>, <<"while", "right">>, <<"func", "right">>}

opened(t, a) == IF a.id # 0 /\ <<t[a.id].op, a.pc>> \in FrameOpen THEN 1 ELSE 0

ActOK(t, a) ==
    /\ a.id \in 0 .. Len(t)
    /\ a.id = 0 => a.pc \in {"enter", "done"}
    /\ a.id # 0 => a.argsLeft <= Len(t[a.id].kids)
    /\ a.frames0 >= 1

Types ==
    /\ tree \in Programs
    /\ status \in {"run", "done", "assert", "crash"}
    /\ acts \in Seq(Activation)
    /\ used \in 0 .. Word - 1
    /\ nf \in Seq(Nameframe)
    /\ m \in Machine

Inv ==
    /\ Types
    /\ \A j \in 1 .. Len(acts) : ActOK(tree, acts[j])
    /\ status = "run" =>
          /\ acts # <<>>
          /\ \A j \in 1 .. Len(acts) - 1 :
                /\ acts[j].pc \notin {"enter", "body", "done"}
                /\ acts[j + 1].frames0 = acts[j].frames0 + opened(tree, acts[j])
          /\ Len(nf) = act.frames0 + opened(tree, act)
          /\ act.pc = "body" => used <= regStackSz - 4

-----------------------------------------------------------------------------
(* Types of what the steps are made of.                                    *)

LEMMA NodeFields ==
    ASSUME NEW n \in Node
    PROVE  /\ n.op \in Ops /\ n.kids \in Seq(Nat) /\ n.names \in Seq(Names)
           /\ n.last \in Nat /\ Len(n.kids) \in Nat /\ Len(n.names) \in Nat
BY DEF Node

LEMMA TreeFacts ==
    ASSUME tree \in Programs
    PROVE  /\ tree \in Seq(Node) /\ Len(tree) \in Nat /\ 1 \in 1 .. Len(tree)
           /\ \A i \in 1 .. Len(tree) :
                 /\ tree[i] \in Node
                 /\ \A k \in Nat : KidOf(i, k) \in 0 .. Len(tree)
                 /\ \A k \in 1 .. Len(tree[i].kids) :
                        tree[i].kids[k] \in 0 .. Len(tree)
                 /\ tree[i].op = "var" => tree[i].names[1] \in Names
<1>1. tree \in Seq(Node) /\ tree # <<>> BY ProgramAssumption
<1>2. Len(tree) \in Nat /\ 1 \in 1 .. Len(tree) BY <1>1
<1>3. SUFFICES ASSUME NEW i \in 1 .. Len(tree)
               PROVE  /\ tree[i] \in Node
                      /\ \A k \in Nat : KidOf(i, k) \in 0 .. Len(tree)
                      /\ \A k \in 1 .. Len(tree[i].kids) :
                             tree[i].kids[k] \in 0 .. Len(tree)
                      /\ tree[i].op = "var" => tree[i].names[1] \in Names
  BY <1>1, <1>2
<1>4. tree[i] \in Node /\ i \in DOMAIN tree BY <1>1
<1>5. /\ \A k \in DOMAIN tree[i].kids : tree[i].kids[k] \in 0 .. Len(tree)
      /\ tree[i].op = "var" => tree[i].names # <<>>
  BY <1>4, ProgramAssumption
<1>6. /\ tree[i].kids \in Seq(Nat) /\ tree[i].names \in Seq(Names)
      /\ DOMAIN tree[i].kids = 1 .. Len(tree[i].kids)
  BY <1>4, NodeFields
<1>. DEFINE names == tree[i].names
<1>7. ASSUME names # <<>> PROVE names[1] \in Names
  BY <1>6, <1>7
<1>8. ASSUME NEW k \in Nat PROVE KidOf(i, k) \in 0 .. Len(tree)
  <2>1. CASE k \in DOMAIN tree[i].kids BY <1>5, <2>1 DEF KidOf, Child
  <2>2. CASE k \notin DOMAIN tree[i].kids BY <1>2, <2>2 DEF KidOf, Child
  <2>. QED BY <2>1, <2>2
<1>9. \A k \in 1 .. Len(tree[i].kids) : tree[i].kids[k] \in 0 .. Len(tree)
  BY <1>5, <1>6
<1>. QED BY <1>4, <1>5, <1>7, <1>8, <1>9

LEMMA VarCntType ==
    ASSUME tree \in Programs, NEW i \in 0 .. Len(tree)
    PROVE  getVarCnt(tree, i) \in Nat
<1>1. CASE i = 0 BY <1>1 DEF getVarCnt
<1>2. CASE i # 0
  <2>. DEFINE S == {j \in i .. tree[i].last :
            /\ tree[j].op = "var"
            /\ \A k \in i .. j - 1 : j <= tree[k].last => tree[k].op \notin Opaque}
  <2>0. i \in 1 .. Len(tree) BY <1>2, TreeFacts
  <2>a. tree[i] \in Node BY <2>0, TreeFacts
  <2>b. tree[i].last \in Nat BY <2>a, NodeFields
  <2>c. Len(tree) \in Nat BY TreeFacts
  <2>1. i \in Int /\ tree[i].last \in Int BY <2>0, <2>b, <2>c
  <2>2. IsFiniteSet(i .. tree[i].last) BY <2>1, FS_Interval
  <2>3. IsFiniteSet(S) BY <2>2, FS_Subset
  <2>4. Cardinality(S) \in Nat BY <2>3, FS_CardinalityType
  <2>. QED BY <1>2, <2>4 DEF getVarCnt
<1>. QED BY <1>1, <1>2

LEMMA FrameWordsType ==
    ASSUME tree \in Programs, NEW i \in 1 .. Len(tree)
    PROVE  frameWords(tree, i) \in Nat
<1>1. KidOf(i, 1) \in 0 .. Len(tree) /\ i \in 0 .. Len(tree) BY TreeFacts
<1>2. getVarCnt(tree, KidOf(i, 1)) \in Nat /\ getVarCnt(tree, i) \in Nat BY <1>1, VarCntType
<1>3. tree[i] \in Node BY TreeFacts
<1>4. Len(tree[i].names) \in Nat BY <1>3, NodeFields
<1>. QED BY <1>2, <1>4 DEF frameWords, MinOf, KidOf

LEMMA FrameFields ==
    ASSUME NEW g \in Nameframe
    PROVE  /\ g.regSaved \in 0 .. 14 /\ g.above \in Nat /\ g.nSub \in Nat
           /\ g.pushed \in Int /\ g.vars \in Seq(VarOffset)
           /\ \A k \in Int : [g EXCEPT !.pushed = @ + k] \in Nameframe
           /\ \A a \in Nat, v \in Seq(VarOffset) :
                 [g EXCEPT !.above = a, !.vars = v] \in Nameframe
<1>1. /\ g.regSaved \in 0 .. 14 /\ g.above \in Nat /\ g.nSub \in Nat
      /\ g.pushed \in Int /\ g.vars \in Seq(VarOffset)
  BY DEF Nameframe, regStackSz
<1>2. ASSUME NEW k \in Int PROVE [g EXCEPT !.pushed = @ + k] \in Nameframe
  <2>1. g.pushed + k \in Int BY <1>1
  <2>. QED BY <2>1 DEF Nameframe
<1>3. ASSUME NEW a \in Nat, NEW v \in Seq(VarOffset)
      PROVE  [g EXCEPT !.above = a, !.vars = v] \in Nameframe
  BY DEF Nameframe
<1>. QED BY <1>1, <1>2, <1>3

LEMMA LastFrame ==
    ASSUME NEW S, NEW f \in Seq(S), f # <<>>
    PROVE  /\ f[Len(f)] \in S /\ Len(f) \in Nat \ {0}
           /\ \A g \in S : /\ [f EXCEPT ![Len(f)] = g] \in Seq(S)
                           /\ Len([f EXCEPT ![Len(f)] = g]) = Len(f)
OBVIOUS

LEMMA AppendLast ==
    ASSUME NEW S, NEW f \in Seq(S), NEW g \in S
    PROVE  /\ Append(f, g) \in Seq(S) /\ Append(f, g) # <<>>
           /\ Len(Append(f, g)) = Len(f) + 1
           /\ Append(f, g)[Len(f) + 1] = g
           /\ \A i \in 1 .. Len(f) : Append(f, g)[i] = f[i]
OBVIOUS

LEMMA PushedType ==
    ASSUME NEW f \in Seq(Nameframe), NEW k \in Int
    PROVE  Pushed(f, k) \in Seq(Nameframe) /\ Len(Pushed(f, k)) = Len(f)
<1>1. CASE f = <<>> BY <1>1 DEF Pushed
<1>2. CASE f # <<>>
  <2>1. f[Len(f)] \in Nameframe BY <1>2, LastFrame
  <2>2. [f[Len(f)] EXCEPT !.pushed = @ + k] \in Nameframe BY <2>1, FrameFields
  <2>3. Pushed(f, k) = [f EXCEPT ![Len(f)] = [f[Len(f)] EXCEPT !.pushed = @ + k]]
    BY <1>2 DEF Pushed
  <2>. QED BY <1>2, <2>2, <2>3, LastFrame
<1>. QED BY <1>1, <1>2

LEMMA OpenFrameType ==
    ASSUME NEW f \in Seq(Nameframe), NEW u \in 0 .. 14, NEW n \in Nat
    PROVE  OpenFrame(f, u, n) \in Seq(Nameframe) /\ Len(OpenFrame(f, u, n)) = Len(f) + 1
<1>1. createNF(FALSE, n, u) \in Nameframe BY DEF createNF, Nameframe, regStackSz
<1>2. Pushed(f, 1) \in Seq(Nameframe) /\ Len(Pushed(f, 1)) = Len(f) BY PushedType
<1>. DEFINE p == Pushed(f, 1)  g == createNF(FALSE, n, u)
<1>3. OpenFrame(f, u, n) = Append(p, g) BY DEF OpenFrame
<1>. HIDE DEF p, g
<1>4. Append(p, g) \in Seq(Nameframe) /\ Len(Append(p, g)) = Len(p) + 1
  BY <1>1, <1>2, AppendLast DEF p, g
<1>. QED BY <1>2, <1>3, <1>4 DEF p

LEMMA CloseFrameType ==
    ASSUME NEW f \in Seq(Nameframe), f # <<>>
    PROVE  /\ CloseFrame(f) \in Seq(Nameframe) /\ Len(CloseFrame(f)) = Len(f) - 1
           /\ ClosedUsed(f) \in 0 .. 14
<1>1. Len(f) - 1 \in 0 .. Len(f) /\ f[Len(f)] \in Nameframe BY LastFrame
<1>2. /\ SubSeq(f, 1, Len(f) - 1) \in Seq(Nameframe)
      /\ Len(SubSeq(f, 1, Len(f) - 1)) = Len(f) - 1
  BY <1>1, Prefix
<1>3. ClosedUsed(f) \in 0 .. 14 BY <1>1, FrameFields DEF ClosedUsed
<1>. DEFINE p == SubSeq(f, 1, Len(f) - 1)
<1>4. CloseFrame(f) = Pushed(p, -1) BY DEF CloseFrame
<1>5. p \in Seq(Nameframe) /\ -1 \in Int BY <1>2
<1>. HIDE DEF p
<1>6. Pushed(p, -1) \in Seq(Nameframe) /\ Len(Pushed(p, -1)) = Len(p)
  BY <1>5, PushedType
<1>. QED BY <1>2, <1>3, <1>4, <1>6 DEF p

LEMMA VarOffsetType ==
    ASSUME NEW x \in Names, NEW d \in Nat, NEW o \in Int, NEW s \in Int
    PROVE  [name |-> x, off |-> o, decl |-> d, slot |-> s] \in VarOffset
BY DEF VarOffset

LEMMA RegisterType ==
    ASSUME NEW f \in Seq(Nameframe), f # <<>>, NEW x \in Names, NEW d \in Nat,
           NEW b \in Nat
    PROVE  /\ registerVar(f, x, d, b) \in Seq(Nameframe)
           /\ Len(registerVar(f, x, d, b)) = Len(f)
<1>. DEFINE g == f[Len(f)]
            off == -(g.above + 1 + g.regSaved)
            v == [name |-> x, off |-> off, decl |-> d, slot |-> b - off]
            h == [g EXCEPT !.above = g.above + 1, !.vars = Append(g.vars, v)]
<1>1. g \in Nameframe BY LastFrame
<1>2. g.above \in Nat /\ g.regSaved \in 0 .. 14 /\ g.vars \in Seq(VarOffset)
  BY <1>1, FrameFields
<1>3. v \in VarOffset
  <2>. DEFINE a == g.above  r == g.regSaved  o == -(a + 1 + r)
  <2>1. a \in Nat /\ r \in Int BY <1>2
  <2>. HIDE DEF a, r, g
  <2>2. o \in Int BY <2>1
  <2>3. b - o \in Int BY <2>2
  <2>. HIDE DEF o
  <2>4. [name |-> x, off |-> o, decl |-> d, slot |-> b - o] \in VarOffset
    BY <2>2, <2>3, VarOffsetType
  <2>. QED BY <2>4 DEF o, a, r
<1>4. Append(g.vars, v) \in Seq(VarOffset) BY <1>2, <1>3, AppendLast
<1>5. h \in Nameframe
  <2>. DEFINE w == Append(g.vars, v)  a == g.above + 1
  <2>1. a \in Nat /\ w \in Seq(VarOffset) BY <1>2, <1>4
  <2>. HIDE DEF g, w, a
  <2>2. [g EXCEPT !.above = a, !.vars = w] \in Nameframe BY <1>1, <2>1, FrameFields
  <2>. QED BY <2>2 DEF w, a
<1>6. registerVar(f, x, d, b) = [f EXCEPT ![Len(f)] = h] BY DEF registerVar
<1>. HIDE DEF h
<1>. QED BY <1>5, <1>6, LastFrame

-----------------------------------------------------------------------------
(* The two ways a step goes on: the innermost activation is replaced by b, *)
(* or replaced by b with a new activation on top of it.                    *)

LEMMA InvFacts ==
    ASSUME Inv, status = "run"
    PROVE  /\ Types /\ acts # <<>> /\ Len(acts) \in Nat \ {0}
           /\ act \in Activation /\ ActOK(tree, act) /\ Len(nf) = act.frames0 + opened(tree, act)
           /\ act.id \in Nat /\ act.frames0 \in Nat \ {0}
<1>1. Types /\ acts # <<>> /\ acts \in Seq(Activation) BY DEF Inv, Types
<1>2. act \in Activation /\ Len(acts) \in Nat \ {0} BY <1>1, LastFrame DEF act
<1>3. ActOK(tree, act) BY <1>1, <1>2 DEF Inv, act
<1>4. Len(nf) = act.frames0 + opened(tree, act) BY DEF Inv
<1>5. act.id \in Nat /\ act.frames0 \in Nat BY <1>2 DEF Activation
<1>. QED BY <1>1, <1>2, <1>3, <1>4, <1>5 DEF ActOK

LEMMA StayStep ==
    ASSUME Inv, status = "run",
           NEW b \in Activation, b.id = act.id, b.frames0 = act.frames0, ActOK(tree, b),
           NEW u \in 0 .. Word - 1, NEW f \in Seq(Nameframe), NEW mm \in Machine,
           Len(f) = b.frames0 + opened(tree, b),
           b.pc = "body" => u <= regStackSz - 4,
           Live([acts EXCEPT ![Len(acts)] = b], u, f, mm)
    PROVE  Inv'
<1>. DEFINE n == Len(acts)  as == [acts EXCEPT ![Len(acts)] = b]
<1>1. acts \in Seq(Activation) /\ acts # <<>> /\ n \in Nat \ {0} BY InvFacts DEF Types
<1>2. /\ as \in Seq(Activation) /\ Len(as) = n /\ as # <<>> /\ as[n] = b
      /\ \A j \in 1 .. n - 1 : as[j] = acts[j]
  BY <1>1
<1>3. acts' = as /\ used' = u /\ nf' = f /\ m' = mm /\ tree' = tree /\ status' = status
  BY DEF Live
<1>. HIDE DEF as
<1>4. Types' BY <1>2, <1>3, InvFacts DEF Types
<1>5. (\A j \in 1 .. Len(acts) : ActOK(tree, acts[j]))'
  <2>1. ASSUME NEW j \in 1 .. n PROVE ActOK(tree, as[j])
    <3>1. CASE j = n BY <1>2, <3>1
    <3>2. CASE j # n
      <4>1. j \in 1 .. n - 1 BY <1>1, <3>2
      <4>. QED BY <1>2, <4>1 DEF Inv
    <3>. QED BY <3>1, <3>2
  <2>. QED BY <1>2, <1>3, <2>1
<1>7. ASSUME NEW j \in 1 .. n - 1
      PROVE  /\ as[j].pc \notin {"enter", "body", "done"}
             /\ as[j + 1].frames0 = as[j].frames0 + opened(tree, as[j])
  <2>1. /\ acts[j].pc \notin {"enter", "body", "done"}
        /\ acts[j + 1].frames0 = acts[j].frames0 + opened(tree, acts[j])
    BY DEF Inv
  <2>2. as[j] = acts[j] /\ as[j + 1].frames0 = acts[j + 1].frames0
    <3>1. CASE j + 1 = n BY <1>1, <1>2, <3>1 DEF act
    <3>2. CASE j + 1 # n
      <4>1. j + 1 \in 1 .. n - 1 BY <1>1, <3>2
      <4>. QED BY <1>2, <4>1
    <3>. QED BY <3>1, <3>2
  <2>. QED BY <2>1, <2>2
<1>8. act' = b BY <1>1, <1>2, <1>3 DEF act
<1>9. (status = "run" =>
          /\ acts # <<>>
          /\ \A j \in 1 .. Len(acts) - 1 :
                /\ acts[j].pc \notin {"enter", "body", "done"}
                /\ acts[j + 1].frames0 = acts[j].frames0 + opened(tree, acts[j])
          /\ Len(nf) = act.frames0 + opened(tree, act)
          /\ act.pc = "body" => used <= regStackSz - 4)'
  BY <1>2, <1>3, <1>7, <1>8
<1>. QED BY <1>4, <1>5, <1>9 DEF Inv

LEMMA GenStep ==
    ASSUME Inv, status = "run",
           NEW a \in Activation, a.id = act.id, a.frames0 = act.frames0, ActOK(tree, a),
           a.pc \notin {"enter", "body", "done"},
           NEW k \in 0 .. Len(tree),
           NEW u \in 0 .. Word - 1, NEW f \in Seq(Nameframe), NEW mm \in Machine,
           Len(f) = a.frames0 + opened(tree, a),
           Gen(k, a, u, f, mm)
    PROVE  Inv'
<1>. DEFINE n == Len(acts)
            c == NewAct(k, u, mm, f)
            low == [acts EXCEPT ![Len(acts)] = a]
            as == Append(low, c)
<1>1. acts \in Seq(Activation) /\ acts # <<>> /\ n \in Nat \ {0} BY InvFacts DEF Types
<1>2. c \in Activation /\ c.id = k /\ c.pc = "enter" /\ c.frames0 = Len(f) /\ c.argsLeft = 0
  <2>1. mm.stk \in Seq(Token) BY DEF Machine
  <2>2. Len(tree) \in Nat BY InvFacts, TreeFacts DEF Types
  <2>3. Word \in Nat BY WordAssumption
  <2>4. Len(mm.stk) \in Nat /\ Len(f) \in Nat /\ u \in Nat /\ k \in Nat
    BY <2>1, <2>2, <2>3
  <2>5. 0 \in Regs /\ 0 \in 0 .. regStackSz - 4 /\ "enter" \in PCs
    BY DEF Regs, regStackSz, PCs
  <2>. QED BY <2>4, <2>5, BlankType DEF NewAct, Activation
<1>3. /\ low \in Seq(Activation) /\ Len(low) = n /\ low[n] = a
      /\ \A j \in 1 .. n - 1 : low[j] = acts[j]
  BY <1>1
<1>4. /\ as \in Seq(Activation) /\ Len(as) = n + 1 /\ as # <<>>
      /\ as[n + 1] = c /\ as[n] = a /\ \A j \in 1 .. n - 1 : as[j] = acts[j]
  <2>. HIDE DEF low, c
  <2>0. low \in Seq(Activation) /\ c \in Activation BY <1>2, <1>3
  <2>a. /\ as \in Seq(Activation) /\ as # <<>> /\ Len(as) = Len(low) + 1
        /\ as[Len(low) + 1] = c /\ \A i \in 1 .. Len(low) : as[i] = low[i]
    BY <2>0, AppendLast
  <2>. HIDE DEF as
  <2>1. /\ as \in Seq(Activation) /\ Len(as) = n + 1 /\ as # <<>> /\ as[n + 1] = c
        /\ \A i \in 1 .. n : as[i] = low[i]
    BY <1>3, <2>a
  <2>2. n \in 1 .. n /\ \A j \in 1 .. n - 1 : j \in 1 .. n BY <1>1
  <2>. QED BY <1>3, <2>1, <2>2
<1>5. acts' = as /\ used' = u /\ nf' = f /\ m' = mm /\ tree' = tree /\ status' = status
  BY DEF Live, Gen
<1>. HIDE DEF as, low, c
<1>6. Types' BY <1>4, <1>5, InvFacts DEF Types
<1>7. ActOK(tree, c) /\ opened(tree, c) = 0
  <2>1. a.frames0 >= 1 /\ a.frames0 \in Nat BY DEF ActOK, Activation
  <2>2. Len(f) >= 1 BY <2>1 DEF opened
  <2>3. ASSUME k # 0 PROVE 0 <= Len(tree[k].kids)
    <3>1. tree \in Programs /\ Len(tree) \in Nat BY InvFacts, TreeFacts DEF Types
    <3>2. k \in 1 .. Len(tree) BY <2>3, <3>1
    <3>3. tree[k] \in Node BY <3>1, <3>2, TreeFacts
    <3>4. Len(tree[k].kids) \in Nat BY <3>3, NodeFields
    <3>. QED BY <3>4
  <2>4. ActOK(tree, c) BY <1>2, <2>2, <2>3 DEF ActOK
  <2>5. opened(tree, c) = 0 BY <1>2 DEF opened, FrameOpen
  <2>. QED BY <2>4, <2>5
<1>8. (\A j \in 1 .. Len(acts) : ActOK(tree, acts[j]))'
  <2>1. ASSUME NEW j \in 1 .. n + 1 PROVE ActOK(tree, as[j])
    <3>1. CASE j = n + 1 BY <1>4, <1>7, <3>1
    <3>2. CASE j = n BY <1>4, <3>2
    <3>3. CASE j \in 1 .. n - 1
      <4>1. j \in 1 .. n BY <1>1, <3>3
      <4>2. ActOK(tree, acts[j]) BY <4>1 DEF Inv
      <4>. QED BY <1>4, <3>3, <4>2
    <3>4. j = n + 1 \/ j = n \/ j \in 1 .. n - 1 BY <1>1
    <3>. QED BY <3>1, <3>2, <3>3, <3>4
  <2>. QED BY <1>4, <1>5, <2>1
<1>10. ASSUME NEW j \in 1 .. n
       PROVE  /\ as[j].pc \notin {"enter", "body", "done"}
              /\ as[j + 1].frames0 = as[j].frames0 + opened(tree, as[j])
  <2>1. CASE j = n BY <1>2, <1>4, <2>1
  <2>2. CASE j # n
    <3>1. j \in 1 .. n - 1 BY <1>1, <2>2
    <3>2. /\ acts[j].pc \notin {"enter", "body", "done"}
          /\ acts[j + 1].frames0 = acts[j].frames0 + opened(tree, acts[j])
      BY <3>1 DEF Inv
    <3>3. as[j] = acts[j] /\ as[j + 1].frames0 = acts[j + 1].frames0
      <4>1. CASE j + 1 = n BY <1>1, <1>4, <3>1, <4>1 DEF act
      <4>2. CASE j + 1 # n
        <5>1. j + 1 \in 1 .. n - 1 BY <1>1, <3>1, <4>2
        <5>. QED BY <1>4, <3>1, <5>1
      <4>. QED BY <4>1, <4>2
    <3>. QED BY <3>2, <3>3
  <2>. QED BY <2>1, <2>2
<1>11. act' = c BY <1>4, <1>5 DEF act
<1>12. (status = "run" =>
          /\ acts # <<>>
          /\ \A j \in 1 .. Len(acts) - 1 :
                /\ acts[j].pc \notin {"enter", "body", "done"}
                /\ acts[j + 1].frames0 = acts[j].frames0 + opened(tree, acts[j])
          /\ Len(nf) = act.frames0 + opened(tree, act)
          /\ act.pc = "body" => used <= regStackSz - 4)'
  <2>1. n + 1 - 1 = n /\ Len(f) \in Nat BY <1>1
  <2>2. /\ as # <<>> /\ Len(as) - 1 = n
        /\ Len(f) = c.frames0 + opened(tree, c) /\ c.pc # "body"
    <3>1. Len(as) - 1 = n BY <1>1, <1>4
    <3>2. Len(f) = c.frames0 + opened(tree, c) BY <1>2, <1>7, <2>1
    <3>. QED BY <1>2, <1>4, <3>1, <3>2
  <2>3. (\A j \in 1 .. Len(acts) - 1 :
             /\ acts[j].pc \notin {"enter", "body", "done"}
             /\ acts[j + 1].frames0 = acts[j].frames0 + opened(tree, acts[j]))'
    BY <1>5, <1>10, <2>2
  <2>4. (acts # <<>> /\ Len(nf) = act.frames0 + opened(tree, act) /\ act.pc # "body")'
    BY <1>5, <1>11, <2>2
  <2>. QED BY <2>3, <2>4
<1>. QED BY <1>6, <1>8, <1>12 DEF Inv

LEMMA StopStep ==
    ASSUME Inv, NEW why \in {"assert", "crash"}, Stop(why)
    PROVE  Inv'
<1>1. status' = why /\ UNCHANGED <<tree, acts, used, nf, m>> BY DEF Stop
<1>2. Types' BY <1>1 DEF Inv, Types
<1>3. (\A j \in 1 .. Len(acts) : ActOK(tree, acts[j]))' BY <1>1 DEF Inv
<1>. QED BY <1>1, <1>2, <1>3 DEF Inv


-----------------------------------------------------------------------------
(* What every action knows.                                                *)

LEMMA AtFacts ==
    ASSUME Inv, NEW ops, NEW p, At(ops, p)
    PROVE  /\ status = "run" /\ act.id \in 1 .. Len(tree) /\ act.id # 0 /\ act.pc = p
           /\ node \in Node /\ node.op \in ops
           /\ \A i \in Nat : Kid(i) \in 0 .. Len(tree)
           /\ tree \in Programs /\ used \in 0 .. Word - 1 /\ used \in Nat
           /\ nf \in Seq(Nameframe) /\ nf # <<>> /\ m \in Machine
           /\ opened(tree, act) = IF <<node.op, p>> \in FrameOpen THEN 1 ELSE 0
           /\ Len(nf) = act.frames0 + opened(tree, act)
<1>1. status = "run" /\ act.pc = p /\ act.id # 0 /\ node.op \in ops BY DEF At, pc
<1>2. Types /\ ActOK(tree, act) /\ act.frames0 \in Nat \ {0} /\ act.id \in Nat
      /\ Len(nf) = act.frames0 + opened(tree, act)
  BY <1>1, InvFacts
<1>3. tree \in Programs /\ Len(tree) \in Nat BY <1>2, TreeFacts DEF Types
<1>4. act.id \in 1 .. Len(tree) BY <1>1, <1>2, <1>3 DEF ActOK
<1>5. node \in Node /\ \A i \in Nat : Kid(i) \in 0 .. Len(tree)
  BY <1>3, <1>4, TreeFacts DEF node, Kid
<1>6. opened(tree, act) = IF <<node.op, p>> \in FrameOpen THEN 1 ELSE 0
  BY <1>1 DEF opened, node
<1>7. nf \in Seq(Nameframe) /\ nf # <<>> BY <1>2, <1>6 DEF Types
<1>8. used \in 0 .. Word - 1 /\ used \in Nat BY <1>2 DEF Types
<1>. QED BY <1>1, <1>2, <1>3, <1>4, <1>5, <1>6, <1>7, <1>8 DEF Types

LEMMA RegFacts ==
    ASSUME Inv, status = "run"
    PROVE  /\ r1 \in 0 .. 10 /\ r1 \in Regs /\ r2 \in Regs /\ r3 \in Regs
           /\ act.pushed \in Regs /\ act.save \in Machine /\ act.ok \in BOOLEAN
<1>1. act \in Activation BY InvFacts
<1>2. /\ act.r1 \in 0 .. regStackSz - 4 /\ act.pushed \in Regs /\ act.save \in Machine
      /\ act.ok \in BOOLEAN
  BY <1>1 DEF Activation
<1>3. act.r1 \in 0 .. 10 BY <1>2 DEF regStackSz
<1>4. \A i \in 0 .. 10 : i \in Regs /\ i + 1 \in Regs /\ i + 2 \in Regs BY DEF Regs, regStackSz
<1>. QED BY <1>2, <1>3, <1>4 DEF r1, r2, r3

LEMMA Numbers ==
    /\ Word \in Nat /\ Word > 28 /\ regStackSz = 14
    /\ \A i \in 0 .. 20 : i \in 0 .. Word - 1 /\ i \in Nat
BY WordAssumption DEF regStackSz

LEMMA LessType ==
    ASSUME NEW u \in 0 .. Word - 1, NEW k \in 0 .. 2
    PROVE  Less(u, k) \in 0 .. Word - 1 /\ Less(u, k) \in Nat
BY Numbers DEF Less

\* What an activation looks like after a change of place.
LEMMA Resumed ==
    ASSUME Inv, status = "run", NEW p \in PCs
    PROVE  /\ Resume(p) \in Activation /\ Resume(p).id = act.id /\ Resume(p).pc = p
           /\ Resume(p).frames0 = act.frames0 /\ Resume(p).argsLeft = act.argsLeft
           /\ act.id # 0 => ActOK(tree, Resume(p))
           /\ opened(tree, Resume(p)) =
                 IF act.id # 0 /\ <<node.op, p>> \in FrameOpen THEN 1 ELSE 0
<1>1. act \in Activation /\ ActOK(tree, act) BY InvFacts
<1>2. /\ Resume(p) \in Activation /\ Resume(p).id = act.id /\ Resume(p).pc = p
      /\ Resume(p).frames0 = act.frames0 /\ Resume(p).argsLeft = act.argsLeft
  BY <1>1 DEF Resume, Activation
<1>3. act.id # 0 => ActOK(tree, Resume(p)) BY <1>1, <1>2 DEF ActOK
<1>4. opened(tree, Resume(p)) =
         IF act.id # 0 /\ <<node.op, p>> \in FrameOpen THEN 1 ELSE 0
  BY <1>2 DEF opened, node
<1>. QED BY <1>2, <1>3, <1>4

LEMMA FinishStep ==
    ASSUME Inv, status = "run", act.id # 0,
           NEW u \in 0 .. Word - 1, NEW f \in Seq(Nameframe), NEW mm \in Machine,
           Len(f) = act.frames0, Finish(u, f, mm)
    PROVE  Inv'
<1>. DEFINE n == act.pushed
            g == IF n = 0 THEN f ELSE Pushed(f, -n)
            mn == IF n = 0 THEN mm ELSE PopRange(MovRR(mm, n, r1), 0, n - 1)
            b == Resume("done")
<1>1. n \in Nat /\ r1 \in Regs BY RegFacts DEF Regs, regStackSz
<1>2. g \in Seq(Nameframe) /\ Len(g) = Len(f) BY <1>1, PushedType
<1>3. MovRR(mm, n, r1) \in Machine BY <1>1, MovRRType
<1>4. mn \in Machine BY <1>1, <1>3, PopRangeType
<1>5. /\ b \in Activation /\ b.id = act.id /\ b.frames0 = act.frames0
      /\ b.pc = "done" /\ ActOK(tree, b) /\ opened(tree, b) = 0
  BY Resumed DEF PCs, FrameOpen
<1>6. Live([acts EXCEPT ![Len(acts)] = b], u, g, mn) BY DEF Finish
<1>7. act.frames0 \in Nat BY InvFacts
<1>8. Len(g) = b.frames0 + opened(tree, b) BY <1>2, <1>5, <1>7
<1>9. b.pc # "body" BY <1>5
<1>. HIDE DEF b, g, mn
<1>. QED BY <1>2, <1>4, <1>5, <1>6, <1>8, <1>9, StayStep

-----------------------------------------------------------------------------
(* One lemma per action: entry, return and exit.                           *)

LEMMA GenNullStep == Inv /\ GenNull => Inv'
<1>. SUFFICES ASSUME Inv, GenNull PROVE Inv' OBVIOUS
<1>1. status = "run" /\ acts # <<>> /\ act.id = 0 /\ act.pc = "enter" BY DEF GenNull, pc
<1>2. CASE ~ (used \in Regs)
  <2>1. Stop("crash") BY <1>2 DEF GenNull
  <2>. QED BY <2>1, StopStep
<1>3. CASE used \in Regs
  <2>. DEFINE b == Resume("done")  mm == Mov(m, used, Val(0))  u == used + 1
  <2>1. Live([acts EXCEPT ![Len(acts)] = b], u, nf, mm) BY <1>3 DEF GenNull
  <2>2. /\ b \in Activation /\ b.id = act.id /\ b.frames0 = act.frames0
        /\ b.pc = "done" /\ opened(tree, b) = 0
    BY <1>1, Resumed DEF PCs
  <2>3. u \in 0 .. Word - 1 BY <1>3, Numbers DEF Regs, regStackSz
  <2>4. mm \in Machine BY InvFacts, <1>1, MovType, Tokens DEF Types
  <2>5. nf \in Seq(Nameframe) /\ Len(nf) = b.frames0 + opened(tree, b)
    BY <1>1, <2>2, InvFacts DEF Types, opened
  <2>6. ActOK(tree, b)
    <3>1. ActOK(tree, act) BY <1>1, InvFacts
    <3>. QED BY <1>1, <2>2, <3>1 DEF ActOK
  <2>. HIDE DEF b, mm, u
  <2>. QED BY <1>1, <2>1, <2>2, <2>3, <2>4, <2>5, <2>6, StayStep
<1>. QED BY <1>2, <1>3

LEMMA BeginStep == Inv /\ Begin => Inv'
<1>. SUFFICES ASSUME Inv, Begin PROVE Inv' OBVIOUS
<1>. DEFINE b == [Resume("body") EXCEPT !.r1 = used]
<1>1. At(Ops, "enter") /\ used <= 10 BY DEF Begin, regStackSz
<1>2. /\ status = "run" /\ act.id # 0 /\ used \in 0 .. Word - 1 /\ used \in Nat /\ used \in 0 .. 10
      /\ nf \in Seq(Nameframe) /\ m \in Machine
      /\ Len(nf) = act.frames0 + opened(tree, act) /\ opened(tree, act) = 0
  <2>1. /\ status = "run" /\ act.id # 0 /\ used \in 0 .. Word - 1 /\ used \in Nat
        /\ nf \in Seq(Nameframe) /\ m \in Machine /\ act.pc = "enter"
        /\ Len(nf) = act.frames0 + opened(tree, act)
    BY <1>1, AtFacts
  <2>2. opened(tree, act) = 0 BY <2>1 DEF opened, FrameOpen
  <2>. QED BY <1>1, <2>1, <2>2
<1>3. /\ b \in Activation /\ b.id = act.id /\ b.frames0 = act.frames0 /\ b.pc = "body"
      /\ b.argsLeft = act.argsLeft
  <2>1. /\ Resume("body") \in Activation /\ Resume("body").id = act.id
        /\ Resume("body").frames0 = act.frames0 /\ Resume("body").pc = "body"
        /\ Resume("body").argsLeft = act.argsLeft
    BY <1>2, Resumed DEF PCs
  <2>2. used \in 0 .. regStackSz - 4 BY <1>2 DEF regStackSz
  <2>. DEFINE e == Resume("body")
  <2>3. e \in Activation /\ b = [e EXCEPT !.r1 = used] BY <2>1
  <2>. HIDE DEF b
  <2>4. /\ b \in Activation /\ b.id = e.id /\ b.frames0 = e.frames0 /\ b.pc = e.pc
        /\ b.argsLeft = e.argsLeft
    <3>. HIDE DEF e
    <3>. QED BY <2>2, <2>3 DEF Activation
  <2>. QED BY <2>1, <2>4
<1>4. ActOK(tree, act) BY <1>2, InvFacts
<1>5. ActOK(tree, b) BY <1>2, <1>3, <1>4 DEF ActOK
<1>6. Len(nf) = b.frames0 + opened(tree, b) BY <1>2, <1>3 DEF opened, FrameOpen
<1>7. Live([acts EXCEPT ![Len(acts)] = b], used, nf, m) BY DEF Begin
<1>8. used <= regStackSz - 4 BY <1>1 DEF regStackSz
<1>. HIDE DEF b
<1>. QED BY <1>2, <1>3, <1>5, <1>6, <1>7, <1>8, StayStep

LEMMA SpillStep == Inv /\ Spill => Inv'
<1>. SUFFICES ASSUME Inv, Spill PROVE Inv' OBVIOUS
<1>. DEFINE b == [Resume("body") EXCEPT !.pushed = used]
            f == Pushed(nf, used)
            mm == PushRange(m, 0, used - 1)
<1>1. At(Ops, "enter") BY DEF Spill
<1>2. /\ status = "run" /\ act.id # 0 /\ used \in 0 .. Word - 1 /\ used \in Nat
      /\ nf \in Seq(Nameframe) /\ m \in Machine
      /\ Len(nf) = act.frames0 + opened(tree, act) /\ opened(tree, act) = 0
  <2>1. /\ status = "run" /\ act.id # 0 /\ used \in 0 .. Word - 1 /\ used \in Nat
        /\ nf \in Seq(Nameframe) /\ m \in Machine /\ act.pc = "enter"
        /\ Len(nf) = act.frames0 + opened(tree, act)
    BY <1>1, AtFacts
  <2>2. opened(tree, act) = 0 BY <2>1 DEF opened, FrameOpen
  <2>. QED BY <1>1, <2>1, <2>2
<1>3. CASE ~ (used \in Regs)
  <2>1. Stop("crash") BY <1>3 DEF Spill
  <2>. QED BY <2>1, StopStep
<1>4. CASE used \in Regs
  <2>1. /\ b \in Activation /\ b.id = act.id /\ b.frames0 = act.frames0 /\ b.pc = "body"
        /\ b.argsLeft = act.argsLeft
    <3>1. /\ Resume("body") \in Activation /\ Resume("body").id = act.id
          /\ Resume("body").frames0 = act.frames0 /\ Resume("body").pc = "body"
          /\ Resume("body").argsLeft = act.argsLeft
      BY <1>2, Resumed DEF PCs
    <3>. QED BY <1>4, <3>1 DEF Activation
  <2>2. ActOK(tree, act) BY <1>2, InvFacts
  <2>3. ActOK(tree, b) BY <1>2, <2>1, <2>2 DEF ActOK
  <2>4. f \in Seq(Nameframe) /\ Len(f) = Len(nf) BY <1>2, PushedType
  <2>5. Len(f) = b.frames0 + opened(tree, b)
    BY <1>2, <2>1, <2>4 DEF opened, FrameOpen
  <2>6. mm \in Machine
    <3>1. 0 \in Regs /\ used - 1 \in Int /\ used - 1 < regStackSz
      BY <1>2, <1>4 DEF Regs, regStackSz
    <3>. QED BY <1>2, <3>1, PushRangeType
  <2>7. Live([acts EXCEPT ![Len(acts)] = b], 0, f, mm) BY <1>4 DEF Spill
  <2>8. 0 \in 0 .. Word - 1 /\ 0 <= regStackSz - 4 BY Numbers
  <2>. HIDE DEF b, f, mm
  <2>. QED BY <1>2, <2>1, <2>3, <2>4, <2>5, <2>6, <2>7, <2>8, StayStep
<1>. QED BY <1>3, <1>4

LEMMA ReturnStep == Inv /\ Return => Inv'
<1>. SUFFICES ASSUME Inv, Return PROVE Inv' OBVIOUS
<1>. DEFINE n == Len(acts)  as == SubSeq(acts, 1, n - 1)
<1>1. status = "run" /\ n > 1 /\ act.pc = "done" BY DEF Return, pc
<1>2. /\ acts \in Seq(Activation) /\ n \in Nat /\ Types
      /\ Len(nf) = act.frames0 + opened(tree, act)
      /\ act.frames0 \in Nat
  BY <1>1, InvFacts DEF Types
<1>3. n - 1 \in 1 .. n BY <1>1, <1>2
<1>4. /\ as \in Seq(Activation) /\ Len(as) = n - 1
      /\ \A j \in 1 .. n - 1 : as[j] = acts[j]
  BY <1>2, <1>3, Prefix
<1>5. acts' = as /\ used' = used /\ nf' = nf /\ m' = m /\ tree' = tree /\ status' = status
  BY DEF Return, Live
<1>. HIDE DEF as
<1>6. Types' BY <1>2, <1>4, <1>5 DEF Types
<1>7. (\A j \in 1 .. Len(acts) : ActOK(tree, acts[j]))'
  <2>1. ASSUME NEW j \in 1 .. n - 1 PROVE ActOK(tree, as[j])
    <3>1. j \in 1 .. n BY <1>2
    <3>. QED BY <1>4, <3>1 DEF Inv
  <2>. QED BY <1>4, <1>5, <2>1
<1>8. ASSUME NEW j \in 1 .. n - 1
      PROVE  /\ acts[j].pc \notin {"enter", "body", "done"}
             /\ acts[j + 1].frames0 = acts[j].frames0 + opened(tree, acts[j])
  BY <1>1 DEF Inv
<1>9. acts[n] = act BY DEF act
<1>10. act' = acts[n - 1]
  <2>1. n - 1 \in 1 .. n - 1 BY <1>1, <1>2
  <2>2. as[n - 1] = acts[n - 1] BY <1>4, <2>1
  <2>. QED BY <1>4, <1>5, <2>2 DEF act
<1>11. opened(tree, act) = 0 BY <1>1 DEF opened, FrameOpen
<1>12. (Len(nf) = act.frames0 + opened(tree, act) /\ act.pc # "body")'
  <2>1. n - 1 \in 1 .. n - 1 /\ n - 1 + 1 = n BY <1>1, <1>2
  <2>2. /\ acts[n - 1].pc # "body"
        /\ act.frames0 = acts[n - 1].frames0 + opened(tree, acts[n - 1])
    BY <1>8, <1>9, <2>1
  <2>3. Len(nf) = act.frames0 BY <1>2, <1>11
  <2>4. Len(nf) = acts[n - 1].frames0 + opened(tree, acts[n - 1]) BY <2>2, <2>3
  <2>. DEFINE below == acts[n - 1]
  <2>5. /\ act' = below /\ below.pc # "body"
        /\ Len(nf) = below.frames0 + opened(tree, below)
    BY <1>10, <2>2, <2>4
  <2>. HIDE DEF below
  <2>. QED BY <1>5, <2>5
<1>13. (acts # <<>>)'
  <2>0. n > 1 /\ n \in Nat BY <1>1, <1>2
  <2>. HIDE DEF n
  <2>1. n - 1 # 0 BY <2>0
  <2>. DEFINE k == n - 1
  <2>2. as \in Seq(Activation) /\ Len(as) = k /\ k # 0 BY <1>4, <2>1
  <2>. HIDE DEF k
  <2>3. ASSUME as = <<>> PROVE FALSE BY <2>2, <2>3
  <2>4. as # <<>> BY <2>3
  <2>. QED BY <1>5, <2>4
<1>14. (\A j \in 1 .. Len(acts) - 1 :
            /\ acts[j].pc \notin {"enter", "body", "done"}
            /\ acts[j + 1].frames0 = acts[j].frames0 + opened(tree, acts[j]))'
  <2>1. ASSUME NEW j \in 1 .. n - 1 - 1
        PROVE  /\ as[j].pc \notin {"enter", "body", "done"}
               /\ as[j + 1].frames0 = as[j].frames0 + opened(tree, as[j])
    <3>1. j \in 1 .. n - 1 /\ j + 1 \in 1 .. n - 1 BY <1>2
    <3>. QED BY <1>4, <1>8, <3>1
  <2>. QED BY <1>4, <1>5, <2>1
<1>. QED BY <1>6, <1>7, <1>12, <1>13, <1>14 DEF Inv

LEMMA ExitStep == Inv /\ Exit => Inv'
<1>. SUFFICES ASSUME Inv, Exit PROVE Inv' OBVIOUS
<1>1. status = "run" /\ act.pc = "done" BY DEF Exit, pc
<1>2. /\ status' = "done" /\ acts' = <<>> /\ used' = 0 /\ tree' = tree
      /\ nf' = SubSeq(nf, 1, Len(nf) - 1) /\ m' = Unwind(m)
  BY DEF Exit
<1>3. Types /\ Len(nf) = act.frames0 + opened(tree, act) /\ act.frames0 \in Nat \ {0}
  BY <1>1, InvFacts
<1>4. Len(nf) - 1 \in 0 .. Len(nf) BY <1>1, <1>3 DEF opened, FrameOpen
<1>5. SubSeq(nf, 1, Len(nf) - 1) \in Seq(Nameframe) BY <1>3, <1>4, Prefix DEF Types
<1>6. Unwind(m) \in Machine /\ 0 \in 0 .. Word - 1 /\ <<>> \in Seq(Activation)
  BY <1>3, UnwindType, Numbers DEF Types
<1>7. Types' BY <1>2, <1>3, <1>5, <1>6 DEF Types
<1>8. (\A j \in 1 .. Len(acts) : ActOK(tree, acts[j]))' BY <1>2
<1>. QED BY <1>2, <1>7, <1>8 DEF Inv

-----------------------------------------------------------------------------
(* The operators that open no frame.                                       *)

LEMMA PlainGen ==
    ASSUME Inv, NEW ops, NEW p, At(ops, p), NEW q \in PCs \ {"enter", "body", "done"},
           \A o \in ops : <<o, p>> \notin FrameOpen /\ <<o, q>> \notin FrameOpen,
           NEW k \in 0 .. Len(tree), NEW u \in 0 .. Word - 1,
           NEW f \in Seq(Nameframe), NEW mm \in Machine, Len(f) = Len(nf),
           Gen(k, Resume(q), u, f, mm)
    PROVE  Inv'
<1>. DEFINE a == Resume(q)
<1>1. status = "run" /\ act.id # 0 /\ node.op \in ops /\ act.pc = p BY AtFacts
<1>2. opened(tree, act) = 0 /\ act.frames0 \in Nat /\ Len(nf) = act.frames0
  <2>1. opened(tree, act) = 0 BY <1>1 DEF opened, node
  <2>2. act.frames0 \in Nat /\ Len(nf) = act.frames0 + opened(tree, act)
    BY <1>1, InvFacts
  <2>. QED BY <2>1, <2>2
<1>3. /\ a \in Activation /\ a.id = act.id /\ a.frames0 = act.frames0
      /\ ActOK(tree, a) /\ a.pc \notin {"enter", "body", "done"}
      /\ opened(tree, a) = 0
  BY <1>1, Resumed
<1>4. Len(f) = a.frames0 + opened(tree, a) BY <1>2, <1>3
<1>. HIDE DEF a
<1>5. Gen(k, a, u, f, mm) BY DEF a
<1>. QED BY <1>1, <1>3, <1>4, <1>5, GenStep

LEMMA PlainFinish ==
    ASSUME Inv, NEW ops, NEW p, At(ops, p),
           \A o \in ops : <<o, p>> \notin FrameOpen,
           NEW u \in 0 .. Word - 1, NEW f \in Seq(Nameframe), NEW mm \in Machine,
           Len(f) = Len(nf), Finish(u, f, mm)
    PROVE  Inv'
<1>1. status = "run" /\ act.id # 0 /\ node.op \in ops /\ act.pc = p BY AtFacts
<1>2. opened(tree, act) = 0 BY <1>1 DEF opened, node
<1>3. act.frames0 \in Nat /\ Len(nf) = act.frames0 + opened(tree, act)
  BY <1>1, InvFacts
<1>4. Len(f) = act.frames0 BY <1>2, <1>3
<1>. QED BY <1>1, <1>4, FinishStep

LEMMA EvalLeftStep == Inv /\ EvalLeft => Inv'
<1>. SUFFICES ASSUME Inv, EvalLeft PROVE Inv' OBVIOUS
<1>. DEFINE ops == TwoOperand \union {"compare"}
            u == IF node.op = "compare" THEN used + 1 ELSE used
<1>1. At(ops, "body") BY DEF EvalLeft
<1>2. Kid(1) \in 0 .. Len(tree) /\ nf \in Seq(Nameframe) /\ m \in Machine
      /\ used \in 0 .. Word - 1 /\ used \in Nat /\ act.pc = "body" /\ status = "run"
  BY <1>1, AtFacts
<1>3. used <= 10 BY <1>2 DEF Inv, regStackSz
<1>4. u \in 0 .. Word - 1 BY <1>2, <1>3, Numbers
<1>5. \A o \in ops : <<o, "body">> \notin FrameOpen /\ <<o, "left">> \notin FrameOpen
  BY DEF FrameOpen
<1>6. "left" \in PCs \ {"enter", "body", "done"} BY DEF PCs
<1>7. Gen(Kid(1), Resume("left"), u, nf, m) BY DEF EvalLeft
<1>. HIDE DEF ops, u
<1>. QED BY <1>1, <1>2, <1>4, <1>5, <1>6, <1>7, PlainGen

LEMMA EvalRightStep == Inv /\ EvalRight => Inv'
<1>. SUFFICES ASSUME Inv, EvalRight PROVE Inv' OBVIOUS
<1>. DEFINE ops == TwoOperand \union {"compare"}
<1>1. At(ops, "left") BY DEF EvalRight
<1>2. Kid(2) \in 0 .. Len(tree) /\ nf \in Seq(Nameframe) /\ m \in Machine
      /\ used \in 0 .. Word - 1
  BY <1>1, AtFacts
<1>3. \A o \in ops : <<o, "left">> \notin FrameOpen /\ <<o, "right">> \notin FrameOpen
  BY DEF FrameOpen, TwoOperand
<1>4. "right" \in PCs \ {"enter", "body", "done"} BY DEF PCs
<1>5. Gen(Kid(2), Resume("right"), used, nf, m) BY DEF EvalRight
<1>. HIDE DEF ops
<1>. QED BY <1>1, <1>2, <1>3, <1>4, <1>5, PlainGen

LEMMA EvalOperandStep == Inv /\ EvalOperand => Inv'
<1>. SUFFICES ASSUME Inv, EvalOperand PROVE Inv' OBVIOUS
<1>. DEFINE f == IF node.op = "var"
                   THEN registerVar(nf, node.names[1], act.id, m.bp) ELSE nf
<1>1. At(OneOperand, "body") BY DEF EvalOperand
<1>2. Kid(1) \in 0 .. Len(tree) /\ nf \in Seq(Nameframe) /\ m \in Machine
      /\ used \in 0 .. Word - 1 /\ nf # <<>> /\ act.id \in 1 .. Len(tree)
      /\ tree \in Programs
  BY <1>1, AtFacts
<1>3. f \in Seq(Nameframe) /\ Len(f) = Len(nf)
  <2>1. CASE node.op = "var"
    <3>1. node.names[1] \in Names BY <1>2, <2>1, TreeFacts DEF node
    <3>2. Len(tree) \in Nat BY <1>2, TreeFacts
    <3>3. act.id \in Nat /\ m.bp \in Nat BY <1>2, <3>2 DEF Machine
    <3>. QED BY <1>2, <2>1, <3>1, <3>3, RegisterType
  <2>2. CASE node.op # "var" BY <1>2, <2>2
  <2>. QED BY <2>1, <2>2
<1>4. \A o \in OneOperand : <<o, "body">> \notin FrameOpen /\ <<o, "right">> \notin FrameOpen
  BY DEF FrameOpen, OneOperand
<1>5. "right" \in PCs \ {"enter", "body", "done"} BY DEF PCs
<1>6. Gen(Kid(1), Resume("right"), used, f, m) BY DEF EvalOperand
<1>. HIDE DEF f
<1>. QED BY <1>1, <1>2, <1>3, <1>4, <1>5, <1>6, PlainGen

\* The operand values an action finds, for the operators that pop one register.
LEMMA TwoOperandsDone ==
    ASSUME Inv, NEW op \in TwoOperand \union {"compare"}, NEW k \in 0 .. 2,
           At({op}, "right"), NEW mm \in Machine,
           Finish(Less(used, k), nf, mm)
    PROVE  Inv'
<1>1. nf \in Seq(Nameframe) /\ used \in 0 .. Word - 1 BY AtFacts
<1>2. Less(used, k) \in 0 .. Word - 1 BY <1>1, LessType
<1>3. \A o \in {op} : <<o, "right">> \notin FrameOpen BY DEF FrameOpen, TwoOperand
<1>. QED BY <1>1, <1>2, <1>3, PlainFinish

LEMMA CaseBinaryStep == Inv /\ (CaseBinary \/ CaseCompare \/ CaseSetMem) => Inv'
<1>1. ASSUME Inv, CaseBinary PROVE Inv'
  <2>. DEFINE mm == Result(m, r1, act.id, BothIn(m, r1, r2))
  <2>1. At({"binary"}, "right") BY <1>1 DEF CaseBinary
  <2>2. act.id \in Nat /\ m \in Machine BY <1>1, <2>1, AtFacts, InvFacts
  <2>3. mm \in Machine BY <2>2, ResultType
  <2>4. Finish(Less(used, 1), nf, mm) BY <1>1 DEF CaseBinary
  <2>5. "binary" \in TwoOperand \union {"compare"} BY DEF TwoOperand
  <2>. HIDE DEF mm
  <2>. QED BY <1>1, <2>1, <2>3, <2>4, <2>5, TwoOperandsDone
<1>2. ASSUME Inv, CaseCompare PROVE Inv'
  <2>. DEFINE mm == Result(m, r1, act.id, BothIn(m, r2, r3))
  <2>1. At({"compare"}, "right") BY <1>2 DEF CaseCompare
  <2>2. act.id \in Nat /\ m \in Machine BY <1>2, <2>1, AtFacts, InvFacts
  <2>3. mm \in Machine BY <2>2, ResultType
  <2>4. Finish(Less(used, 2), nf, mm) BY <1>2 DEF CaseCompare
  <2>. HIDE DEF mm
  <2>. QED BY <1>2, <2>1, <2>3, <2>4, TwoOperandsDone
<1>3. ASSUME Inv, CaseSetMem PROVE Inv'
  <2>. DEFINE mm == Result(m, r1, act.id, BothIn(m, r1, r2))
  <2>1. At({"setmem"}, "right") BY <1>3 DEF CaseSetMem
  <2>2. act.id \in Nat /\ m \in Machine BY <1>3, <2>1, AtFacts, InvFacts
  <2>3. mm \in Machine BY <2>2, ResultType
  <2>4. Finish(Less(used, 1), nf, mm) BY <1>3 DEF CaseSetMem
  <2>5. "setmem" \in TwoOperand \union {"compare"} BY DEF TwoOperand
  <2>. HIDE DEF mm
  <2>. QED BY <1>3, <2>1, <2>3, <2>4, <2>5, TwoOperandsDone
<1>. QED BY <1>1, <1>2, <1>3

LEMMA NamedRegs ==
    RAX \in Regs /\ RDI \in Regs /\ RDX \in Regs /\ RCX \in Regs
BY DEF RAX, RDI, RDX, RCX, Regs, regStackSz

LEMMA ShiftCodeType ==
    ASSUME Inv, status = "run"
    PROVE  ShiftCode \in Machine
<1>1. /\ act.id \in Nat /\ m \in Machine /\ RCX \in Regs
      /\ r1 \in Regs /\ r2 \in Regs /\ r3 \in Regs
  BY InvFacts, RegFacts, NamedRegs DEF Types
<1>2. CASE r1 = RCX
  <2>. DEFINE x == MovRR(m, r3, r1)  a == MovRR(x, r1, r2)
              b == Result(a, r3, act.id, BothIn(a, r3, RCX))
              c == MovRR(b, r1, r3)
  <2>1. x \in Machine BY <1>1, MovRRType
  <2>2. a \in Machine BY <1>1, <2>1, MovRRType
  <2>3. b \in Machine BY <1>1, <2>2, ResultType
  <2>4. c \in Machine BY <1>1, <2>3, MovRRType
  <2>5. ShiftCode = c BY <1>2 DEF ShiftCode
  <2>. QED BY <2>4, <2>5
<1>3. CASE r1 # RCX
  <2>. DEFINE x == Push(m, RCX)  a == MovRR(x, RCX, r2)
              b == Result(a, r1, act.id, BothIn(a, r1, RCX))
              c == Pop(b, RCX)
  <2>1. x \in Machine BY <1>1, PushType
  <2>2. a \in Machine BY <1>1, <2>1, MovRRType
  <2>3. b \in Machine BY <1>1, <2>2, ResultType
  <2>4. c \in Machine BY <1>1, <2>3, PopType
  <2>5. ShiftCode = c BY <1>3 DEF ShiftCode
  <2>. QED BY <2>4, <2>5
<1>. QED BY <1>2, <1>3

LEMMA CaseShiftStep == Inv /\ CaseShift => Inv'
<1>. SUFFICES ASSUME Inv, CaseShift PROVE Inv' OBVIOUS
<1>1. At({"shift"}, "right") /\ Finish(Less(used, 1), nf, ShiftCode) BY DEF CaseShift
<1>2. ShiftCode \in Machine BY <1>1, AtFacts, ShiftCodeType
<1>3. "shift" \in TwoOperand \union {"compare"} BY DEF TwoOperand
<1>. QED BY <1>1, <1>2, <1>3, TwoOperandsDone

LEMMA DivModCodeType ==
    ASSUME Inv, status = "run", NEW wanted \in Regs
    PROVE  DivModCode(wanted) \in Machine
<1>1. /\ act.id \in Nat /\ m \in Machine /\ RAX \in Regs /\ RDX \in Regs
      /\ r1 \in Regs /\ r2 \in Regs /\ r3 \in Regs
  BY InvFacts, RegFacts, NamedRegs DEF Types
<1>. DEFINE a == IF r2 = RDX THEN MovRR(m, r3, r2) ELSE m
            b == IF r1 # RDX THEN Push(a, RDX) ELSE a
            c == IF r1 # RAX THEN MovRR(Push(b, RAX), RAX, r1) ELSE b
            divisor == IF r2 # RDX THEN r2 ELSE r3
            good == BothIn(c, RAX, divisor)
            d0 == Result(c, wanted, act.id, good)
            d == Mov(d0, IF wanted = RAX THEN RDX ELSE RAX, Junk)
            e == IF r1 # RAX THEN Pop(MovRR(d, r1, wanted), RAX) ELSE d
            g == IF r1 # RDX THEN Pop(e, RDX) ELSE e
<1>2. a \in Machine BY <1>1, MovRRType
<1>3. b \in Machine
  <2>. HIDE DEF a
  <2>. QED BY <1>1, <1>2, PushType
<1>4. c \in Machine
  <2>. HIDE DEF b
  <2>1. Push(b, RAX) \in Machine BY <1>1, <1>3, PushType
  <2>2. MovRR(Push(b, RAX), RAX, r1) \in Machine BY <1>1, <2>1, MovRRType
  <2>. QED BY <1>3, <2>2
<1>5. d \in Machine
  <2>. HIDE DEF c, good
  <2>1. d0 \in Machine BY <1>1, <1>4, ResultType
  <2>. HIDE DEF d0
  <2>. QED BY <2>1, MovType, Tokens
<1>6. e \in Machine
  <2>. HIDE DEF d
  <2>1. MovRR(d, r1, wanted) \in Machine BY <1>1, <1>5, MovRRType
  <2>2. Pop(MovRR(d, r1, wanted), RAX) \in Machine BY <2>1, PopType
  <2>. QED BY <1>5, <2>2
<1>7. g \in Machine
  <2>. HIDE DEF e
  <2>. QED BY <1>6, PopType
<1>8. DivModCode(wanted) = g BY DEF DivModCode
<1>. QED BY <1>7, <1>8

LEMMA CaseDivModStep == Inv /\ CaseDivMod => Inv'
<1>. SUFFICES ASSUME Inv, CaseDivMod PROVE Inv' OBVIOUS
<1>. DEFINE wanted == IF node.op = "div" THEN RAX ELSE RDX
<1>1. /\ At({"div", "mod"}, "right")
      /\ Finish(Less(used, 1), nf, DivModCode(wanted))
  BY DEF CaseDivMod
<1>2. wanted \in Regs BY NamedRegs
<1>. HIDE DEF wanted
<1>3. DivModCode(wanted) \in Machine BY <1>1, <1>2, AtFacts, DivModCodeType
<1>4. nf \in Seq(Nameframe) /\ used \in 0 .. Word - 1 BY <1>1, AtFacts
<1>5. Less(used, 1) \in 0 .. Word - 1 BY <1>4, LessType
<1>6. \A o \in {"div", "mod"} : <<o, "right">> \notin FrameOpen BY DEF FrameOpen
<1>. QED BY <1>1, <1>3, <1>4, <1>5, <1>6, PlainFinish

-----------------------------------------------------------------------------
(* Variables: the entry that getOffset finds.                              *)

LEMMA EntryFound ==
    ASSUME NEW f \in Seq(Nameframe), NEW x, Declared(f, x)
    PROVE  /\ Owner(f, x) \in Owners(f, x)
           /\ \E i \in DOMAIN f[Owner(f, x)].vars : Entry(f, x) = f[Owner(f, x)].vars[i]
<1>. DEFINE S == Owners(f, x)
            o == Owner(f, x)
            vs == f[o].vars
            J == {i \in DOMAIN vs : vs[i].name = x}
            first(i) == i \in DOMAIN vs /\ vs[i].name = x
                            /\ \A k \in 1 .. i - 1 : vs[k].name # x
<1>1. S \subseteq DOMAIN f /\ S # {} /\ \A j \in S : Declares(f[j], x)
  BY DEF Declared, Owners, Chain
<1>2. DOMAIN f = 1 .. Len(f) /\ Len(f) \in Nat OBVIOUS
<1>3. \E j \in S : \A k \in S : k <= j
  <2>. HIDE DEF S
  <2>1. S \subseteq 0 .. Len(f) BY <1>1, <1>2
  <2>. QED BY <1>1, <1>2, <2>1, Greatest
<1>4. o \in S BY <1>3 DEF Owner
<1>5. f[o] \in Nameframe /\ Declares(f[o], x)
  <2>. HIDE DEF S, o
  <2>. QED BY <1>1, <1>2, <1>4
<1>6. vs \in Seq(VarOffset) BY <1>5, FrameFields
<1>7. J # {} BY <1>5 DEF Declares
<1>8. \E i \in J : \A k \in J : i <= k
  <2>. HIDE DEF vs
  <2>1. J \subseteq Nat BY <1>6
  <2>. QED BY <1>7, <2>1, Least
<1>9. PICK i \in J : \A k \in J : i <= k BY <1>8
<1>10. first(i)
  <2>. HIDE DEF vs
  <2>1. i \in DOMAIN vs /\ vs[i].name = x OBVIOUS
  <2>2. DOMAIN vs = 1 .. Len(vs) /\ Len(vs) \in Nat BY <1>6
  <2>3. ASSUME NEW k \in 1 .. i - 1 PROVE vs[k].name # x
    <3>1. k \in DOMAIN vs /\ ~ (i <= k) BY <2>1, <2>2
    <3>. QED BY <1>9, <3>1
  <2>. QED BY <2>1, <2>3
<1>. DEFINE e == CHOOSE ii \in DOMAIN vs :
                    vs[ii].name = x /\ \A k \in 1 .. ii - 1 : vs[k].name # x
<1>11. e \in DOMAIN vs
  <2>. HIDE DEF vs
  <2>. QED BY <1>10
<1>12. Entry(f, x) = vs[e] BY DEF Entry
<1>. HIDE DEF e
<1>. QED BY <1>4, <1>11, <1>12 DEF S

LEMMA EntryType ==
    ASSUME NEW f \in Seq(Nameframe), NEW x, Declared(f, x)
    PROVE  Entry(f, x).decl \in Nat
<1>1. Owner(f, x) \in 1 .. Len(f)
  <2>1. Owner(f, x) \in DOMAIN f BY EntryFound DEF Owners, Chain
  <2>. QED BY <2>1
<1>. DEFINE vs == f[Owner(f, x)].vars
<1>2. PICK i \in DOMAIN vs : Entry(f, x) = vs[i] BY EntryFound
<1>3. vs \in Seq(VarOffset)
  <2>. DEFINE o == Owner(f, x)
  <2>. HIDE DEF o
  <2>1. f[o] \in Nameframe BY <1>1 DEF o
  <2>. QED BY <2>1, FrameFields DEF o
<1>4. vs[i] \in VarOffset
  <2>. HIDE DEF vs
  <2>. QED BY <1>3
<1>. QED BY <1>2, <1>4 DEF VarOffset

LEMMA StoreVarType ==
    ASSUME NEW mm \in Machine, NEW f \in Seq(Nameframe), NEW x
    PROVE  StoreVar(mm, f, x) \in Machine
<1>1. CASE Declared(f, x)
  <2>. DEFINE t == Slot(Entry(f, x).decl)  D == {Addressed(f, mm.bp, x)}
  <2>1. t \in Token BY <1>1, EntryType, Tokens
  <2>2. StoreVar(mm, f, x) = Poke(mm, D, t) BY <1>1 DEF StoreVar
  <2>. HIDE DEF t, D
  <2>. QED BY <2>1, <2>2, PokeType
<1>2. CASE ~ Declared(f, x)
  <2>. DEFINE D == Straddled(f, mm.bp)
  <2>1. StoreVar(mm, f, x) = Poke(mm, D, Junk) BY <1>2 DEF StoreVar
  <2>. HIDE DEF D
  <2>. QED BY <2>1, PokeType, Tokens
<1>. QED BY <1>1, <1>2

-----------------------------------------------------------------------------
(* Operators with one operand, and the leaves.                             *)

LEMMA CaseUnaryStep == Inv /\ (CaseUnary \/ CaseStore) => Inv'
<1>1. ASSUME Inv, CaseUnary PROVE Inv'
  <2>. DEFINE mm == Result(m, r1, act.id, Holds(m, r1, Kid(1)))
  <2>1. At({"unary"}, "right") BY <1>1 DEF CaseUnary
  <2>2. act.id \in Nat /\ m \in Machine /\ nf \in Seq(Nameframe) /\ used \in 0 .. Word - 1
    BY <1>1, <2>1, AtFacts, InvFacts
  <2>3. mm \in Machine BY <2>2, ResultType
  <2>4. Finish(used, nf, mm) BY <1>1 DEF CaseUnary
  <2>5. \A o \in {"unary"} : <<o, "right">> \notin FrameOpen BY DEF FrameOpen
  <2>. HIDE DEF mm
  <2>. QED BY <1>1, <2>1, <2>2, <2>3, <2>4, <2>5, PlainFinish
<1>2. ASSUME Inv, CaseStore PROVE Inv'
  <2>. DEFINE ms == StoreVar(m, nf, node.names[1])
              mm == Result(ms, r1, act.id, Holds(m, r1, Kid(1)))
  <2>1. At({"set", "var"}, "right") BY <1>2 DEF CaseStore
  <2>2. act.id \in Nat /\ m \in Machine /\ nf \in Seq(Nameframe) /\ used \in 0 .. Word - 1
    BY <1>2, <2>1, AtFacts, InvFacts
  <2>3. ms \in Machine BY <2>2, StoreVarType
  <2>4. mm \in Machine
    <3>. HIDE DEF ms
    <3>. QED BY <2>2, <2>3, ResultType
  <2>5. Finish(used, nf, mm) BY <1>2 DEF CaseStore
  <2>6. \A o \in {"set", "var"} : <<o, "right">> \notin FrameOpen BY DEF FrameOpen
  <2>. HIDE DEF mm
  <2>. QED BY <1>2, <2>1, <2>2, <2>4, <2>5, <2>6, PlainFinish
<1>. QED BY <1>1, <1>2

LEMMA OutCodeType ==
    ASSUME Inv, status = "run"
    PROVE  OutCode \in Machine
<1>1. act.id \in Nat /\ m \in Machine /\ RAX \in Regs /\ RDI \in Regs /\ r1 \in Regs
  BY InvFacts, RegFacts, NamedRegs DEF Types
<1>. DEFINE a == IF r1 # RDI THEN Push(m, RDI) ELSE m
            b == IF r1 # RAX THEN Push(a, RAX) ELSE a
            c == MovRR(b, RDI, r1)
            d0 == Clobber(c, OutScratch)
            d == Result(d0, RAX, act.id, Holds(c, RDI, Kid(1)))
            e == MovRR(d, r1, RAX)
            g == IF r1 # RAX THEN Pop(e, RAX) ELSE e
            h == IF r1 # RDI THEN Pop(g, RDI) ELSE g
<1>2. a \in Machine BY <1>1, PushType
<1>3. b \in Machine
  <2>. HIDE DEF a
  <2>. QED BY <1>1, <1>2, PushType
<1>4. c \in Machine
  <2>. HIDE DEF b
  <2>. QED BY <1>1, <1>3, MovRRType
<1>5. d \in Machine
  <2>. HIDE DEF c
  <2>1. d0 \in Machine BY <1>4, ClobberType
  <2>. HIDE DEF d0
  <2>. QED BY <1>1, <2>1, ResultType
<1>6. e \in Machine
  <2>. HIDE DEF d
  <2>. QED BY <1>1, <1>5, MovRRType
<1>7. g \in Machine
  <2>. HIDE DEF e
  <2>. QED BY <1>6, PopType
<1>8. h \in Machine
  <2>. HIDE DEF g
  <2>. QED BY <1>7, PopType
<1>9. OutCode = h BY DEF OutCode
<1>. QED BY <1>8, <1>9

LEMMA CaseOutStep == Inv /\ CaseOut => Inv'
<1>. SUFFICES ASSUME Inv, CaseOut PROVE Inv' OBVIOUS
<1>1. At({"out"}, "right") /\ Finish(used, nf, OutCode) BY DEF CaseOut
<1>2. nf \in Seq(Nameframe) /\ used \in 0 .. Word - 1 /\ status = "run"
  BY <1>1, AtFacts
<1>3. OutCode \in Machine BY <1>2, OutCodeType
<1>4. \A o \in {"out"} : <<o, "right">> \notin FrameOpen BY DEF FrameOpen
<1>. QED BY <1>1, <1>2, <1>3, <1>4, PlainFinish

LEMMA InCodeType ==
    ASSUME Inv, status = "run"
    PROVE  InCode \in Machine
<1>1. act.id \in Nat /\ m \in Machine /\ RAX \in Regs /\ r1 \in Regs
  BY InvFacts, RegFacts, NamedRegs DEF Types
<1>. DEFINE a == IF r1 # RAX THEN Push(m, RAX) ELSE m
            b0 == Clobber(a, InScratch)
            b1 == Result(b0, RAX, act.id, TRUE)
            b == MovRR(b1, r1, RAX)
            c == IF r1 # RAX THEN Pop(b, RAX) ELSE b
<1>2. a \in Machine BY <1>1, PushType
<1>3. b0 \in Machine
  <2>. HIDE DEF a
  <2>. QED BY <1>2, ClobberType
<1>4. b1 \in Machine
  <2>. HIDE DEF b0
  <2>. QED BY <1>1, <1>3, ResultType
<1>5. b \in Machine
  <2>. HIDE DEF b1
  <2>. QED BY <1>1, <1>4, MovRRType
<1>6. c \in Machine
  <2>. HIDE DEF b
  <2>. QED BY <1>5, PopType
<1>7. InCode = c BY DEF InCode
<1>. QED BY <1>6, <1>7

\* A leaf takes one register more: there is room, as used <= 10 at "body".
LEMMA LeafFinish ==
    ASSUME Inv, NEW ops, ops \subseteq Leaves, At(ops, "body"), NEW mm \in Machine,
           Finish(used + 1, nf, mm)
    PROVE  Inv'
<1>1. /\ nf \in Seq(Nameframe) /\ used \in Nat /\ status = "run" /\ act.pc = "body"
  BY AtFacts
<1>2. used <= 10 BY <1>1 DEF Inv, regStackSz
<1>3. used + 1 \in 0 .. 20 BY <1>1, <1>2
<1>4. used + 1 \in 0 .. Word - 1 BY <1>3, Numbers
<1>5. \A o \in ops : <<o, "body">> \notin FrameOpen BY DEF FrameOpen, Leaves
<1>. QED BY <1>1, <1>4, <1>5, PlainFinish

LEMMA CaseLeafStep ==
    Inv /\ (CaseIn \/ CaseNumberAddr \/ CaseIdent \/ CaseIncDec) => Inv'
<1>1. ASSUME Inv, CaseIn PROVE Inv'
  <2>1. At({"in"}, "body") /\ Finish(used + 1, nf, InCode) BY <1>1 DEF CaseIn
  <2>2. InCode \in Machine BY <1>1, <2>1, AtFacts, InCodeType
  <2>3. {"in"} \subseteq Leaves BY DEF Leaves
  <2>. QED BY <1>1, <2>1, <2>2, <2>3, LeafFinish
<1>2. ASSUME Inv, CaseNumberAddr PROVE Inv'
  <2>. DEFINE ok == node.op = "addr" =>
                       /\ Declared(nf, node.names[1])
                       /\ Addressed(nf, m.bp, node.names[1]) =
                              Entry(nf, node.names[1]).slot
              mm == Result(m, r1, act.id, ok)
  <2>1. At({"number", "addr"}, "body") /\ Finish(used + 1, nf, mm)
    BY <1>2 DEF CaseNumberAddr
  <2>2. act.id \in Nat /\ m \in Machine BY <1>2, <2>1, AtFacts, InvFacts
  <2>. HIDE DEF ok
  <2>3. mm \in Machine BY <2>2, ResultType
  <2>4. {"number", "addr"} \subseteq Leaves BY DEF Leaves
  <2>. HIDE DEF mm
  <2>. QED BY <1>2, <2>1, <2>3, <2>4, LeafFinish
<1>3. ASSUME Inv, CaseIdent PROVE Inv'
  <2>. DEFINE mm == Result(m, r1, act.id, Readable(m, nf, node.names[1]))
  <2>1. At({"ident"}, "body") /\ Finish(used + 1, nf, mm) BY <1>3 DEF CaseIdent
  <2>2. act.id \in Nat /\ m \in Machine BY <1>3, <2>1, AtFacts, InvFacts
  <2>3. mm \in Machine BY <2>2, ResultType
  <2>4. {"ident"} \subseteq Leaves BY DEF Leaves
  <2>. HIDE DEF mm
  <2>. QED BY <1>3, <2>1, <2>3, <2>4, LeafFinish
<1>4. ASSUME Inv, CaseIncDec PROVE Inv'
  <2>. DEFINE x == node.names[1]
              a == Result(m, r1, act.id, Readable(m, nf, x))
              b == IF node.op = "post" THEN Mov(a, r2, Junk) ELSE a
              mm == StoreVar(b, nf, x)
  <2>1. At({"post", "pre"}, "body") /\ Finish(used + 1, nf, mm) BY <1>4 DEF CaseIncDec
  <2>2. act.id \in Nat /\ m \in Machine /\ nf \in Seq(Nameframe)
    BY <1>4, <2>1, AtFacts, InvFacts
  <2>3. a \in Machine BY <2>2, ResultType
  <2>4. b \in Machine
    <3>. HIDE DEF a
    <3>. QED BY <2>3, MovType, Tokens
  <2>5. mm \in Machine
    <3>. HIDE DEF b
    <3>. QED BY <2>2, <2>4, StoreVarType
  <2>6. {"post", "pre"} \subseteq Leaves BY DEF Leaves
  <2>. HIDE DEF mm
  <2>. QED BY <1>4, <2>1, <2>5, <2>6, LeafFinish
<1>. QED BY <1>1, <1>2, <1>3, <1>4

LEMMA CaseUnsupportedStep == Inv /\ CaseUnsupported => Inv'
<1>1. ASSUME Inv, At({"stray"}, "body"), Finish(used, nf, m) PROVE Inv'
  <2>1. nf \in Seq(Nameframe) /\ used \in 0 .. Word - 1 /\ m \in Machine
    BY <1>1, AtFacts
  <2>2. \A o \in {"stray"} : <<o, "body">> \notin FrameOpen BY DEF FrameOpen
  <2>. QED BY <1>1, <2>1, <2>2, PlainFinish
<1>2. ASSUME Inv, At({"unsup"}, "body"),
             Live([acts EXCEPT ![Len(acts)] = Resume("done")], used, nf, m)
      PROVE  Inv'
  <2>. DEFINE b == Resume("done")
  <2>1. /\ nf \in Seq(Nameframe) /\ used \in 0 .. Word - 1 /\ m \in Machine
        /\ status = "run" /\ act.id # 0 /\ act.pc = "body" /\ node.op \in {"unsup"}
        /\ Len(nf) = act.frames0 + opened(tree, act)
    BY <1>2, AtFacts
  <2>2. /\ b \in Activation /\ b.id = act.id /\ b.frames0 = act.frames0
        /\ b.pc = "done" /\ ActOK(tree, b) /\ opened(tree, b) = 0
    <3>1. Inv /\ status = "run" /\ act.id # 0 BY <1>2, <2>1
    <3>. QED BY <3>1, Resumed DEF PCs, FrameOpen
  <2>3. opened(tree, act) = 0 BY <2>1 DEF opened, FrameOpen
  <2>4. Len(nf) = b.frames0 + opened(tree, b) BY <2>1, <2>2, <2>3
  <2>5. Live([acts EXCEPT ![Len(acts)] = b], used, nf, m) BY <1>2
  <2>. HIDE DEF b
  <2>. QED BY <1>2, <2>1, <2>2, <2>4, <2>5, StayStep
<1>. QED BY <1>1, <1>2 DEF CaseUnsupported

-----------------------------------------------------------------------------
(* Control flow without frames: ENDL, LAND and LOR.                        *)

LEMMA EndlStep == Inv /\ Endl => Inv'
<1>1. ASSUME NEW q \in PCs
      PROVE  \A o \in {"endl"} : <<o, q>> \notin FrameOpen
  BY DEF FrameOpen
<1>2. {"left", "right"} \subseteq PCs \ {"enter", "body", "done"} /\ "body" \in PCs
  BY DEF PCs
<1>3. ASSUME Inv, NEW q \in {"left", "right"}, At({"endl"}, q),
             NEW k \in {1, 2}, Finish(used, nf, Result(m, r1, act.id, Holds(m, r1, Kid(k))))
      PROVE  Inv'
  <2>1. /\ nf \in Seq(Nameframe) /\ used \in 0 .. Word - 1 /\ m \in Machine
        /\ status = "run"
    BY <1>3, AtFacts
  <2>2. act.id \in Nat BY <1>3, <2>1, InvFacts
  <2>. DEFINE mm == Result(m, r1, act.id, Holds(m, r1, Kid(k)))
  <2>3. mm \in Machine BY <2>1, <2>2, ResultType
  <2>4. q \in PCs BY <1>2
  <2>5. \A o \in {"endl"} : <<o, q>> \notin FrameOpen BY <1>1, <2>4
  <2>6. Finish(used, nf, mm) BY <1>3
  <2>. HIDE DEF mm
  <2>. QED BY <1>3, <2>1, <2>3, <2>5, <2>6, PlainFinish
<1>4. ASSUME Inv, At({"endl"}, "body"), Gen(Kid(1), Resume("left"), used, nf, m)
      PROVE  Inv'
  <2>1. /\ nf \in Seq(Nameframe) /\ used \in 0 .. Word - 1 /\ m \in Machine
        /\ Kid(1) \in 0 .. Len(tree)
    BY <1>4, AtFacts
  <2>2. \A o \in {"endl"} : <<o, "body">> \notin FrameOpen /\ <<o, "left">> \notin FrameOpen
    BY <1>1, <1>2
  <2>. QED BY <1>2, <1>4, <2>1, <2>2, PlainGen
<1>5. ASSUME Inv, At({"endl"}, "left"), Gen(Kid(2), Resume("right"), 0, nf, m)
      PROVE  Inv'
  <2>1. /\ nf \in Seq(Nameframe) /\ m \in Machine /\ Kid(2) \in 0 .. Len(tree)
    BY <1>5, AtFacts
  <2>2. 0 \in 0 .. Word - 1 BY Numbers
  <2>3. \A o \in {"endl"} : <<o, "left">> \notin FrameOpen /\ <<o, "right">> \notin FrameOpen
    BY <1>1, <1>2
  <2>. QED BY <1>2, <1>5, <2>1, <2>2, <2>3, PlainGen
<1>6. ASSUME Inv, Stop("assert") PROVE Inv' BY <1>6, StopStep
<1>. SUFFICES ASSUME Inv, Endl PROVE Inv' OBVIOUS
<1>7. \/ At({"endl"}, "body") /\ Gen(Kid(1), Resume("left"), used, nf, m)
      \/ At({"endl"}, "left") /\ Finish(used, nf, Result(m, r1, act.id, Holds(m, r1, Kid(1))))
      \/ At({"endl"}, "left") /\ Gen(Kid(2), Resume("right"), 0, nf, m)
      \/ Stop("assert")
      \/ At({"endl"}, "right") /\ Finish(used, nf, Result(m, r1, act.id, Holds(m, r1, Kid(2))))
  BY DEF Endl
<1>. QED BY <1>3, <1>4, <1>5, <1>6, <1>7

\* An activation that goes on after a run-time test.
LEMMA Forked ==
    ASSUME Inv, status = "run", act.id # 0, NEW p \in PCs, NEW ok \in BOOLEAN,
           NEW mm \in Machine
    PROVE  /\ Fork(p, ok, mm) \in Activation /\ Fork(p, ok, mm).id = act.id
           /\ Fork(p, ok, mm).pc = p /\ Fork(p, ok, mm).frames0 = act.frames0
           /\ ActOK(tree, Fork(p, ok, mm))
           /\ opened(tree, Fork(p, ok, mm)) =
                  IF <<node.op, p>> \in FrameOpen THEN 1 ELSE 0
<1>. DEFINE b == Resume(p)  a == Fork(p, ok, mm)
<1>1. /\ b \in Activation /\ b.id = act.id /\ b.pc = p /\ b.frames0 = act.frames0
      /\ ActOK(tree, b)
      /\ opened(tree, b) = IF <<node.op, p>> \in FrameOpen THEN 1 ELSE 0
  BY Resumed
<1>2. a = [b EXCEPT !.ok = ok, !.save = mm] BY DEF Fork
<1>. HIDE DEF a, b
<1>3. /\ a \in Activation /\ a.id = b.id /\ a.pc = b.pc /\ a.frames0 = b.frames0
      /\ a.argsLeft = b.argsLeft
  BY <1>1, <1>2 DEF Activation
<1>4. ActOK(tree, a) BY <1>1, <1>3 DEF ActOK
<1>5. opened(tree, a) = opened(tree, b) BY <1>3 DEF opened
<1>6. /\ a \in Activation /\ a.id = act.id /\ a.pc = p
      /\ a.frames0 = act.frames0 /\ ActOK(tree, a)
      /\ opened(tree, a) = IF <<node.op, p>> \in FrameOpen THEN 1 ELSE 0
  BY <1>1, <1>3, <1>4, <1>5
<1>. QED BY <1>6 DEF a

\* The same with its hypotheses, and with its conclusions, under one name.
Forking(p, ok, mm) ==
    status = "run" /\ act.id # 0 /\ p \in PCs /\ ok \in BOOLEAN /\ mm \in Machine

ForkedTo(p, a) ==
    /\ a \in Activation /\ a.id = act.id /\ a.pc = p /\ a.frames0 = act.frames0
    /\ ActOK(tree, a) /\ opened(tree, a) = IF <<node.op, p>> \in FrameOpen THEN 1 ELSE 0

LEMMA ForkedAt ==
    ASSUME Inv, NEW p, NEW ok, NEW mm, Forking(p, ok, mm)
    PROVE  ForkedTo(p, Fork(p, ok, mm))
<1>. DEFINE a == Fork(p, ok, mm)
<1>1. /\ status = "run" /\ act.id # 0 /\ p \in PCs /\ ok \in BOOLEAN /\ mm \in Machine
  BY DEF Forking
<1>2. /\ a \in Activation /\ a.id = act.id /\ a.pc = p /\ a.frames0 = act.frames0
      /\ ActOK(tree, a) /\ opened(tree, a) = IF <<node.op, p>> \in FrameOpen THEN 1 ELSE 0
  BY <1>1, Forked
<1>. HIDE DEF a
<1>3. ForkedTo(p, a) BY <1>2 DEF ForkedTo
<1>. QED BY <1>3 DEF a

LEMMA LogicStep == Inv /\ Logic => Inv'
<1>. DEFINE ok == Holds(m, r1, Kid(1))
            a == Fork("right", ok, m)
            out(mm) == Result(mm, r1, act.id, act.ok /\ Holds(m, r1, Kid(2)))
<1>1. \A q \in PCs, o \in {"logic"} : <<o, q>> \notin FrameOpen BY DEF FrameOpen
<1>2. {"left", "right"} \subseteq PCs \ {"enter", "body", "done"} /\ "body" \in PCs
  BY DEF PCs
<1>3. ASSUME Inv, At({"logic"}, "body"), Gen(Kid(1), Resume("left"), used, nf, m)
      PROVE  Inv'
  <2>1. /\ nf \in Seq(Nameframe) /\ used \in 0 .. Word - 1 /\ m \in Machine
        /\ Kid(1) \in 0 .. Len(tree)
    BY <1>3, AtFacts
  <2>2. \A o \in {"logic"} : <<o, "body">> \notin FrameOpen /\ <<o, "left">> \notin FrameOpen
    BY <1>1, <1>2
  <2>. QED BY <1>2, <1>3, <2>1, <2>2, PlainGen
<1>4. ASSUME Inv, At({"logic"}, "left"), Gen(Kid(2), a, Less(used, 1), nf, m)
      PROVE  Inv'
  <2>1. /\ nf \in Seq(Nameframe) /\ used \in 0 .. Word - 1 /\ m \in Machine
        /\ Kid(2) \in 0 .. Len(tree) /\ status = "run" /\ act.id # 0
        /\ act.pc = "left" /\ node.op \in {"logic"}
        /\ Len(nf) = act.frames0 + opened(tree, act)
    BY <1>4, AtFacts
  <2>2. Less(used, 1) \in 0 .. Word - 1 BY <2>1, LessType
  <2>3. ok \in BOOLEAN BY DEF Holds
  <2>. HIDE DEF ok
  <2>4. /\ a \in Activation /\ a.id = act.id /\ a.pc = "right"
        /\ a.frames0 = act.frames0 /\ ActOK(tree, a)
        /\ opened(tree, a) = IF <<node.op, "right">> \in FrameOpen THEN 1 ELSE 0
    <3>1. Inv /\ "right" \in PCs BY <1>2, <1>4
    <3>. QED BY <2>1, <2>3, <3>1, Forked
  <2>5. opened(tree, a) = 0 /\ opened(tree, act) = 0
    BY <2>1, <2>4 DEF opened, node, FrameOpen
  <2>6. Len(nf) = a.frames0 + opened(tree, a) BY <2>1, <2>4, <2>5
  <2>7. a.pc \notin {"enter", "body", "done"} BY <2>4
  <2>8. Gen(Kid(2), a, Less(used, 1), nf, m) BY <1>4
  <2>. HIDE DEF a
  <2>. QED BY <1>4, <2>1, <2>2, <2>4, <2>6, <2>7, <2>8, GenStep
<1>5. ASSUME Inv, At({"logic"}, "right"), NEW mm \in {act.save, m},
             Finish(used, nf, out(mm))
      PROVE  Inv'
  <2>1. /\ nf \in Seq(Nameframe) /\ used \in 0 .. Word - 1 /\ m \in Machine
        /\ status = "run"
    BY <1>5, AtFacts
  <2>2. mm \in Machine /\ act.id \in Nat BY <1>5, <2>1, RegFacts, InvFacts
  <2>3. out(mm) \in Machine BY <2>2, ResultType
  <2>4. \A o \in {"logic"} : <<o, "right">> \notin FrameOpen BY <1>1, <1>2
  <2>. HIDE DEF out
  <2>. QED BY <1>5, <2>1, <2>3, <2>4, PlainFinish
<1>. SUFFICES ASSUME Inv, Logic PROVE Inv' OBVIOUS
<1>. QED BY <1>3, <1>4, <1>5 DEF Logic

-----------------------------------------------------------------------------
(* Control flow with frames: ?:, ??, while.                                *)

LEMMA LeaveFrameType ==
    ASSUME NEW f \in Seq(Nameframe), f # <<>>, NEW mm \in Machine
    PROVE  LeaveFrame(f, mm) \in Machine
<1>. DEFINE n == f[Len(f)].regSaved
            p == IF n = 0 THEN mm ELSE PopRange(mm, 1, n - 1)
<1>1. n \in 0 .. 14 BY CloseFrameType DEF ClosedUsed
<1>2. p \in Machine
  <2>. HIDE DEF n
  <2>1. CASE n = 0 BY <2>1
  <2>2. CASE n # 0
    <3>1. n - 1 \in Int /\ n - 1 >= 1 - 1 /\ 1 \in Int BY <1>1, <2>2
    <3>2. PopRange(mm, 1, n - 1) \in Machine BY <3>1, PopRangeType
    <3>. QED BY <2>2, <3>2
  <2>. QED BY <2>1, <2>2
<1>3. LeaveFrame(f, mm) = Unwind(p) BY DEF LeaveFrame
<1>. HIDE DEF p
<1>. QED BY <1>2, <1>3, UnwindType

LEMMA ArmResultType ==
    ASSUME Inv, status = "run", nf # <<>>, NEW k, NEW ok
    PROVE  ArmResult(k, ok) \in Machine
<1>. DEFINE mm == Result(m, r1, act.id, ok /\ Holds(m, RAX, k))
<1>1. nf \in Seq(Nameframe) /\ m \in Machine /\ act.id \in Nat BY InvFacts DEF Types
<1>2. mm \in Machine BY <1>1, ResultType
<1>3. ArmResult(k, ok) = LeaveFrame(nf, mm) BY DEF ArmResult
<1>. HIDE DEF mm
<1>. QED BY <1>1, <1>2, <1>3, LeaveFrameType

LEMMA EnterFrameType ==
    ASSUME NEW mm \in Machine, NEW u \in 0 .. 14, NEW n \in Nat
    PROVE  EnterFrame(mm, u, n) \in Machine
<1>1. Enter(mm) \in Machine BY EnterType
<1>2. 1 \in Regs /\ u - 1 \in Int /\ u - 1 < regStackSz BY DEF Regs, regStackSz
<1>3. PushRange(Enter(mm), 1, u - 1) \in Machine BY <1>1, <1>2, PushRangeType
<1>. QED BY <1>3, ReserveType DEF EnterFrame

\* createFrame, then a child in the new frame.
LEMMA InFrameStep ==
    ASSUME Inv, status = "run", NEW k \in 0 .. Len(tree), NEW start \in 0 .. Word - 1,
           NEW owner \in 0 .. Len(tree),
           NEW a \in Activation, a.id = act.id, a.frames0 = act.frames0, ActOK(tree, a),
           a.pc \notin {"enter", "body", "done"}, opened(tree, a) = 1,
           NEW u \in Nat, NEW f \in Seq(Nameframe), NEW mm \in Machine,
           Len(f) = act.frames0, GenInFrame(k, start, owner, a, u, f, mm)
    PROVE  Inv'
<1>1. CASE owner = 0 \/ u > regStackSz
  <2>1. Stop("crash") BY <1>1 DEF GenInFrame
  <2>. QED BY <2>1, StopStep
<1>2. CASE ~ (owner = 0 \/ u > regStackSz)
  <2>. DEFINE n == frameWords(tree, owner)  g == OpenFrame(f, u, n)  me == EnterFrame(mm, u, n)
  <2>1. tree \in Programs BY InvFacts DEF Types
  <2>2. Len(tree) \in Nat BY <2>1, TreeFacts
  <2>3. owner \in 1 .. Len(tree) /\ u \in 0 .. 14 BY <1>2, <2>2 DEF regStackSz
  <2>4. n \in Nat BY <2>1, <2>3, FrameWordsType
  <2>5. Gen(k, a, start, g, me) BY <1>2 DEF GenInFrame
  <2>. HIDE DEF n
  <2>6. g \in Seq(Nameframe) /\ Len(g) = Len(f) + 1 BY <2>3, <2>4, OpenFrameType
  <2>7. me \in Machine BY <2>3, <2>4, EnterFrameType
  <2>. HIDE DEF g, me
  <2>8. Len(g) = a.frames0 + opened(tree, a) BY <2>6
  <2>. QED BY <2>5, <2>6, <2>7, <2>8, GenStep
<1>. QED BY <1>1, <1>2

\* An arm ends: its frame is closed and the activation ends too.
LEMMA CloseFinish ==
    ASSUME Inv, status = "run", act.id # 0, opened(tree, act) = 1,
           NEW u \in 0 .. 20, NEW mm \in Machine, Finish(u, CloseFrame(nf), mm)
    PROVE  Inv'
<1>1. nf \in Seq(Nameframe) /\ Len(nf) = act.frames0 + 1 /\ act.frames0 \in Nat
  BY InvFacts DEF Types
<1>2. nf # <<>> BY <1>1
<1>3. CloseFrame(nf) \in Seq(Nameframe) /\ Len(CloseFrame(nf)) = Len(nf) - 1
  BY <1>1, <1>2, CloseFrameType
<1>4. Len(CloseFrame(nf)) = act.frames0 BY <1>1, <1>3
<1>5. u \in 0 .. Word - 1 BY Numbers
<1>. QED BY <1>3, <1>4, <1>5, FinishStep

\* What an action inside a frame, or about to open one, knows.
LEMMA FrameFacts ==
    ASSUME Inv, NEW op, NEW p, At({op}, p)
    PROVE  /\ status = "run" /\ act.id # 0 /\ node.op = op /\ act.id \in Nat
           /\ \A i \in Nat : Kid(i) \in 0 .. Len(tree)
           /\ act.id \in 0 .. Len(tree)
           /\ used \in 0 .. Word - 1 /\ nf \in Seq(Nameframe) /\ nf # <<>> /\ m \in Machine
           /\ <<op, p>> \notin FrameOpen => opened(tree, act) = 0 /\ Len(nf) = act.frames0
           /\ <<op, p>> \in FrameOpen => opened(tree, act) = 1
           /\ ClosedUsed(nf) \in 0 .. 14
           /\ CloseFrame(nf) \in Seq(Nameframe) /\ Len(CloseFrame(nf)) = Len(nf) - 1
           /\ Less(used, 1) \in 0 .. Word - 1 /\ Less(used, 2) \in 0 .. Word - 1
           /\ 0 \in 0 .. Word - 1 /\ 1 \in 0 .. Word - 1
           /\ Word \in Nat
<1>1. /\ status = "run" /\ act.id # 0 /\ act.pc = p /\ node.op \in {op}
      /\ \A i \in Nat : Kid(i) \in 0 .. Len(tree)
      /\ act.id \in 1 .. Len(tree) /\ tree \in Programs
      /\ used \in 0 .. Word - 1 /\ nf \in Seq(Nameframe) /\ nf # <<>> /\ m \in Machine
      /\ Len(nf) = act.frames0 + opened(tree, act)
  BY AtFacts
<1>2. node.op = op BY <1>1
<1>3. act.frames0 \in Nat /\ act.id \in Nat BY <1>1, InvFacts
<1>4. Len(tree) \in Nat BY <1>1, TreeFacts
<1>a. act.id \in 1 .. Len(tree) BY <1>1
<1>b. Len(nf) = act.frames0 + opened(tree, act) BY <1>1
<1>5. act.id \in 0 .. Len(tree) BY <1>a, <1>4
<1>6. ASSUME <<op, p>> \notin FrameOpen PROVE opened(tree, act) = 0 /\ Len(nf) = act.frames0
  <2>1. opened(tree, act) = 0 BY <1>1, <1>2, <1>6 DEF opened, node
  <2>. QED BY <1>b, <1>3, <2>1
<1>7. ASSUME <<op, p>> \in FrameOpen PROVE opened(tree, act) = 1
  BY <1>1, <1>2, <1>7 DEF opened, node
<1>8. /\ ClosedUsed(nf) \in 0 .. 14
      /\ CloseFrame(nf) \in Seq(Nameframe) /\ Len(CloseFrame(nf)) = Len(nf) - 1
  BY <1>1, CloseFrameType
<1>9. Less(used, 1) \in 0 .. Word - 1 /\ Less(used, 2) \in 0 .. Word - 1
  BY <1>1, LessType
<1>10. 0 \in 0 .. Word - 1 /\ 1 \in 0 .. Word - 1 /\ Word \in Nat BY Numbers
<1>. QED BY <1>1, <1>2, <1>3, <1>5, <1>6, <1>7, <1>8, <1>9, <1>10

LEMMA Openings ==
    /\ \A op : /\ <<op, "body">> \notin FrameOpen /\ <<op, "left">> \notin FrameOpen
               /\ <<op, "args">> \notin FrameOpen /\ <<op, "push">> \notin FrameOpen
               /\ <<op, "done">> \notin FrameOpen
    /\ <<"tern", "test">> \notin FrameOpen /\ <<"qq", "test">> \notin FrameOpen
    /\ \A q \in {"then", "else"} : <<"tern", q>> \in FrameOpen
    /\ \A q \in {"test", "right"} : <<"while", q>> \in FrameOpen
    /\ <<"qq", "right">> \in FrameOpen /\ <<"func", "right">> \in FrameOpen
    /\ {"left", "right", "test", "then", "else", "args", "push"}
           \subseteq PCs \ {"enter", "body", "done"}
BY DEF FrameOpen, PCs

LEMMA TernStep == Inv /\ Tern => Inv'
<1>. DEFINE okT == Holds(m, r1, Kid(1))
            aT == Fork("then", okT, m)
            mE == ArmResult(Kid(2), act.ok)
            aE == Fork("else", act.ok, mE)
            mX == ArmResult(Kid(3), act.ok)
<1>1. ASSUME Inv, At({"tern"}, "body"), Gen(Kid(1), Resume("test"), used, nf, m)
      PROVE  Inv'
  <2>1. \A o \in {"tern"} : <<o, "body">> \notin FrameOpen /\ <<o, "test">> \notin FrameOpen
    BY Openings
  <2>2. Kid(1) \in 0 .. Len(tree) BY <1>1, FrameFacts
  <2>3. "test" \in PCs \ {"enter", "body", "done"} BY Openings
  <2>4. used \in 0 .. Word - 1 /\ nf \in Seq(Nameframe) /\ m \in Machine
    BY <1>1, FrameFacts
  <2>. DEFINE ops == {"tern"}
  <2>5. /\ Inv /\ At(ops, "body") /\ Gen(Kid(1), Resume("test"), used, nf, m)
        /\ \A o \in ops : <<o, "body">> \notin FrameOpen /\ <<o, "test">> \notin FrameOpen
    BY <1>1, <2>1
  <2>. HIDE DEF ops
  <2>. QED BY <2>2, <2>3, <2>4, <2>5, PlainGen
<1>2. ASSUME Inv, At({"tern"}, "test"),
             GenInFrame(Kid(2), 0, Kid(2), aT, Less(used, 1), nf, m)
      PROVE  Inv'
  <2>1. /\ status = "run" /\ act.id # 0 /\ node.op = "tern" /\ Kid(2) \in 0 .. Len(tree)
        /\ nf \in Seq(Nameframe) /\ m \in Machine
        /\ Less(used, 1) \in 0 .. Word - 1 /\ 0 \in 0 .. Word - 1 /\ Word \in Nat
    BY <1>2, FrameFacts
  <2>2. Len(nf) = act.frames0 BY <1>2, FrameFacts, Openings
  <2>3. okT \in BOOLEAN /\ "then" \in PCs BY Openings DEF Holds
  <2>. HIDE DEF okT
  <2>4. /\ aT \in Activation /\ aT.id = act.id /\ aT.pc = "then"
        /\ aT.frames0 = act.frames0 /\ ActOK(tree, aT)
        /\ opened(tree, aT) = IF <<node.op, "then">> \in FrameOpen THEN 1 ELSE 0
    BY <1>2, <2>1, <2>3, Forked
  <2>5. opened(tree, aT) = 1 /\ aT.pc \notin {"enter", "body", "done"}
    BY <2>1, <2>4, Openings
  <2>6. Less(used, 1) \in Nat BY <2>1
  <2>7. GenInFrame(Kid(2), 0, Kid(2), aT, Less(used, 1), nf, m) BY <1>2
  <2>. HIDE DEF aT
  <2>. QED BY <1>2, <2>1, <2>2, <2>4, <2>5, <2>6, <2>7, InFrameStep
<1>3. ASSUME Inv, At({"tern"}, "then"),
             GenInFrame(Kid(3), 0, Kid(3), aE, ClosedUsed(nf), CloseFrame(nf), act.save)
      PROVE  Inv'
  <2>1. /\ status = "run" /\ act.id # 0 /\ node.op = "tern" /\ Kid(3) \in 0 .. Len(tree)
        /\ CloseFrame(nf) \in Seq(Nameframe) /\ Len(CloseFrame(nf)) = Len(nf) - 1
        /\ ClosedUsed(nf) \in 0 .. 14 /\ 0 \in 0 .. Word - 1 /\ nf # <<>>
    BY <1>3, FrameFacts
  <2>2. opened(tree, act) = 1 BY <1>3, FrameFacts, Openings
  <2>3. Len(CloseFrame(nf)) = act.frames0 BY <1>3, <2>1, <2>2, InvFacts
  <2>4. mE \in Machine /\ act.save \in Machine /\ act.ok \in BOOLEAN /\ "else" \in PCs
    BY <1>3, <2>1, ArmResultType, RegFacts, Openings
  <2>. HIDE DEF mE
  <2>5. /\ aE \in Activation /\ aE.id = act.id /\ aE.pc = "else"
        /\ aE.frames0 = act.frames0 /\ ActOK(tree, aE)
        /\ opened(tree, aE) = IF <<node.op, "else">> \in FrameOpen THEN 1 ELSE 0
    BY <1>3, <2>1, <2>4, Forked
  <2>6. opened(tree, aE) = 1 /\ aE.pc \notin {"enter", "body", "done"}
    BY <2>1, <2>5, Openings
  <2>7. ClosedUsed(nf) \in Nat BY <2>1
  <2>8. GenInFrame(Kid(3), 0, Kid(3), aE, ClosedUsed(nf), CloseFrame(nf), act.save)
    BY <1>3
  <2>. HIDE DEF aE
  <2>. QED BY <1>3, <2>1, <2>3, <2>4, <2>5, <2>6, <2>7, <2>8, InFrameStep
<1>4. ASSUME Inv, At({"tern"}, "else"), NEW mm \in {act.save, mX},
             Finish(ClosedUsed(nf) + 1, CloseFrame(nf), mm)
      PROVE  Inv'
  <2>1. /\ status = "run" /\ act.id # 0 /\ ClosedUsed(nf) \in 0 .. 14 /\ nf # <<>>
    BY <1>4, FrameFacts
  <2>2. opened(tree, act) = 1 BY <1>4, FrameFacts, Openings
  <2>3. mX \in Machine /\ act.save \in Machine BY <1>4, <2>1, ArmResultType, RegFacts
  <2>4. mm \in Machine /\ ClosedUsed(nf) + 1 \in 0 .. 20 BY <1>4, <2>1, <2>3
  <2>. QED BY <1>4, <2>1, <2>2, <2>4, CloseFinish
<1>. SUFFICES ASSUME Inv, Tern PROVE Inv' OBVIOUS
<1>. QED BY <1>1, <1>2, <1>3, <1>4 DEF Tern

LEMMA QqStep == Inv /\ Qq => Inv'
<1>. DEFINE a == Pop(m, r1)
            mT == Result(a, r1, act.id, Holds(a, r1, Kid(1)))
            aR == Fork("right", TRUE, mT)
            mX == ArmResult(Kid(2), TRUE)
<1>1. ASSUME Inv, At({"qq"}, "body"), Gen(Kid(1), Resume("test"), used, nf, m)
      PROVE  Inv'
  <2>1. \A o \in {"qq"} : <<o, "body">> \notin FrameOpen /\ <<o, "test">> \notin FrameOpen
    BY Openings
  <2>2. Kid(1) \in 0 .. Len(tree) BY <1>1, FrameFacts
  <2>3. "test" \in PCs \ {"enter", "body", "done"} BY Openings
  <2>4. used \in 0 .. Word - 1 /\ nf \in Seq(Nameframe) /\ m \in Machine
    BY <1>1, FrameFacts
  <2>. DEFINE ops == {"qq"}
  <2>5. /\ Inv /\ At(ops, "body") /\ Gen(Kid(1), Resume("test"), used, nf, m)
        /\ \A o \in ops : <<o, "body">> \notin FrameOpen /\ <<o, "test">> \notin FrameOpen
    BY <1>1, <2>1
  <2>. HIDE DEF ops
  <2>. QED BY <2>2, <2>3, <2>4, <2>5, PlainGen
<1>2. ASSUME Inv, At({"qq"}, "test"),
             GenInFrame(Kid(2), 0, act.id, aR, Less(used, 1), Pushed(nf, -1), a)
      PROVE  Inv'
  <2>1. /\ status = "run" /\ act.id # 0 /\ node.op = "qq" /\ Kid(2) \in 0 .. Len(tree)
        /\ nf \in Seq(Nameframe) /\ m \in Machine /\ act.id \in 0 .. Len(tree)
        /\ act.id \in Nat
        /\ Less(used, 1) \in 0 .. Word - 1 /\ 0 \in 0 .. Word - 1 /\ Word \in Nat
    BY <1>2, FrameFacts
  <2>2. Len(nf) = act.frames0 BY <1>2, FrameFacts, Openings
  <2>3. a \in Machine BY <2>1, PopType
  <2>4. mT \in Machine
    <3>. HIDE DEF a
    <3>. QED BY <2>1, <2>3, ResultType
  <2>5. TRUE \in BOOLEAN /\ "right" \in PCs BY Openings
  <2>. HIDE DEF mT
  <2>6. /\ aR \in Activation /\ aR.id = act.id /\ aR.pc = "right"
        /\ aR.frames0 = act.frames0 /\ ActOK(tree, aR)
        /\ opened(tree, aR) = IF <<node.op, "right">> \in FrameOpen THEN 1 ELSE 0
    <3>1. Forking("right", TRUE, mT) BY <1>2, <2>1, <2>4, <2>5 DEF Forking
    <3>2. ForkedTo("right", aR) BY <1>2, <3>1, ForkedAt
    <3>. QED BY <3>2 DEF ForkedTo
  <2>7. opened(tree, aR) = 1 /\ aR.pc \notin {"enter", "body", "done"}
    BY <2>1, <2>6, Openings
  <2>8. Less(used, 1) \in Nat BY <2>1
  <2>9. Pushed(nf, -1) \in Seq(Nameframe) /\ Len(Pushed(nf, -1)) = act.frames0
    BY <2>1, <2>2, PushedType
  <2>10. GenInFrame(Kid(2), 0, act.id, aR, Less(used, 1), Pushed(nf, -1), a) BY <1>2
  <2>. HIDE DEF aR, a
  <2>. QED BY <1>2, <2>1, <2>3, <2>6, <2>7, <2>8, <2>9, <2>10, InFrameStep
<1>3. ASSUME Inv, At({"qq"}, "right"), NEW mm \in {act.save, mX},
             Finish(ClosedUsed(nf) + 1, CloseFrame(nf), mm)
      PROVE  Inv'
  <2>1. /\ status = "run" /\ act.id # 0 /\ ClosedUsed(nf) \in 0 .. 14 /\ nf # <<>>
    BY <1>3, FrameFacts
  <2>2. opened(tree, act) = 1 BY <1>3, FrameFacts, Openings
  <2>3. mX \in Machine /\ act.save \in Machine BY <1>3, <2>1, ArmResultType, RegFacts
  <2>a. mm \in Machine BY <1>3, <2>3
  <2>b. ClosedUsed(nf) \in 0 .. 14 BY <2>1
  <2>c. ClosedUsed(nf) + 1 \in 0 .. 20 BY <2>b
  <2>4. mm \in Machine /\ ClosedUsed(nf) + 1 \in 0 .. 20 BY <2>a, <2>c
  <2>. QED BY <1>3, <2>1, <2>2, <2>4, CloseFinish
<1>. SUFFICES ASSUME Inv, Qq PROVE Inv' OBVIOUS
<1>. QED BY <1>1, <1>2, <1>3 DEF Qq

LEMMA WhileStep == Inv /\ While => Inv'
<1>. DEFINE ok == Holds(m, RDI, Kid(1))
            aR == Fork("right", ok, m)
            out(mm) == Result(LeaveFrame(nf, mm), r1, act.id, act.ok)
<1>1. ASSUME Inv, At({"while"}, "body"),
             GenInFrame(Kid(1), 1, act.id, Resume("test"), used, nf, m)
      PROVE  Inv'
  <2>1. /\ status = "run" /\ act.id # 0 /\ node.op = "while" /\ Kid(1) \in 0 .. Len(tree)
        /\ nf \in Seq(Nameframe) /\ m \in Machine /\ act.id \in 0 .. Len(tree)
        /\ used \in 0 .. Word - 1 /\ 1 \in 0 .. Word - 1 /\ Word \in Nat
    BY <1>1, FrameFacts
  <2>2. Len(nf) = act.frames0 BY <1>1, FrameFacts, Openings
  <2>3. used \in Nat /\ "test" \in PCs BY <2>1, Openings
  <2>. DEFINE b == Resume("test")
  <2>4. /\ b \in Activation /\ b.id = act.id /\ b.pc = "test"
        /\ b.frames0 = act.frames0 /\ ActOK(tree, b)
        /\ opened(tree, b) = IF <<node.op, "test">> \in FrameOpen THEN 1 ELSE 0
    BY <1>1, <2>1, <2>3, Resumed
  <2>5. opened(tree, b) = 1 /\ b.pc \notin {"enter", "body", "done"}
    BY <2>1, <2>4, Openings
  <2>6. GenInFrame(Kid(1), 1, act.id, b, used, nf, m) BY <1>1
  <2>. HIDE DEF b
  <2>. QED BY <1>1, <2>1, <2>2, <2>3, <2>4, <2>5, <2>6, InFrameStep
<1>2. ASSUME Inv, At({"while"}, "test"), Gen(Kid(2), aR, Less(used, 2), nf, m)
      PROVE  Inv'
  <2>1. /\ status = "run" /\ act.id # 0 /\ node.op = "while" /\ Kid(2) \in 0 .. Len(tree)
        /\ nf \in Seq(Nameframe) /\ m \in Machine
        /\ Less(used, 2) \in 0 .. Word - 1
    BY <1>2, FrameFacts
  <2>2. opened(tree, act) = 1 BY <1>2, FrameFacts, Openings
  <2>3. Len(nf) = act.frames0 + 1 BY <1>2, <2>1, <2>2, InvFacts
  <2>4. ok \in BOOLEAN /\ "right" \in PCs BY Openings DEF Holds
  <2>. HIDE DEF ok
  <2>5. /\ aR \in Activation /\ aR.id = act.id /\ aR.pc = "right"
        /\ aR.frames0 = act.frames0 /\ ActOK(tree, aR)
        /\ opened(tree, aR) = IF <<node.op, "right">> \in FrameOpen THEN 1 ELSE 0
    BY <1>2, <2>1, <2>4, Forked
  <2>6. opened(tree, aR) = 1 /\ aR.pc \notin {"enter", "body", "done"}
    BY <2>1, <2>5, Openings
  <2>7. Gen(Kid(2), aR, Less(used, 2), nf, m) BY <1>2
  <2>. HIDE DEF aR
  <2>8. Len(nf) = aR.frames0 + opened(tree, aR) BY <2>3, <2>5, <2>6
  <2>. QED BY <1>2, <2>1, <2>5, <2>6, <2>7, <2>8, GenStep
<1>3. ASSUME Inv, At({"while"}, "right"), NEW mm \in {act.save, Mov(m, RDI, Junk)},
             Finish(ClosedUsed(nf), CloseFrame(nf), out(mm))
      PROVE  Inv'
  <2>1. /\ status = "run" /\ act.id # 0 /\ ClosedUsed(nf) \in 0 .. 14 /\ nf # <<>>
        /\ nf \in Seq(Nameframe) /\ m \in Machine /\ act.id \in Nat
    BY <1>3, FrameFacts
  <2>2. opened(tree, act) = 1 BY <1>3, FrameFacts, Openings
  <2>3. Mov(m, RDI, Junk) \in Machine /\ act.save \in Machine
    BY <1>3, <2>1, MovType, Tokens, RegFacts
  <2>a. mm \in Machine BY <1>3, <2>3
  <2>b. ClosedUsed(nf) \in 0 .. 14 BY <2>1
  <2>c. ClosedUsed(nf) \in 0 .. 20 BY <2>b
  <2>4. mm \in Machine /\ ClosedUsed(nf) \in 0 .. 20 BY <2>a, <2>c
  <2>5. LeaveFrame(nf, mm) \in Machine BY <2>1, <2>4, LeaveFrameType
  <2>6. out(mm) \in Machine BY <2>1, <2>5, ResultType
  <2>. HIDE DEF out
  <2>. QED BY <1>3, <2>1, <2>2, <2>4, <2>6, CloseFinish
<1>. SUFFICES ASSUME Inv, While PROVE Inv' OBVIOUS
<1>. QED BY <1>1, <1>2, <1>3 DEF While

-----------------------------------------------------------------------------
(* Functions and calls.                                                    *)

LEMMA FunctionFrameType ==
    ASSUME Inv, At({"func"}, "body")
    PROVE  /\ FunctionFrame \in Seq(Nameframe)
           /\ Len(FunctionFrame) = Len(nf) + 1
<1>1. /\ nf \in Seq(Nameframe) /\ act.id \in 1 .. Len(tree) /\ tree \in Programs
      /\ node \in Node /\ status = "run"
  BY AtFacts
<1>2. /\ params \in Seq(Names) /\ Len(params) \in Nat /\ act.id \in Nat
  BY <1>1, NodeFields, InvFacts DEF params
<1>3. frameWords(tree, act.id) \in Nat BY <1>1, FrameWordsType
<1>. DEFINE bp == (IF Len(params) > 6 THEN Len(params) - 6 ELSE 0) + 2
            off(i) == IF i <= 6 THEN -i ELSE i - 5
            v(i) == [name |-> params[i], off |-> off(i),
                     decl |-> act.id + i, slot |-> bp - off(i)]
            vs == [i \in 1 .. Len(params) |-> v(i)]
            above == MinOf(6, Len(params))
            g == createNF(TRUE, frameWords(tree, act.id), 0)
            h == [g EXCEPT !.above = above, !.vars = vs]
            p == Pushed(nf, 1)
<1>4. bp \in Int BY <1>2
<1>5. ASSUME NEW i \in 1 .. Len(params) PROVE v(i) \in VarOffset
  <2>. HIDE DEF bp
  <2>1. i \in Int /\ off(i) \in Int BY <1>2
  <2>. HIDE DEF off
  <2>2. params[i] \in Names /\ act.id + i \in Nat /\ bp - off(i) \in Int
    BY <1>2, <1>4, <2>1
  <2>. QED BY <2>1, <2>2 DEF VarOffset
<1>6. vs \in Seq(VarOffset)
  <2>. HIDE DEF v
  <2>. QED BY <1>2, <1>5
<1>7. above \in Nat BY <1>2 DEF MinOf
<1>8. g \in Nameframe BY <1>3 DEF createNF, Nameframe, regStackSz
<1>9. h \in Nameframe
  <2>. HIDE DEF g, above, vs
  <2>. QED BY <1>6, <1>7, <1>8, FrameFields
<1>10. p \in Seq(Nameframe) /\ Len(p) = Len(nf) BY <1>1, PushedType
<1>11. FunctionFrame = Append(p, h) BY DEF FunctionFrame
<1>. HIDE DEF p, h
<1>12. Append(p, h) \in Seq(Nameframe) /\ Len(Append(p, h)) = Len(p) + 1
  BY <1>9, <1>10, AppendLast
<1>. QED BY <1>10, <1>11, <1>12

LEMMA FunctionEntryType ==
    ASSUME Inv, At({"func"}, "body"), NEW f \in Seq(Nameframe), f # <<>>
    PROVE  FunctionEntry(f) \in Machine
<1>1. node \in Node /\ status = "run" BY AtFacts
<1>2. Len(params) \in Nat /\ act.id \in Nat BY <1>1, NodeFields, InvFacts DEF params
<1>. DEFINE k == IF Len(params) > 6 THEN Len(params) - 6 ELSE 0
            arg(i) == Slot(act.id + Len(params) + 1 - i)
            given == [i \in 1 .. k |-> arg(i)]
            called == [Blank EXCEPT !.stk = Append(given, Ret)]
            entered == Enter(called)
            n == f[Len(f)].nSub
            inside == Reserve(entered, n)
            word(d) == IF d - inside.bp \in 1 .. MinOf(6, Len(params))
                         THEN Slot(act.id + d - inside.bp) ELSE inside.stk[d]
            stk == [d \in 1 .. Len(inside.stk) |-> word(d)]
<1>3. k \in 0 .. Len(params) BY <1>2
<1>4. ASSUME NEW i \in 1 .. k PROVE arg(i) \in Token
  <2>. HIDE DEF k
  <2>1. act.id + Len(params) + 1 - i \in Nat BY <1>2, <1>3
  <2>. QED BY <2>1, Tokens
<1>5. given \in Seq(Token)
  <2>. HIDE DEF k, arg
  <2>. QED BY <1>2, <1>3, <1>4
<1>6. Append(given, Ret) \in Seq(Token)
  <2>. HIDE DEF given
  <2>. QED BY <1>5, AppendLast, Tokens
<1>7. called \in Machine
  <2>. DEFINE s == Append(given, Ret)
  <2>1. s \in Seq(Token) /\ 0 \in Nat BY <1>6
  <2>. HIDE DEF s
  <2>2. [Blank EXCEPT !.stk = s] \in Machine BY <2>1, BlankType, WithStack
  <2>. QED BY <2>2 DEF s
<1>8. n \in Nat
  <2>1. f[Len(f)] \in Nameframe BY LastFrame
  <2>. QED BY <2>1, FrameFields
<1>9. inside \in Machine
  <2>. HIDE DEF called, n
  <2>1. entered \in Machine BY <1>7, EnterType
  <2>. HIDE DEF entered
  <2>. QED BY <1>8, <2>1, ReserveType
<1>10. inside.bp \in Nat /\ inside.stk \in Seq(Token) BY <1>9 DEF Machine
<1>11. ASSUME NEW d \in 1 .. Len(inside.stk) PROVE word(d) \in Token
  <2>. HIDE DEF inside
  <2>1. CASE d - inside.bp \in 1 .. MinOf(6, Len(params))
    <3>1. d \in Int /\ act.id + d - inside.bp \in Nat BY <1>2, <1>10, <2>1 DEF MinOf
    <3>2. Slot(act.id + d - inside.bp) \in Token BY <3>1, Tokens
    <3>. QED BY <2>1, <3>2
  <2>2. CASE ~ (d - inside.bp \in 1 .. MinOf(6, Len(params)))
    <3>1. inside.stk[d] \in Token BY <1>10
    <3>. QED BY <2>2, <3>1
  <2>. QED BY <2>1, <2>2
<1>12. stk \in Seq(Token)
  <2>. HIDE DEF word, inside
  <2>. QED BY <1>10, <1>11
<1>13. FunctionEntry(f) = [inside EXCEPT !.stk = stk] BY DEF FunctionEntry
<1>. HIDE DEF inside, stk
<1>14. 0 \in Nat OBVIOUS
<1>. QED BY <1>9, <1>12, <1>13, <1>14, WithStack

LEMMA FuncStep == Inv /\ Func => Inv'
<1>. DEFINE aR == Fork("right", TRUE, m)
            returns == Top(Unwind(m)) = Ret /\ Holds(m, RAX, Kid(1))
            mm == Result(act.save, r1, act.id, returns)
<1>1. ASSUME Inv, At({"func"}, "body"),
             Gen(Kid(1), aR, used, FunctionFrame, FunctionEntry(FunctionFrame))
      PROVE  Inv'
  <2>1. /\ status = "run" /\ act.id # 0 /\ node.op = "func" /\ Kid(1) \in 0 .. Len(tree)
        /\ nf \in Seq(Nameframe) /\ m \in Machine /\ used \in 0 .. Word - 1
    BY <1>1, FrameFacts
  <2>2. Len(nf) = act.frames0 BY <1>1, FrameFacts, Openings
  <2>. DEFINE f == FunctionFrame  me == FunctionEntry(FunctionFrame)
  <2>3. f \in Seq(Nameframe) /\ Len(f) = Len(nf) + 1 BY <1>1, FunctionFrameType
  <2>4. f # <<>>
    <3>. HIDE DEF f
    <3>1. Len(nf) \in Nat BY <2>1
    <3>. QED BY <2>3, <3>1
  <2>5. me \in Machine BY <1>1, <2>3, <2>4, FunctionEntryType
  <2>6. TRUE \in BOOLEAN /\ "right" \in PCs BY Openings
  <2>7. /\ aR \in Activation /\ aR.id = act.id /\ aR.pc = "right"
        /\ aR.frames0 = act.frames0 /\ ActOK(tree, aR)
        /\ opened(tree, aR) = IF <<node.op, "right">> \in FrameOpen THEN 1 ELSE 0
    <3>1. Forking("right", TRUE, m) BY <1>1, <2>1, <2>6 DEF Forking
    <3>2. ForkedTo("right", aR) BY <1>1, <3>1, ForkedAt
    <3>. QED BY <3>2 DEF ForkedTo
  <2>8. opened(tree, aR) = 1 /\ aR.pc \notin {"enter", "body", "done"}
    BY <2>1, <2>7, Openings
  <2>9. Gen(Kid(1), aR, used, f, me) BY <1>1
  <2>. HIDE DEF aR, f, me
  <2>10. Len(f) = aR.frames0 + opened(tree, aR) BY <2>2, <2>3, <2>7, <2>8
  <2>. QED BY <1>1, <2>1, <2>3, <2>5, <2>7, <2>8, <2>9, <2>10, GenStep
<1>2. ASSUME Inv, At({"func"}, "right"), Finish(1, CloseFrame(nf), mm)
      PROVE  Inv'
  <2>1. status = "run" /\ act.id # 0 /\ act.id \in Nat BY <1>2, FrameFacts
  <2>2. opened(tree, act) = 1 BY <1>2, FrameFacts, Openings
  <2>3. act.save \in Machine BY <1>2, <2>1, RegFacts
  <2>4. mm \in Machine BY <2>1, <2>3, ResultType
  <2>. HIDE DEF mm
  <2>5. 1 \in 0 .. 20 OBVIOUS
  <2>. QED BY <1>2, <2>1, <2>2, <2>4, <2>5, CloseFinish
<1>. SUFFICES ASSUME Inv, Func PROVE Inv' OBVIOUS
<1>. QED BY <1>1, <1>2 DEF Func

LEMMA CallCodeType ==
    ASSUME Inv, At({"call"}, "args")
    PROVE  CallCode \in Machine /\ InRegs \in Nat
<1>1. /\ node \in Node /\ m \in Machine /\ status = "run" BY AtFacts
<1>2. /\ Len(Args) \in Nat /\ act.id \in Nat /\ RAX \in Regs /\ r1 \in Regs
      /\ r1 \in 0 .. 10
  BY <1>1, NodeFields, InvFacts, RegFacts, NamedRegs DEF Args
<1>3. InRegs \in Nat BY <1>2 DEF InRegs, MinOf
<1>. DEFINE a == PopUp(m, 1, InRegs)
            b0 == Clobber(a, Regs)
            b1 == Result(b0, RAX, act.id, ArgsInPlace(a))
            b == MovRR(b1, r1, RAX)
            c == IF Len(Args) > 6 THEN Drop(b, Len(Args) - 6) ELSE b
            d == PopRange(c, 1, r1)
<1>4. a \in Machine
  <2>1. 1 \in Int /\ InRegs \in Int /\ InRegs >= 1 - 1 BY <1>3
  <2>. QED BY <1>1, <2>1, PopUpType
<1>5. b0 \in Machine
  <2>. HIDE DEF a
  <2>. QED BY <1>4, ClobberType
<1>6. b1 \in Machine
  <2>. HIDE DEF a, b0
  <2>. QED BY <1>2, <1>5, ResultType
<1>7. b \in Machine
  <2>. HIDE DEF b1
  <2>. QED BY <1>2, <1>6, MovRRType
<1>8. c \in Machine
  <2>. HIDE DEF b
  <2>1. CASE Len(Args) > 6
    <3>1. Len(Args) - 6 \in Nat BY <1>2, <2>1
    <3>2. Drop(b, Len(Args) - 6) \in Machine BY <1>7, <3>1, DropType
    <3>. QED BY <2>1, <3>2
  <2>2. CASE ~ (Len(Args) > 6) BY <1>7, <2>2
  <2>. QED BY <2>1, <2>2
<1>9. d \in Machine
  <2>. HIDE DEF c
  <2>1. 1 \in Int /\ r1 \in Int /\ r1 >= 1 - 1 BY <1>2
  <2>. QED BY <1>8, <2>1, PopRangeType
<1>10. CallCode = d BY DEF CallCode
<1>. QED BY <1>3, <1>9, <1>10

\* The activation of a call, with the arguments it has still to evaluate.
LEMMA Counting ==
    ASSUME Inv, status = "run", act.id # 0, NEW p \in {"args", "push"},
           NEW n \in Nat, n <= Len(node.kids), NEW a,
           a = [Resume(p) EXCEPT !.argsLeft = n], node.op = "call"
    PROVE  /\ a \in Activation /\ a.id = act.id /\ a.pc = p
           /\ a.frames0 = act.frames0 /\ ActOK(tree, a) /\ opened(tree, a) = 0
<1>. DEFINE b == Resume(p)
<1>1. p \in PCs BY DEF PCs
<1>2. /\ b \in Activation /\ b.id = act.id /\ b.pc = p /\ b.frames0 = act.frames0
  BY <1>1, Resumed
<1>3. a = [b EXCEPT !.argsLeft = n] OBVIOUS
<1>. HIDE DEF b
<1>4. /\ a \in Activation /\ a.id = b.id /\ a.pc = b.pc /\ a.frames0 = b.frames0
      /\ a.argsLeft = n
  BY <1>2, <1>3 DEF Activation
<1>5. ActOK(tree, act) BY InvFacts
<1>6. ActOK(tree, a) BY <1>2, <1>4, <1>5 DEF ActOK, node
<1>7. opened(tree, a) = 0 BY <1>2, <1>4 DEF opened, FrameOpen, node
<1>. QED BY <1>2, <1>4, <1>6, <1>7

LEMMA CallStep == Inv /\ Call => Inv'
<1>. DEFINE a0 == [Resume("args") EXCEPT !.argsLeft = Len(Args)]
            aP == [Resume("push") EXCEPT !.argsLeft = @ - 1]
            aA == Resume("args")
<1>1. ASSUME Inv, At({"call"}, "body"),
             Live([acts EXCEPT ![Len(acts)] = a0], 0, Pushed(nf, r1), PushRange(m, 0, r1 - 1))
      PROVE  Inv'
  <2>1. /\ status = "run" /\ act.id # 0 /\ node.op = "call"
        /\ nf \in Seq(Nameframe) /\ m \in Machine /\ 0 \in 0 .. Word - 1
    BY <1>1, FrameFacts
  <2>2. Len(nf) = act.frames0 BY <1>1, FrameFacts, Openings
  <2>3. node \in Node BY <1>1, AtFacts
  <2>4. Len(Args) \in Nat /\ Len(Args) <= Len(node.kids) BY <2>3, NodeFields DEF Args
  <2>5. /\ a0 \in Activation /\ a0.id = act.id /\ a0.pc = "args"
        /\ a0.frames0 = act.frames0 /\ ActOK(tree, a0) /\ opened(tree, a0) = 0
    BY <1>1, <2>1, <2>4, Counting
  <2>6. r1 \in 0 .. 10 BY <1>1, <2>1, RegFacts
  <2>. DEFINE f == Pushed(nf, r1)  mm == PushRange(m, 0, r1 - 1)
  <2>7. f \in Seq(Nameframe) /\ Len(f) = Len(nf) BY <2>1, <2>6, PushedType
  <2>8. mm \in Machine
    <3>1. 0 \in Regs /\ r1 - 1 \in Int /\ r1 - 1 < regStackSz
      BY <2>6 DEF Regs, regStackSz
    <3>. QED BY <2>1, <3>1, PushRangeType
  <2>9. Live([acts EXCEPT ![Len(acts)] = a0], 0, f, mm) BY <1>1
  <2>. HIDE DEF a0, f, mm
  <2>10. act.frames0 \in Nat BY <1>1, <2>1, InvFacts
  <2>11. Len(f) = a0.frames0 + opened(tree, a0) /\ a0.pc # "body"
    BY <2>2, <2>5, <2>7, <2>10
  <2>. QED BY <1>1, <2>1, <2>5, <2>7, <2>8, <2>9, <2>11, StayStep
<1>2. ASSUME Inv, At({"call"}, "args"), act.argsLeft > 0,
             Gen(Args[act.argsLeft], aP, used, nf, m)
      PROVE  Inv'
  <2>1. /\ status = "run" /\ act.id # 0 /\ node.op = "call"
        /\ nf \in Seq(Nameframe) /\ m \in Machine /\ used \in 0 .. Word - 1
    BY <1>2, FrameFacts
  <2>2. Len(nf) = act.frames0 BY <1>2, FrameFacts, Openings
  <2>3. node \in Node /\ tree \in Programs /\ act.id \in 1 .. Len(tree) BY <1>2, AtFacts
  <2>4. Len(node.kids) \in Nat BY <2>3, NodeFields
  <2>5. /\ act \in Activation /\ ActOK(tree, act) /\ act.frames0 \in Nat
    BY <1>2, <2>1, InvFacts
  <2>6. act.argsLeft \in Nat /\ act.argsLeft <= Len(node.kids)
    BY <2>1, <2>5 DEF Activation, ActOK, node
  <2>. DEFINE n == act.argsLeft
  <2>7. n \in 1 .. Len(node.kids) BY <1>2, <2>4, <2>6
  <2>8. Args[n] \in 0 .. Len(tree)
    BY <2>3, <2>7, TreeFacts DEF Args, node
  <2>9. "push" \in PCs BY Openings
  <2>10. Resume("push").argsLeft = n BY <1>2, <2>1, <2>9, Resumed
  <2>11. aP = [Resume("push") EXCEPT !.argsLeft = n - 1] BY <2>10
  <2>12. Gen(Args[n], aP, used, nf, m) BY <1>2
  <2>. HIDE DEF aP, n
  <2>13. n - 1 \in Nat /\ n - 1 <= Len(node.kids) BY <2>4, <2>7
  <2>14. /\ aP \in Activation /\ aP.id = act.id /\ aP.pc = "push"
         /\ aP.frames0 = act.frames0 /\ ActOK(tree, aP) /\ opened(tree, aP) = 0
    BY <1>2, <2>1, <2>11, <2>13, Counting
  <2>15. /\ Len(nf) = aP.frames0 + opened(tree, aP)
         /\ aP.pc \notin {"enter", "body", "done"}
    BY <2>2, <2>5, <2>14
  <2>. QED BY <1>2, <2>1, <2>8, <2>12, <2>14, <2>15, GenStep
<1>3. ASSUME Inv, At({"call"}, "push"), Less(used, 1) \in Regs,
             Live([acts EXCEPT ![Len(acts)] = aA], Less(used, 1),
                  Pushed(nf, 1), Push(m, Less(used, 1)))
      PROVE  Inv'
  <2>1. /\ status = "run" /\ act.id # 0 /\ node.op = "call"
        /\ nf \in Seq(Nameframe) /\ m \in Machine /\ Less(used, 1) \in 0 .. Word - 1
    BY <1>3, FrameFacts
  <2>2. Len(nf) = act.frames0 BY <1>3, FrameFacts, Openings
  <2>3. "args" \in PCs BY Openings
  <2>4. /\ aA \in Activation /\ aA.id = act.id /\ aA.pc = "args"
        /\ aA.frames0 = act.frames0 /\ ActOK(tree, aA)
        /\ opened(tree, aA) = IF <<node.op, "args">> \in FrameOpen THEN 1 ELSE 0
    BY <1>3, <2>1, <2>3, Resumed
  <2>5. opened(tree, aA) = 0 BY <2>4, Openings
  <2>. DEFINE f == Pushed(nf, 1)  mm == Push(m, Less(used, 1))
  <2>6. f \in Seq(Nameframe) /\ Len(f) = Len(nf) BY <2>1, PushedType
  <2>7. mm \in Machine BY <1>3, <2>1, PushType
  <2>8. Live([acts EXCEPT ![Len(acts)] = aA], Less(used, 1), f, mm) BY <1>3
  <2>9. act.frames0 \in Nat BY <1>3, <2>1, InvFacts
  <2>. HIDE DEF aA, f, mm
  <2>10. Len(f) = aA.frames0 + opened(tree, aA) /\ aA.pc # "body"
    BY <2>2, <2>4, <2>5, <2>6, <2>9
  <2>. QED BY <1>3, <2>1, <2>4, <2>6, <2>7, <2>8, <2>10, StayStep
<1>4. ASSUME Inv, At({"call"}, "args"),
             Finish(r1 + 1, Pushed(nf, -(InRegs + r1)), CallCode)
      PROVE  Inv'
  <2>1. /\ status = "run" /\ act.id # 0 /\ nf \in Seq(Nameframe) BY <1>4, FrameFacts
  <2>2. CallCode \in Machine /\ InRegs \in Nat BY <1>4, CallCodeType
  <2>3. r1 \in 0 .. 10 BY <1>4, <2>1, RegFacts
  <2>. DEFINE k == -(InRegs + r1)
  <2>4. k \in Int BY <2>2, <2>3
  <2>. HIDE DEF k
  <2>5. Pushed(nf, k) \in Seq(Nameframe) /\ Len(Pushed(nf, k)) = Len(nf)
    BY <2>1, <2>4, PushedType
  <2>6. r1 + 1 \in 0 .. 20 BY <2>3
  <2>7. r1 + 1 \in 0 .. Word - 1 BY <2>6, Numbers
  <2>8. \A o \in {"call"} : <<o, "args">> \notin FrameOpen BY Openings
  <2>9. Finish(r1 + 1, Pushed(nf, k), CallCode) BY <1>4 DEF k
  <2>. QED BY <1>4, <2>2, <2>5, <2>7, <2>8, <2>9, PlainFinish
<1>5. ASSUME Inv, Stop("crash") PROVE Inv' BY <1>5, StopStep
<1>. SUFFICES ASSUME Inv, Call PROVE Inv' OBVIOUS
<1>. QED BY <1>1, <1>2, <1>3, <1>4, <1>5 DEF Call

-----------------------------------------------------------------------------
(* The invariant holds at the start and every step keeps it.               *)

LEMMA InitInv == Init => Inv
<1>. SUFFICES ASSUME Init PROVE Inv OBVIOUS
<1>. DEFINE w == frameWords(tree, 1)  g == createNF(TRUE, w, 0)  a == NewAct(1, 0, m, nf)
<1>1. /\ tree \in Programs /\ status = "run" /\ used = 0 /\ nf = <<g>>
      /\ m = Reserve(Enter(Blank), w) /\ acts = <<a>>
  BY DEF Init
<1>2. Len(tree) \in Nat /\ 1 \in 1 .. Len(tree) /\ tree[1] \in Node BY <1>1, TreeFacts
<1>3. w \in Nat BY <1>1, <1>2, FrameWordsType
<1>4. g \in Nameframe
  <2>. HIDE DEF w
  <2>. QED BY <1>3 DEF createNF, Nameframe, regStackSz
<1>5. m \in Machine
  <2>. HIDE DEF w
  <2>1. Enter(Blank) \in Machine BY BlankType, EnterType
  <2>. QED BY <1>1, <1>3, <2>1, ReserveType
<1>6. nf \in Seq(Nameframe) /\ Len(nf) = 1
  <2>. HIDE DEF g
  <2>. QED BY <1>1, <1>4
<1>7. /\ a \in Activation /\ a.id = 1 /\ a.pc = "enter" /\ a.frames0 = 1
      /\ a.argsLeft = 0
  <2>1. m.stk \in Seq(Token) BY <1>5 DEF Machine
  <2>2. Len(m.stk) \in Nat BY <2>1
  <2>3. 0 \in Regs /\ 0 \in 0 .. regStackSz - 4 /\ "enter" \in PCs
    BY DEF Regs, regStackSz, PCs
  <2>. QED BY <1>6, <2>2, <2>3, BlankType DEF NewAct, Activation
<1>. HIDE DEF a
<1>8. acts \in Seq(Activation) /\ Len(acts) = 1 /\ act = a /\ acts # <<>>
  BY <1>1, <1>7 DEF act
<1>9. Types
  <2>1. used = 0 /\ tree \in Programs /\ status = "run" BY <1>1
  <2>2. used \in 0 .. Word - 1 BY <2>1, Numbers
  <2>. QED BY <1>5, <1>6, <1>8, <2>1, <2>2 DEF Types
<1>10. ActOK(tree, a)
  <2>0. Len(tree) \in Nat /\ tree[1] \in Node BY <1>2
  <2>1. Len(tree[1].kids) \in Nat BY <1>2, NodeFields
  <2>a. 1 \in 1 .. Len(tree) BY <1>2
  <2>2. 1 \in 0 .. Len(tree) /\ 0 <= Len(tree[1].kids) BY <2>0, <2>1, <2>a
  <2>. QED BY <1>7, <2>2 DEF ActOK
<1>11. ASSUME NEW j \in 1 .. Len(acts) PROVE ActOK(tree, acts[j])
  <2>1. j = 1 BY <1>8
  <2>2. acts[j] = a BY <1>1, <2>1
  <2>. QED BY <1>10, <2>2
<1>12. opened(tree, a) = 0 BY <1>7 DEF opened, FrameOpen
<1>13. Len(nf) = act.frames0 + opened(tree, act) /\ act.pc # "body"
  BY <1>6, <1>7, <1>8, <1>12
<1>14. 1 .. Len(acts) - 1 = {} BY <1>8
<1>. QED BY <1>8, <1>9, <1>11, <1>13, <1>14 DEF Inv

LEMMA NextInv == Inv /\ [Next]_vars => Inv'
<1>. SUFFICES ASSUME Inv, [Next]_vars PROVE Inv' OBVIOUS
<1>1. CASE UNCHANGED vars
  BY <1>1 DEF vars, Inv, Types, act
<1>2. CASE Stopped BY <1>1, <1>2 DEF Stopped
<1>3. CASE Step
  BY <1>3, GenNullStep, BeginStep, SpillStep, ReturnStep, ExitStep, EvalLeftStep,
     EvalRightStep, CaseBinaryStep, CaseShiftStep, CaseDivModStep,
     EvalOperandStep, CaseUnaryStep, CaseOutStep, CaseLeafStep,
     CaseUnsupportedStep, EndlStep, TernStep, QqStep, LogicStep, WhileStep,
     FuncStep, CallStep
  DEF Step
<1>. QED BY <1>1, <1>2, <1>3 DEF Next

LEMMA SpecInv == Spec => []Inv
BY InitInv, NextInv, PTL DEF Spec

LEMMA InvTypeOK == Inv => TypeOK
<1>. SUFFICES ASSUME Inv PROVE TypeOK OBVIOUS
<1>1. Types BY DEF Inv
<1>2. tree \in Seq(Node) BY <1>1, TreeFacts DEF Types
<1>. QED BY <1>1, <1>2 DEF Types, TypeOK

LEMMA InvFramesBalanced == Inv => FramesBalanced
<1>. SUFFICES ASSUME Inv, Returning PROVE Len(nf) = act.frames0 BY DEF FramesBalanced
<1>1. status = "run" /\ act.pc = "done" BY DEF Returning, pc
<1>2. opened(tree, act) = 0 BY <1>1 DEF opened, FrameOpen
<1>. QED BY <1>1, <1>2, InvFacts

\* Whatever tree it is given, the code generator keeps regStackUsed an
\* unsigned int, indexes regStack inside its bounds when it chooses r1, and
\* every frame and activation it makes is well formed.
THEOREM TypeCorrect == Spec => []TypeOK
BY SpecInv, InvTypeOK, PTL

\* Whatever tree it is given, codeGen returns with exactly the frames open
\* that were open when it was called: every createFrame meets its closeFrame
\* (Backend.cpp:595-651), on every path, also when a child spilled, returned
\* early or failed to be generated.
THEOREM FramesAlwaysBalanced == Spec => []FramesBalanced
BY SpecInv, InvFramesBalanced, PTL

-----------------------------------------------------------------------------
(* The registers in use, for a program that has a shape.                   *)

\* Where an activation waits for one of its operands, and for which one.
Waiting == {"left", "right", "test", "then", "else", "push"}

Operand(t, a) ==
    CASE a.pc \in {"left", "test"} -> 1
      [] a.pc = "right" -> IF t[a.id].op \in OneOperand \union {"func"} THEN 1 ELSE 2
      [] a.pc = "then" -> 2
      [] a.pc = "else" -> 3
      [] OTHER -> a.argsLeft + 1

\* The register the code of node i leaves its value in.
Kept(s, i) == IF i = 0 THEN 1 ELSE IF s.one[i] THEN 1 ELSE 0

\* The registers in use when activation a goes on.
InUse(t, s, a) ==
    CASE a.pc \in {"enter", "body"} -> a.used0
      [] a.pc = "done" -> a.used0 + Kept(s, a.id)
      [] a.pc = "args" -> 0
      [] OTHER -> Start(t[a.id].op, a.used0, Operand(t, a))
                    + Kept(s, Child(t, a.id, Operand(t, a)))

ActBook(t, s, a) ==
    /\ a.used0 \in 0 .. 12
    /\ a.id # 0 => a.used0 = s.dep[a.id] /\ (a.pc # "enter" => a.r1 = a.used0)
    /\ a.id # 0 /\ t[a.id].op = "endl" /\ a.pc = "right" => Child(t, a.id, 2) # 0
    /\ a.id # 0 /\ a.pc = "push" => t[a.id].op = "call" /\ a.argsLeft + 1 <= Len(t[a.id].kids)

\* A frame remembers the registers in use where it was opened.
Saves(t, a)        == opened(t, a) = 1 /\ t[a.id].op # "func"
FrameBook(t, f, a) == Saves(t, a) => f[a.frames0 + 1].regSaved = a.used0

\* Activation c works on the operand that activation a waits for.
Serves(t, a, c) ==
    /\ a.pc \in Waiting
    /\ c.id = Child(t, a.id, Operand(t, a))
    /\ c.used0 = Start(t[a.id].op, a.used0, Operand(t, a))

Book(s) ==
    /\ \A j \in 1 .. Len(acts) : ActBook(tree, s, acts[j]) /\ FrameBook(tree, nf, acts[j])
    /\ \A j \in 1 .. Len(acts) - 1 : Serves(tree, acts[j], acts[j + 1])
    /\ \A j \in 1 .. Len(acts) : \A i \in 1 .. j - 1 :
          acts[i].frames0 + opened(tree, acts[i]) <= acts[j].frames0
    /\ status = "run" => used = InUse(tree, s, act)
    /\ status \notin {"assert", "crash"}

RegInv == Inv /\ \E s \in Annotations(tree) : Shaped(tree, s) /\ Book(s)

-----------------------------------------------------------------------------
(* What the books say where a step is taken.                               *)

LEMMA ShapeFacts ==
    ASSUME tree \in Programs, NEW s, Shaped(tree, s), NEW i \in 1 .. Len(tree)
    PROVE  /\ NodeShaped(tree, s, i) /\ s.dep[i] \in 0 .. 10 /\ s.one[i] \in BOOLEAN
           /\ \A k : Child(tree, i, k) = KidOf(i, k)
           /\ \A k \in Nat : Child(tree, i, k) \in 0 .. Len(tree)
<1>1. tree \in Seq(Node) /\ i \in DOMAIN tree BY TreeFacts
<1>2. NodeShaped(tree, s, i) BY <1>1 DEF Shaped
<1>3. s \in Annotations(tree) BY DEF Shaped
<1>4. s.dep[i] \in 0 .. 10 /\ s.one[i] \in BOOLEAN BY <1>3 DEF Annotations, regStackSz
<1>5. \A k : Child(tree, i, k) = KidOf(i, k) BY DEF KidOf
<1>6. \A k \in Nat : KidOf(i, k) \in 0 .. Len(tree) BY TreeFacts
<1>. QED BY <1>2, <1>4, <1>5, <1>6

LEMMA KeptType ==
    ASSUME tree \in Programs, NEW s, Shaped(tree, s), NEW i \in 0 .. Len(tree)
    PROVE  Kept(s, i) \in {0, 1} /\ (i = 0 \/ s.one[i] => Kept(s, i) = 1)
BY DEF Kept

LEMMA BookFacts ==
    ASSUME Inv, NEW s, Book(s), status = "run"
    PROVE  /\ ActBook(tree, s, act) /\ FrameBook(tree, nf, act)
           /\ used = InUse(tree, s, act) /\ act.used0 \in 0 .. 12
<1>1. Len(acts) \in 1 .. Len(acts) BY InvFacts
<1>2. ActBook(tree, s, acts[Len(acts)]) /\ FrameBook(tree, nf, acts[Len(acts)])
  BY <1>1 DEF Book
<1>. QED BY <1>2 DEF Book, act, ActBook

\* The name frames below the innermost activation are what they were.
Deep(f) == \A i \in 1 .. act.frames0 : f[i].regSaved = nf[i].regSaved

LEMMA BelowKept ==
    ASSUME Inv, NEW s, Book(s), status = "run", NEW f, Deep(f),
           NEW j \in 1 .. Len(acts) - 1
    PROVE  FrameBook(tree, f, acts[j])
<1>1. j \in 1 .. Len(acts) /\ Len(acts) \in Nat \ {0} BY InvFacts
<1>2. FrameBook(tree, nf, acts[j]) BY <1>1 DEF Book
<1>3. acts[j].frames0 + opened(tree, acts[j]) <= act.frames0
  <2>1. Len(acts) \in 1 .. Len(acts) /\ j \in 1 .. Len(acts) - 1 BY <1>1
  <2>. QED BY <2>1 DEF Book, act
<1>4. acts[j].frames0 \in Nat
  <2>1. acts \in Seq(Activation) BY InvFacts DEF Types
  <2>2. acts[j] \in Activation BY <1>1, <2>1
  <2>. QED BY <2>2 DEF Activation
<1>5. act.frames0 \in Nat BY InvFacts
<1>6. SUFFICES ASSUME Saves(tree, acts[j])
               PROVE  f[acts[j].frames0 + 1].regSaved = acts[j].used0
  BY DEF FrameBook
<1>7. acts[j].frames0 + 1 \in 1 .. act.frames0 BY <1>3, <1>4, <1>5, <1>6 DEF Saves
<1>. QED BY <1>2, <1>6, <1>7 DEF FrameBook, Deep

LEMMA BookStay ==
    ASSUME Inv, NEW s, Book(s), status = "run",
           NEW b \in Activation, b.id = act.id, b.frames0 = act.frames0,
           b.used0 = act.used0, ActBook(tree, s, b),
           NEW f, Deep(f), FrameBook(tree, f, b),
           NEW u, u = InUse(tree, s, b), NEW mm,
           Live([acts EXCEPT ![Len(acts)] = b], u, f, mm)
    PROVE  Book(s)'
<1>. DEFINE n == Len(acts)  as == [acts EXCEPT ![Len(acts)] = b]
<1>1. acts \in Seq(Activation) /\ acts # <<>> /\ n \in Nat \ {0} BY InvFacts DEF Types
<1>2. /\ Len(as) = n /\ as[n] = b
      /\ \A j \in 1 .. n - 1 : as[j] = acts[j]
  BY <1>1
<1>3. acts' = as /\ used' = u /\ nf' = f /\ tree' = tree /\ status' = status
  BY DEF Live
<1>. HIDE DEF as
<1>4. ASSUME NEW j \in 1 .. n PROVE ActBook(tree, s, as[j]) /\ FrameBook(tree, f, as[j])
  <2>1. CASE j = n BY <1>2, <2>1
  <2>2. CASE j # n
    <3>1. j \in 1 .. n - 1 BY <1>1, <2>2
    <3>2. FrameBook(tree, f, acts[j]) BY <3>1, BelowKept
    <3>. QED BY <1>2, <3>1, <3>2 DEF Book
  <2>. QED BY <2>1, <2>2
<1>5. ASSUME NEW j \in 1 .. n
      PROVE  as[j].id = acts[j].id /\ as[j].used0 = acts[j].used0
             /\ as[j].frames0 = acts[j].frames0
  <2>1. CASE j = n BY <1>2, <2>1 DEF act
  <2>2. CASE j # n
    <3>1. j \in 1 .. n - 1 BY <1>1, <2>2
    <3>. QED BY <1>2, <3>1
  <2>. QED BY <2>1, <2>2
<1>6. ASSUME NEW j \in 1 .. n - 1 PROVE Serves(tree, as[j], as[j + 1])
  <2>1. j + 1 \in 1 .. n BY <1>1
  <2>2. Serves(tree, acts[j], acts[j + 1]) BY DEF Book
  <2>. QED BY <1>2, <1>5, <2>1, <2>2 DEF Serves
<1>7. ASSUME NEW j \in 1 .. n, NEW i \in 1 .. j - 1
      PROVE  as[i].frames0 + opened(tree, as[i]) <= as[j].frames0
  <2>1. i \in 1 .. n - 1 BY <1>1
  <2>2. acts[i].frames0 + opened(tree, acts[i]) <= acts[j].frames0 BY DEF Book
  <2>. QED BY <1>2, <1>5, <2>1, <2>2
<1>8. act' = b BY <1>2, <1>3 DEF act
<1>. QED BY <1>2, <1>3, <1>4, <1>6, <1>7, <1>8 DEF Book

LEMMA NotAbove ==
    /\ \A x, y : x = y /\ y \in Nat => x <= y
    /\ \A x, y, z \in Nat : x <= y /\ y <= z => x <= z
OBVIOUS

LEMMA BookGen ==
    ASSUME Inv, NEW s, Shaped(tree, s), Book(s), status = "run",
           NEW a \in Activation, a.id = act.id, a.id # 0, a.frames0 = act.frames0,
           a.used0 = act.used0, ActBook(tree, s, a), a.pc \in Waiting,
           NEW k \in 0 .. Len(tree), k = Child(tree, a.id, Operand(tree, a)),
           NEW u \in 0 .. 12, u = Start(tree[a.id].op, a.used0, Operand(tree, a)),
           k # 0 => u = s.dep[k],
           NEW f \in Seq(Nameframe), Deep(f), FrameBook(tree, f, a),
           Len(f) = a.frames0 + opened(tree, a),
           NEW mm, Gen(k, a, u, f, mm)
    PROVE  Book(s)'
<1>. DEFINE n == Len(acts)
            c == NewAct(k, u, mm, f)
            low == [acts EXCEPT ![Len(acts)] = a]
            as == Append(low, c)
<1>1. acts \in Seq(Activation) /\ acts # <<>> /\ n \in Nat \ {0} BY InvFacts DEF Types
<1>2. c.id = k /\ c.pc = "enter" /\ c.frames0 = Len(f) /\ c.used0 = u BY DEF NewAct
<1>3. /\ low \in Seq(Activation) /\ Len(low) = n /\ low[n] = a
      /\ \A j \in 1 .. n - 1 : low[j] = acts[j]
  BY <1>1
<1>4. /\ Len(as) = n + 1 /\ as[n + 1] = c /\ as[n] = a
      /\ \A j \in 1 .. n - 1 : as[j] = acts[j]
  <2>. HIDE DEF low, c
  <2>. QED BY <1>1, <1>3
<1>5. acts' = as /\ used' = u /\ nf' = f /\ tree' = tree /\ status' = status
  BY DEF Live, Gen
<1>. HIDE DEF as, low, c
<1>6. opened(tree, c) = 0 BY <1>2 DEF opened, FrameOpen
<1>7. ASSUME NEW j \in 1 .. n + 1
      PROVE  ActBook(tree, s, as[j]) /\ FrameBook(tree, f, as[j])
  <2>1. CASE j = n + 1
    <3>1. ActBook(tree, s, c) BY <1>2 DEF ActBook
    <3>2. FrameBook(tree, f, c) BY <1>6 DEF FrameBook, Saves
    <3>. QED BY <1>4, <2>1, <3>1, <3>2
  <2>2. CASE j = n BY <1>4, <2>2
  <2>3. CASE j \in 1 .. n - 1
    <3>1. j \in 1 .. n BY <1>1, <2>3
    <3>2. FrameBook(tree, f, acts[j]) BY <2>3, BelowKept
    <3>. QED BY <1>4, <2>3, <3>1, <3>2 DEF Book
  <2>4. j = n + 1 \/ j = n \/ j \in 1 .. n - 1
    <3>. HIDE DEF n
    <3>. QED BY <1>1
  <2>. QED BY <2>1, <2>2, <2>3, <2>4
<1>8. ASSUME NEW j \in 1 .. n
      PROVE  as[j].id = acts[j].id /\ as[j].used0 = acts[j].used0
             /\ as[j].frames0 = acts[j].frames0
  <2>1. CASE j = n BY <1>4, <2>1 DEF act
  <2>2. CASE j # n
    <3>1. j \in 1 .. n - 1 BY <1>1, <2>2
    <3>. QED BY <1>4, <3>1
  <2>. QED BY <2>1, <2>2
<1>9. ASSUME NEW j \in 1 .. n PROVE Serves(tree, as[j], as[j + 1])
  <2>1. CASE j = n BY <1>2, <1>4, <2>1 DEF Serves
  <2>2. CASE j # n
    <3>1. j \in 1 .. n - 1 /\ j + 1 \in 1 .. n BY <1>1, <2>2
    <3>2. Serves(tree, acts[j], acts[j + 1]) BY <3>1 DEF Book
    <3>. QED BY <1>4, <1>8, <3>1, <3>2 DEF Serves
  <2>. QED BY <2>1, <2>2
<1>10. act.frames0 \in Nat /\ a.frames0 \in Nat BY InvFacts
<1>11. ASSUME NEW i \in 1 .. n - 1
       PROVE  /\ as[i].frames0 + opened(tree, as[i]) <= act.frames0
              /\ as[i].frames0 + opened(tree, as[i]) \in Nat
  <2>1. n \in 1 .. n BY <1>1
  <2>2. acts[i].frames0 + opened(tree, acts[i]) <= act.frames0 BY <2>1 DEF Book, act
  <2>3. i \in 1 .. n BY <1>1
  <2>4. acts[i] \in Activation BY <1>1, <2>3
  <2>a. acts[i].frames0 \in Nat BY <2>4 DEF Activation
  <2>b. opened(tree, acts[i]) \in Nat BY DEF opened
  <2>5. acts[i].frames0 + opened(tree, acts[i]) \in Nat BY <2>a, <2>b
  <2>. QED BY <1>4, <2>2, <2>5
<1>12. ASSUME NEW j \in 1 .. n + 1, NEW i \in 1 .. j - 1
       PROVE  as[i].frames0 + opened(tree, as[i]) <= as[j].frames0
  <2>1. CASE j = n + 1
    <3>1. as[j].frames0 = a.frames0 + opened(tree, a) BY <1>2, <1>4, <2>1
    <3>2. opened(tree, a) \in Nat BY DEF opened
    <3>a. a.frames0 + opened(tree, a) \in Nat BY <1>10, <3>2
    <3>3. CASE i = n
      <4>1. as[i] = a BY <1>4, <3>3
      <4>2. as[i].frames0 + opened(tree, as[i]) = as[j].frames0 /\ as[j].frames0 \in Nat
        BY <3>1, <3>a, <4>1
      <4>. QED BY <4>2, NotAbove
    <3>4. CASE i # n
      <4>1. i \in 1 .. n - 1 BY <1>1, <2>1, <3>4
      <4>2. /\ as[i].frames0 + opened(tree, as[i]) <= act.frames0
            /\ as[i].frames0 + opened(tree, as[i]) \in Nat
        BY <4>1, <1>11
      <4>3. /\ as[j].frames0 = act.frames0 + opened(tree, a)
            /\ act.frames0 + opened(tree, a) >= act.frames0
        BY <3>1, <3>2, <1>10
      <4>. DEFINE x == as[i].frames0 + opened(tree, as[i])
                  y == act.frames0  z == as[j].frames0
      <4>4. x \in Nat /\ y \in Nat /\ z \in Nat /\ x <= y /\ y <= z
        BY <3>1, <3>a, <1>10, <4>2, <4>3
      <4>. HIDE DEF x, y, z
      <4>5. x <= z BY <4>4, NotAbove
      <4>. QED BY <4>5 DEF x, z
    <3>. QED BY <3>3, <3>4
  <2>2. CASE j # n + 1
    <3>1. j \in 1 .. n /\ i \in 1 .. n - 1
      <4>. HIDE DEF n
      <4>. QED BY <1>1, <2>2
    <3>2. acts[i].frames0 + opened(tree, acts[i]) <= acts[j].frames0
      BY <3>1 DEF Book
    <3>. QED BY <1>4, <1>8, <3>1, <3>2
  <2>. QED BY <2>1, <2>2
<1>13. act' = c BY <1>4, <1>5 DEF act
<1>14. u = InUse(tree, s, c) BY <1>2 DEF InUse
<1>15. Len(as) = n + 1 /\ Len(as) - 1 = n BY <1>1, <1>4
<1>16. (status = "run" => used = InUse(tree, s, act))' BY <1>5, <1>13, <1>14
<1>17. (status \notin {"assert", "crash"})' BY <1>5 DEF Book
<1>18. (\A j \in 1 .. Len(acts) :
            ActBook(tree, s, acts[j]) /\ FrameBook(tree, nf, acts[j]))'
  BY <1>5, <1>7, <1>15
<1>19. (\A j \in 1 .. Len(acts) - 1 : Serves(tree, acts[j], acts[j + 1]))'
  BY <1>5, <1>9, <1>15
<1>20. (\A j \in 1 .. Len(acts) : \A i \in 1 .. j - 1 :
            acts[i].frames0 + opened(tree, acts[i]) <= acts[j].frames0)'
  BY <1>5, <1>12, <1>15
<1>. QED BY <1>16, <1>17, <1>18, <1>19, <1>20 DEF Book

-----------------------------------------------------------------------------
(* regSaved of the frames below is never written.                          *)

LEMMA SavedKept ==
    ASSUME NEW f \in Seq(Nameframe), f # <<>>
    PROVE  /\ \A k \in Int, i \in 1 .. Len(f) : Pushed(f, k)[i].regSaved = f[i].regSaved
           /\ \A x \in Names, d \in Nat, b \in Nat, i \in 1 .. Len(f) :
                 registerVar(f, x, d, b)[i].regSaved = f[i].regSaved
           /\ \A i \in 1 .. Len(f) - 1 : CloseFrame(f)[i].regSaved = f[i].regSaved
<1>1. /\ Len(f) \in Nat \ {0} /\ f[Len(f)] \in Nameframe
      /\ \A i \in 1 .. Len(f) : f[i] \in Nameframe
  BY LastFrame
<1>2. ASSUME NEW g \in Seq(Nameframe), NEW k \in Int, NEW i \in 1 .. Len(g)
      PROVE  Pushed(g, k)[i].regSaved = g[i].regSaved
  <2>1. g # <<>> /\ g[Len(g)] \in Nameframe /\ g[i] \in Nameframe BY LastFrame
  <2>2. Pushed(g, k) = [g EXCEPT ![Len(g)] = [g[Len(g)] EXCEPT !.pushed = @ + k]]
    BY <2>1 DEF Pushed
  <2>3. [g[Len(g)] EXCEPT !.pushed = @ + k].regSaved = g[Len(g)].regSaved
    BY <2>1 DEF Nameframe
  <2>. QED BY <2>1, <2>2, <2>3
<1>3. ASSUME NEW x \in Names, NEW d \in Nat, NEW b \in Nat, NEW i \in 1 .. Len(f)
      PROVE  registerVar(f, x, d, b)[i].regSaved = f[i].regSaved
  <2>. DEFINE g == f[Len(f)]
              off == -(g.above + 1 + g.regSaved)
              v == [name |-> x, off |-> off, decl |-> d, slot |-> b - off]
              h == [g EXCEPT !.above = @ + 1, !.vars = Append(@, v)]
  <2>1. h.regSaved = g.regSaved
    <3>. HIDE DEF v
    <3>. QED BY <1>1 DEF Nameframe
  <2>2. registerVar(f, x, d, b) = [f EXCEPT ![Len(f)] = h] BY DEF registerVar
  <2>. HIDE DEF h
  <2>. QED BY <1>1, <2>1, <2>2
<1>4. ASSUME NEW i \in 1 .. Len(f) - 1
      PROVE  CloseFrame(f)[i].regSaved = f[i].regSaved
  <2>. DEFINE p == SubSeq(f, 1, Len(f) - 1)
  <2>1. /\ p \in Seq(Nameframe) /\ Len(p) = Len(f) - 1
        /\ \A j \in 1 .. Len(f) - 1 : p[j] = f[j]
    <3>1. Len(f) - 1 \in 0 .. Len(f) BY <1>1
    <3>. QED BY <3>1, Prefix
  <2>2. CloseFrame(f) = Pushed(p, -1) BY DEF CloseFrame
  <2>. HIDE DEF p
  <2>3. -1 \in Int OBVIOUS
  <2>4. Pushed(p, -1)[i].regSaved = p[i].regSaved BY <1>2, <2>1, <2>3
  <2>. QED BY <2>1, <2>2, <2>4
<1>. QED BY <1>2, <1>3, <1>4

LEMMA SavedOpened ==
    ASSUME NEW f \in Seq(Nameframe), f # <<>>, NEW u \in 0 .. 14, NEW n \in Nat
    PROVE  /\ OpenFrame(f, u, n)[Len(f) + 1].regSaved = u
           /\ \A i \in 1 .. Len(f) : OpenFrame(f, u, n)[i].regSaved = f[i].regSaved
<1>. DEFINE p == Pushed(f, 1)  g == createNF(FALSE, n, u)
<1>1. p \in Seq(Nameframe) /\ Len(p) = Len(f) BY PushedType
<1>2. \A i \in 1 .. Len(f) : p[i].regSaved = f[i].regSaved BY SavedKept
<1>3. g \in Nameframe /\ g.regSaved = u BY DEF createNF, Nameframe, regStackSz
<1>4. OpenFrame(f, u, n) = Append(p, g) BY DEF OpenFrame
<1>. HIDE DEF p, g
<1>5. /\ Append(p, g)[Len(p) + 1] = g
      /\ \A i \in 1 .. Len(p) : Append(p, g)[i] = p[i]
  BY <1>1, <1>3, AppendLast
<1>. QED BY <1>1, <1>2, <1>3, <1>4, <1>5

-----------------------------------------------------------------------------
(* The ways a step of a node goes on.                                      *)

LEMMA AtBook ==
    ASSUME Inv, NEW s, Shaped(tree, s), Book(s), NEW ops, NEW p, At(ops, p)
    PROVE  /\ status = "run" /\ act.id \in 1 .. Len(tree) /\ act.id # 0 /\ act.pc = p
           /\ node = tree[act.id] /\ node.op \in ops /\ node \in Node
           /\ NodeShaped(tree, s, act.id)
           /\ act.used0 = s.dep[act.id] /\ act.used0 \in 0 .. 10
           /\ s.one[act.id] \in BOOLEAN /\ Kept(s, act.id) \in {0, 1}
           /\ Kept(s, act.id) = IF s.one[act.id] THEN 1 ELSE 0
           /\ used = InUse(tree, s, act) /\ (p # "enter" => r1 = act.used0)
           /\ FrameBook(tree, nf, act) /\ ActBook(tree, s, act)
           /\ \A k : Child(tree, act.id, k) = Kid(k)
           /\ \A k \in Nat : Kid(k) \in 0 .. Len(tree)
           /\ act \in Activation /\ nf \in Seq(Nameframe) /\ nf # <<>>
<1>1. /\ status = "run" /\ act.id \in 1 .. Len(tree) /\ act.id # 0 /\ act.pc = p
      /\ node.op \in ops /\ node \in Node /\ tree \in Programs
      /\ nf \in Seq(Nameframe) /\ nf # <<>>
      /\ \A k \in Nat : Kid(k) \in 0 .. Len(tree)
  BY AtFacts
<1>2. /\ ActBook(tree, s, act) /\ FrameBook(tree, nf, act)
      /\ used = InUse(tree, s, act)
  BY <1>1, BookFacts
<1>3. /\ NodeShaped(tree, s, act.id) /\ s.dep[act.id] \in 0 .. 10
      /\ s.one[act.id] \in BOOLEAN /\ \A k : Child(tree, act.id, k) = Kid(k)
  BY <1>1, ShapeFacts DEF Kid
<1>4. act.used0 = s.dep[act.id] /\ (p # "enter" => r1 = act.used0)
  BY <1>1, <1>2 DEF ActBook, r1
<1>5. Kept(s, act.id) = IF s.one[act.id] THEN 1 ELSE 0 BY <1>1 DEF Kept
<1>6. act \in Activation BY <1>1, InvFacts
<1>. QED BY <1>1, <1>2, <1>3, <1>4, <1>5, <1>6 DEF node

\* What a counted operand leaves.
LEMMA Counted ==
    ASSUME Inv, NEW s, Shaped(tree, s), Book(s), NEW ops, NEW p, At(ops, p),
           p \in Waiting, NEW k \in Nat, k = Operand(tree, act),
           k \in Operands(tree, act.id), <<node.op, k>> \notin Uncounted
    PROVE  used = Start(node.op, act.used0, k) + 1
<1>1. /\ used = InUse(tree, s, act) /\ act.pc = p /\ node = tree[act.id]
      /\ NodeShaped(tree, s, act.id) /\ Child(tree, act.id, k) \in 0 .. Len(tree)
  BY AtBook
<1>2. used = Start(node.op, act.used0, k) + Kept(s, Child(tree, act.id, k))
  BY <1>1 DEF InUse, Waiting
<1>3. Child(tree, act.id, k) = 0 \/ s.one[Child(tree, act.id, k)]
  BY <1>1 DEF NodeShaped
<1>4. Kept(s, Child(tree, act.id, k)) = 1 BY <1>3 DEF Kept
<1>. QED BY <1>2, <1>4

LEMMA NodeGen ==
    ASSUME Inv, NEW s, Shaped(tree, s), Book(s), NEW ops, NEW p, At(ops, p),
           p # "enter", NEW a \in Activation, a.id = act.id, a.frames0 = act.frames0,
           a.used0 = act.used0, a.r1 = act.r1, a.pc \in Waiting,
           a.pc = "push" => node.op = "call" /\ a.argsLeft + 1 <= Len(node.kids),
           node.op = "endl" /\ a.pc = "right" => Kid(2) # 0,
           NEW k \in Nat, k = Operand(tree, a), k \in Operands(tree, act.id),
           NEW u \in 0 .. 12, u = Start(node.op, act.used0, k),
           NEW f \in Seq(Nameframe), Deep(f), FrameBook(tree, f, a),
           Len(f) = a.frames0 + opened(tree, a),
           NEW mm, Gen(Kid(k), a, u, f, mm)
    PROVE  Book(s)'
<1>1. /\ status = "run" /\ act.id # 0 /\ node = tree[act.id] /\ Kid(k) \in 0 .. Len(tree)
      /\ NodeShaped(tree, s, act.id) /\ act.used0 = s.dep[act.id]
      /\ act.used0 \in 0 .. 10 /\ r1 = act.used0
      /\ \A i : Child(tree, act.id, i) = Kid(i)
  BY AtBook
<1>2. ActBook(tree, s, a) BY <1>1 DEF ActBook, r1
<1>3. Kid(k) # 0 => u = s.dep[Kid(k)] BY <1>1 DEF NodeShaped
<1>. QED BY <1>1, <1>2, <1>3, BookGen

LEMMA DonePC == "done" \in PCs /\ "done" \notin Waiting /\ "done" \notin {"enter", "body", "args"}
BY DEF PCs, Waiting

\* A change of place changes nothing else.
LEMMA Placed ==
    ASSUME Inv, status = "run", NEW p \in PCs
    PROVE  /\ Resume(p).used0 = act.used0 /\ Resume(p).r1 = act.r1
           /\ Resume(p).pushed = act.pushed
           /\ \A ok \in BOOLEAN, mm \in Machine :
                 /\ Fork(p, ok, mm).used0 = act.used0 /\ Fork(p, ok, mm).r1 = act.r1
                 /\ Fork(p, ok, mm).argsLeft = act.argsLeft
<1>1. act \in Activation BY InvFacts
<1>. QED BY <1>1 DEF Resume, Fork, Activation

LEMMA NodeFinish ==
    ASSUME Inv, NEW s, Shaped(tree, s), Book(s), NEW ops, NEW p, At(ops, p),
           p # "enter", NEW u, u = act.used0 + Kept(s, act.id),
           NEW f \in Seq(Nameframe), Len(f) >= act.frames0, Deep(f),
           NEW mm, Finish(u, f, mm)
    PROVE  Book(s)'
<1>. DEFINE n == act.pushed
            g == IF n = 0 THEN f ELSE Pushed(f, -n)
            mn == IF n = 0 THEN mm ELSE PopRange(MovRR(mm, n, r1), 0, n - 1)
            b == Resume("done")
<1>1. /\ status = "run" /\ act.id # 0 /\ node = tree[act.id] /\ act.used0 = s.dep[act.id]
      /\ act.used0 \in 0 .. 10 /\ r1 = act.used0
  BY AtBook
<1>a. n \in 0 .. 13 BY <1>1, RegFacts DEF Regs, regStackSz
<1>2. act.frames0 \in Nat \ {0} /\ -n \in Int
  <2>1. -n \in Int
    <3>. HIDE DEF n
    <3>. QED BY <1>a
  <2>. QED BY <1>1, <2>1, InvFacts
<1>3. Deep(g)
  <2>1. f # <<>> BY <1>2
  <2>2. \A i \in 1 .. Len(f) : g[i].regSaved = f[i].regSaved
    <3>1. CASE n = 0 BY <3>1
    <3>2. CASE n # 0 BY <1>2, <2>1, <3>2, SavedKept
    <3>. QED BY <3>1, <3>2
  <2>3. \A i \in 1 .. act.frames0 : i \in 1 .. Len(f) BY <1>2
  <2>. HIDE DEF g
  <2>. QED BY <2>2, <2>3 DEF Deep
<1>4. /\ b \in Activation /\ b.id = act.id /\ b.frames0 = act.frames0
      /\ b.pc = "done" /\ opened(tree, b) = 0
      /\ b.used0 = act.used0 /\ b.r1 = act.r1
  BY <1>1, Resumed, Placed, DonePC DEF FrameOpen
<1>5. ActBook(tree, s, b) BY <1>1, <1>4 DEF ActBook, r1
<1>6. FrameBook(tree, g, b) BY <1>4 DEF FrameBook, Saves
<1>7. u = InUse(tree, s, b) BY <1>4 DEF InUse
<1>8. Live([acts EXCEPT ![Len(acts)] = b], u, g, mn) BY DEF Finish
<1>. HIDE DEF b, g, mn
<1>. QED BY <1>1, <1>3, <1>4, <1>5, <1>6, <1>7, <1>8, BookStay

-----------------------------------------------------------------------------
(* The numbers of each operator.                                           *)

LEMMA Starts ==
    ASSUME NEW d \in Nat
    PROVE  /\ \A op \in TwoOperand : Start(op, d, 1) = d /\ Start(op, d, 2) = d + 1
           /\ Start("compare", d, 1) = d + 1 /\ Start("compare", d, 2) = d + 2
           /\ \A op \in OneOperand : Start(op, d, 1) = d
           /\ Start("func", d, 1) = d
           /\ Start("logic", d, 1) = d /\ Start("logic", d, 2) = d
           /\ \A op \in {"endl", "tern", "qq"} : Start(op, d, 1) = d
           /\ \A op \in {"endl", "tern", "qq"} : \A k \in {2, 3} : Start(op, d, k) = 0
           /\ Start("while", d, 1) = 1 /\ Start("while", d, 2) = 0
           /\ \A k : Start("call", d, k) = 0
BY DEF Start, TwoOperand, OneOperand

LEMMA OperandSets ==
    ASSUME NEW p, NEW i
    PROVE  /\ p[i].op \in TwoOperand \union {"compare", "logic", "qq", "endl", "while"}
                => Operands(p, i) = {1, 2}
           /\ p[i].op \in OneOperand \union {"func"} => Operands(p, i) = {1}
           /\ p[i].op = "tern" => Operands(p, i) = {1, 2, 3}
           /\ p[i].op = "call" => Operands(p, i) = DOMAIN p[i].kids
BY DEF Operands, TwoOperand, OneOperand

LEMMA OperandAt ==
    ASSUME NEW t, NEW a
    PROVE  /\ a.pc \in {"left", "test"} => Operand(t, a) = 1
           /\ a.pc = "right" =>
                 Operand(t, a) = IF t[a.id].op \in OneOperand \union {"func"} THEN 1 ELSE 2
           /\ a.pc = "then" => Operand(t, a) = 2
           /\ a.pc = "else" => Operand(t, a) = 3
           /\ a.pc = "push" => Operand(t, a) = a.argsLeft + 1
BY DEF Operand

\* What a step needs to know when it neither opens nor closes a frame.
LEMMA PlainPlace ==
    ASSUME Inv, NEW s, Shaped(tree, s), Book(s), NEW ops, NEW p, At(ops, p),
           \A o \in ops : <<o, p>> \notin FrameOpen
    PROVE  /\ Len(nf) = act.frames0 /\ Deep(nf)
           /\ opened(tree, act) = 0
<1>1. /\ opened(tree, act) = IF <<node.op, p>> \in FrameOpen THEN 1 ELSE 0
      /\ Len(nf) = act.frames0 + opened(tree, act) /\ node.op \in ops /\ status = "run"
  BY AtFacts
<1>2. act.frames0 \in Nat BY <1>1, InvFacts
<1>. QED BY <1>1, <1>2 DEF Deep

LEMMA PlainNodeGen ==
    ASSUME Inv, NEW s, Shaped(tree, s), Book(s), NEW ops, NEW p, At(ops, p), p # "enter",
           NEW q \in PCs, q \in Waiting \ {"push"},
           \A o \in ops : <<o, p>> \notin FrameOpen /\ <<o, q>> \notin FrameOpen,
           NEW a, a = Resume(q) \/ \E ok \in BOOLEAN, mm \in Machine : a = Fork(q, ok, mm),
           node.op = "endl" /\ q = "right" => Kid(2) # 0,
           NEW k \in Nat, k = Operand(tree, a), k \in Operands(tree, act.id),
           NEW u \in 0 .. 12, u = Start(node.op, act.used0, k),
           NEW f \in Seq(Nameframe), Len(f) = Len(nf), Deep(f),
           NEW mm, Gen(Kid(k), a, u, f, mm)
    PROVE  Book(s)'
<1>1. /\ status = "run" /\ node = tree[act.id] /\ node.op \in ops
  BY AtBook
<1>2. Len(nf) = act.frames0 BY PlainPlace
<1>3. /\ a \in Activation /\ a.id = act.id /\ a.frames0 = act.frames0 /\ a.pc = q
      /\ a.used0 = act.used0 /\ a.r1 = act.r1 /\ opened(tree, a) = 0
  <2>1. CASE a = Resume(q) BY <1>1, <2>1, Resumed, Placed
  <2>2. ASSUME NEW ok \in BOOLEAN, NEW mn \in Machine, a = Fork(q, ok, mn)
        PROVE  /\ a \in Activation /\ a.id = act.id /\ a.frames0 = act.frames0
               /\ a.pc = q /\ a.used0 = act.used0 /\ a.r1 = act.r1
               /\ opened(tree, a) = 0
    <3>1. act.id # 0 BY AtBook
    <3>2. /\ a \in Activation /\ a.id = act.id /\ a.frames0 = act.frames0 /\ a.pc = q
          /\ opened(tree, a) = IF <<node.op, q>> \in FrameOpen THEN 1 ELSE 0
      BY <1>1, <2>2, <3>1, Forked
    <3>3. a.used0 = act.used0 /\ a.r1 = act.r1 BY <1>1, <2>2, Placed
    <3>4. <<node.op, q>> \notin FrameOpen BY <1>1
    <3>. QED BY <3>2, <3>3, <3>4
  <2>. QED BY <2>1, <2>2
<1>4. FrameBook(tree, f, a) BY <1>3 DEF FrameBook, Saves
<1>5. act.frames0 \in Nat BY <1>1, InvFacts
<1>6. Len(f) = a.frames0 + opened(tree, a) BY <1>2, <1>3, <1>5
<1>7. /\ a.pc \in Waiting /\ a.pc # "push"
      /\ node.op = "endl" /\ a.pc = "right" => Kid(2) # 0
  BY <1>3
<1>. QED BY <1>3, <1>4, <1>6, <1>7, NodeGen

LEMMA PlainNodeFinish ==
    ASSUME Inv, NEW s, Shaped(tree, s), Book(s), NEW ops, NEW p, At(ops, p), p # "enter",
           \A o \in ops : <<o, p>> \notin FrameOpen,
           NEW u, u = act.used0 + Kept(s, act.id), NEW mm, Finish(u, nf, mm)
    PROVE  Book(s)'
<1>1. Len(nf) = act.frames0 /\ Deep(nf) BY PlainPlace
<1>2. act.frames0 \in Nat /\ nf \in Seq(Nameframe) BY AtBook, InvFacts
<1>3. Len(nf) >= act.frames0 BY <1>1, <1>2
<1>. QED BY <1>1, <1>2, <1>3, NodeFinish

-----------------------------------------------------------------------------
(* One lemma per action: entry, return and exit.                           *)

LEMMA GenNullBook ==
    ASSUME Inv, NEW s, Shaped(tree, s), Book(s), GenNull
    PROVE  Book(s)'
<1>1. status = "run" /\ act.id = 0 /\ act.pc = "enter" BY DEF GenNull, pc
<1>2. /\ ActBook(tree, s, act) /\ used = InUse(tree, s, act) /\ act.used0 \in 0 .. 12
  BY <1>1, BookFacts
<1>3. used = act.used0 BY <1>1, <1>2 DEF InUse
<1>4. used \in Regs BY <1>2, <1>3 DEF Regs, regStackSz
<1>. DEFINE b == Resume("done")  mm == Mov(m, used, Val(0))
<1>5. Live([acts EXCEPT ![Len(acts)] = b], used + 1, nf, mm) BY <1>4 DEF GenNull
<1>6. /\ b \in Activation /\ b.id = act.id /\ b.frames0 = act.frames0
      /\ b.pc = "done" /\ b.used0 = act.used0 /\ opened(tree, b) = 0
  BY <1>1, Resumed, Placed, DonePC
<1>7. ActBook(tree, s, b) BY <1>1, <1>2, <1>6 DEF ActBook
<1>8. Deep(nf) /\ FrameBook(tree, nf, b) BY <1>6 DEF Deep, FrameBook, Saves
<1>9. used + 1 = InUse(tree, s, b) BY <1>1, <1>3, <1>6 DEF InUse, Kept
<1>. HIDE DEF b, mm
<1>. QED BY <1>1, <1>5, <1>6, <1>7, <1>8, <1>9, BookStay

LEMMA BeginBook ==
    ASSUME Inv, NEW s, Shaped(tree, s), Book(s), Begin
    PROVE  Book(s)'
<1>. DEFINE b0 == Resume("body")  b == [b0 EXCEPT !.r1 = used]
<1>1. At(Ops, "enter") BY DEF Begin
<1>2. /\ status = "run" /\ act.pc = "enter" /\ act.id # 0 /\ act.used0 \in 0 .. 10
      /\ act.used0 = s.dep[act.id] /\ used = InUse(tree, s, act)
  BY <1>1, AtBook
<1>3. used = act.used0 BY <1>2 DEF InUse
<1>4. /\ b0 \in Activation /\ b0.id = act.id /\ b0.frames0 = act.frames0
      /\ b0.pc = "body" /\ b0.used0 = act.used0
  BY <1>2, Resumed, Placed DEF PCs
<1>. HIDE DEF b0
<1>5. /\ b \in Activation /\ b.id = act.id /\ b.frames0 = act.frames0
      /\ b.pc = "body" /\ b.used0 = act.used0 /\ b.r1 = act.used0
  BY <1>2, <1>3, <1>4 DEF Activation, regStackSz
<1>6. Live([acts EXCEPT ![Len(acts)] = b], used, nf, m) BY DEF Begin, b0
<1>. HIDE DEF b
<1>7. opened(tree, b) = 0 BY <1>5, Openings DEF opened
<1>8. ActBook(tree, s, b) BY <1>2, <1>5 DEF ActBook
<1>9. Deep(nf) /\ FrameBook(tree, nf, b) BY <1>7 DEF Deep, FrameBook, Saves
<1>10. used = InUse(tree, s, b) BY <1>3, <1>5 DEF InUse
<1>. QED BY <1>2, <1>5, <1>6, <1>8, <1>9, <1>10, BookStay

\* No node finds fewer than three registers left.
LEMMA NeverSpills ==
    ASSUME Inv, NEW s, Shaped(tree, s), Book(s)
    PROVE  ~ Spill
<1>. SUFFICES ASSUME Spill PROVE FALSE OBVIOUS
<1>1. At(Ops, "enter") /\ used > 10 BY DEF Spill, regStackSz
<1>2. act.pc = "enter" /\ act.used0 \in 0 .. 10 /\ used = InUse(tree, s, act)
  BY <1>1, AtBook
<1>3. used = act.used0 BY <1>2 DEF InUse
<1>. QED BY <1>1, <1>2, <1>3

LEMMA ReturnBook ==
    ASSUME Inv, NEW s, Shaped(tree, s), Book(s), Return
    PROVE  Book(s)'
<1>. DEFINE n == Len(acts)  as == SubSeq(acts, 1, n - 1)
<1>1. status = "run" /\ n > 1 /\ act.pc = "done" BY DEF Return, pc
<1>2. acts \in Seq(Activation) /\ n \in Nat BY <1>1, InvFacts DEF Types
<1>3. Len(as) = n - 1 /\ \A j \in 1 .. n - 1 : as[j] = acts[j]
  <2>1. n - 1 \in 1 .. n BY <1>1, <1>2
  <2>. QED BY <1>2, <2>1, Prefix
<1>4. acts' = as /\ used' = used /\ nf' = nf /\ tree' = tree /\ status' = status
  BY DEF Return, Live
<1>. HIDE DEF as
<1>5. n - 1 \in 1 .. n - 1 /\ n - 1 + 1 = n /\ \A j \in 1 .. n - 1 : j \in 1 .. n
  BY <1>1, <1>2
<1>. DEFINE a == acts[n - 1]
<1>6. act' = a BY <1>3, <1>4, <1>5 DEF act
<1>7. Serves(tree, a, act) BY <1>5 DEF Book, act
<1>8. used = act.used0 + Kept(s, act.id)
  <2>1. used = InUse(tree, s, act) BY <1>1, BookFacts
  <2>. QED BY <1>1, <2>1, DonePC DEF InUse
<1>9. used = InUse(tree, s, a) BY <1>7, <1>8 DEF Serves, InUse, Waiting
<1>. HIDE DEF a
<1>10. (status = "run" => used = InUse(tree, s, act))' BY <1>4, <1>6, <1>9
<1>11. (\A j \in 1 .. Len(acts) :
            ActBook(tree, s, acts[j]) /\ FrameBook(tree, nf, acts[j]))'
  BY <1>3, <1>4, <1>5 DEF Book
<1>12. (\A j \in 1 .. Len(acts) - 1 : Serves(tree, acts[j], acts[j + 1]))'
  <2>1. ASSUME NEW j \in 1 .. n - 1 - 1 PROVE Serves(tree, as[j], as[j + 1])
    <3>1. j \in 1 .. n - 1 /\ j + 1 \in 1 .. n - 1 BY <1>2
    <3>2. Serves(tree, acts[j], acts[j + 1]) BY <3>1 DEF Book
    <3>. QED BY <1>3, <3>1, <3>2
  <2>. QED BY <1>3, <1>4, <2>1
<1>13. (\A j \in 1 .. Len(acts) : \A i \in 1 .. j - 1 :
            acts[i].frames0 + opened(tree, acts[i]) <= acts[j].frames0)'
  <2>1. ASSUME NEW j \in 1 .. n - 1, NEW i \in 1 .. j - 1
        PROVE  as[i].frames0 + opened(tree, as[i]) <= as[j].frames0
    <3>1. i \in 1 .. n - 1 /\ j \in 1 .. n BY <1>2
    <3>2. acts[i].frames0 + opened(tree, acts[i]) <= acts[j].frames0
      BY <3>1 DEF Book
    <3>. QED BY <1>3, <3>1, <3>2
  <2>. QED BY <1>3, <1>4, <2>1
<1>. QED BY <1>4, <1>10, <1>11, <1>12, <1>13 DEF Book

LEMMA ExitBook ==
    ASSUME Inv, NEW s, Book(s), Exit
    PROVE  Book(s)'
<1>1. acts' = <<>> /\ status' = "done" BY DEF Exit
<1>2. (Len(acts) = 0)' BY <1>1
<1>. QED BY <1>1, <1>2 DEF Book

-----------------------------------------------------------------------------
(* The operators with two operands, with one, and the leaves.              *)

LEMMA EvalLeftBook ==
    ASSUME Inv, NEW s, Shaped(tree, s), Book(s), EvalLeft
    PROVE  Book(s)'
<1>. DEFINE a == Resume("left")
            u == IF node.op = "compare" THEN used + 1 ELSE used
<1>1. At(TwoOperand \union {"compare"}, "body") /\ Gen(Kid(1), a, u, nf, m)
  BY DEF EvalLeft
<1>2. /\ status = "run" /\ act.pc = "body" /\ act.used0 \in 0 .. 10
      /\ used = InUse(tree, s, act)
      /\ node = tree[act.id] /\ node.op \in TwoOperand \union {"compare"}
  BY <1>1, AtBook
<1>b. nf \in Seq(Nameframe) BY <1>1, AtBook
<1>3. used = act.used0 BY <1>2 DEF InUse
<1>4. Operand(tree, a) = 1
  <2>1. a.pc = "left" BY <1>2, Resumed, Openings
  <2>. QED BY <2>1, OperandAt
<1>5. u = Start(node.op, act.used0, 1) /\ u \in 0 .. 12
  <2>1. "compare" \notin TwoOperand BY DEF TwoOperand
  <2>2. CASE node.op = "compare"
    <3>1. Start(node.op, act.used0, 1) = act.used0 + 1 BY <1>2, <2>2, Starts
    <3>. QED BY <1>2, <1>3, <2>2, <3>1
  <2>3. CASE node.op \in TwoOperand
    <3>1. Start(node.op, act.used0, 1) = act.used0 BY <1>2, <2>3, Starts
    <3>. QED BY <1>2, <1>3, <2>1, <2>3, <3>1
  <2>. QED BY <1>2, <2>2, <2>3
<1>6. 1 \in Operands(tree, act.id) BY <1>2, OperandSets
<1>7. Deep(nf) BY DEF Deep
<1>8. /\ \A o \in TwoOperand \union {"compare"} :
            <<o, "body">> \notin FrameOpen /\ <<o, "left">> \notin FrameOpen
      /\ "left" \in PCs /\ "left" \in Waiting \ {"push"}
  BY Openings DEF Waiting
<1>. HIDE DEF u
<1>. QED BY <1>1, <1>4, <1>5, <1>6, <1>7, <1>8, <1>2, <1>b, PlainNodeGen

\* The left operand is in one register when the right one is started.
LEMMA EvalRightBook ==
    ASSUME Inv, NEW s, Shaped(tree, s), Book(s), EvalRight
    PROVE  Book(s)'
<1>. DEFINE a == Resume("right")
<1>1. At(TwoOperand \union {"compare"}, "left") /\ Gen(Kid(2), a, used, nf, m)
  BY DEF EvalRight
<1>2. /\ status = "run" /\ act.pc = "left" /\ act.used0 \in 0 .. 10
      /\ node = tree[act.id] /\ node.op \in TwoOperand \union {"compare"}
  BY <1>1, AtBook
<1>b. nf \in Seq(Nameframe) BY <1>1, AtBook
<1>a. a.pc = "right" /\ a.id = act.id BY <1>2, Resumed, Openings
<1>3. Operand(tree, act) = 1 /\ Operand(tree, a) = 2
  <2>1. node.op \notin OneOperand \union {"func"} BY <1>2 DEF TwoOperand, OneOperand
  <2>. QED BY <1>2, <1>a, <2>1, OperandAt
<1>4. Operands(tree, act.id) = {1, 2} BY <1>2, OperandSets
<1>5. used = Start(node.op, act.used0, 1) + 1
  <2>1. <<node.op, 1>> \notin Uncounted BY <1>2 DEF Uncounted, TwoOperand
  <2>2. "left" \in Waiting BY DEF Waiting
  <2>. QED BY <1>1, <1>3, <1>4, <2>1, <2>2, Counted
<1>6. used = Start(node.op, act.used0, 2) /\ used \in 0 .. 12
  <2>1. CASE node.op = "compare"
    <3>1. /\ Start(node.op, act.used0, 1) = act.used0 + 1
          /\ Start(node.op, act.used0, 2) = act.used0 + 2
      BY <1>2, <2>1, Starts
    <3>. QED BY <1>2, <1>5, <3>1
  <2>2. CASE node.op \in TwoOperand
    <3>1. /\ Start(node.op, act.used0, 1) = act.used0
          /\ Start(node.op, act.used0, 2) = act.used0 + 1
      BY <1>2, <2>2, Starts
    <3>. QED BY <1>2, <1>5, <3>1
  <2>. QED BY <1>2, <2>1, <2>2
<1>7. Deep(nf) BY DEF Deep
<1>8. /\ \A o \in TwoOperand \union {"compare"} :
            <<o, "left">> \notin FrameOpen /\ <<o, "right">> \notin FrameOpen
      /\ "right" \in PCs /\ "right" \in Waiting \ {"push"}
      /\ "endl" \notin TwoOperand \union {"compare"}
  BY Openings DEF Waiting, FrameOpen, TwoOperand
<1>9. ~ (node.op = "endl") BY <1>2, <1>8
<1>10. 2 \in Operands(tree, act.id) BY <1>4
<1>. HIDE DEF a
<1>11. a = Resume("right") BY DEF a
<1>. QED BY <1>1, <1>b, <1>3, <1>6, <1>7, <1>8, <1>9, <1>10, <1>11, PlainNodeGen

\* The code of an operator runs when its last operand is there.
LEMMA TwoOperandsBook ==
    ASSUME Inv, NEW s, Shaped(tree, s), Book(s),
           NEW ops, ops \subseteq TwoOperand \union {"compare"}, At(ops, "right"),
           NEW u, u = Less(used, IF node.op = "compare" THEN 2 ELSE 1),
           NEW mm, Finish(u, nf, mm)
    PROVE  Book(s)'
<1>1. /\ status = "run" /\ act.pc = "right" /\ act.used0 \in 0 .. 10
      /\ node = tree[act.id] /\ node.op \in TwoOperand \union {"compare"}
      /\ NodeShaped(tree, s, act.id) /\ Kept(s, act.id) = IF s.one[act.id] THEN 1 ELSE 0
  BY AtBook
<1>2. Operand(tree, act) = 2
  <2>1. node.op \notin OneOperand \union {"func"} BY <1>1 DEF TwoOperand, OneOperand
  <2>. QED BY <1>1, <2>1, OperandAt
<1>3. 2 \in Operands(tree, act.id) BY <1>1, OperandSets
<1>4. used = Start(node.op, act.used0, 2) + 1
  <2>1. <<node.op, 2>> \notin Uncounted BY <1>1 DEF Uncounted, TwoOperand
  <2>2. "right" \in Waiting BY DEF Waiting
  <2>. QED BY <1>2, <1>3, <2>1, <2>2, Counted
<1>5. Kept(s, act.id) = 1 BY <1>1 DEF NodeShaped, TwoOperand
<1>6. u = act.used0 + 1
  <2>1. "compare" \notin TwoOperand BY DEF TwoOperand
  <2>2. CASE node.op = "compare"
    <3>1. used = act.used0 + 3 BY <1>1, <1>4, <2>2, Starts
    <3>. QED BY <1>1, <2>2, <3>1 DEF Less
  <2>3. CASE node.op \in TwoOperand
    <3>1. used = act.used0 + 2 BY <1>1, <1>4, <2>3, Starts
    <3>. QED BY <1>1, <2>1, <2>3, <3>1 DEF Less
  <2>. QED BY <1>1, <2>2, <2>3
<1>7. \A o \in ops : <<o, "right">> \notin FrameOpen BY DEF FrameOpen, TwoOperand
<1>8. u = act.used0 + Kept(s, act.id) BY <1>5, <1>6
<1>. QED BY <1>7, <1>8, PlainNodeFinish

LEMMA TwoOperandsDoneBook ==
    ASSUME Inv, NEW s, Shaped(tree, s), Book(s),
           CaseBinary \/ CaseCompare \/ CaseShift \/ CaseDivMod \/ CaseSetMem
    PROVE  Book(s)'
<1>1. PICK ops \in {{"binary"}, {"compare"}, {"shift"}, {"div", "mod"}, {"setmem"}} :
        /\ At(ops, "right")
        /\ \E mm : Finish(Less(used, IF ops = {"compare"} THEN 2 ELSE 1), nf, mm)
  <2>1. CASE CaseBinary BY <2>1 DEF CaseBinary
  <2>2. CASE CaseCompare BY <2>2 DEF CaseCompare
  <2>3. CASE CaseShift BY <2>3 DEF CaseShift
  <2>4. CASE CaseDivMod BY <2>4 DEF CaseDivMod
  <2>5. CASE CaseSetMem BY <2>5 DEF CaseSetMem
  <2>. QED BY <2>1, <2>2, <2>3, <2>4, <2>5
<1>2. PICK mm : Finish(Less(used, IF ops = {"compare"} THEN 2 ELSE 1), nf, mm) BY <1>1
<1>3. node.op \in ops /\ ops \subseteq TwoOperand \union {"compare"}
  BY <1>1, AtBook DEF TwoOperand
<1>4. ops = {"compare"} <=> node.op = "compare" BY <1>1, <1>3
<1>5. Finish(Less(used, IF node.op = "compare" THEN 2 ELSE 1), nf, mm) BY <1>2, <1>4
<1>. QED BY <1>1, <1>3, <1>5, TwoOperandsBook

LEMMA EvalOperandBook ==
    ASSUME Inv, NEW s, Shaped(tree, s), Book(s), EvalOperand
    PROVE  Book(s)'
<1>. DEFINE a == Resume("right")
            f == IF node.op = "var" THEN registerVar(nf, node.names[1], act.id, m.bp) ELSE nf
<1>1. At(OneOperand, "body") /\ Gen(Kid(1), a, used, f, m) BY DEF EvalOperand
<1>2. /\ status = "run" /\ act.pc = "body" /\ act.used0 \in 0 .. 10
      /\ used = InUse(tree, s, act) /\ nf \in Seq(Nameframe) /\ nf # <<>>
      /\ node = tree[act.id] /\ node.op \in OneOperand /\ act.id \in 1 .. Len(tree)
  BY <1>1, AtBook
<1>3. used = act.used0 BY <1>2 DEF InUse
<1>4. Operand(tree, a) = 1
  <2>1. a.pc = "right" /\ a.id = act.id BY <1>2, Resumed, Openings
  <2>. QED BY <1>2, <2>1, OperandAt
<1>5. used = Start(node.op, act.used0, 1) /\ used \in 0 .. 12
  <2>1. act.used0 \in Nat /\ node.op \in OneOperand BY <1>2
  <2>2. Start(node.op, act.used0, 1) = act.used0 BY <2>1, Starts
  <2>. QED BY <1>2, <1>3, <2>2
<1>6. 1 \in Operands(tree, act.id) BY <1>2, OperandSets
<1>7. f \in Seq(Nameframe) /\ Len(f) = Len(nf) /\ Deep(f)
  <2>1. CASE node.op = "var"
    <3>1. m \in Machine /\ act.id \in Nat /\ tree \in Programs
      BY <1>1, AtFacts, InvFacts
    <3>2. node.names[1] \in Names BY <1>2, <2>1, <3>1, TreeFacts
    <3>3. m.bp \in Nat BY <3>1 DEF Machine
    <3>. DEFINE x == node.names[1]  d == act.id  b == m.bp  g == registerVar(nf, x, d, b)
    <3>4. x \in Names /\ d \in Nat /\ b \in Nat BY <3>1, <3>2, <3>3
    <3>. HIDE DEF x, d, b
    <3>5. g \in Seq(Nameframe) /\ Len(g) = Len(nf) BY <1>2, <3>4, RegisterType
    <3>6. \A i \in 1 .. Len(nf) : g[i].regSaved = nf[i].regSaved
      BY <1>2, <3>4, SavedKept
    <3>. HIDE DEF g
    <3>7. Len(nf) = act.frames0
      <4>1. \A o \in OneOperand : <<o, "body">> \notin FrameOpen BY Openings
      <4>. QED BY <1>1, <4>1, PlainPlace
    <3>8. Deep(g) BY <3>6, <3>7 DEF Deep
    <3>. QED BY <2>1, <3>5, <3>8 DEF g, x, d, b
  <2>2. CASE node.op # "var" BY <1>2, <2>2 DEF Deep
  <2>. QED BY <2>1, <2>2
<1>8. /\ \A o \in OneOperand : <<o, "body">> \notin FrameOpen /\ <<o, "right">> \notin FrameOpen
      /\ "right" \in PCs /\ "right" \in Waiting \ {"push"}
      /\ "endl" \notin OneOperand
  BY Openings DEF Waiting, FrameOpen, OneOperand
<1>9. ~ (node.op = "endl") BY <1>2, <1>8
<1>. HIDE DEF f, a
<1>10. a = Resume("right") BY DEF a
<1>. QED BY <1>1, <1>4, <1>5, <1>6, <1>7, <1>8, <1>9, <1>10, PlainNodeGen

LEMMA OneOperandDoneBook ==
    ASSUME Inv, NEW s, Shaped(tree, s), Book(s), CaseUnary \/ CaseStore \/ CaseOut
    PROVE  Book(s)'
<1>1. PICK ops, mm : ops \in SUBSET OneOperand /\ At(ops, "right") /\ Finish(used, nf, mm)
  <2>1. CASE CaseUnary BY <2>1 DEF CaseUnary, OneOperand
  <2>2. CASE CaseStore BY <2>2 DEF CaseStore, OneOperand
  <2>3. CASE CaseOut BY <2>3 DEF CaseOut, OneOperand
  <2>. QED BY <2>1, <2>2, <2>3
<1>2. /\ status = "run" /\ act.pc = "right" /\ act.used0 \in 0 .. 10
      /\ node = tree[act.id] /\ node.op \in OneOperand
      /\ NodeShaped(tree, s, act.id) /\ Kept(s, act.id) = IF s.one[act.id] THEN 1 ELSE 0
  BY <1>1, AtBook
<1>3. Operand(tree, act) = 1 /\ 1 \in Operands(tree, act.id)
  BY <1>2, OperandAt, OperandSets
<1>4. used = act.used0 + 1
  <2>1. <<node.op, 1>> \notin Uncounted BY <1>2 DEF Uncounted, OneOperand
  <2>2. "right" \in Waiting BY DEF Waiting
  <2>3. used = Start(node.op, act.used0, 1) + 1
    BY <1>1, <1>3, <2>1, <2>2, Counted
  <2>4. act.used0 \in Nat /\ node.op \in OneOperand BY <1>2
  <2>5. Start(node.op, act.used0, 1) = act.used0 BY <2>4, Starts
  <2>. QED BY <2>3, <2>5
<1>5. Kept(s, act.id) = 1 BY <1>2 DEF NodeShaped, OneOperand
<1>6. \A o \in ops : <<o, "right">> \notin FrameOpen BY <1>1 DEF FrameOpen, OneOperand
<1>7. used = act.used0 + Kept(s, act.id) BY <1>4, <1>5
<1>. QED BY <1>1, <1>6, <1>7, PlainNodeFinish

LEMMA LeafBook ==
    ASSUME Inv, NEW s, Shaped(tree, s), Book(s),
           CaseIn \/ CaseNumberAddr \/ CaseIdent \/ CaseIncDec
    PROVE  Book(s)'
<1>1. PICK mm : At(Leaves, "body") /\ Finish(used + 1, nf, mm)
  <2>1. CASE CaseIn BY <2>1 DEF CaseIn, Leaves, At
  <2>2. CASE CaseNumberAddr BY <2>2 DEF CaseNumberAddr, Leaves, At
  <2>3. CASE CaseIdent BY <2>3 DEF CaseIdent, Leaves, At
  <2>4. CASE CaseIncDec BY <2>4 DEF CaseIncDec, Leaves, At
  <2>. QED BY <2>1, <2>2, <2>3, <2>4
<1>2. /\ act.pc = "body" /\ node = tree[act.id] /\ node.op \in Leaves
      /\ used = InUse(tree, s, act) /\ NodeShaped(tree, s, act.id)
      /\ Kept(s, act.id) = IF s.one[act.id] THEN 1 ELSE 0
  BY <1>1, AtBook
<1>3. used = act.used0 BY <1>2 DEF InUse
<1>4. Kept(s, act.id) = 1 BY <1>2 DEF NodeShaped, Leaves
<1>5. \A o \in Leaves : <<o, "body">> \notin FrameOpen BY Openings
<1>6. used + 1 = act.used0 + Kept(s, act.id) BY <1>3, <1>4
<1>. QED BY <1>1, <1>5, <1>6, PlainNodeFinish

\* A program with a shape has no operator the backend does not generate.
LEMMA NothingUnsupported ==
    ASSUME Inv, NEW s, Shaped(tree, s), Book(s)
    PROVE  ~ CaseUnsupported
<1>. SUFFICES ASSUME NEW ops \in {{"unsup"}, {"stray"}}, At(ops, "body") PROVE FALSE
  BY DEF CaseUnsupported
<1>1. node = tree[act.id] /\ node.op \in ops /\ NodeShaped(tree, s, act.id) BY AtBook
<1>. QED BY <1>1 DEF NodeShaped

-----------------------------------------------------------------------------
(* Control flow.                                                           *)

\* An operator that keeps its place in a name frame opens it with the
\* registers in use, and finds them there when it closes it.
LEMMA InFrameBook ==
    ASSUME Inv, NEW s, Shaped(tree, s), Book(s), NEW ops, NEW p, At(ops, p), p # "enter",
           NEW a \in Activation, a.id = act.id, a.frames0 = act.frames0,
           a.used0 = act.used0, a.r1 = act.r1, a.pc \in Waiting \ {"push"},
           opened(tree, a) = 1, node.op # "endl",
           NEW k \in Nat, k = Operand(tree, a), k \in Operands(tree, act.id),
           NEW u \in 0 .. 12, u = Start(node.op, act.used0, k),
           NEW o \in 1 .. Len(tree),
           NEW f \in Seq(Nameframe), Len(f) = act.frames0, Deep(f),
           NEW mm, GenInFrame(Kid(k), u, o, a, act.used0, f, mm)
    PROVE  Book(s)'
<1>. DEFINE d == act.used0  n == frameWords(tree, o)  g == OpenFrame(f, d, n)
            mn == EnterFrame(mm, d, n)
<1>1. act.used0 \in 0 .. 10 /\ status = "run" /\ node = tree[act.id] BY AtBook
<1>2. tree \in Programs /\ act.frames0 \in Nat \ {0} /\ f # <<>>
  <2>1. tree \in Programs /\ act.frames0 \in Nat \ {0} BY <1>1, AtFacts, InvFacts
  <2>. QED BY <2>1
<1>3. n \in Nat BY <1>2, FrameWordsType
<1>4. d \in 0 .. 14 /\ ~ (d > regStackSz) /\ o # 0
  <2>1. Len(tree) \in Nat BY <1>2, TreeFacts
  <2>. QED BY <1>1, <2>1 DEF regStackSz
<1>5. Gen(Kid(k), a, u, g, mn) BY <1>4 DEF GenInFrame
<1>. HIDE DEF n, mn
<1>6. /\ g \in Seq(Nameframe) /\ Len(g) = Len(f) + 1
      /\ g[Len(f) + 1].regSaved = d
      /\ \A i \in 1 .. Len(f) : g[i].regSaved = f[i].regSaved
  <2>. HIDE DEF d, g
  <2>1. OpenFrame(f, d, n) \in Seq(Nameframe) /\ Len(OpenFrame(f, d, n)) = Len(f) + 1
    BY <1>3, <1>4, OpenFrameType
  <2>2. /\ OpenFrame(f, d, n)[Len(f) + 1].regSaved = d
        /\ \A i \in 1 .. Len(f) : OpenFrame(f, d, n)[i].regSaved = f[i].regSaved
    BY ZenonT(30), <1>2, <1>3, <1>4, SavedOpened
  <2>. QED BY <2>1, <2>2 DEF g
<1>. HIDE DEF g
<1>7. Deep(g) BY <1>6 DEF Deep
<1>8. FrameBook(tree, g, a) BY <1>6 DEF FrameBook
<1>9. Len(g) = a.frames0 + opened(tree, a) BY <1>2, <1>6
<1>10. /\ a.pc \in Waiting /\ a.pc # "push" /\ ~ (node.op = "endl") OBVIOUS
<1>. QED BY <1>5, <1>6, <1>7, <1>8, <1>9, <1>10, NodeGen

LEMMA ClosedBook ==
    ASSUME Inv, NEW s, Shaped(tree, s), Book(s), NEW ops, NEW p, At(ops, p),
           opened(tree, act) = 1
    PROVE  /\ CloseFrame(nf) \in Seq(Nameframe) /\ Len(CloseFrame(nf)) = act.frames0
           /\ Deep(CloseFrame(nf)) /\ Len(CloseFrame(nf)) >= act.frames0
           /\ node.op # "func" => ClosedUsed(nf) = act.used0
<1>1. /\ status = "run" /\ nf \in Seq(Nameframe) /\ nf # <<>> /\ FrameBook(tree, nf, act)
      /\ node = tree[act.id]
  BY AtBook
<1>2. act.frames0 \in Nat /\ Len(nf) = act.frames0 + 1 BY <1>1, InvFacts
<1>3. /\ CloseFrame(nf) \in Seq(Nameframe) /\ Len(CloseFrame(nf)) = Len(nf) - 1
      /\ \A i \in 1 .. Len(nf) - 1 : CloseFrame(nf)[i].regSaved = nf[i].regSaved
  BY <1>1, CloseFrameType, SavedKept
<1>4. Len(nf) - 1 = act.frames0 BY <1>2
<1>5. Len(CloseFrame(nf)) >= act.frames0 BY <1>2, <1>3, <1>4
<1>6. node.op # "func" => ClosedUsed(nf) = act.used0
  BY <1>1, <1>2 DEF FrameBook, Saves, ClosedUsed
<1>. QED BY <1>3, <1>4, <1>5, <1>6 DEF Deep

LEMMA SingleOp ==
    ASSUME Inv, NEW s, Shaped(tree, s), Book(s), NEW ops, NEW op, ops = {op},
           NEW p, At(ops, p), p # "enter"
    PROVE  /\ status = "run" /\ act.pc = p /\ act.used0 \in 0 .. 10 /\ act.used0 \in Nat
           /\ node = tree[act.id] /\ node.op = op
           /\ used = InUse(tree, s, act) /\ NodeShaped(tree, s, act.id)
           /\ act.used0 = s.dep[act.id] /\ ActBook(tree, s, act) /\ r1 = act.used0
           /\ act.id # 0 /\ act.id \in 1 .. Len(tree)
           /\ Kept(s, act.id) = IF s.one[act.id] THEN 1 ELSE 0
           /\ \A k : Child(tree, act.id, k) = Kid(k)
           /\ \A k \in Nat : Kid(k) \in 0 .. Len(tree)
<1>1. /\ status = "run" /\ act.pc = p /\ act.used0 \in 0 .. 10
      /\ node = tree[act.id]
      /\ used = InUse(tree, s, act) /\ NodeShaped(tree, s, act.id)
      /\ act.used0 = s.dep[act.id] /\ ActBook(tree, s, act) /\ r1 = act.used0
      /\ act.id # 0 /\ act.id \in 1 .. Len(tree)
      /\ Kept(s, act.id) = IF s.one[act.id] THEN 1 ELSE 0
      /\ \A k : Child(tree, act.id, k) = Kid(k)
      /\ \A k \in Nat : Kid(k) \in 0 .. Len(tree)
  BY AtBook
<1>2. act.used0 \in 0 .. 10 BY AtBook
<1>3. act.used0 \in Nat BY <1>2
<1>4. node.op \in ops BY AtBook
<1>5. node.op = op BY <1>4
<1>. QED BY <1>1, <1>3, <1>5

LEMMA EndlBook ==
    ASSUME Inv, NEW s, Shaped(tree, s), Book(s), Endl
    PROVE  Book(s)'
<1>. DEFINE ops == {"endl"}
<1>a. /\ \A q : \A o \in ops : <<o, q>> \notin FrameOpen
      /\ "left" \in PCs /\ "left" \in Waiting \ {"push"}
      /\ "right" \in PCs /\ "right" \in Waiting \ {"push"}
      /\ "endl" \notin OneOperand \union {"func"}
  BY Openings DEF FrameOpen, Waiting, OneOperand
<1>b. ASSUME NEW p \in {"body", "left", "right"}, At(ops, p)
      PROVE  /\ status = "run" /\ act.pc = p /\ act.used0 \in 0 .. 10 /\ act.used0 \in Nat
             /\ node = tree[act.id] /\ node.op = "endl"
             /\ used = InUse(tree, s, act) /\ NodeShaped(tree, s, act.id)
             /\ act.used0 = s.dep[act.id] /\ ActBook(tree, s, act)
             /\ act.id # 0
             /\ Kept(s, act.id) = IF s.one[act.id] THEN 1 ELSE 0
             /\ \A k : Child(tree, act.id, k) = Kid(k)
             /\ Operands(tree, act.id) = {1, 2}
  <2>1. ops = {"endl"} OBVIOUS
  <2>. HIDE DEF ops
  <2>a. p # "enter" OBVIOUS
  <2>2. node.op = "endl" /\ node = tree[act.id] BY <1>b, <2>a, <2>1, SingleOp
  <2>3. Operands(tree, act.id) = {1, 2} BY <2>2, OperandSets
  <2>. QED BY <1>b, <2>a, <2>1, <2>3, SingleOp
<1>c. nf \in Seq(Nameframe) /\ Len(nf) = Len(nf) /\ Deep(nf)
  <2>1. status = "run" BY DEF Endl, At
  <2>. QED BY <2>1, InvFacts DEF Types, Deep
<1>1. ASSUME At(ops, "body"), Gen(Kid(1), Resume("left"), used, nf, m) PROVE Book(s)'
  <2>. DEFINE a == Resume("left")
  <2>1. status = "run" /\ act.used0 \in 0 .. 10 /\ used = act.used0 /\ node.op = "endl"
        /\ act.used0 \in Nat /\ 1 \in Operands(tree, act.id)
    BY <1>1, <1>b DEF InUse
  <2>2. Operand(tree, a) = 1
    <3>1. a.pc = "left" BY <2>1, <1>a, Resumed
    <3>. QED BY <3>1, OperandAt
  <2>3. Start(node.op, act.used0, 1) = act.used0 BY <2>1, Starts
  <2>4. used = Start(node.op, act.used0, 1) /\ used \in 0 .. 12 BY <2>1, <2>3
  <2>. HIDE DEF a, ops
  <2>5. a = Resume("left") /\ 1 \in Nat BY DEF a
  <2>. QED BY <1>1, <1>a, <1>c, <2>1, <2>2, <2>4, <2>5, PlainNodeGen
<1>2. ASSUME At(ops, "left"), NEW mm, Kid(2) = 0, Finish(used, nf, mm)
      PROVE  Book(s)'
  <2>1. /\ used = InUse(tree, s, act) /\ act.pc = "left" /\ node.op = "endl"
        /\ act.used0 \in Nat /\ 1 \in Operands(tree, act.id)
        /\ Kept(s, act.id) = IF s.one[act.id] THEN 1 ELSE 0
        /\ NodeShaped(tree, s, act.id) /\ Child(tree, act.id, 2) = 0 /\ node = tree[act.id]
    BY <1>2, <1>b
  <2>2. used = Start(node.op, act.used0, 1) + 1
    <3>1. Operand(tree, act) = 1 BY <2>1, OperandAt
    <3>2. <<node.op, 1>> \notin Uncounted BY <2>1 DEF Uncounted
    <3>. QED BY <1>2, <1>a, <2>1, <3>1, <3>2, Counted
  <2>3. Start(node.op, act.used0, 1) = act.used0 BY <2>1, Starts
  <2>4. Kept(s, act.id) = 1 BY <2>1 DEF NodeShaped
  <2>5. used = act.used0 + Kept(s, act.id) BY <2>2, <2>3, <2>4
  <2>. QED BY <1>2, <1>a, <2>5, PlainNodeFinish
<1>3. ASSUME At(ops, "left"), Kid(2) # 0 PROVE Less(used, 1) = 0
  <2>1. /\ used = InUse(tree, s, act) /\ act.pc = "left" /\ node.op = "endl"
        /\ act.used0 = s.dep[act.id] /\ 1 \in Operands(tree, act.id) /\ act.used0 \in Nat
        /\ NodeShaped(tree, s, act.id) /\ Child(tree, act.id, 2) # 0 /\ node = tree[act.id]
    BY <1>3, <1>b
  <2>2. act.used0 = 0 BY <2>1 DEF NodeShaped
  <2>3. used = Start(node.op, act.used0, 1) + 1
    <3>1. Operand(tree, act) = 1 BY <2>1, OperandAt
    <3>2. <<node.op, 1>> \notin Uncounted BY <2>1 DEF Uncounted
    <3>. QED BY <1>3, <1>a, <2>1, <3>1, <3>2, Counted
  <2>4. Start(node.op, act.used0, 1) = act.used0 BY <2>1, Starts
  <2>. QED BY <2>2, <2>3, <2>4 DEF Less
<1>4. ASSUME At(ops, "left"), Kid(2) # 0, Gen(Kid(2), Resume("right"), 0, nf, m)
      PROVE  Book(s)'
  <2>. DEFINE a == Resume("right")
  <2>1. status = "run" /\ act.used0 \in Nat /\ node.op = "endl" /\ node = tree[act.id]
        /\ 2 \in Operands(tree, act.id)
    BY <1>4, <1>b
  <2>2. Operand(tree, a) = 2
    <3>1. a.pc = "right" /\ a.id = act.id BY <2>1, <1>a, Resumed
    <3>. QED BY <2>1, <1>a, <3>1, OperandAt
  <2>3. 0 = Start(node.op, act.used0, 2) BY <2>1, Starts
  <2>. HIDE DEF a, ops
  <2>4. a = Resume("right") /\ 2 \in Nat /\ 0 \in 0 .. 12 BY DEF a
  <2>. QED BY <1>4, <1>a, <1>c, <2>1, <2>2, <2>3, <2>4, PlainNodeGen
<1>5. ASSUME At(ops, "right"), NEW mm, Finish(used, nf, mm) PROVE Book(s)'
  <2>1. /\ used = InUse(tree, s, act) /\ act.pc = "right" /\ node.op = "endl"
        /\ act.used0 = s.dep[act.id] /\ act.used0 \in Nat
        /\ NodeShaped(tree, s, act.id) /\ node = tree[act.id]
        /\ Kept(s, act.id) = IF s.one[act.id] THEN 1 ELSE 0
    BY <1>5, <1>b
  <2>2. Child(tree, act.id, 2) # 0 BY <1>5, <1>b DEF ActBook
  <2>3. act.used0 = 0 /\ s.one[act.id] = s.one[Child(tree, act.id, 2)]
    BY <2>1, <2>2 DEF NodeShaped
  <2>4. Operand(tree, act) = 2 BY <2>1, <1>a, OperandAt
  <2>5. used = Start(node.op, act.used0, 2) + Kept(s, Child(tree, act.id, 2))
    BY <2>1, <2>4 DEF InUse
  <2>6. Start(node.op, act.used0, 2) = 0 BY <2>1, Starts
  <2>7. Kept(s, Child(tree, act.id, 2)) = Kept(s, act.id)
    BY <2>1, <2>2, <2>3 DEF Kept
  <2>8. Kept(s, act.id) \in Nat BY <2>1
  <2>9. used = act.used0 + Kept(s, act.id) BY <2>3, <2>5, <2>6, <2>7, <2>8
  <2>. QED BY <1>5, <1>a, <2>9, PlainNodeFinish
<1>. QED BY <1>1, <1>2, <1>3, <1>4, <1>5 DEF Endl

LEMMA LogicBook ==
    ASSUME Inv, NEW s, Shaped(tree, s), Book(s), Logic
    PROVE  Book(s)'
<1>. DEFINE ops == {"logic"}
<1>a. /\ \A q : \A o \in ops : <<o, q>> \notin FrameOpen
      /\ "left" \in PCs /\ "left" \in Waiting \ {"push"}
      /\ "right" \in PCs /\ "right" \in Waiting \ {"push"}
      /\ "logic" \notin OneOperand \union {"func"}
  BY Openings DEF FrameOpen, Waiting, OneOperand
<1>b. ASSUME NEW p \in {"body", "left", "right"}, At(ops, p)
      PROVE  /\ status = "run" /\ act.pc = p /\ act.used0 \in 0 .. 10 /\ act.used0 \in Nat
             /\ node = tree[act.id] /\ node.op = "logic" /\ act.id # 0
             /\ used = InUse(tree, s, act) /\ NodeShaped(tree, s, act.id)
             /\ Kept(s, act.id) = IF s.one[act.id] THEN 1 ELSE 0
             /\ Operands(tree, act.id) = {1, 2}
  <2>1. ops = {"logic"} /\ p # "enter" OBVIOUS
  <2>. HIDE DEF ops
  <2>2. node.op = "logic" /\ node = tree[act.id] BY <1>b, <2>1, SingleOp
  <2>3. Operands(tree, act.id) = {1, 2} BY <2>2, OperandSets
  <2>. QED BY <1>b, <2>1, <2>3, SingleOp
<1>c. nf \in Seq(Nameframe) /\ Len(nf) = Len(nf) /\ Deep(nf) /\ m \in Machine
  <2>1. status = "run" BY DEF Logic, At
  <2>. QED BY <2>1, InvFacts DEF Types, Deep
<1>1. ASSUME At(ops, "body"), Gen(Kid(1), Resume("left"), used, nf, m) PROVE Book(s)'
  <2>. DEFINE a == Resume("left")
  <2>1. status = "run" /\ act.used0 \in 0 .. 10 /\ used = act.used0 /\ node.op = "logic"
        /\ act.used0 \in Nat /\ 1 \in Operands(tree, act.id)
    BY <1>1, <1>b DEF InUse
  <2>2. Operand(tree, a) = 1
    <3>1. a.pc = "left" BY <2>1, <1>a, Resumed
    <3>. QED BY <3>1, OperandAt
  <2>3. Start(node.op, act.used0, 1) = act.used0 BY <2>1, Starts
  <2>4. used = Start(node.op, act.used0, 1) /\ used \in 0 .. 12 BY <2>1, <2>3
  <2>. HIDE DEF a, ops
  <2>5. a = Resume("left") /\ 1 \in Nat BY DEF a
  <2>. QED BY <1>1, <1>a, <1>c, <2>1, <2>2, <2>4, <2>5, PlainNodeGen
<1>2. ASSUME At(ops, "left"), Gen(Kid(2), Fork("right", Holds(m, r1, Kid(1)), m), Less(used, 1), nf, m)
      PROVE  Book(s)'
  <2>. DEFINE ok == Holds(m, r1, Kid(1))  a == Fork("right", ok, m)  u == Less(used, 1)
  <2>1. status = "run" /\ act.used0 \in 0 .. 10 /\ act.used0 \in Nat /\ node.op = "logic"
        /\ node = tree[act.id] /\ act.pc = "left" /\ act.id # 0
        /\ 1 \in Operands(tree, act.id) /\ 2 \in Operands(tree, act.id)
    BY <1>2, <1>b
  <2>2. used = Start(node.op, act.used0, 1) + 1
    <3>1. Operand(tree, act) = 1 BY <2>1, OperandAt
    <3>2. <<node.op, 1>> \notin Uncounted BY <2>1 DEF Uncounted
    <3>. QED BY <1>2, <1>a, <2>1, <3>1, <3>2, Counted
  <2>3. Start(node.op, act.used0, 1) = act.used0 /\ Start(node.op, act.used0, 2) = act.used0
    BY <2>1, Starts
  <2>4. used = act.used0 + 1 BY <2>2, <2>3
  <2>5. u = act.used0 BY <2>1, <2>4 DEF Less
  <2>6. u = Start(node.op, act.used0, 2) /\ u \in 0 .. 12 BY <2>1, <2>3, <2>5
  <2>7. ok \in BOOLEAN BY DEF Holds
  <2>8. a = Fork("right", ok, m) OBVIOUS
  <2>9. Gen(Kid(2), a, u, nf, m) BY <1>2
  <2>. HIDE DEF ok, a, u, ops
  <2>10. Operand(tree, a) = 2
    <3>1. "right" \in PCs /\ m \in Machine BY <1>a, <1>c
    <3>2. Forking("right", ok, m) BY <2>1, <2>7, <3>1 DEF Forking
    <3>3. ForkedTo("right", Fork("right", ok, m)) BY <3>2, ForkedAt
    <3>4. a.pc = "right" /\ a.id = act.id BY <2>8, <3>3 DEF ForkedTo
    <3>. QED BY <2>1, <1>a, <3>4, OperandAt
  <2>11. 2 \in Nat /\ ~ (node.op = "endl") BY <2>1
  <2>. QED BY <1>2, <1>a, <1>c, <2>1, <2>6, <2>7, <2>8, <2>9, <2>10, <2>11, PlainNodeGen
<1>3. ASSUME At(ops, "right"), NEW mm, Finish(used, nf, mm) PROVE Book(s)'
  <2>1. /\ act.used0 \in Nat /\ node.op = "logic" /\ act.pc = "right"
        /\ node = tree[act.id] /\ NodeShaped(tree, s, act.id)
        /\ Kept(s, act.id) = IF s.one[act.id] THEN 1 ELSE 0
        /\ 2 \in Operands(tree, act.id)
    BY <1>3, <1>b
  <2>2. used = Start(node.op, act.used0, 2) + 1
    <3>1. Operand(tree, act) = 2 BY <2>1, <1>a, OperandAt
    <3>2. <<node.op, 2>> \notin Uncounted BY <2>1 DEF Uncounted
    <3>. QED BY <1>3, <1>a, <2>1, <3>1, <3>2, Counted
  <2>3. Start(node.op, act.used0, 2) = act.used0 BY <2>1, Starts
  <2>4. Kept(s, act.id) = 1 BY <2>1 DEF NodeShaped
  <2>5. used = act.used0 + Kept(s, act.id) BY <2>2, <2>3, <2>4
  <2>. QED BY <1>3, <1>a, <2>5, PlainNodeFinish
<1>. QED BY <1>1, <1>2, <1>3 DEF Logic

\* Both arms of a ternary start from nothing in use and the frame gives back
\* what the condition left.
LEMMA TernBook ==
    ASSUME Inv, NEW s, Shaped(tree, s), Book(s), Tern
    PROVE  Book(s)'
<1>. DEFINE ops == {"tern"}
<1>a. /\ \A q \in {"body", "test"} : \A o \in ops : <<o, q>> \notin FrameOpen
      /\ \A q \in {"then", "else"} : <<"tern", q>> \in FrameOpen
      /\ \A q \in {"test", "then", "else"} : q \in PCs /\ q \in Waiting \ {"push"}
  BY Openings DEF Waiting
<1>b. ASSUME NEW p \in {"body", "test", "then", "else"}, At(ops, p)
      PROVE  /\ status = "run" /\ act.pc = p /\ act.used0 \in 0 .. 10 /\ act.used0 \in Nat
             /\ node = tree[act.id] /\ node.op = "tern" /\ act.id # 0
             /\ used = InUse(tree, s, act) /\ NodeShaped(tree, s, act.id)
             /\ Kept(s, act.id) = 1
             /\ Kid(2) \in 1 .. Len(tree) /\ Kid(3) \in 1 .. Len(tree)
             /\ Operands(tree, act.id) = {1, 2, 3}
             /\ act.save \in Machine /\ act.ok \in BOOLEAN
  <2>1. ops = {"tern"} /\ p # "enter" OBVIOUS
  <2>. HIDE DEF ops
  <2>2. /\ node.op = "tern" /\ node = tree[act.id] /\ NodeShaped(tree, s, act.id)
        /\ Kept(s, act.id) = IF s.one[act.id] THEN 1 ELSE 0
        /\ \A k : Child(tree, act.id, k) = Kid(k)
    BY <1>b, <2>1, SingleOp
  <2>3. Operands(tree, act.id) = {1, 2, 3} BY <2>2, OperandSets
  <2>4. Kept(s, act.id) = 1 /\ Kid(2) # 0 /\ Kid(3) # 0 BY <2>2 DEF NodeShaped
  <2>5. \A k \in Nat : Kid(k) \in 0 .. Len(tree) BY <1>b, <2>1, SingleOp
  <2>6. Kid(2) \in 0 .. Len(tree) /\ Kid(3) \in 0 .. Len(tree) BY <2>5
  <2>7. tree \in Programs BY <1>b, AtFacts
  <2>8. Len(tree) \in Nat BY <2>7, TreeFacts
  <2>9. Kid(2) \in 1 .. Len(tree) /\ Kid(3) \in 1 .. Len(tree)
    BY <2>4, <2>6, <2>8
  <2>10. status = "run" BY <1>b, AtFacts
  <2>11. act.save \in Machine /\ act.ok \in BOOLEAN BY <2>10, RegFacts
  <2>. QED BY <1>b, <2>1, <2>3, <2>4, <2>9, <2>11, SingleOp
<1>c. nf \in Seq(Nameframe) /\ Len(nf) = Len(nf) /\ Deep(nf) /\ m \in Machine
  <2>1. status = "run" BY DEF Tern, At
  <2>. QED BY <2>1, InvFacts DEF Types, Deep
<1>1. ASSUME At(ops, "body"), Gen(Kid(1), Resume("test"), used, nf, m) PROVE Book(s)'
  <2>. DEFINE a == Resume("test")
  <2>1. status = "run" /\ act.used0 \in 0 .. 10 /\ used = act.used0 /\ node.op = "tern"
        /\ act.used0 \in Nat /\ 1 \in Operands(tree, act.id)
    BY <1>1, <1>b DEF InUse
  <2>2. Operand(tree, a) = 1
    <3>1. a.pc = "test" BY <2>1, <1>a, Resumed
    <3>. QED BY <3>1, OperandAt
  <2>3. Start(node.op, act.used0, 1) = act.used0 BY <2>1, Starts
  <2>4. used = Start(node.op, act.used0, 1) /\ used \in 0 .. 12 BY <2>1, <2>3
  <2>5. /\ \A o \in ops : <<o, "body">> \notin FrameOpen /\ <<o, "test">> \notin FrameOpen
        /\ "test" \in PCs /\ "test" \in Waiting \ {"push"}
    BY <1>a
  <2>. HIDE DEF a, ops
  <2>6. a = Resume("test") /\ 1 \in Nat BY DEF a
  <2>. QED BY <1>1, <1>c, <2>1, <2>2, <2>4, <2>5, <2>6, PlainNodeGen
\* An arm: its frame is opened with what was in use before the condition.
<1>2. ASSUME NEW p \in {"test", "then"}, At(ops, p), NEW q \in {"then", "else"},
             NEW ok \in BOOLEAN, NEW mT \in Machine, NEW k \in {2, 3},
             k = IF q = "then" THEN 2 ELSE 3,
             NEW f \in Seq(Nameframe), Len(f) = act.frames0, Deep(f),
             NEW mm, GenInFrame(Kid(k), 0, Kid(k), Fork(q, ok, mT), act.used0, f, mm)
      PROVE  Book(s)'
  <2>. DEFINE a == Fork(q, ok, mT)
  <2>1. /\ status = "run" /\ act.used0 \in Nat /\ node.op = "tern" /\ act.id # 0
        /\ node = tree[act.id] /\ k \in Operands(tree, act.id)
        /\ Kid(k) \in 1 .. Len(tree)
    BY <1>2, <1>b
  <2>2. q \in PCs BY <1>a
  <2>3. /\ a \in Activation /\ a.id = act.id /\ a.pc = q /\ a.frames0 = act.frames0
        /\ opened(tree, a) = IF <<node.op, q>> \in FrameOpen THEN 1 ELSE 0
    BY <1>2, <2>1, <2>2, Forked
  <2>4. a.used0 = act.used0 /\ a.r1 = act.r1 BY <1>2, <2>1, <2>2, Placed
  <2>5. opened(tree, a) = 1 BY <1>a, <2>1, <2>3
  <2>6. k = Operand(tree, a) BY <1>2, <2>3, OperandAt
  <2>7. 0 = Start(node.op, act.used0, k) BY <2>1, Starts
  <2>8. a.pc \in Waiting \ {"push"} /\ node.op # "endl" BY <1>a, <2>1, <2>3
  <2>9. GenInFrame(Kid(k), 0, Kid(k), a, act.used0, f, mm) BY <1>2
  <2>. HIDE DEF a, ops
  <2>10. p # "enter" /\ k \in Nat /\ 0 \in 0 .. 12 OBVIOUS
  <2>. QED BY <1>2, <2>1, <2>3, <2>4, <2>5, <2>6, <2>7, <2>8, <2>9, <2>10, InFrameBook
<1>3. ASSUME At(ops, "test"), NEW ok \in BOOLEAN,
             GenInFrame(Kid(2), 0, Kid(2), Fork("then", ok, m), Less(used, 1), nf, m)
      PROVE  Book(s)'
  <2>1. /\ act.used0 \in Nat /\ node.op = "tern" /\ act.pc = "test"
        /\ node = tree[act.id] /\ 1 \in Operands(tree, act.id)
    BY <1>3, <1>b
  <2>2. used = Start(node.op, act.used0, 1) + 1
    <3>1. Operand(tree, act) = 1 BY <2>1, OperandAt
    <3>2. <<node.op, 1>> \notin Uncounted BY <2>1 DEF Uncounted
    <3>3. "test" \in Waiting BY <1>a
    <3>. QED BY <1>3, <2>1, <3>1, <3>2, <3>3, Counted
  <2>3. Start(node.op, act.used0, 1) = act.used0 BY <2>1, Starts
  <2>4. used = act.used0 + 1 BY <2>2, <2>3
  <2>5. Less(used, 1) = act.used0 BY <2>1, <2>4 DEF Less
  <2>6. Len(nf) = act.frames0
    <3>1. \A o \in ops : <<o, "test">> \notin FrameOpen BY <1>a
    <3>. QED BY <1>3, <3>1, PlainPlace
  <2>7. GenInFrame(Kid(2), 0, Kid(2), Fork("then", ok, m), act.used0, nf, m)
    BY <1>3, <2>5
  <2>. QED BY <1>2, <1>3, <1>c, <2>6, <2>7
<1>4. ASSUME At(ops, "then"), NEW mm, NEW mT \in Machine, NEW ok \in BOOLEAN,
             GenInFrame(Kid(3), 0, Kid(3), Fork("else", ok, mT),
                        ClosedUsed(nf), CloseFrame(nf), mm)
      PROVE  Book(s)'
  <2>1. opened(tree, act) = 1 /\ node.op # "func"
    <3>1. node.op = "tern" BY <1>4, <1>b
    <3>. QED BY <1>4, <1>a, <3>1, AtFacts
  <2>2. /\ CloseFrame(nf) \in Seq(Nameframe) /\ Len(CloseFrame(nf)) = act.frames0
        /\ Deep(CloseFrame(nf)) /\ ClosedUsed(nf) = act.used0
    BY <1>4, <2>1, ClosedBook
  <2>3. GenInFrame(Kid(3), 0, Kid(3), Fork("else", ok, mT),
                   act.used0, CloseFrame(nf), mm)
    BY <1>4, <2>2
  <2>. QED BY <1>2, <1>4, <2>2, <2>3
<1>5. ASSUME At(ops, "else"), NEW mm, Finish(ClosedUsed(nf) + 1, CloseFrame(nf), mm)
      PROVE  Book(s)'
  <2>1. opened(tree, act) = 1 /\ node.op # "func"
    <3>1. node.op = "tern" BY <1>5, <1>b
    <3>. QED BY <1>5, <1>a, <3>1, AtFacts
  <2>2. /\ CloseFrame(nf) \in Seq(Nameframe) /\ Len(CloseFrame(nf)) >= act.frames0
        /\ Deep(CloseFrame(nf)) /\ ClosedUsed(nf) = act.used0
    BY <1>5, <2>1, ClosedBook
  <2>3. ClosedUsed(nf) + 1 = act.used0 + Kept(s, act.id) BY <1>5, <1>b, <2>2
  <2>. QED BY <1>5, <2>2, <2>3, NodeFinish
<1>d. ASSUME At(ops, "then")
      PROVE  act.ok \in BOOLEAN /\ ArmResult(Kid(2), act.ok) \in Machine
  <2>1. act.ok \in BOOLEAN /\ status = "run" BY <1>d, <1>b
  <2>2. nf # <<>> BY <1>d, AtBook
  <2>. QED BY <2>1, <2>2, ArmResultType
<1>6. CASE At(ops, "test") /\ GenInFrame(Kid(2), 0, Kid(2),
              Fork("then", Holds(m, r1, Kid(1)), m), Less(used, 1), nf, m)
  <2>1. Holds(m, r1, Kid(1)) \in BOOLEAN BY DEF Holds
  <2>. QED BY <1>3, <1>6, <2>1
<1>7. CASE At(ops, "then") /\ GenInFrame(Kid(3), 0, Kid(3),
              Fork("else", act.ok, ArmResult(Kid(2), act.ok)),
              ClosedUsed(nf), CloseFrame(nf), act.save)
  BY <1>4, <1>7, <1>d
<1>. QED BY <1>1, <1>5, <1>6, <1>7 DEF Tern

LEMMA QqBook ==
    ASSUME Inv, NEW s, Shaped(tree, s), Book(s), Qq
    PROVE  Book(s)'
<1>. DEFINE ops == {"qq"}
<1>a. /\ \A q \in {"body", "test"} : \A o \in ops : <<o, q>> \notin FrameOpen
      /\ <<"qq", "right">> \in FrameOpen
      /\ \A q \in {"test", "right"} : q \in PCs /\ q \in Waiting \ {"push"}
      /\ "qq" \notin OneOperand \union {"func"}
  BY Openings DEF Waiting, OneOperand
<1>b. ASSUME NEW p \in {"body", "test", "right"}, At(ops, p)
      PROVE  /\ status = "run" /\ act.pc = p /\ act.used0 \in 0 .. 10 /\ act.used0 \in Nat
             /\ node = tree[act.id] /\ node.op = "qq" /\ act.id # 0
             /\ act.id \in 1 .. Len(tree)
             /\ used = InUse(tree, s, act) /\ Kept(s, act.id) = 1
             /\ Operands(tree, act.id) = {1, 2}
  <2>1. ops = {"qq"} /\ p # "enter" OBVIOUS
  <2>. HIDE DEF ops
  <2>2. /\ node.op = "qq" /\ node = tree[act.id] /\ NodeShaped(tree, s, act.id)
        /\ Kept(s, act.id) = IF s.one[act.id] THEN 1 ELSE 0
    BY <1>b, <2>1, SingleOp
  <2>3. Operands(tree, act.id) = {1, 2} BY <2>2, OperandSets
  <2>4. Kept(s, act.id) = 1 BY <2>2 DEF NodeShaped
  <2>. QED BY <1>b, <2>1, <2>3, <2>4, SingleOp
<1>c. nf \in Seq(Nameframe) /\ Len(nf) = Len(nf) /\ Deep(nf) /\ m \in Machine /\ nf # <<>>
  <2>1. status = "run" BY DEF Qq, At
  <2>2. nf # <<>> BY AtFacts DEF Qq
  <2>. QED BY <2>1, <2>2, InvFacts DEF Types, Deep
<1>1. ASSUME At(ops, "body"), Gen(Kid(1), Resume("test"), used, nf, m) PROVE Book(s)'
  <2>. DEFINE a == Resume("test")
  <2>1. status = "run" /\ act.used0 \in 0 .. 10 /\ used = act.used0 /\ node.op = "qq"
        /\ act.used0 \in Nat /\ 1 \in Operands(tree, act.id)
    BY <1>1, <1>b DEF InUse
  <2>2. Operand(tree, a) = 1
    <3>1. a.pc = "test" BY <2>1, <1>a, Resumed
    <3>. QED BY <3>1, OperandAt
  <2>3. Start(node.op, act.used0, 1) = act.used0 BY <2>1, Starts
  <2>4. used = Start(node.op, act.used0, 1) /\ used \in 0 .. 12 BY <2>1, <2>3
  <2>5. /\ \A o \in ops : <<o, "body">> \notin FrameOpen /\ <<o, "test">> \notin FrameOpen
        /\ "test" \in PCs /\ "test" \in Waiting \ {"push"}
    BY <1>a
  <2>. HIDE DEF a, ops
  <2>6. a = Resume("test") /\ 1 \in Nat BY DEF a
  <2>. QED BY <1>1, <1>c, <2>1, <2>2, <2>4, <2>5, <2>6, PlainNodeGen
<1>2. ASSUME At(ops, "test"), NEW mT \in Machine, NEW mm,
             GenInFrame(Kid(2), 0, act.id, Fork("right", TRUE, mT), Less(used, 1),
                        Pushed(nf, -1), mm)
      PROVE  Book(s)'
  <2>. DEFINE a == Fork("right", TRUE, mT)  f == Pushed(nf, -1)
  <2>1. /\ status = "run" /\ act.used0 \in Nat /\ node.op = "qq" /\ act.pc = "test"
        /\ node = tree[act.id] /\ act.id # 0 /\ act.id \in 1 .. Len(tree)
        /\ 1 \in Operands(tree, act.id) /\ 2 \in Operands(tree, act.id)
    BY <1>2, <1>b
  <2>2. used = Start(node.op, act.used0, 1) + 1
    <3>1. Operand(tree, act) = 1 BY <2>1, OperandAt
    <3>2. <<node.op, 1>> \notin Uncounted BY <2>1 DEF Uncounted
    <3>3. "test" \in Waiting BY <1>a
    <3>. QED BY <1>2, <2>1, <3>1, <3>2, <3>3, Counted
  <2>3. Start(node.op, act.used0, 1) = act.used0 /\ Start(node.op, act.used0, 2) = 0
    BY <2>1, Starts
  <2>4. used = act.used0 + 1 BY <2>2, <2>3
  <2>5. Less(used, 1) = act.used0 BY <2>1, <2>4 DEF Less
  <2>6. Len(nf) = act.frames0
    <3>1. \A o \in ops : <<o, "test">> \notin FrameOpen BY <1>a
    <3>. QED BY <1>2, <3>1, PlainPlace
  <2>7. f \in Seq(Nameframe) /\ Len(f) = act.frames0 /\ Deep(f)
    <3>1. -1 \in Int OBVIOUS
    <3>2. f \in Seq(Nameframe) /\ Len(f) = Len(nf) BY <1>c, <3>1, PushedType
    <3>3. \A i \in 1 .. Len(nf) : f[i].regSaved = nf[i].regSaved BY <1>c, <3>1, SavedKept
    <3>. QED BY <2>6, <3>2, <3>3 DEF Deep
  <2>8. "right" \in PCs BY <1>a
  <2>9. /\ a \in Activation /\ a.id = act.id /\ a.pc = "right" /\ a.frames0 = act.frames0
        /\ opened(tree, a) = IF <<node.op, "right">> \in FrameOpen THEN 1 ELSE 0
    <3>1. Forking("right", TRUE, mT) BY <1>2, <2>1, <2>8 DEF Forking
    <3>2. ForkedTo("right", a) BY <3>1, ForkedAt
    <3>. QED BY <3>2 DEF ForkedTo
  <2>10. a.used0 = act.used0 /\ a.r1 = act.r1 BY <1>2, <2>1, <2>8, Placed
  <2>11. opened(tree, a) = 1 /\ a.pc \in Waiting \ {"push"} BY <1>a, <2>1, <2>9
  <2>12. 2 = Operand(tree, a) BY <1>a, <2>1, <2>9, OperandAt
  <2>13. GenInFrame(Kid(2), 0, act.id, a, act.used0, f, mm) BY <1>2, <2>5
  <2>. HIDE DEF a, f, ops
  <2>14. /\ 2 \in Nat /\ 0 \in 0 .. 12 /\ 0 = Start(node.op, act.used0, 2)
         /\ node.op # "endl"
    BY <2>1, <2>3
  <2>. QED BY <1>2, <2>1, <2>7, <2>9, <2>10, <2>11, <2>12, <2>13, <2>14, InFrameBook
<1>3. ASSUME At(ops, "right"), NEW mm, Finish(ClosedUsed(nf) + 1, CloseFrame(nf), mm)
      PROVE  Book(s)'
  <2>1. opened(tree, act) = 1 /\ node.op # "func"
    <3>1. node.op = "qq" BY <1>3, <1>b
    <3>. QED BY <1>3, <1>a, <3>1, AtFacts
  <2>2. /\ CloseFrame(nf) \in Seq(Nameframe) /\ Len(CloseFrame(nf)) >= act.frames0
        /\ Deep(CloseFrame(nf)) /\ ClosedUsed(nf) = act.used0
    BY <1>3, <2>1, ClosedBook
  <2>3. ClosedUsed(nf) + 1 = act.used0 + Kept(s, act.id) BY <1>3, <1>b, <2>2
  <2>. QED BY <1>3, <2>2, <2>3, NodeFinish
<1>d. ASSUME At(ops, "test")
      PROVE  Result(Pop(m, r1), r1, act.id, Holds(Pop(m, r1), r1, Kid(1))) \in Machine
  <2>. DEFINE x == Pop(m, r1)  ok == Holds(x, r1, Kid(1))
  <2>1. act.id \in Nat /\ status = "run" BY <1>d, <1>b, InvFacts
  <2>2. x \in Machine BY <1>c, PopType
  <2>. HIDE DEF x, ok
  <2>3. Result(x, r1, act.id, ok) \in Machine BY <2>1, <2>2, ResultType
  <2>. QED BY <2>3 DEF x, ok
<1>. QED BY <1>1, <1>2, <1>3, <1>d DEF Qq

\* The count for the condition starts at one and comes back from the frame.
LEMMA WhileBook ==
    ASSUME Inv, NEW s, Shaped(tree, s), Book(s), While
    PROVE  Book(s)'
<1>. DEFINE ops == {"while"}
<1>a. /\ \A o \in ops : <<o, "body">> \notin FrameOpen
      /\ <<"while", "test">> \in FrameOpen /\ <<"while", "right">> \in FrameOpen
      /\ \A q \in {"test", "right"} : q \in PCs /\ q \in Waiting \ {"push"}
      /\ "while" \notin OneOperand \union {"func"}
  BY Openings DEF Waiting, OneOperand
<1>b. ASSUME NEW p \in {"body", "test", "right"}, At(ops, p)
      PROVE  /\ status = "run" /\ act.pc = p /\ act.used0 \in 0 .. 10 /\ act.used0 \in Nat
             /\ node = tree[act.id] /\ node.op = "while" /\ act.id # 0
             /\ act.id \in 1 .. Len(tree)
             /\ used = InUse(tree, s, act) /\ Kept(s, act.id) = 0
             /\ Operands(tree, act.id) = {1, 2}
  <2>1. ops = {"while"} /\ p # "enter" OBVIOUS
  <2>. HIDE DEF ops
  <2>2. /\ node.op = "while" /\ node = tree[act.id] /\ NodeShaped(tree, s, act.id)
        /\ Kept(s, act.id) = IF s.one[act.id] THEN 1 ELSE 0
    BY <1>b, <2>1, SingleOp
  <2>3. Operands(tree, act.id) = {1, 2} BY <2>2, OperandSets
  <2>4. Kept(s, act.id) = 0 BY <2>2 DEF NodeShaped
  <2>. QED BY <1>b, <2>1, <2>3, <2>4, SingleOp
<1>c. nf \in Seq(Nameframe) /\ Len(nf) = Len(nf) /\ Deep(nf) /\ m \in Machine /\ nf # <<>>
  <2>1. status = "run" BY DEF While, At
  <2>2. nf # <<>> BY AtFacts DEF While
  <2>. QED BY <2>1, <2>2, InvFacts DEF Types, Deep
<1>1. ASSUME At(ops, "body"), GenInFrame(Kid(1), 1, act.id, Resume("test"), used, nf, m)
      PROVE  Book(s)'
  <2>. DEFINE a == Resume("test")
  <2>1. /\ status = "run" /\ used = act.used0 /\ node.op = "while" /\ act.used0 \in Nat
        /\ node = tree[act.id] /\ act.id # 0 /\ act.id \in 1 .. Len(tree)
        /\ 1 \in Operands(tree, act.id)
    BY <1>1, <1>b DEF InUse
  <2>2. Len(nf) = act.frames0 BY <1>1, <1>a, PlainPlace
  <2>3. /\ a \in Activation /\ a.id = act.id /\ a.pc = "test" /\ a.frames0 = act.frames0
        /\ opened(tree, a) = IF act.id # 0 /\ <<node.op, "test">> \in FrameOpen THEN 1 ELSE 0
    BY <1>a, <2>1, Resumed
  <2>4. a.used0 = act.used0 /\ a.r1 = act.r1 BY <1>a, <2>1, Placed
  <2>5. opened(tree, a) = 1 /\ a.pc \in Waiting \ {"push"} BY <1>a, <2>1, <2>3
  <2>6. 1 = Operand(tree, a) BY <2>3, OperandAt
  <2>7. /\ 1 = Start(node.op, act.used0, 1) /\ node.op # "endl" BY <2>1, Starts
  <2>8. GenInFrame(Kid(1), 1, act.id, a, act.used0, nf, m) BY <1>1, <2>1
  <2>. HIDE DEF a, ops
  <2>9. 1 \in Nat /\ 1 \in 0 .. 12 OBVIOUS
  <2>. QED BY <1>1, <1>c, <2>1, <2>2, <2>3, <2>4, <2>5, <2>6, <2>7, <2>8, <2>9, InFrameBook
<1>2. ASSUME At(ops, "test"), NEW ok \in BOOLEAN,
             Gen(Kid(2), Fork("right", ok, m), Less(used, 2), nf, m)
      PROVE  Book(s)'
  <2>. DEFINE a == Fork("right", ok, m)
  <2>1. /\ status = "run" /\ act.used0 \in Nat /\ node.op = "while" /\ act.pc = "test"
        /\ node = tree[act.id] /\ act.id # 0
        /\ 1 \in Operands(tree, act.id) /\ 2 \in Operands(tree, act.id)
    BY <1>2, <1>b
  <2>2. used = Start(node.op, act.used0, 1) + 1
    <3>1. Operand(tree, act) = 1 BY <2>1, OperandAt
    <3>2. <<node.op, 1>> \notin Uncounted BY <2>1 DEF Uncounted
    <3>3. "test" \in Waiting BY <1>a
    <3>. QED BY <1>2, <2>1, <3>1, <3>2, <3>3, Counted
  <2>3. Start(node.op, act.used0, 1) = 1 /\ Start(node.op, act.used0, 2) = 0
    BY <2>1, Starts
  <2>4. Less(used, 2) = 0 BY <2>2, <2>3 DEF Less
  <2>5. "right" \in PCs /\ m \in Machine BY <1>a, <1>c
  <2>6. /\ a \in Activation /\ a.id = act.id /\ a.pc = "right" /\ a.frames0 = act.frames0
        /\ opened(tree, a) = IF <<node.op, "right">> \in FrameOpen THEN 1 ELSE 0
    BY <1>2, <2>1, <2>5, Forked
  <2>7. a.used0 = act.used0 /\ a.r1 = act.r1 BY <1>2, <2>1, <2>5, Placed
  <2>8. opened(tree, a) = 1 /\ a.pc \in Waiting /\ a.pc # "push" BY <1>a, <2>1, <2>6
  <2>9. 2 = Operand(tree, a) BY <1>a, <2>1, <2>6, OperandAt
  <2>10. opened(tree, act) = 1 BY <1>2, <1>a, <2>1, AtFacts
  <2>11. FrameBook(tree, nf, a)
    <3>1. FrameBook(tree, nf, act) BY <1>2, AtBook
    <3>. QED BY <2>1, <2>6, <2>7, <2>8, <2>10, <3>1 DEF FrameBook, Saves
  <2>12. Len(nf) = a.frames0 + opened(tree, a)
    BY <2>1, <2>6, <2>8, <2>10, InvFacts
  <2>13. Gen(Kid(2), a, 0, nf, m) BY <1>2, <2>4
  <2>. HIDE DEF a, ops
  <2>14. /\ 2 \in Nat /\ 0 \in 0 .. 12 /\ 0 = Start(node.op, act.used0, 2)
         /\ ~ (node.op = "endl")
    BY <2>1, <2>3
  <2>15. Deep(nf) /\ nf \in Seq(Nameframe) BY <1>c
  <2>. QED BY <1>2, <2>1, <2>6, <2>7, <2>8, <2>9, <2>11, <2>12, <2>13, <2>14, <2>15, NodeGen
<1>3. ASSUME At(ops, "right"), NEW mm, Finish(ClosedUsed(nf), CloseFrame(nf), mm)
      PROVE  Book(s)'
  <2>1. opened(tree, act) = 1 /\ node.op # "func"
    <3>1. node.op = "while" BY <1>3, <1>b
    <3>. QED BY <1>3, <1>a, <3>1, AtFacts
  <2>2. /\ CloseFrame(nf) \in Seq(Nameframe) /\ Len(CloseFrame(nf)) >= act.frames0
        /\ Deep(CloseFrame(nf)) /\ ClosedUsed(nf) = act.used0
    BY <1>3, <2>1, ClosedBook
  <2>3. ClosedUsed(nf) = act.used0 + Kept(s, act.id) BY <1>3, <1>b, <2>2
  <2>. QED BY <1>3, <2>2, <2>3, NodeFinish
<1>4. Holds(m, RDI, Kid(1)) \in BOOLEAN BY DEF Holds
<1>. QED BY <1>1, <1>2, <1>3, <1>4 DEF While

LEMMA FunctionFrameBelow ==
    ASSUME Inv, At({"func"}, "body")
    PROVE  Deep(FunctionFrame)
<1>1. /\ FunctionFrame \in Seq(Nameframe) /\ Len(FunctionFrame) = Len(nf) + 1
      /\ Len(nf) = act.frames0 /\ nf \in Seq(Nameframe) /\ nf # <<>>
  BY FunctionFrameType, FrameFacts, Openings
<1>2. \E g : FunctionFrame = Append(Pushed(nf, 1), g) BY DEF FunctionFrame
<1>3. PICK g : FunctionFrame = Append(Pushed(nf, 1), g) BY <1>2
<1>. DEFINE p == Pushed(nf, 1)
<1>4. /\ p \in Seq(Nameframe) /\ Len(p) = Len(nf)
      /\ \A i \in 1 .. Len(nf) : p[i].regSaved = nf[i].regSaved
  BY <1>1, PushedType, SavedKept
<1>. HIDE DEF p
<1>5. \A i \in 1 .. Len(nf) : Append(p, g)[i] = p[i] BY <1>4
<1>6. FunctionFrame = Append(p, g) BY <1>3 DEF p
<1>. QED BY <1>1, <1>4, <1>5, <1>6 DEF Deep

\* A function is defined where no register is in use.
LEMMA FuncBook ==
    ASSUME Inv, NEW s, Shaped(tree, s), Book(s), Func
    PROVE  Book(s)'
<1>. DEFINE ops == {"func"}
<1>a. /\ <<"func", "right">> \in FrameOpen
      /\ "right" \in PCs /\ "right" \in Waiting \ {"push"}
  BY Openings DEF Waiting
<1>b. ASSUME NEW p \in {"body", "right"}, At(ops, p)
      PROVE  /\ status = "run" /\ act.pc = p /\ act.used0 = 0
             /\ node = tree[act.id] /\ node.op = "func" /\ act.id # 0
             /\ used = InUse(tree, s, act) /\ Kept(s, act.id) = 1
             /\ Operands(tree, act.id) = {1}
  <2>1. ops = {"func"} /\ p # "enter" OBVIOUS
  <2>. HIDE DEF ops
  <2>2. /\ node.op = "func" /\ node = tree[act.id] /\ NodeShaped(tree, s, act.id)
        /\ act.used0 = s.dep[act.id]
        /\ Kept(s, act.id) = IF s.one[act.id] THEN 1 ELSE 0
    BY <1>b, <2>1, SingleOp
  <2>3. Operands(tree, act.id) = {1} BY <2>2, OperandSets
  <2>4. Kept(s, act.id) = 1 /\ act.used0 = 0 BY <2>2 DEF NodeShaped
  <2>. QED BY <1>b, <2>1, <2>3, <2>4, SingleOp
<1>c. m \in Machine
  <2>1. status = "run" BY DEF Func, At
  <2>. QED BY <2>1, InvFacts DEF Types
<1>1. ASSUME At(ops, "body"),
             Gen(Kid(1), Fork("right", TRUE, m), used, FunctionFrame,
                 FunctionEntry(FunctionFrame))
      PROVE  Book(s)'
  <2>. DEFINE a == Fork("right", TRUE, m)  f == FunctionFrame
              mm == FunctionEntry(FunctionFrame)
  <2>1. /\ status = "run" /\ used = act.used0 /\ node.op = "func" /\ act.used0 = 0
        /\ node = tree[act.id] /\ act.id # 0 /\ 1 \in Operands(tree, act.id)
    BY <1>1, <1>b DEF InUse
  <2>2. "right" \in PCs BY <1>a
  <2>3. /\ a \in Activation /\ a.id = act.id /\ a.pc = "right" /\ a.frames0 = act.frames0
        /\ opened(tree, a) = IF <<node.op, "right">> \in FrameOpen THEN 1 ELSE 0
    <3>1. Forking("right", TRUE, m) BY <1>1, <1>c, <2>1, <2>2 DEF Forking
    <3>2. ForkedTo("right", a) BY <3>1, ForkedAt
    <3>. QED BY <3>2 DEF ForkedTo
  <2>4. a.used0 = act.used0 /\ a.r1 = act.r1 BY <1>1, <1>c, <2>1, <2>2, Placed
  <2>5. opened(tree, a) = 1 /\ a.pc \in Waiting /\ a.pc # "push" BY <1>a, <2>1, <2>3
  <2>6. 1 = Operand(tree, a) BY <2>1, <2>3, OperandAt
  <2>7. 0 = Start(node.op, act.used0, 1) BY <2>1, Starts
  <2>8. /\ f \in Seq(Nameframe) /\ Len(f) = Len(nf) + 1 /\ Deep(f)
        /\ Len(nf) = act.frames0
    BY <1>1, FunctionFrameType, FunctionFrameBelow, FrameFacts, Openings
  <2>9. FrameBook(tree, f, a) BY <2>1, <2>3 DEF FrameBook, Saves
  <2>10. Gen(Kid(1), a, 0, f, mm) BY <1>1, <2>1
  <2>. HIDE DEF a, f, mm, ops
  <2>11. Len(f) = a.frames0 + opened(tree, a) BY <2>3, <2>5, <2>8
  <2>12. 1 \in Nat /\ 0 \in 0 .. 12 /\ ~ (node.op = "endl") BY <2>1
  <2>. QED BY <1>1, <2>1, <2>3, <2>4, <2>5, <2>6, <2>7, <2>8, <2>9, <2>10, <2>11, <2>12,
           NodeGen
<1>2. ASSUME At(ops, "right"), NEW mm, Finish(1, CloseFrame(nf), mm) PROVE Book(s)'
  <2>1. act.used0 = 0 /\ Kept(s, act.id) = 1 /\ node.op = "func" BY <1>2, <1>b
  <2>2. opened(tree, act) = 1 BY <1>2, <1>a, <2>1, AtFacts
  <2>3. /\ CloseFrame(nf) \in Seq(Nameframe) /\ Len(CloseFrame(nf)) >= act.frames0
        /\ Deep(CloseFrame(nf))
    BY <1>2, <2>2, ClosedBook
  <2>4. 1 = act.used0 + Kept(s, act.id) BY <2>1
  <2>. QED BY <1>2, <2>3, <2>4, NodeFinish
<1>. QED BY <1>1, <1>2 DEF Func

\* Every argument starts from nothing in use and is pushed out of its register.
LEMMA CallBook ==
    ASSUME Inv, NEW s, Shaped(tree, s), Book(s), Call
    PROVE  Book(s)'
<1>. DEFINE ops == {"call"}
<1>a. /\ \A q : \A o \in ops : <<o, q>> \notin FrameOpen
      /\ "push" \in PCs /\ "push" \in Waiting /\ "args" \in PCs
  BY Openings DEF FrameOpen, Waiting
<1>b. ASSUME NEW p \in {"body", "args", "push"}, At(ops, p)
      PROVE  /\ status = "run" /\ act.pc = p /\ act.used0 \in 0 .. 10 /\ act.used0 \in Nat
             /\ node = tree[act.id] /\ node.op = "call" /\ act.id # 0
             /\ act.used0 = s.dep[act.id] /\ r1 = act.used0
             /\ used = InUse(tree, s, act) /\ Kept(s, act.id) = 1
             /\ Operands(tree, act.id) = DOMAIN node.kids
             /\ ActBook(tree, s, act)
             /\ Len(nf) = act.frames0 /\ Deep(nf) /\ nf \in Seq(Nameframe) /\ nf # <<>>
  <2>1. ops = {"call"} /\ p # "enter" OBVIOUS
  <2>a. \A o \in ops : <<o, p>> \notin FrameOpen BY <1>a
  <2>. HIDE DEF ops
  <2>2. /\ node.op = "call" /\ node = tree[act.id] /\ NodeShaped(tree, s, act.id)
        /\ Kept(s, act.id) = IF s.one[act.id] THEN 1 ELSE 0
    BY <1>b, <2>1, SingleOp
  <2>3. Operands(tree, act.id) = DOMAIN node.kids BY <2>2, OperandSets
  <2>4. Kept(s, act.id) = 1 BY <2>2 DEF NodeShaped
  <2>5. Len(nf) = act.frames0 /\ Deep(nf) BY <1>b, <2>a, PlainPlace
  <2>6. nf \in Seq(Nameframe) /\ nf # <<>> BY <1>b, AtBook
  <2>. QED BY <1>b, <2>1, <2>3, <2>4, <2>5, <2>6, SingleOp
\* A step of the call itself: nothing is in use between two arguments.
<1>c. ASSUME NEW p \in {"body", "push"}, At(ops, p),
             NEW b \in Activation, b.id = act.id, b.frames0 = act.frames0,
             b.used0 = act.used0, b.r1 = act.r1, b.pc = "args", opened(tree, b) = 0,
             NEW k \in Int, NEW mm,
             Live([acts EXCEPT ![Len(acts)] = b], 0, Pushed(nf, k), mm)
      PROVE  Book(s)'
  <2>. DEFINE f == Pushed(nf, k)
  <2>1. /\ status = "run" /\ act.id # 0 /\ act.used0 \in 0 .. 10
        /\ act.used0 = s.dep[act.id] /\ r1 = act.used0
        /\ Len(nf) = act.frames0 /\ nf \in Seq(Nameframe) /\ nf # <<>>
    BY <1>b, <1>c
  <2>2. \A i \in 1 .. Len(nf) : f[i].regSaved = nf[i].regSaved BY <1>c, <2>1, SavedKept
  <2>. HIDE DEF f
  <2>3. Deep(f) BY <2>1, <2>2 DEF Deep
  <2>4. ActBook(tree, s, b) BY <1>c, <2>1 DEF ActBook, r1
  <2>5. FrameBook(tree, f, b) BY <1>c DEF FrameBook, Saves
  <2>6. 0 = InUse(tree, s, b) BY <1>c DEF InUse
  <2>7. Live([acts EXCEPT ![Len(acts)] = b], 0, f, mm) BY <1>c DEF f
  <2>. QED BY <1>c, <2>1, <2>3, <2>4, <2>5, <2>6, <2>7, BookStay
<1>1. ASSUME At(ops, "body"),
             Live([acts EXCEPT ![Len(acts)] =
                     [Resume("args") EXCEPT !.argsLeft = Len(Args)]],
                  0, Pushed(nf, r1), PushRange(m, 0, r1 - 1))
      PROVE  Book(s)'
  <2>. DEFINE b0 == Resume("args")  b == [b0 EXCEPT !.argsLeft = Len(Args)]
  <2>1. status = "run" /\ act.id # 0 /\ r1 \in 0 .. 10 /\ node.op = "call"
        /\ node \in Node
    BY <1>1, <1>b, AtBook
  <2>2. Len(Args) \in Nat /\ Len(Args) <= Len(node.kids) BY <2>1, NodeFields DEF Args
  <2>3. /\ b \in Activation /\ b.id = act.id /\ b.pc = "args" /\ b.frames0 = act.frames0
        /\ opened(tree, b) = 0
    BY <2>1, <2>2, Counting
  <2>4. b0 \in Activation /\ b0.used0 = act.used0 /\ b0.r1 = act.r1
    BY <1>a, <2>1, Resumed, Placed
  <2>. HIDE DEF b0
  <2>5. b.used0 = act.used0 /\ b.r1 = act.r1 BY <2>4 DEF Activation
  <2>6. Live([acts EXCEPT ![Len(acts)] = b], 0, Pushed(nf, r1), PushRange(m, 0, r1 - 1))
    BY <1>1 DEF b0
  <2>. HIDE DEF b, ops
  <2>7. r1 \in Int BY <2>1
  <2>. QED BY <1>1, <1>c, <2>3, <2>5, <2>6, <2>7
<1>2. ASSUME At(ops, "args"), act.argsLeft > 0,
             Gen(Args[act.argsLeft], [Resume("push") EXCEPT !.argsLeft = @ - 1], used, nf, m)
      PROVE  Book(s)'
  <2>. DEFINE n == act.argsLeft  b0 == Resume("push")  a == [b0 EXCEPT !.argsLeft = @ - 1]
  <2>1. /\ status = "run" /\ act.id # 0 /\ node.op = "call" /\ node = tree[act.id]
        /\ act.pc = "args" /\ used = InUse(tree, s, act) /\ act.used0 \in Nat
        /\ Operands(tree, act.id) = DOMAIN node.kids
        /\ Len(nf) = act.frames0 /\ Deep(nf) /\ nf \in Seq(Nameframe)
    BY <1>2, <1>b
  <2>a. node \in Node BY <1>2, AtBook
  <2>2. used = 0 BY <2>1 DEF InUse
  <2>3. n \in Nat /\ n <= Len(node.kids) /\ act.frames0 \in Nat
    <3>1. act \in Activation /\ ActOK(tree, act) BY <2>1, InvFacts
    <3>. QED BY <2>1, <3>1 DEF Activation, ActOK
  <2>4. Len(node.kids) \in Nat /\ DOMAIN node.kids = 1 .. Len(node.kids)
    <3>1. node.kids \in Seq(Nat) BY <2>a, NodeFields
    <3>. QED BY <3>1
  <2>5. n \in 1 .. Len(node.kids) BY <1>2, <2>3, <2>4
  <2>6. Kid(n) = Args[n] BY <2>1, <2>4, <2>5 DEF Kid, KidOf, Child, Args
  <2>7. /\ b0 \in Activation /\ b0.argsLeft = n /\ b0.used0 = act.used0 /\ b0.r1 = act.r1
    BY <1>a, <2>1, Resumed, Placed
  <2>8. a = [Resume("push") EXCEPT !.argsLeft = n - 1] BY <2>7
  <2>9. n - 1 \in Nat /\ n - 1 <= Len(node.kids) BY <2>4, <2>5
  <2>10. /\ a \in Activation /\ a.id = act.id /\ a.pc = "push"
         /\ a.frames0 = act.frames0 /\ opened(tree, a) = 0
    <3>. HIDE DEF a, n
    <3>. QED BY <2>1, <2>8, <2>9, Counting
  <2>11. a.argsLeft = n - 1 /\ a.used0 = act.used0 /\ a.r1 = act.r1
    <3>. HIDE DEF b0, n
    <3>. QED BY <2>7, <2>9 DEF Activation
  <2>12. n = Operand(tree, a)
    <3>1. Operand(tree, a) = a.argsLeft + 1 BY <2>10, OperandAt
    <3>2. n - 1 + 1 = n BY <2>3
    <3>. QED BY <2>11, <3>1, <3>2
  <2>13. used = Start(node.op, act.used0, n) /\ used \in 0 .. 12
    <3>. HIDE DEF a, b0, n, ops
    <3>1. act.used0 \in Nat /\ node.op = "call" BY <2>1
    <3>2. Start(node.op, act.used0, n) = 0 BY <3>1, Starts
    <3>3. used \in 0 .. 12 BY <2>2
    <3>. QED BY <2>2, <3>2, <3>3
  <2>14. FrameBook(tree, nf, a) BY <2>10 DEF FrameBook, Saves
  <2>15. Len(nf) = a.frames0 + opened(tree, a) BY <2>1, <2>3, <2>10
  <2>16. Gen(Kid(n), a, used, nf, m) BY <1>2, <2>6
  <2>17. a.argsLeft + 1 <= Len(node.kids) BY <2>3, <2>11
  <2>18. n \in Operands(tree, act.id) BY <2>1, <2>4, <2>5
  <2>. HIDE DEF a, n, ops
  <2>19. /\ "args" # "enter" /\ ~ (node.op = "endl") /\ a.pc \in Waiting
    BY <1>a, <2>1, <2>10
  <2>. QED BY <1>2, <2>1, <2>3, <2>10, <2>11, <2>12, <2>13, <2>14, <2>15, <2>16, <2>17,
           <2>18, <2>19, NodeGen
<1>d. ASSUME At(ops, "push") PROVE Less(used, 1) = 0
  <2>1. /\ act.used0 \in Nat /\ node.op = "call" /\ node = tree[act.id] /\ act.pc = "push"
        /\ Operands(tree, act.id) = DOMAIN node.kids /\ ActBook(tree, s, act)
        /\ act.id # 0 /\ status = "run"
    BY <1>d, <1>b
  <2>2. node \in Node BY <1>d, AtBook
  <2>3. DOMAIN node.kids = 1 .. Len(node.kids) /\ Len(node.kids) \in Nat
    <3>1. node.kids \in Seq(Nat) BY <2>2, NodeFields
    <3>. QED BY <3>1
  <2>4. act.argsLeft \in Nat BY <2>1, InvFacts DEF Activation
  <2>. DEFINE k == act.argsLeft + 1
  <2>5. k \in 1 .. Len(node.kids) /\ k \in Nat BY <2>1, <2>3, <2>4 DEF ActBook
  <2>6. k = Operand(tree, act) BY <2>1, OperandAt
  <2>7. <<node.op, k>> \notin Uncounted BY <2>1 DEF Uncounted
  <2>8. k \in Operands(tree, act.id) BY <2>1, <2>3, <2>5
  <2>. HIDE DEF k
  <2>9. used = Start(node.op, act.used0, k) + 1
    BY <1>a, <1>d, <2>5, <2>6, <2>7, <2>8, Counted
  <2>10. Start(node.op, act.used0, k) = 0 BY <2>1, Starts
  <2>. QED BY <2>9, <2>10 DEF Less
<1>3. ASSUME At(ops, "push"),
             Live([acts EXCEPT ![Len(acts)] = Resume("args")], Less(used, 1),
                  Pushed(nf, 1), Push(m, Less(used, 1)))
      PROVE  Book(s)'
  <2>. DEFINE b == Resume("args")  mm == Push(m, Less(used, 1))
  <2>1. status = "run" /\ act.id # 0 /\ node.op = "call" BY <1>3, <1>b
  <2>2. /\ b \in Activation /\ b.id = act.id /\ b.pc = "args" /\ b.frames0 = act.frames0
        /\ opened(tree, b) = IF act.id # 0 /\ <<node.op, "args">> \in FrameOpen THEN 1 ELSE 0
    BY <1>a, <2>1, Resumed
  <2>3. opened(tree, b) = 0 BY <1>a, <2>1, <2>2
  <2>4. b.used0 = act.used0 /\ b.r1 = act.r1 BY <1>a, <2>1, Placed
  <2>5. Live([acts EXCEPT ![Len(acts)] = b], 0, Pushed(nf, 1), mm) BY <1>3, <1>d
  <2>. HIDE DEF b, mm, ops
  <2>6. 1 \in Int OBVIOUS
  <2>. QED BY <1>3, <1>c, <2>2, <2>3, <2>4, <2>5, <2>6
<1>4. ASSUME At(ops, "args"), NEW k, NEW mm, k = -(InRegs + r1),
             Finish(r1 + 1, Pushed(nf, k), mm)
      PROVE  Book(s)'
  <2>1. /\ act.used0 \in 0 .. 10 /\ Kept(s, act.id) = 1 /\ r1 = act.used0
        /\ Len(nf) = act.frames0 /\ nf \in Seq(Nameframe) /\ nf # <<>>
    BY <1>4, <1>b
  <2>2. InRegs \in Nat BY <1>4, CallCodeType
  <2>3. k \in Int
    <3>1. r1 \in Nat BY <2>1
    <3>. QED BY <1>4, <2>2, <3>1
  <2>. DEFINE f == Pushed(nf, k)
  <2>4. f \in Seq(Nameframe) /\ Len(f) = Len(nf) BY <2>1, <2>3, PushedType
  <2>5. \A i \in 1 .. Len(nf) : f[i].regSaved = nf[i].regSaved BY <2>1, <2>3, SavedKept
  <2>. HIDE DEF f
  <2>6. Deep(f) BY <2>1, <2>5 DEF Deep
  <2>7. Len(nf) \in Nat BY <2>1
  <2>8. Len(f) >= act.frames0 BY <2>1, <2>4, <2>7
  <2>9. r1 + 1 = act.used0 + Kept(s, act.id) BY <2>1
  <2>10. Finish(r1 + 1, f, mm) BY <1>4 DEF f
  <2>. QED BY <1>4, <2>4, <2>6, <2>8, <2>9, <2>10, NodeFinish
<1>5. ASSUME At(ops, "push") PROVE Less(used, 1) \in Regs
  BY <1>5, <1>d DEF Regs, regStackSz
<1>. QED BY <1>1, <1>2, <1>3, <1>4, <1>5 DEF Call

-----------------------------------------------------------------------------
(* The books are right at the start and every step keeps them.             *)

LEMMA InitBook ==
    ASSUME Init, NEW s, Shaped(tree, s)
    PROVE  Book(s)
<1>. DEFINE a == NewAct(1, 0, m, nf)
<1>1. /\ tree \in Programs /\ status = "run" /\ used = 0 /\ acts = <<a>>
  BY DEF Init
<1>2. a.id = 1 /\ a.pc = "enter" /\ a.used0 = 0 BY DEF NewAct
<1>. HIDE DEF a
<1>3. Len(acts) = 1 /\ act = a /\ acts[1] = a BY <1>1 DEF act
<1>4. s.dep[1] = 0 BY DEF Shaped
<1>5. ActBook(tree, s, a) BY <1>2, <1>4 DEF ActBook
<1>6. opened(tree, a) = 0 BY <1>2 DEF opened, FrameOpen
<1>7. FrameBook(tree, nf, a) BY <1>6 DEF FrameBook, Saves
<1>8. used = InUse(tree, s, act) BY <1>1, <1>2, <1>3 DEF InUse
<1>9. \A j \in 1 .. Len(acts) : j = 1 /\ 1 .. j - 1 = {} BY <1>3
<1>10. 1 .. Len(acts) - 1 = {} BY <1>3
<1>. QED BY <1>1, <1>3, <1>5, <1>7, <1>8, <1>9, <1>10 DEF Book

LEMMA TreeKept ==
    ASSUME [Next]_vars
    PROVE  tree' = tree
<1>1. CASE UNCHANGED vars BY <1>1 DEF vars
<1>2. CASE Stopped BY <1>2 DEF Stopped, vars
<1>3. CASE Step
  BY <1>3 DEF Step, GenNull, Begin, Spill, Return, Exit, EvalLeft, EvalRight, CaseBinary,
     CaseCompare, CaseShift, CaseDivMod, CaseSetMem, EvalOperand, CaseUnary, CaseStore,
     CaseOut, CaseIn, CaseNumberAddr, CaseIdent, CaseIncDec, CaseUnsupported, Endl, Tern,
     Qq, Logic, While, Func, Call, GenInFrame, Finish, Gen, Live, Stop
<1>. QED BY <1>1, <1>2, <1>3 DEF Next

LEMMA NextBook ==
    ASSUME Inv, NEW s, Shaped(tree, s), Book(s), [Next]_vars
    PROVE  Shaped(tree, s)' /\ Book(s)'
<1>2. Shaped(tree, s)' BY TreeKept
<1>3. CASE UNCHANGED vars BY <1>3 DEF vars, Book, act
<1>4. CASE Stopped BY <1>4 DEF Stopped, vars, Book, act
<1>5. ASSUME Step PROVE Book(s)'
  <2>1. CASE GenNull \/ Begin \/ Spill \/ Return \/ Exit
    BY <2>1, GenNullBook, BeginBook, NeverSpills, ReturnBook, ExitBook
  <2>2. CASE EvalLeft \/ EvalRight
    BY <2>2, EvalLeftBook, EvalRightBook
  <2>3. CASE CaseBinary \/ CaseCompare \/ CaseShift \/ CaseDivMod \/ CaseSetMem
    BY <2>3, TwoOperandsDoneBook
  <2>4. CASE EvalOperand BY <2>4, EvalOperandBook
  <2>5. CASE CaseUnary \/ CaseStore \/ CaseOut BY <2>5, OneOperandDoneBook
  <2>6. CASE CaseIn \/ CaseNumberAddr \/ CaseIdent \/ CaseIncDec BY <2>6, LeafBook
  <2>7. CASE CaseUnsupported BY <2>7, NothingUnsupported
  <2>8. CASE Endl \/ Tern \/ Qq BY <2>8, EndlBook, TernBook, QqBook
  <2>9. CASE Logic \/ While \/ Func \/ Call BY <2>9, LogicBook, WhileBook, FuncBook, CallBook
  <2>. QED BY <1>5, <2>1, <2>2, <2>3, <2>4, <2>5, <2>6, <2>7, <2>8, <2>9 DEF Step
<1>. QED BY <1>2, <1>3, <1>4, <1>5 DEF Next

LEMMA SpecBook == Spec /\ WellShaped(tree) => []RegInv
<1>1. Init /\ WellShaped(tree) => RegInv
  BY InitInv, InitBook DEF WellShaped, RegInv
<1>2. RegInv /\ [Next]_vars => RegInv'
  <2>. SUFFICES ASSUME RegInv, [Next]_vars PROVE RegInv' OBVIOUS
  <2>1. PICK s \in Annotations(tree) : Shaped(tree, s) /\ Book(s) BY DEF RegInv
  <2>2. Inv' BY NextInv DEF RegInv
  <2>3. Shaped(tree, s)' /\ Book(s)' BY <2>1, NextBook DEF RegInv
  <2>4. (s \in Annotations(tree))' BY <2>3 DEF Shaped
  <2>. QED BY <2>2, <2>3, <2>4 DEF RegInv
<1>. QED BY <1>1, <1>2, PTL DEF Spec

LEMMA BookUsesOneRegister == RegInv => UsesOneRegister
<1>. SUFFICES ASSUME RegInv, Returning, ~ HasLoop PROVE used = act.used0 + 1
  BY DEF UsesOneRegister
<1>1. PICK s \in Annotations(tree) : Shaped(tree, s) /\ Book(s) BY DEF RegInv
<1>2. Inv /\ status = "run" /\ act.pc = "done" BY DEF RegInv, Returning, pc
<1>3. used = InUse(tree, s, act) /\ used = act.used0 + Kept(s, act.id)
  <2>1. used = InUse(tree, s, act) BY <1>1, <1>2, BookFacts
  <2>. QED BY <1>2, <2>1, DonePC DEF InUse
<1>4. CASE act.id = 0 BY <1>3, <1>4 DEF Kept
<1>5. CASE act.id # 0
  <2>1. act.id \in 1 .. Len(tree) /\ tree \in Programs
    <3>1. Types /\ ActOK(tree, act) /\ act.id \in Nat BY <1>2, InvFacts
    <3>2. tree \in Programs /\ Len(tree) \in Nat BY <3>1, TreeFacts DEF Types
    <3>. QED BY <1>5, <3>1, <3>2 DEF ActOK
  <2>2. NodeShaped(tree, s, act.id) BY <1>1, <2>1, ShapeFacts
  <2>3. s.one[act.id] BY <1>5, <2>2 DEF NodeShaped, HasLoop, node
  <2>. QED BY <1>3, <1>5, <2>3 DEF Kept
<1>. QED BY <1>4, <1>5

LEMMA BookCompilesThrough == RegInv => CompilesThrough
BY DEF RegInv, Book, CompilesThrough

\* In a program that has a shape, codeGen leaves one more register in use than
\* it found, on every path through every node (Backend.cpp:99-592): the count
\* is right however many calls, frames and arms of a branch lie in between.
THEOREM OneRegister == Spec /\ WellShaped(tree) => []UsesOneRegister
BY SpecBook, BookUsesOneRegister, PTL

\* A program that has a shape is compiled to its end: the LOG_ASSERT of ENDL
\* (Backend.cpp:282) never fires, no NULL node is followed and regStack is
\* never indexed past its end.
THEOREM ShapedCompiles == Spec /\ WellShaped(tree) => []CompilesThrough
BY SpecBook, BookCompilesThrough, PTL
=============================================================================
