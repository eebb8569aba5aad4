---------------------------- MODULE StackProofs ----------------------------
(***************************************************************************)
(* Proofs about the stack of the code that CodeGen emits, for every        *)
(* program that has a shape and scopes (Scopes): StackBalanced,            *)
(* OffsetsAgree and LocalsReserved.  What getOffset computes is right if   *)
(* the push counters are, and these if RBP is where the frames were        *)
(* opened.  So the invariant gives the depth that RBP points at for every  *)
(* name frame, b, and says of every activation at which depth it goes on.  *)
(***************************************************************************)
EXTENDS Scopes, CodeGenProofs

\* A variable lies in the words of its frame, or with the arguments its
\* caller pushed; never where RBP was saved.
PlacedIn(f, at, v) ==
    /\ v.slot = at - v.off
    /\ v.slot \in 1 .. at + f.nSub
    /\ f.root => v.slot # at
    /\ ~ f.root => v.slot > at

FrameAt(f, at) ==
    /\ at >= 1 /\ f.regSaved = 0
    /\ \A i \in DOMAIN f.vars : PlacedIn(f, at, f.vars[i])

Frames(f, b) ==
    /\ b \in Seq(Nat) /\ Len(b) = Len(f) /\ f # <<>> /\ f[1].root
    /\ \A j \in 1 .. Len(f) : FrameAt(f[j], b[j])
    /\ \A j \in 1 .. Len(f) - 1 :
          /\ f[j].pushed >= 1
          /\ ~ f[j + 1].root => b[j + 1] = b[j] + f[j].nSub + f[j].pushed

\* Every frame down to the first root has saved the base of the one below it.
Linked(f, b, mm) ==
    \A j \in Chain(f) : ~ f[j].root => mm.stk[b[j]] = SavedBp(b[j - 1])

\* The machine mm, with h words on its stack, is inside the innermost frame.
Fits(f, b, mm, h) ==
    /\ mm.bp = b[Len(f)] /\ Len(mm.stk) = h /\ b[Len(f)] <= h
    /\ Linked(f, b, mm)

\* The push counter is right: RSP lies `pushed` words beyond the variables.
Counts(f, b, h) ==
    /\ h = b[Len(f)] + f[Len(f)].nSub + f[Len(f)].pushed
    /\ f[Len(f)].pushed >= 0

\* The compiler knows of the innermost frame what scope c says of it.
Matches(f, c) ==
    /\ f[Len(f)].above = c.above /\ f[Len(f)].nSub = c.nSub
    /\ \A x \in c.names : Declared(f, x)

-----------------------------------------------------------------------------
(* What the operations on name frames leave and what they change.          *)

LEMMA FrameType ==
    ASSUME NEW f \in Seq(Nameframe), NEW i \in 1 .. Len(f)
    PROVE  /\ f[i] \in Nameframe /\ f[i].nSub \in Nat /\ f[i].pushed \in Int
           /\ f[i].above \in Nat /\ f[i].vars \in Seq(VarOffset)
           /\ f[i].root \in BOOLEAN /\ Len(f) \in Nat
<1>1. f[i] \in Nameframe /\ Len(f) \in Nat OBVIOUS
<1>. QED BY <1>1 DEF Nameframe

LEMMA PushedParts ==
    ASSUME NEW f \in Seq(Nameframe), f # <<>>, NEW k \in Int
    PROVE  /\ Pushed(f, k) \in Seq(Nameframe) /\ Len(Pushed(f, k)) = Len(f)
           /\ \A i \in 1 .. Len(f) - 1 : Pushed(f, k)[i] = f[i]
           /\ \A i \in 1 .. Len(f) :
                 /\ Pushed(f, k)[i].root = f[i].root
                 /\ Pushed(f, k)[i].nSub = f[i].nSub
                 /\ Pushed(f, k)[i].above = f[i].above
                 /\ Pushed(f, k)[i].vars = f[i].vars
                 /\ Pushed(f, k)[i].regSaved = f[i].regSaved
           /\ Pushed(f, k)[Len(f)].pushed = f[Len(f)].pushed + k
<1>. DEFINE g == f[Len(f)]  h == [g EXCEPT !.pushed = @ + k]
<1>1. g \in Nameframe /\ Len(f) \in Nat \ {0} BY LastFrame
<1>2. /\ h.root = g.root /\ h.nSub = g.nSub /\ h.above = g.above /\ h.vars = g.vars
      /\ h.regSaved = g.regSaved /\ h.pushed = g.pushed + k
  <2>. HIDE DEF g
  <2>. QED BY <1>1 DEF Nameframe
<1>3. Pushed(f, k) = [f EXCEPT ![Len(f)] = h] BY DEF Pushed
<1>4. Pushed(f, k) \in Seq(Nameframe) /\ Len(Pushed(f, k)) = Len(f) BY PushedType
<1>. HIDE DEF h
<1>5. /\ Pushed(f, k)[Len(f)] = h
      /\ \A i \in 1 .. Len(f) - 1 : Pushed(f, k)[i] = f[i]
  BY <1>1, <1>3
<1>6. ASSUME NEW i \in 1 .. Len(f) PROVE i = Len(f) \/ i \in 1 .. Len(f) - 1
  BY <1>1
<1>. QED BY <1>2, <1>4, <1>5, <1>6

LEMMA RegisterParts ==
    ASSUME NEW f \in Seq(Nameframe), f # <<>>, NEW x \in Names, NEW d \in Nat,
           NEW bp \in Nat
    PROVE  LET R == registerVar(f, x, d, bp)
               g == f[Len(f)]
               v == R[Len(f)].vars[Len(g.vars) + 1]
           IN  /\ R \in Seq(Nameframe) /\ Len(R) = Len(f)
               /\ \A i \in 1 .. Len(f) - 1 : R[i] = f[i]
               /\ \A i \in 1 .. Len(f) :
                     /\ R[i].root = f[i].root /\ R[i].nSub = f[i].nSub
                     /\ R[i].pushed = f[i].pushed /\ R[i].regSaved = f[i].regSaved
               /\ R[Len(f)].above = g.above + 1
               /\ Len(R[Len(f)].vars) = Len(g.vars) + 1
               /\ \A i \in 1 .. Len(g.vars) : R[Len(f)].vars[i] = g.vars[i]
               /\ v.name = x /\ v.off = -(g.above + 1 + g.regSaved)
               /\ v.slot = bp - v.off
<1>. DEFINE g == f[Len(f)]
            off == -(g.above + 1 + g.regSaved)
            v == [name |-> x, off |-> off, decl |-> d, slot |-> bp - off]
            w == Append(g.vars, v)
            h == [g EXCEPT !.above = @ + 1, !.vars = w]
            R == registerVar(f, x, d, bp)
<1>1. g \in Nameframe /\ Len(f) \in Nat \ {0} BY LastFrame
<1>2. /\ h.root = g.root /\ h.nSub = g.nSub /\ h.above = g.above + 1 /\ h.vars = w
      /\ h.regSaved = g.regSaved /\ h.pushed = g.pushed
  <2>. HIDE DEF g, w
  <2>. QED BY <1>1 DEF Nameframe
<1>3. R = [f EXCEPT ![Len(f)] = h] BY DEF registerVar
<1>4. R \in Seq(Nameframe) /\ Len(R) = Len(f) BY RegisterType
<1>. HIDE DEF h, R
<1>5. R[Len(f)] = h /\ \A i \in 1 .. Len(f) - 1 : R[i] = f[i]
  BY <1>1, <1>3
<1>6. ASSUME NEW i \in 1 .. Len(f) PROVE i = Len(f) \/ i \in 1 .. Len(f) - 1
  BY <1>1
<1>7. g.vars \in Seq(VarOffset) BY <1>1, FrameFields
<1>8. /\ Len(w) = Len(g.vars) + 1 /\ w[Len(g.vars) + 1] = v
      /\ \A i \in 1 .. Len(g.vars) : w[i] = g.vars[i]
  <2>. HIDE DEF v, g
  <2>. QED BY <1>7
<1>9. v.name = x /\ v.off = off /\ v.slot = bp - v.off OBVIOUS
<1>. HIDE DEF v, w, off
<1>10. /\ R[Len(f)].vars = w /\ R[Len(f)].above = g.above + 1
       /\ R[Len(f)].vars[Len(g.vars) + 1] = v
  BY <1>2, <1>5, <1>8
<1>11. \A i \in 1 .. Len(f) :
          /\ R[i].root = f[i].root /\ R[i].nSub = f[i].nSub
          /\ R[i].pushed = f[i].pushed /\ R[i].regSaved = f[i].regSaved
  BY <1>2, <1>5, <1>6
<1>12. off = -(g.above + 1 + g.regSaved) BY DEF off
<1>. HIDE DEF g
<1>. QED BY <1>4, <1>5, <1>8, <1>9, <1>10, <1>11, <1>12 DEF R, g

LEMMA BaseType ==
    ASSUME NEW b \in Seq(Nat), NEW i \in 1 .. Len(b)
    PROVE  b[i] \in Nat
OBVIOUS

LEMMA OpenParts ==
    ASSUME NEW f \in Seq(Nameframe), f # <<>>, NEW w \in Nat
    PROVE  LET O == OpenFrame(f, 0, w)
               n == Len(f)
           IN  /\ O \in Seq(Nameframe) /\ Len(O) = n + 1
               /\ \A i \in 1 .. n : O[i] = Pushed(f, 1)[i]
               /\ ~ O[n + 1].root /\ O[n + 1].nSub = w /\ O[n + 1].pushed = 0
               /\ O[n + 1].regSaved = 0 /\ O[n + 1].above = 0 /\ O[n + 1].vars = <<>>
<1>. DEFINE p == Pushed(f, 1)  g == createNF(FALSE, w, 0)
<1>1. g \in Nameframe BY DEF createNF, Nameframe, regStackSz
<1>2. /\ ~ g.root /\ g.nSub = w /\ g.pushed = 0 /\ g.regSaved = 0 /\ g.above = 0
      /\ g.vars = <<>>
  BY DEF createNF
<1>3. p \in Seq(Nameframe) /\ Len(p) = Len(f) BY PushedType
<1>4. OpenFrame(f, 0, w) = Append(p, g) BY DEF OpenFrame
<1>. HIDE DEF p, g
<1>5. /\ Append(p, g) \in Seq(Nameframe) /\ Len(Append(p, g)) = Len(p) + 1
      /\ Append(p, g)[Len(p) + 1] = g /\ \A i \in 1 .. Len(p) : Append(p, g)[i] = p[i]
  BY <1>1, <1>3, AppendLast
<1>. QED BY <1>2, <1>3, <1>4, <1>5 DEF p

Cut(f, n) == SubSeq(f, 1, n)

LEMMA CutParts ==
    ASSUME NEW S, NEW f \in Seq(S), NEW n \in 0 .. Len(f)
    PROVE  /\ Cut(f, n) \in Seq(S) /\ Len(Cut(f, n)) = n
           /\ \A i \in 1 .. n : Cut(f, n)[i] = f[i]
BY Prefix DEF Cut

LEMMA CutAll ==
    ASSUME NEW S, NEW f \in Seq(S)
    PROVE  Cut(f, Len(f)) = f
BY DEF Cut

-----------------------------------------------------------------------------
(* Chains: the frames a lookup visits.                                     *)

LEMMA ChainParts ==
    ASSUME NEW f \in Seq(Nameframe)
    PROVE  /\ Chain(f) \subseteq 1 .. Len(f)
           /\ f # <<>> => Len(f) \in Chain(f)
           /\ \A i \in Chain(f), k \in 1 .. Len(f) : k >= i => k \in Chain(f)
           /\ \A i \in Chain(f), k \in 1 .. Len(f) : k > i => ~ f[k].root
           /\ \A i \in 1 .. Len(f) :
                 (\A k \in i + 1 .. Len(f) : ~ f[k].root) => i \in Chain(f)
<1>1. DOMAIN f = 1 .. Len(f) /\ Len(f) \in Nat OBVIOUS
<1>. QED BY <1>1 DEF Chain

\* Bases rise, by more than the words of the frames between.
LEMMA BasesRise ==
    ASSUME NEW f \in Seq(Nameframe), NEW b, Frames(f, b), NEW i \in Chain(f),
           NEW j \in 1 .. Len(f), i < j
    PROVE  b[j] >= b[i] + f[i].nSub + 1
<1>. DEFINE n == Len(f)
            T == {k \in i + 1 .. n : ~ (b[k] >= b[i] + f[i].nSub + 1)}
<1>1. SUFFICES ASSUME T # {} PROVE FALSE
  <2>1. i \in Nat BY ChainParts
  <2>2. j \in i + 1 .. n BY <2>1
  <2>. HIDE DEF n
  <2>. QED BY <2>2
<1>2. i \in 1 .. n /\ n \in Nat /\ b \in Seq(Nat) /\ Len(b) = n BY ChainParts DEF Frames
<1>3. PICK k \in T : \A l \in T : k <= l
  <2>1. T \subseteq Nat BY <1>2
  <2>. HIDE DEF T
  <2>. QED BY <1>1, <2>1, Least
<1>4. k \in i + 1 .. n /\ ~ (b[k] >= b[i] + f[i].nSub + 1) OBVIOUS
<1>5. k - 1 \in i .. n - 1 /\ k - 1 \in 1 .. n /\ k \in 1 .. n /\ k > i /\ k - 1 + 1 = k
  BY <1>2, <1>4
<1>6. ~ f[k].root BY <1>5, ChainParts
<1>7. b[k] = b[k - 1] + f[k - 1].nSub + f[k - 1].pushed /\ f[k - 1].pushed >= 1
  <2>1. k - 1 \in 1 .. n - 1 BY <1>2, <1>5
  <2>. QED BY <1>5, <1>6, <2>1 DEF Frames
<1>8. /\ f[k - 1].nSub \in Nat /\ f[k - 1].pushed \in Int /\ f[i].nSub \in Nat
      /\ b[k - 1] \in Nat /\ b[i] \in Nat /\ b[k] \in Nat
  <2>1. /\ f[k - 1].nSub \in Nat /\ f[k - 1].pushed \in Int /\ f[i].nSub \in Nat
    BY <1>2, <1>5, FrameType
  <2>2. b[k - 1] \in Nat /\ b[i] \in Nat /\ b[k] \in Nat BY <1>2, <1>5, BaseType
  <2>. QED BY <2>1, <2>2
<1>9. CASE k - 1 = i BY <1>4, <1>7, <1>8, <1>9
<1>10. CASE k - 1 # i
  <2>1. k - 1 \in i + 1 .. n /\ ~ (k <= k - 1) BY <1>2, <1>5, <1>10
  <2>2. k - 1 \notin T BY <1>3, <2>1
  <2>3. b[k - 1] >= b[i] + f[i].nSub + 1 BY <2>1, <2>2
  <2>4. b[k] >= b[k - 1]
    <3>. DEFINE x == b[k]  y == b[k - 1]  u == f[k - 1].nSub  v == f[k - 1].pushed
    <3>1. x = y + u + v /\ v >= 1 /\ u \in Nat /\ v \in Int /\ y \in Nat BY <1>7, <1>8
    <3>. HIDE DEF x, y, u, v
    <3>2. x >= y BY <3>1
    <3>. QED BY <3>2 DEF x, y
  <2>5. b[k] >= b[i] + f[i].nSub + 1
    <3>. DEFINE x == b[k]  y == b[k - 1]  z == b[i] + f[i].nSub + 1
    <3>1. x \in Nat /\ y \in Nat /\ z \in Nat
      <4>. DEFINE u == b[i]  v == f[i].nSub
      <4>1. x \in Nat /\ y \in Nat /\ u \in Nat /\ v \in Nat BY <1>8
      <4>. HIDE DEF x, y, u, v
      <4>2. u + v + 1 \in Nat BY <4>1
      <4>. QED BY <4>1, <4>2 DEF u, v
    <3>2. x >= y /\ y >= z BY <2>3, <2>4
    <3>. HIDE DEF x, y, z
    <3>3. x >= z BY <3>1, <3>2
    <3>. QED BY <3>3 DEF x, z
  <2>. QED BY <1>4, <2>5
<1>. QED BY <1>9, <1>10

LEMMA BasesIn ==
    ASSUME NEW f \in Seq(Nameframe), NEW b, Frames(f, b), NEW i \in Chain(f)
    PROVE  b[i] \in 1 .. b[Len(f)] /\ b[Len(f)] \in Nat
<1>. DEFINE n == Len(f)
<1>1. i \in 1 .. n /\ n \in 1 .. n /\ n \in Nat BY ChainParts
<1>2. b \in Seq(Nat) /\ Len(b) = n /\ b[i] >= 1
  <2>1. FrameAt(f[i], b[i]) BY <1>1 DEF Frames
  <2>. QED BY <2>1 DEF Frames, FrameAt
<1>3. b[i] \in Nat /\ b[n] \in Nat /\ f[i].nSub \in Nat BY <1>1, <1>2, BaseType, FrameType
<1>4. i = n \/ i < n BY <1>1
<1>5. CASE i = n BY <1>2, <1>3, <1>5
<1>6. CASE i < n
  <2>1. b[n] >= b[i] + f[i].nSub + 1 BY <1>1, <1>6, BasesRise
  <2>. QED BY <1>2, <1>3, <2>1
<1>. QED BY <1>4, <1>5, <1>6

\* What a lookup finds from f it also finds from g, when g has the frames of
\* f, with what they declare, and new ones that are no functions.
LEMMA StillDeclared ==
    ASSUME NEW f \in Seq(Nameframe), NEW g \in Seq(Nameframe), Len(f) <= Len(g),
           \A i \in 1 .. Len(f) : f[i].root = g[i].root,
           \A i \in Len(f) + 1 .. Len(g) : ~ g[i].root,
           NEW x, \A i \in 1 .. Len(f) : Declares(f[i], x) => Declares(g[i], x),
           Declared(f, x)
    PROVE  Declared(g, x)
<1>1. PICK j \in Chain(f) : Declares(f[j], x) BY DEF Declared, Owners
<1>2. j \in 1 .. Len(f) /\ Len(f) \in Nat /\ Len(g) \in Nat /\ j \in 1 .. Len(g)
  BY ChainParts
<1>3. ASSUME NEW k \in j + 1 .. Len(g) PROVE ~ g[k].root
  <2>1. CASE k <= Len(f)
    <3>1. k \in 1 .. Len(f) /\ k > j BY <1>2, <2>1
    <3>2. ~ f[k].root BY <3>1, ChainParts
    <3>. QED BY <3>1, <3>2
  <2>2. CASE ~ (k <= Len(f))
    <3>1. k \in Len(f) + 1 .. Len(g) BY <1>2, <2>2
    <3>. QED BY <3>1
  <2>. QED BY <2>1, <2>2
<1>4. j \in Chain(g) BY <1>2, <1>3, ChainParts
<1>5. Declares(g[j], x) BY <1>1, <1>2
<1>. QED BY <1>4, <1>5 DEF Declared, Owners

\* The links of f, read from another machine and another state of the frames.
LEMMA StillLinked ==
    ASSUME NEW f \in Seq(Nameframe), NEW g \in Seq(Nameframe), Len(f) = Len(g),
           \A i \in 1 .. Len(f) : f[i].root = g[i].root,
           NEW b, NEW c, \A i \in 1 .. Len(f) : b[i] = c[i], f[1].root,
           NEW mm, NEW mn, Linked(f, b, mm),
           \A i \in Chain(f) : ~ f[i].root => mn.stk[b[i]] = mm.stk[b[i]]
    PROVE  Linked(g, c, mn)
<1>1. SUFFICES ASSUME NEW j \in Chain(g), ~ g[j].root
               PROVE  mn.stk[c[j]] = SavedBp(c[j - 1])
  BY DEF Linked
<1>2. j \in 1 .. Len(f) /\ Len(f) \in Nat /\ ~ f[j].root BY <1>1, ChainParts
<1>3. \A k \in j + 1 .. Len(f) : k \in 1 .. Len(f) /\ k > j BY <1>2
<1>4. j \in Chain(f)
  <2>1. \A k \in j + 1 .. Len(f) : ~ g[k].root BY <1>3, ChainParts
  <2>2. \A k \in j + 1 .. Len(f) : ~ f[k].root BY <1>3, <2>1
  <2>. QED BY <1>2, <2>2, ChainParts
<1>5. j # 1 BY <1>2
<1>6. j - 1 \in 1 .. Len(f) BY <1>2, <1>5
<1>7. c[j] = b[j] /\ c[j - 1] = b[j - 1] BY <1>2, <1>6
<1>. QED BY <1>2, <1>4, <1>7 DEF Linked

-----------------------------------------------------------------------------
(* What getOffset computes.                                                *)

HopBody(f, g) == [k \in Nat |-> IF k < Len(f) THEN f[k].nSub + f[k].pushed + g[k + 1] ELSE 0]

LEMMA HopsExist ==
    ASSUME NEW f \in Seq(Nameframe)
    PROVE  \E g : g = HopBody(f, g)
<1>. DEFINE n == Len(f)
            From(g, i) == /\ g = [k \in Nat |-> g[k]]
                          /\ \A k \in Nat : k >= i => g[k] = HopBody(f, g)[k]
            T == {i \in 0 .. n : \E g : From(g, i)}
<1>1. n \in Nat /\ n \in T
  <2>1. n \in Nat OBVIOUS
  <2>2. From([k \in Nat |-> 0], n) BY <2>1 DEF HopBody
  <2>. QED BY <2>1, <2>2
<1>2. PICK i \in T : \A j \in T : i <= j
  <2>1. T \subseteq Nat BY <1>1
  <2>. HIDE DEF T
  <2>. QED BY <1>1, <2>1, Least
<1>3. i = 0
  <2>1. SUFFICES ASSUME i # 0 PROVE FALSE OBVIOUS
  <2>2. i \in 0 .. n OBVIOUS
  <2>3. i - 1 \in 0 .. n /\ i - 1 \in Nat /\ ~ (i <= i - 1) /\ i - 1 < n /\ i - 1 + 1 = i
    BY <1>1, <2>1, <2>2
  <2>4. PICK g : From(g, i) OBVIOUS
  <2>. DEFINE e == f[i - 1].nSub + f[i - 1].pushed + g[i]
              h == [k \in Nat |-> IF k = i - 1 THEN e ELSE g[k]]
  <2>5. h = [k \in Nat |-> h[k]] OBVIOUS
  <2>6. ASSUME NEW k \in Nat, k >= i - 1 PROVE h[k] = HopBody(f, h)[k]
    <3>1. CASE k = i - 1
      <4>1. h[k] = e /\ h[k + 1] = g[i] BY <2>3, <3>1
      <4>. HIDE DEF h
      <4>. QED BY <2>3, <3>1, <4>1 DEF HopBody
    <3>2. CASE k # i - 1
      <4>1. k >= i /\ k + 1 # i - 1 /\ k + 1 \in Nat BY <2>2, <2>6, <3>2
      <4>2. h[k] = g[k] /\ h[k + 1] = g[k + 1] BY <3>2, <4>1
      <4>3. g[k] = HopBody(f, g)[k] BY <2>4, <4>1
      <4>. HIDE DEF h
      <4>. QED BY <4>2, <4>3 DEF HopBody
    <3>. QED BY <3>1, <3>2
  <2>7. From(h, i - 1)
    <3>. HIDE DEF h
    <3>. QED BY <2>5, <2>6
  <2>. HIDE DEF From
  <2>8. i - 1 \in T BY <2>3, <2>7
  <2>. QED BY <1>2, <2>3, <2>8
<1>4. PICK g : From(g, 0) BY <1>3
<1>5. g = HopBody(f, g)
  <2>1. g = [k \in Nat |-> g[k]] /\ \A k \in Nat : g[k] = HopBody(f, g)[k] BY <1>4
  <2>2. HopBody(f, g) = [k \in Nat |-> HopBody(f, g)[k]] BY DEF HopBody
  <2>. QED BY <2>1, <2>2
<1>. QED BY <1>5

LEMMA HopsUnfold ==
    ASSUME NEW f \in Seq(Nameframe), NEW j \in Nat
    PROVE  Hops(f, j) = IF j < Len(f) THEN f[j].nSub + f[j].pushed + Hops(f, j + 1) ELSE 0
<1>. DEFINE H == CHOOSE g : g = HopBody(f, g)
<1>1. H = HopBody(f, H) BY HopsExist
<1>2. \A i \in Nat : Hops(f, i) = H[i] BY DEF Hops, HopBody
<1>. HIDE DEF H
<1>3. j + 1 \in Nat OBVIOUS
<1>4. H[j] = IF j < Len(f) THEN f[j].nSub + f[j].pushed + H[j + 1] ELSE 0
  BY <1>1 DEF HopBody
<1>. QED BY <1>2, <1>3, <1>4

LEMMA HopsAre ==
    ASSUME NEW f \in Seq(Nameframe), NEW b, Frames(f, b), NEW j \in Chain(f)
    PROVE  Hops(f, j) = b[Len(f)] - b[j]
<1>. DEFINE n == Len(f)
            T == {k \in Chain(f) : Hops(f, k) # b[n] - b[k]}
<1>1. n \in Nat /\ b \in Seq(Nat) /\ Len(b) = n BY DEF Frames
<1>2. SUFFICES ASSUME T # {} PROVE FALSE OBVIOUS
<1>3. PICK k \in T : \A l \in T : l <= k
  <2>1. T \subseteq 0 .. n BY <1>1, ChainParts
  <2>. HIDE DEF T
  <2>. QED BY <1>1, <1>2, <2>1, Greatest
<1>4. k \in Chain(f) /\ Hops(f, k) # b[n] - b[k] OBVIOUS
<1>5. k \in 1 .. n BY <1>4, ChainParts
<1>6. CASE k = n
  <2>1. Hops(f, k) = 0 BY <1>5, <1>6, HopsUnfold
  <2>2. b[n] \in Nat BY <1>1, <1>5, <1>6
  <2>. QED BY <1>4, <1>6, <2>1, <2>2
<1>7. CASE k # n
  <2>1. k + 1 \in 1 .. n /\ k + 1 >= k /\ k + 1 > k /\ k < n /\ k \in Nat /\ k \in 1 .. n - 1
        /\ ~ (k + 1 <= k)
    BY <1>1, <1>5, <1>7
  <2>2. k + 1 \in Chain(f) /\ ~ f[k + 1].root BY <1>4, <2>1, ChainParts
  <2>3. k + 1 \notin T BY <1>3, <2>1
  <2>4. Hops(f, k + 1) = b[n] - b[k + 1] BY <2>2, <2>3
  <2>5. Hops(f, k) = f[k].nSub + f[k].pushed + Hops(f, k + 1) BY <2>1, HopsUnfold
  <2>6. b[k + 1] = b[k] + f[k].nSub + f[k].pushed BY <2>1, <2>2 DEF Frames
  <2>7. f[k].nSub \in Nat /\ f[k].pushed \in Int BY <2>1, FrameType
  <2>8. n \in 1 .. n BY <1>1, <1>5
  <2>9. b[k] \in Nat /\ b[k + 1] \in Nat /\ b[n] \in Nat BY <1>1, <1>5, <2>1, <2>8
  <2>10. Hops(f, k) = b[n] - b[k]
    <3>. DEFINE x == b[k]  y == b[k + 1]  z == b[n]  u == f[k].nSub  v == f[k].pushed
                g == Hops(f, k + 1)
    <3>1. /\ x \in Nat /\ y \in Nat /\ z \in Nat /\ u \in Nat /\ v \in Int
          /\ g = z - y /\ Hops(f, k) = u + v + g /\ y = x + u + v
      BY <2>4, <2>5, <2>6, <2>7, <2>9
    <3>. HIDE DEF x, y, z, u, v, g
    <3>2. u + v + g = z - x BY <3>1
    <3>. QED BY <3>1, <3>2 DEF x, z
  <2>. QED BY <1>4, <2>10
<1>. QED BY <1>6, <1>7

\* The entry a lookup finds: in a frame of the chain, in its place.
LEMMA EntryPlaced ==
    ASSUME NEW f \in Seq(Nameframe), NEW b, Frames(f, b), NEW x, Declared(f, x)
    PROVE  /\ Owner(f, x) \in Chain(f) /\ Owner(f, x) \in 1 .. Len(f)
           /\ PlacedIn(f[Owner(f, x)], b[Owner(f, x)], Entry(f, x))
           /\ Entry(f, x).off \in Int
<1>1. Owner(f, x) \in Chain(f) BY EntryFound DEF Owners
<1>. DEFINE o == Owner(f, x)  e == Entry(f, x)
<1>2. PICK i \in DOMAIN f[o].vars : e = f[o].vars[i] BY EntryFound
<1>3. o \in 1 .. Len(f) BY <1>1, ChainParts
<1>. HIDE DEF o, e
<1>4. f[o].vars \in Seq(VarOffset) BY <1>3, FrameType
<1>5. e \in VarOffset BY <1>2, <1>4
<1>6. e.off \in Int BY <1>5 DEF VarOffset
<1>7. FrameAt(f[o], b[o]) BY <1>3 DEF Frames
<1>8. PlacedIn(f[o], b[o], e) BY <1>2, <1>7 DEF FrameAt
<1>. QED BY <1>1, <1>3, <1>6, <1>8 DEF o, e

LEMMA AddressedAt ==
    ASSUME NEW f \in Seq(Nameframe), NEW b, Frames(f, b), NEW x, Declared(f, x)
    PROVE  Addressed(f, b[Len(f)], x) = Entry(f, x).slot
<1>. DEFINE o == Owner(f, x)  e == Entry(f, x)
<1>1. o \in Chain(f) /\ o \in 1 .. Len(f) /\ PlacedIn(f[o], b[o], e) /\ e.off \in Int
  BY EntryPlaced
<1>2. Addressed(f, b[Len(f)], x) = b[Len(f)] - (Hops(f, o) + e.off)
  BY DEF Addressed, getOffset
<1>. HIDE DEF o, e
<1>3. Hops(f, o) = b[Len(f)] - b[o] BY <1>1, HopsAre
<1>4. b \in Seq(Nat) /\ Len(b) = Len(f) /\ Len(f) \in 1 .. Len(f) BY <1>1 DEF Frames
<1>5. b[Len(f)] \in Nat /\ b[o] \in Nat BY <1>1, <1>4, BaseType
<1>6. e.slot = b[o] - e.off BY <1>1 DEF PlacedIn
<1>. DEFINE y == b[Len(f)]  z == b[o]  w == e.off
<1>7. y \in Nat /\ z \in Nat /\ w \in Int BY <1>1, <1>5
<1>. HIDE DEF y, z, w
<1>8. y - ((y - z) + w) = z - w BY <1>7
<1>. QED BY <1>2, <1>3, <1>6, <1>8 DEF y, z, w, e

\* It lies within the words of the innermost frame or below them, and never
\* where a base was saved that leads on.
LEMMA EntryWithin ==
    ASSUME NEW f \in Seq(Nameframe), NEW b, Frames(f, b), NEW x, Declared(f, x)
    PROVE  /\ Entry(f, x).slot \in 1 .. b[Len(f)] + f[Len(f)].nSub
           /\ \A i \in Chain(f) : ~ f[i].root => Entry(f, x).slot # b[i]
<1>. DEFINE o == Owner(f, x)  e == Entry(f, x)  n == Len(f)
<1>1. o \in Chain(f) /\ o \in 1 .. n /\ PlacedIn(f[o], b[o], e) /\ e.off \in Int
  BY EntryPlaced
<1>2. b \in Seq(Nat) /\ Len(b) = n /\ n \in 1 .. n /\ n \in Nat BY <1>1 DEF Frames
<1>3. b[n] \in Nat /\ b[o] \in Nat /\ f[o].nSub \in Nat /\ f[n].nSub \in Nat
  BY <1>1, <1>2, BaseType, FrameType
<1>. HIDE DEF o, e
<1>4. e.slot \in 1 .. b[o] + f[o].nSub BY <1>1 DEF PlacedIn
<1>5. ASSUME NEW j \in 1 .. n, j > o PROVE b[j] >= b[o] + f[o].nSub + 1 /\ b[j] \in Nat
  BY <1>1, <1>2, <1>5, BasesRise, BaseType
<1>6. e.slot \in 1 .. b[n] + f[n].nSub
  <2>1. CASE o = n BY <1>4, <2>1
  <2>2. CASE o # n
    <3>1. n > o BY <1>1, <1>2, <2>2
    <3>2. b[n] >= b[o] + f[o].nSub + 1 BY <1>2, <1>5, <3>1
    <3>. QED BY <1>3, <1>4, <3>2
  <2>. QED BY <2>1, <2>2
<1>7. ASSUME NEW i \in Chain(f), ~ f[i].root PROVE e.slot # b[i]
  <2>1. i \in 1 .. n BY ChainParts
  <2>2. b[i] \in Nat BY <1>2, <2>1, BaseType
  <2>3. CASE i > o
    <3>1. b[i] >= b[o] + f[o].nSub + 1 BY <1>5, <2>1, <2>3
    <3>. QED BY <1>3, <1>4, <2>2, <3>1
  <2>4. CASE i = o
    <3>1. e.slot > b[o] BY <1>1, <1>7, <2>4 DEF PlacedIn
    <3>. QED BY <1>3, <1>4, <2>4, <3>1
  <2>5. CASE i < o
    <3>1. ~ f[o].root BY <1>1, <2>5, <2>1, ChainParts
    <3>2. e.slot > b[o] BY <1>1, <3>1 DEF PlacedIn
    <3>3. b[o] >= b[i] + f[i].nSub + 1 BY <1>1, <2>5, BasesRise
    <3>4. f[i].nSub \in Nat BY <2>1, FrameType
    <3>. QED BY <1>3, <1>4, <2>2, <3>2, <3>3, <3>4
  <2>6. i > o \/ i = o \/ i < o BY <1>1, <2>1
  <2>. QED BY <2>3, <2>4, <2>5, <2>6
<1>. QED BY <1>6, <1>7 DEF e

LEMMA StoreFits ==
    ASSUME NEW f \in Seq(Nameframe), NEW b, Frames(f, b), NEW x, Declared(f, x),
           NEW mm \in Machine, NEW h, Fits(f, b, mm, h)
    PROVE  Fits(f, b, StoreVar(mm, f, x), h)
<1>. DEFINE d == Addressed(f, mm.bp, x)  t == Slot(Entry(f, x).decl)
            s == [i \in 1 .. Len(mm.stk) |-> IF i \in {d} THEN t ELSE mm.stk[i]]
            mn == [mm EXCEPT !.stk = s]
<1>1. StoreVar(mm, f, x) = mn BY DEF StoreVar, Poke
<1>2. mm.stk \in Seq(Token) /\ mn.stk = s /\ mn.bp = mm.bp BY DEF Machine
<1>3. Len(mm.stk) \in Nat BY <1>2
<1>4. Len(s) = Len(mm.stk) BY <1>3
<1>5. d = Entry(f, x).slot BY AddressedAt DEF Fits
<1>. HIDE DEF d, t
<1>6. f[1].root /\ Len(f) = Len(f) BY DEF Frames
<1>7. ASSUME NEW i \in Chain(f), ~ f[i].root PROVE s[b[i]] = mm.stk[b[i]]
  <2>1. b[i] # d BY <1>5, <1>7, EntryWithin
  <2>2. b[i] \in 1 .. b[Len(f)] /\ b[Len(f)] \in Nat BY <1>7, BasesIn
  <2>3. b[Len(f)] <= Len(mm.stk) BY DEF Fits
  <2>4. b[i] \in 1 .. Len(mm.stk) BY <1>3, <2>2, <2>3
  <2>. QED BY <2>1, <2>4
<1>. HIDE DEF s, mn
<1>8. \A i \in Chain(f) : ~ f[i].root => mn.stk[b[i]] = mm.stk[b[i]] BY <1>2, <1>7
<1>9. Linked(f, b, mn) BY <1>8 DEF Linked, Fits
<1>. QED BY <1>1, <1>2, <1>4, <1>9 DEF Fits

-----------------------------------------------------------------------------
(* What the instructions make of the stack and of RBP.                     *)

\* mn has the stack of mm, and RBP where it was.
SameStack(mm, mn) == mn.stk = mm.stk /\ mn.bp = mm.bp

LEMMA RegistersOnly ==
    ASSUME NEW mm \in Machine
    PROVE  /\ mm.stk \in Seq(Token) /\ mm.bp \in Nat /\ Len(mm.stk) \in Nat
           /\ \A r, t : SameStack(mm, Mov(mm, r, t))
           /\ \A r, i : SameStack(mm, MovRR(mm, r, i))
           /\ \A r, i, ok : SameStack(mm, Result(mm, r, i, ok))
           /\ \A S : SameStack(mm, Clobber(mm, S))
<1>1. mm.stk \in Seq(Token) /\ mm.bp \in Nat BY DEF Machine
<1>2. ASSUME NEW r, NEW t PROVE SameStack(mm, Mov(mm, r, t))
  BY DEF SameStack, Mov, Machine
<1>3. ASSUME NEW S PROVE SameStack(mm, Clobber(mm, S))
  BY DEF SameStack, Clobber, Machine
<1>. QED BY <1>1, <1>2, <1>3 DEF MovRR, Result

LEMMA PushPop ==
    ASSUME NEW mm \in Machine, NEW r \in Regs, NEW mn \in Machine, SameStack(Push(mm, r), mn),
           NEW i
    PROVE  SameStack(mm, Pop(mn, i))
<1>. DEFINE w == mm.reg[r]  mi == Mov(mn, i, Top(mn))
            k == IF 1 < Len(mi.stk) THEN Len(mi.stk) - 1 ELSE 0
<1>1. mm.stk \in Seq(Token) /\ w \in Token BY DEF Machine
<1>2. mn.stk = Append(mm.stk, w) /\ mn.bp = mm.bp BY DEF SameStack, Push, Machine
<1>3. mi.stk = Append(mm.stk, w) /\ mi.bp = mm.bp BY <1>2, RegistersOnly DEF SameStack
<1>4. mi \in Machine BY TopType, MovType
<1>. HIDE DEF mi
<1>5. Drop(mi, 1).stk = SubSeq(mi.stk, 1, k) /\ Drop(mi, 1).bp = mi.bp
  BY <1>4 DEF Drop, Machine
<1>. HIDE DEF w
<1>6. Len(mi.stk) = Len(mm.stk) + 1 /\ Len(mm.stk) \in Nat BY <1>1, <1>3
<1>7. k = Len(mm.stk) BY <1>6
<1>8. SubSeq(Append(mm.stk, w), 1, Len(mm.stk)) = mm.stk BY <1>1
<1>. QED BY <1>3, <1>5, <1>7, <1>8 DEF Pop, SameStack, mi

LEMMA SameTwice ==
    ASSUME NEW x, NEW y, NEW z, SameStack(x, y), SameStack(y, z)
    PROVE  SameStack(x, z)
BY DEF SameStack

LEMMA SamePush ==
    ASSUME NEW x \in Machine, NEW y \in Machine, NEW r \in Regs, NEW z,
           SameStack(Push(x, r), y), SameStack(y, z)
    PROVE  SameStack(Push(x, r), z)
BY DEF SameStack

LEMMA ShiftKeeps ==
    ASSUME Inv, status = "run"
    PROVE  SameStack(m, ShiftCode)
<1>1. /\ act.id \in Nat /\ m \in Machine /\ RCX \in Regs
      /\ r1 \in Regs /\ r2 \in Regs /\ r3 \in Regs
  BY InvFacts, RegFacts, NamedRegs DEF Types
<1>2. CASE r1 = RCX
  <2>. DEFINE x == MovRR(m, r3, r1)  a == MovRR(x, r1, r2)
              b == Result(a, r3, act.id, BothIn(a, r3, RCX))
              c == MovRR(b, r1, r3)
  <2>1. x \in Machine /\ SameStack(m, x) BY <1>1, MovRRType, RegistersOnly
  <2>. HIDE DEF x
  <2>2. a \in Machine /\ SameStack(x, a) BY <1>1, <2>1, MovRRType, RegistersOnly
  <2>. HIDE DEF a
  <2>3. b \in Machine /\ SameStack(a, b) BY <1>1, <2>2, ResultType, RegistersOnly
  <2>. HIDE DEF b
  <2>4. SameStack(b, c) BY <2>3, RegistersOnly
  <2>5. ShiftCode = c BY <1>2 DEF ShiftCode, x, a, b
  <2>. QED BY <2>1, <2>2, <2>3, <2>4, <2>5, SameTwice
<1>3. CASE r1 # RCX
  <2>. DEFINE x == Push(m, RCX)  a == MovRR(x, RCX, r2)
              b == Result(a, r1, act.id, BothIn(a, r1, RCX))
              c == Pop(b, RCX)
  <2>1. x \in Machine BY <1>1, PushType
  <2>2. a \in Machine /\ SameStack(x, a)
    <3>. HIDE DEF x
    <3>. QED BY <1>1, <2>1, MovRRType, RegistersOnly
  <2>. HIDE DEF a
  <2>3. b \in Machine /\ SameStack(a, b) BY <1>1, <2>2, ResultType, RegistersOnly
  <2>. HIDE DEF b
  <2>4. SameStack(x, b) BY <2>2, <2>3, SameTwice
  <2>5. SameStack(m, c) BY <1>1, <2>3, <2>4, PushPop
  <2>6. ShiftCode = c BY <1>3 DEF ShiftCode, a, b
  <2>. QED BY <2>5, <2>6
<1>. QED BY <1>2, <1>3

\* What was pushed around an operation is popped behind it.
LEMMA Around ==
    ASSUME NEW x \in Machine, NEW y \in Machine, NEW r \in Regs, NEW saves \in BOOLEAN,
           SameStack(IF saves THEN Push(x, r) ELSE x, y)
    PROVE  SameStack(x, IF saves THEN Pop(y, r) ELSE y)
BY PushPop

LEMMA DivModKeeps ==
    ASSUME Inv, status = "run", NEW wanted \in Regs
    PROVE  SameStack(m, DivModCode(wanted))
<1>1. /\ act.id \in Nat /\ m \in Machine /\ RAX \in Regs /\ RDX \in Regs
      /\ r1 \in Regs /\ r2 \in Regs /\ r3 \in Regs
  BY InvFacts, RegFacts, NamedRegs DEF Types
<1>. DEFINE a == IF r2 = RDX THEN MovRR(m, r3, r2) ELSE m
            b == IF r1 # RDX THEN Push(a, RDX) ELSE a
            c0 == IF r1 # RAX THEN Push(b, RAX) ELSE b
            c == IF r1 # RAX THEN MovRR(Push(b, RAX), RAX, r1) ELSE b
            divisor == IF r2 # RDX THEN r2 ELSE r3
            good == BothIn(c, RAX, divisor)
            d0 == Result(c, wanted, act.id, good)
            d == Mov(d0, IF wanted = RAX THEN RDX ELSE RAX, Junk)
            e0 == IF r1 # RAX THEN MovRR(d, r1, wanted) ELSE d
            e == IF r1 # RAX THEN Pop(MovRR(d, r1, wanted), RAX) ELSE d
            g == IF r1 # RDX THEN Pop(e, RDX) ELSE e
<1>2. a \in Machine /\ SameStack(m, a)
  <2>1. CASE r2 = RDX BY <1>1, <2>1, MovRRType, RegistersOnly
  <2>2. CASE r2 # RDX BY <1>1, <2>2 DEF SameStack
  <2>. QED BY <2>1, <2>2
<1>3. b \in Machine
  <2>. HIDE DEF a
  <2>. QED BY <1>1, <1>2, PushType
<1>4. c \in Machine /\ c0 \in Machine /\ SameStack(c0, c)
  <2>. HIDE DEF b
  <2>1. CASE r1 # RAX
    <3>1. Push(b, RAX) \in Machine BY <1>1, <1>3, PushType
    <3>. QED BY <1>1, <2>1, <3>1, MovRRType, RegistersOnly
  <2>2. CASE r1 = RAX BY <1>3, <2>2 DEF SameStack
  <2>. QED BY <2>1, <2>2
<1>5. d \in Machine /\ SameStack(c, d)
  <2>. HIDE DEF c, good
  <2>1. d0 \in Machine /\ SameStack(c, d0) BY <1>1, <1>4, ResultType, RegistersOnly
  <2>. HIDE DEF d0
  <2>2. d \in Machine /\ SameStack(d0, d) BY <2>1, MovType, Tokens, RegistersOnly
  <2>. QED BY <2>1, <2>2, SameTwice
<1>6. e0 \in Machine /\ SameStack(d, e0)
  <2>. HIDE DEF d
  <2>1. CASE r1 # RAX BY <1>1, <1>5, <2>1, MovRRType, RegistersOnly
  <2>2. CASE r1 = RAX BY <1>5, <2>2 DEF SameStack
  <2>. QED BY <2>1, <2>2
<1>7. e \in Machine /\ SameStack(b, e)
  <2>. HIDE DEF d, c, b
  <2>1. SameStack(c0, e0)
    <3>. HIDE DEF c0, e0
    <3>. QED BY <1>4, <1>5, <1>6, SameTwice
  <2>2. e = IF r1 # RAX THEN Pop(e0, RAX) ELSE e0 OBVIOUS
  <2>. HIDE DEF e0, e
  <2>3. e \in Machine BY <1>6, <2>2, PopType
  <2>4. (r1 # RAX) \in BOOLEAN OBVIOUS
  <2>5. SameStack(b, IF r1 # RAX THEN Pop(e0, RAX) ELSE e0)
    BY <1>1, <1>3, <1>6, <2>1, <2>4, Around
  <2>. QED BY <2>2, <2>3, <2>5
<1>8. SameStack(a, g)
  <2>. HIDE DEF a, e
  <2>1. (r1 # RDX) \in BOOLEAN OBVIOUS
  <2>. QED BY <1>1, <1>2, <1>7, <2>1, Around
<1>9. SameStack(m, g)
  <2>. HIDE DEF a, g
  <2>. QED BY <1>2, <1>8, SameTwice
<1>10. DivModCode(wanted) = g BY DEF DivModCode
<1>. HIDE DEF g
<1>. QED BY <1>9, <1>10

LEMMA OutKeeps ==
    ASSUME Inv, status = "run"
    PROVE  SameStack(m, OutCode)
<1>1. /\ act.id \in Nat /\ m \in Machine /\ RAX \in Regs /\ RDI \in Regs /\ r1 \in Regs
  BY InvFacts, RegFacts, NamedRegs DEF Types
<1>. DEFINE a == IF r1 # RDI THEN Push(m, RDI) ELSE m
            b == IF r1 # RAX THEN Push(a, RAX) ELSE a
            c == MovRR(b, RDI, r1)
            good == Holds(c, RDI, Kid(1))
            d0 == Clobber(c, OutScratch)
            d == Result(d0, RAX, act.id, good)
            e == MovRR(d, r1, RAX)
            g == IF r1 # RAX THEN Pop(e, RAX) ELSE e
            h == IF r1 # RDI THEN Pop(g, RDI) ELSE g
<1>2. a \in Machine /\ (r1 # RAX) \in BOOLEAN /\ (r1 # RDI) \in BOOLEAN BY <1>1, PushType
<1>3. b \in Machine
  <2>. HIDE DEF a
  <2>. QED BY <1>1, <1>2, PushType
<1>4. e \in Machine /\ SameStack(b, e)
  <2>. HIDE DEF b
  <2>1. c \in Machine /\ SameStack(b, c) BY <1>1, <1>3, MovRRType, RegistersOnly
  <2>. HIDE DEF c, good
  <2>2. d0 \in Machine /\ SameStack(c, d0) BY <2>1, ClobberType, RegistersOnly
  <2>. HIDE DEF d0
  <2>3. d \in Machine /\ SameStack(d0, d) BY <1>1, <2>2, ResultType, RegistersOnly
  <2>. HIDE DEF d
  <2>4. e \in Machine /\ SameStack(d, e) BY <1>1, <2>3, MovRRType, RegistersOnly
  <2>. HIDE DEF e
  <2>. QED BY <2>1, <2>2, <2>3, <2>4, SameTwice
<1>5. g \in Machine /\ SameStack(a, g)
  <2>. HIDE DEF a, e
  <2>1. g \in Machine BY <1>4, PopType
  <2>. QED BY <1>1, <1>2, <1>4, <2>1, Around
<1>6. SameStack(m, h)
  <2>. HIDE DEF g
  <2>. QED BY <1>1, <1>2, <1>5, Around
<1>7. OutCode = h BY DEF OutCode
<1>. HIDE DEF h
<1>. QED BY <1>6, <1>7

LEMMA InKeeps ==
    ASSUME Inv, status = "run"
    PROVE  SameStack(m, InCode)
<1>1. act.id \in Nat /\ m \in Machine /\ RAX \in Regs /\ r1 \in Regs
  BY InvFacts, RegFacts, NamedRegs DEF Types
<1>. DEFINE a == IF r1 # RAX THEN Push(m, RAX) ELSE m
            b == Clobber(a, InScratch)
            c == Result(b, RAX, act.id, TRUE)
            d == MovRR(c, r1, RAX)
<1>2. a \in Machine /\ (r1 # RAX) \in BOOLEAN BY <1>1, PushType
<1>3. d \in Machine /\ SameStack(a, d)
  <2>. HIDE DEF a
  <2>1. b \in Machine /\ SameStack(a, b) BY <1>2, ClobberType, RegistersOnly
  <2>. HIDE DEF b
  <2>2. c \in Machine /\ SameStack(b, c) BY <1>1, <2>1, ResultType, RegistersOnly
  <2>. HIDE DEF c
  <2>3. d \in Machine /\ SameStack(c, d) BY <1>1, <2>2, MovRRType, RegistersOnly
  <2>. QED BY <2>1, <2>2, <2>3, SameTwice
<1>4. InCode = IF r1 # RAX THEN Pop(d, RAX) ELSE d BY DEF InCode
<1>. HIDE DEF d
<1>. QED BY <1>1, <1>2, <1>3, <1>4, Around

\* mn has the lowest k words of mm, and RBP where it was.
Bottom(mm, mn, k) == mn.bp = mm.bp /\ \A i \in 1 .. k : mn.stk[i] = mm.stk[i]

LEMMA Table ==
    ASSUME NEW S, NEW k \in Nat, NEW v \in [1 .. k -> S]
    PROVE  v \in Seq(S) /\ Len(v) = k
OBVIOUS

LEMMA ConcatHead ==
    ASSUME NEW S, NEW s \in Seq(S), NEW t \in Seq(S)
    PROVE  \A i \in 1 .. Len(s) : (s \o t)[i] = s[i]
OBVIOUS

LEMMA PushRangeParts ==
    ASSUME NEW mm \in Machine, NEW k \in 0 .. 13
    PROVE  /\ PushRange(mm, 0, k - 1) \in Machine
           /\ Len(PushRange(mm, 0, k - 1).stk) = Len(mm.stk) + k
           /\ Bottom(mm, PushRange(mm, 0, k - 1), Len(mm.stk))
<1>. DEFINE w == [i \in 1 .. (k - 1) - 0 + 1 |-> mm.reg[0 + i - 1]]
            s == mm.stk \o w
<1>1. mm.stk \in Seq(Token) /\ mm.bp \in Nat BY DEF Machine
<1>2. (k - 1) - 0 + 1 = k /\ k \in Nat OBVIOUS
<1>3. w \in Seq(Token) /\ Len(w) = k
  <2>1. \A i \in 1 .. k : mm.reg[0 + i - 1] \in Token
    BY DEF Machine, Regs, regStackSz
  <2>2. w \in [1 .. k -> Token] BY <1>2, <2>1
  <2>. HIDE DEF w
  <2>. QED BY <1>2, <2>2, Table
<1>4. PushRange(mm, 0, k - 1) \in Machine
  <2>1. 0 \in Regs /\ k - 1 \in Int /\ k - 1 < regStackSz BY DEF Regs, regStackSz
  <2>. QED BY <2>1, PushRangeType
<1>5. PushRange(mm, 0, k - 1).stk = s /\ PushRange(mm, 0, k - 1).bp = mm.bp
  <2>1. PushRange(mm, 0, k - 1) = [mm EXCEPT !.stk = s] BY DEF PushRange
  <2>. HIDE DEF s
  <2>. QED BY <2>1 DEF Machine
<1>. HIDE DEF w
<1>6. Len(s) = Len(mm.stk) + k /\ \A i \in 1 .. Len(mm.stk) : s[i] = mm.stk[i]
  BY <1>1, <1>3, Concat, ConcatHead
<1>. QED BY <1>4, <1>5, <1>6 DEF Bottom

LEMMA PushParts ==
    ASSUME NEW mm \in Machine, NEW r \in Regs
    PROVE  /\ Push(mm, r) \in Machine
           /\ Len(Push(mm, r).stk) = Len(mm.stk) + 1
           /\ Bottom(mm, Push(mm, r), Len(mm.stk))
<1>1. mm.stk \in Seq(Token) /\ mm.reg[r] \in Token BY DEF Machine
<1>. DEFINE s == Append(mm.stk, mm.reg[r])
<1>2. Push(mm, r).stk = s /\ Push(mm, r).bp = mm.bp BY DEF Push, Machine
<1>3. Len(s) = Len(mm.stk) + 1 /\ \A i \in 1 .. Len(mm.stk) : s[i] = mm.stk[i]
  BY <1>1
<1>. QED BY <1>2, <1>3, PushType DEF Bottom

LEMMA DropParts ==
    ASSUME NEW mm \in Machine, NEW k \in 0 .. Len(mm.stk)
    PROVE  /\ Drop(mm, k) \in Machine /\ Len(Drop(mm, k).stk) = Len(mm.stk) - k
           /\ Bottom(mm, Drop(mm, k), Len(mm.stk) - k)
<1>1. mm.stk \in Seq(Token) /\ Len(mm.stk) \in Nat /\ k \in Nat BY DEF Machine
<1>. DEFINE n == IF k < Len(mm.stk) THEN Len(mm.stk) - k ELSE 0
<1>2. n = Len(mm.stk) - k /\ n \in 0 .. Len(mm.stk) BY <1>1
<1>3. Drop(mm, k).stk = SubSeq(mm.stk, 1, n) /\ Drop(mm, k).bp = mm.bp
  BY DEF Drop, Machine
<1>4. Drop(mm, k) \in Machine BY <1>1, DropType
<1>. HIDE DEF n
<1>. QED BY <1>1, <1>2, <1>3, <1>4, Prefix DEF Bottom

LEMMA PopRanges ==
    ASSUME NEW mm \in Machine, NEW k \in Nat, k <= Len(mm.stk)
    PROVE  /\ PopUp(mm, 1, k) \in Machine /\ PopRange(mm, 1, k) \in Machine
           /\ Len(PopUp(mm, 1, k).stk) = Len(mm.stk) - k
           /\ Len(PopRange(mm, 1, k).stk) = Len(mm.stk) - k
           /\ Bottom(mm, PopUp(mm, 1, k), Len(mm.stk) - k)
           /\ Bottom(mm, PopRange(mm, 1, k), Len(mm.stk) - k)
<1>1. PopUp(mm, 1, k) \in Machine /\ PopRange(mm, 1, k) \in Machine
  BY PopUpType, PopRangeType
<1>2. mm.stk \in Seq(Token) /\ Len(mm.stk) \in Nat BY DEF Machine
<1>3. k - 1 + 1 = k /\ k \in 0 .. Len(mm.stk) BY <1>2
<1>4. ASSUME NEW g \in [Regs -> Token]
      PROVE  LET x == [mm EXCEPT !.reg = g]
             IN  /\ Len(Drop(x, k - 1 + 1).stk) = Len(mm.stk) - k
                 /\ Bottom(mm, Drop(x, k - 1 + 1), Len(mm.stk) - k)
  <2>. DEFINE x == [mm EXCEPT !.reg = g]
  <2>1. x \in Machine /\ x.stk = mm.stk /\ x.bp = mm.bp BY DEF Machine
  <2>. HIDE DEF x
  <2>2. Len(Drop(x, k).stk) = Len(mm.stk) - k /\ Bottom(x, Drop(x, k), Len(mm.stk) - k)
    BY <1>3, <2>1, DropParts
  <2>3. Bottom(mm, Drop(x, k), Len(mm.stk) - k) BY <2>1, <2>2 DEF Bottom
  <2>. QED BY <1>3, <2>2, <2>3 DEF x
<1>. DEFINE up == [r \in Regs |-> IF r \in 1 .. k THEN Under(mm, r - 1) ELSE mm.reg[r]]
            down == [r \in Regs |-> IF r \in 1 .. k THEN Under(mm, k - r) ELSE mm.reg[r]]
<1>5. up \in [Regs -> Token] /\ down \in [Regs -> Token]
  <2>1. ASSUME NEW r \in Regs
        PROVE  /\ (IF r \in 1 .. k THEN Under(mm, r - 1) ELSE mm.reg[r]) \in Token
               /\ (IF r \in 1 .. k THEN Under(mm, k - r) ELSE mm.reg[r]) \in Token
    <3>1. mm.reg[r] \in Token BY DEF Machine
    <3>2. ASSUME r \in 1 .. k PROVE Under(mm, r - 1) \in Token /\ Under(mm, k - r) \in Token
      <4>1. r - 1 \in Nat /\ k - r \in Nat BY <3>2
      <4>. QED BY <4>1, UnderType
    <3>. QED BY <3>1, <3>2
  <2>. QED BY <2>1
<1>6. /\ PopUp(mm, 1, k) = Drop([mm EXCEPT !.reg = up], k - 1 + 1)
      /\ PopRange(mm, 1, k) = Drop([mm EXCEPT !.reg = down], k - 1 + 1)
  BY DEF PopUp, PopRange
<1>. HIDE DEF up, down
<1>. QED BY <1>1, <1>4, <1>5, <1>6

LEMMA ReserveParts ==
    ASSUME NEW mm \in Machine, NEW n \in Nat
    PROVE  /\ Reserve(mm, n) \in Machine /\ Len(Reserve(mm, n).stk) = Len(mm.stk) + n
           /\ Bottom(mm, Reserve(mm, n), Len(mm.stk))
<1>. DEFINE w == [i \in 1 .. n |-> Junk]  s == mm.stk \o w
<1>1. mm.stk \in Seq(Token) BY DEF Machine
<1>2. w \in Seq(Token) /\ Len(w) = n
  <2>1. w \in [1 .. n -> Token] BY Tokens
  <2>. HIDE DEF w
  <2>. QED BY <2>1, Table
<1>3. Reserve(mm, n).stk = s /\ Reserve(mm, n).bp = mm.bp
  <2>1. Reserve(mm, n) = [mm EXCEPT !.stk = s] BY DEF Reserve
  <2>. HIDE DEF s
  <2>. QED BY <2>1 DEF Machine
<1>. HIDE DEF w
<1>4. Len(s) = Len(mm.stk) + n /\ \A i \in 1 .. Len(mm.stk) : s[i] = mm.stk[i]
  BY <1>1, <1>2, Concat, ConcatHead
<1>. QED BY <1>3, <1>4, ReserveType DEF Bottom

LEMMA EnterParts ==
    ASSUME NEW mm \in Machine
    PROVE  /\ Enter(mm) \in Machine /\ Enter(mm).bp = Len(mm.stk) + 1
           /\ Len(Enter(mm).stk) = Len(mm.stk) + 1
           /\ Enter(mm).stk[Len(mm.stk) + 1] = SavedBp(mm.bp)
           /\ \A i \in 1 .. Len(mm.stk) : Enter(mm).stk[i] = mm.stk[i]
<1>. DEFINE w == SavedBp(mm.bp)  s == Append(mm.stk, w)
<1>1. mm.stk \in Seq(Token) /\ w \in Token BY Tokens DEF Machine
<1>2. Enter(mm).stk = s /\ Enter(mm).bp = Len(mm.stk) + 1
  BY DEF Enter, Machine
<1>. HIDE DEF w
<1>3. /\ Len(s) = Len(mm.stk) + 1 /\ s[Len(mm.stk) + 1] = w
      /\ \A i \in 1 .. Len(mm.stk) : s[i] = mm.stk[i]
  BY <1>1
<1>. QED BY <1>2, <1>3, EnterType DEF w

\* createFrame with no register to save.
LEMMA EnterFrameParts ==
    ASSUME NEW mm \in Machine, NEW n \in Nat
    PROVE  LET e == EnterFrame(mm, 0, n)
           IN  /\ e \in Machine /\ e.bp = Len(mm.stk) + 1
               /\ Len(e.stk) = Len(mm.stk) + 1 + n
               /\ e.stk[Len(mm.stk) + 1] = SavedBp(mm.bp)
               /\ \A i \in 1 .. Len(mm.stk) : e.stk[i] = mm.stk[i]
<1>. DEFINE x == Enter(mm)  y == PushRange(x, 1, 0 - 1)  e == Reserve(y, n)
<1>1. /\ x \in Machine /\ x.bp = Len(mm.stk) + 1
      /\ Len(x.stk) = Len(mm.stk) + 1
      /\ x.stk[Len(mm.stk) + 1] = SavedBp(mm.bp)
      /\ \A i \in 1 .. Len(mm.stk) : x.stk[i] = mm.stk[i]
  BY EnterParts
<1>2. Len(mm.stk) \in Nat BY DEF Machine
<1>. HIDE DEF x
<1>3. y \in Machine /\ y.stk = x.stk /\ y.bp = x.bp
  <2>. DEFINE w == [i \in 1 .. (0 - 1) - 1 + 1 |-> x.reg[1 + i - 1]]
  <2>1. 1 .. (0 - 1) - 1 + 1 = {} /\ 1 .. 0 = {} OBVIOUS
  <2>2. w \in [1 .. 0 -> Token] BY <2>1
  <2>3. x.stk \in Seq(Token) BY <1>1 DEF Machine
  <2>4. y = [x EXCEPT !.stk = @ \o w] BY DEF PushRange
  <2>. HIDE DEF w
  <2>5. w \in Seq(Token) /\ Len(w) = 0 BY <2>2, Table
  <2>6. w = <<>> BY <2>5
  <2>7. x.stk \o w = x.stk BY <2>3, <2>6
  <2>8. y = [x EXCEPT !.stk = x.stk] BY <2>4, <2>7
  <2>. HIDE DEF y
  <2>. QED BY <1>1, <2>8 DEF Machine
<1>. HIDE DEF y
<1>4. /\ e \in Machine /\ e.bp = y.bp /\ Len(e.stk) = Len(y.stk) + n
      /\ \A i \in 1 .. Len(y.stk) : e.stk[i] = y.stk[i]
  BY <1>3, ReserveParts DEF Bottom
<1>. HIDE DEF e
<1>5. /\ Len(mm.stk) + 1 \in 1 .. Len(mm.stk) + 1
      /\ \A i \in 1 .. Len(mm.stk) : i \in 1 .. Len(mm.stk) + 1
  BY <1>2
<1>6. /\ e.bp = Len(mm.stk) + 1 /\ Len(e.stk) = Len(mm.stk) + 1 + n
      /\ \A i \in 1 .. Len(mm.stk) + 1 : e.stk[i] = x.stk[i]
  BY <1>1, <1>3, <1>4
<1>7. EnterFrame(mm, 0, n) = e BY DEF EnterFrame, e, y, x
<1>. QED BY <1>1, <1>4, <1>5, <1>6, <1>7

LEMMA UnwindParts ==
    ASSUME NEW mm \in Machine, NEW d \in Nat, mm.bp >= 1, mm.bp <= Len(mm.stk),
           mm.stk[mm.bp] = SavedBp(d)
    PROVE  /\ Unwind(mm) \in Machine /\ Unwind(mm).bp = d
           /\ Len(Unwind(mm).stk) = mm.bp - 1
           /\ \A i \in 1 .. mm.bp - 1 : Unwind(mm).stk[i] = mm.stk[i]
<1>. DEFINE saved == IF mm.bp \in 1 .. Len(mm.stk) THEN mm.stk[mm.bp] ELSE Junk
            k == IF mm.bp > 0 THEN mm.bp - 1 ELSE 0
            s == [i \in 1 .. k |-> IF i <= Len(mm.stk) THEN mm.stk[i] ELSE Junk]
            p == IF saved[1] = "bp" THEN saved[2] ELSE 0
<1>1. mm.stk \in Seq(Token) /\ mm.bp \in Nat /\ Len(mm.stk) \in Nat BY DEF Machine
<1>2. p = d
  <2>1. saved = <<"bp", d>> BY <1>1 DEF SavedBp
  <2>. HIDE DEF saved
  <2>. QED BY <2>1
<1>3. k = mm.bp - 1 /\ k \in Nat /\ \A i \in 1 .. k : i <= Len(mm.stk) /\ i \in 1 .. Len(mm.stk)
  BY <1>1
<1>4. /\ s \in [1 .. k -> Token] /\ \A i \in 1 .. k : s[i] = mm.stk[i]
  <2>. HIDE DEF k
  <2>. QED BY <1>1, <1>3
<1>5. Unwind(mm).stk = s /\ Unwind(mm).bp = p
  <2>1. Unwind(mm) = [mm EXCEPT !.stk = s, !.bp = p] BY DEF Unwind
  <2>. HIDE DEF s, p
  <2>. QED BY <2>1 DEF Machine
<1>. HIDE DEF s, k, p
<1>6. Len(s) = k BY <1>3, <1>4, Table
<1>. QED BY <1>2, <1>3, <1>4, <1>5, <1>6, UnwindType

\* A call takes its arguments and the registers it saved off the stack.
LEMMA CallKeeps ==
    ASSUME Inv, At({"call"}, "args"), Len(Args) <= 6, Len(Args) + r1 <= Len(m.stk)
    PROVE  /\ InRegs = Len(Args) /\ CallCode \in Machine
           /\ Len(CallCode.stk) = Len(m.stk) - (Len(Args) + r1)
           /\ Bottom(m, CallCode, Len(m.stk) - (Len(Args) + r1))
<1>1. node \in Node /\ m \in Machine /\ status = "run" BY AtFacts
<1>2. /\ Len(Args) \in Nat /\ act.id \in Nat /\ RAX \in Regs /\ r1 \in Regs
      /\ r1 \in 0 .. 10
  BY <1>1, NodeFields, InvFacts, RegFacts, NamedRegs DEF Args
<1>3. InRegs = Len(Args) BY <1>2 DEF InRegs, MinOf
<1>. DEFINE L == Len(Args)
            h == Len(m.stk)
            a == PopUp(m, 1, InRegs)
            ok == ArgsInPlace(a)
            b0 == Clobber(a, Regs)
            b1 == Result(b0, RAX, act.id, ok)
            b == MovRR(b1, r1, RAX)
            d == PopRange(b, 1, r1)
<1>a. h \in Nat /\ L \in Nat /\ r1 \in Nat /\ L <= h /\ r1 <= h - L /\ h - L - r1 = h - (L + r1)
  <2>1. h \in Nat BY <1>1, RegistersOnly
  <2>. QED BY <1>2, <2>1
<1>4. a \in Machine /\ Len(a.stk) = h - L /\ Bottom(m, a, h - L)
  <2>. HIDE DEF L, h
  <2>1. a = PopUp(m, 1, L) BY <1>3 DEF L
  <2>2. L <= Len(m.stk) BY <1>a DEF h
  <2>. QED BY <1>1, <1>a, <2>1, <2>2, PopRanges DEF h
<1>5. b \in Machine /\ SameStack(a, b)
  <2>. HIDE DEF a, ok
  <2>1. b0 \in Machine /\ SameStack(a, b0) BY <1>4, ClobberType, RegistersOnly
  <2>. HIDE DEF b0
  <2>2. b1 \in Machine /\ SameStack(b0, b1) BY <1>2, <2>1, ResultType, RegistersOnly
  <2>. HIDE DEF b1
  <2>3. b \in Machine /\ SameStack(b1, b) BY <1>2, <2>2, MovRRType, RegistersOnly
  <2>. QED BY <2>1, <2>2, <2>3, SameTwice
<1>. HIDE DEF a, b, h, L
<1>6. b.stk = a.stk /\ b.bp = a.bp BY <1>5 DEF SameStack
<1>7. d \in Machine /\ Len(d.stk) = h - L - r1 /\ Bottom(b, d, h - L - r1)
  <2>1. r1 <= Len(b.stk) /\ Len(b.stk) = h - L BY <1>a, <1>4, <1>6
  <2>. QED BY <1>5, <1>a, <2>1, PopRanges
<1>8. Bottom(m, d, h - L - r1)
  <2>1. \A i \in 1 .. h - L - r1 : i \in 1 .. h - L BY <1>a
  <2>. HIDE DEF d
  <2>. QED BY <1>4, <1>6, <1>7, <2>1 DEF Bottom
<1>9. CallCode = d
  <2>1. ~ (Len(Args) > 6) BY <1>2
  <2>. QED BY <2>1 DEF CallCode, d, b, b1, b0, a
<1>. QED BY <1>3, <1>7, <1>8, <1>9, <1>a DEF h, L

\* The words a caller of the function has pushed.
Passed == IF Len(params) > 6 THEN Len(params) - 6 ELSE 0

LEMMA FunctionEntryParts ==
    ASSUME Inv, At({"func"}, "body"), NEW f \in Seq(Nameframe), f # <<>>
    PROVE  /\ FunctionEntry(f) \in Machine /\ Passed \in Nat
           /\ FunctionEntry(f).bp = Passed + 2
           /\ Len(FunctionEntry(f).stk) = Passed + 2 + f[Len(f)].nSub
<1>1. node \in Node /\ status = "run" BY AtFacts
<1>2. Len(params) \in Nat /\ act.id \in Nat BY <1>1, NodeFields, InvFacts DEF params
<1>. DEFINE k == IF Len(params) > 6 THEN Len(params) - 6 ELSE 0
            arg(i) == Slot(act.id + Len(params) + 1 - i)
            given == [i \in 1 .. k |-> arg(i)]
            passed == Append(given, Ret)
            called == [Blank EXCEPT !.stk = passed]
            entered == Enter(called)
            n == f[Len(f)].nSub
            inside == Reserve(entered, n)
            word(d) == IF d - inside.bp \in 1 .. MinOf(6, Len(params))
                         THEN Slot(act.id + d - inside.bp) ELSE inside.stk[d]
            stk == [d \in 1 .. Len(inside.stk) |-> word(d)]
<1>3. k \in 0 .. Len(params) /\ k \in Nat BY <1>2
<1>4. given \in Seq(Token) /\ Len(given) = k
  <2>1. ASSUME NEW i \in 1 .. k PROVE arg(i) \in Token
    <3>. HIDE DEF k
    <3>1. act.id + Len(params) + 1 - i \in Nat BY <1>2, <1>3
    <3>. QED BY <3>1, Tokens
  <2>2. given \in [1 .. k -> Token]
    <3>. HIDE DEF arg, k
    <3>. QED BY <2>1
  <2>. HIDE DEF given, k
  <2>. QED BY <1>3, <2>2, Table
<1>5. passed \in Seq(Token) /\ Len(passed) = k + 1
  <2>. HIDE DEF given, k
  <2>. QED BY <1>3, <1>4, AppendLast, Tokens
<1>6. called \in Machine /\ called.stk = passed
  <2>. HIDE DEF passed
  <2>0. passed \in Seq(Token) /\ 0 \in Nat BY <1>5
  <2>1. Blank \in Machine BY BlankType
  <2>. QED BY <2>0, <2>1 DEF Machine
<1>7. n \in Nat
  <2>1. f[Len(f)] \in Nameframe BY LastFrame
  <2>. QED BY <2>1 DEF Nameframe
<1>8. entered \in Machine /\ entered.bp = k + 2 /\ Len(entered.stk) = k + 2
  <2>. HIDE DEF called, k
  <2>1. Len(called.stk) + 1 = k + 2 BY <1>3, <1>5, <1>6
  <2>. QED BY <1>6, <2>1, EnterParts
<1>9. inside \in Machine /\ inside.bp = k + 2 /\ Len(inside.stk) = k + 2 + n
  <2>. HIDE DEF entered, n, k
  <2>. QED BY <1>7, <1>8, ReserveParts DEF Bottom
<1>10. FunctionEntry(f) = [inside EXCEPT !.stk = stk] BY DEF FunctionEntry
<1>. HIDE DEF inside, n
<1>11. Len(inside.stk) \in Nat BY <1>9, RegistersOnly
<1>12. Len(stk) = Len(inside.stk)
  <2>. HIDE DEF word
  <2>. QED BY <1>11
<1>. HIDE DEF stk
<1>13. FunctionEntry(f).stk = stk /\ FunctionEntry(f).bp = inside.bp
  BY <1>9, <1>10 DEF Machine
<1>14. FunctionEntry(f) \in Machine BY FunctionEntryType
<1>15. Passed = k BY DEF Passed
<1>. HIDE DEF k
<1>. QED BY <1>3, <1>9, <1>12, <1>13, <1>14, <1>15 DEF n

-----------------------------------------------------------------------------
(* The frames and the machine, step by step.                               *)

\* A machine that keeps the words up to RBP still fits.
LEMMA StillFits ==
    ASSUME NEW f \in Seq(Nameframe), NEW b, Frames(f, b), NEW mm, NEW h, Fits(f, b, mm, h),
           NEW mn, Bottom(mm, mn, b[Len(f)]), NEW g, Len(mn.stk) = g, b[Len(f)] <= g
    PROVE  Fits(f, b, mn, g)
<1>1. ASSUME NEW i \in Chain(f), ~ f[i].root PROVE mn.stk[b[i]] = mm.stk[b[i]]
  <2>1. b[i] \in 1 .. b[Len(f)] BY BasesIn
  <2>. QED BY <2>1 DEF Bottom
<1>2. Linked(f, b, mn) BY <1>1 DEF Linked, Fits
<1>. QED BY <1>2 DEF Fits, Bottom

LEMMA SameFits ==
    ASSUME NEW f, NEW b, NEW mm, NEW h, Fits(f, b, mm, h), NEW mn, SameStack(mm, mn)
    PROVE  Fits(f, b, mn, h)
BY DEF Fits, Linked, SameStack

\* Frames that differ in their counters only.
LEMMA FitsAlike ==
    ASSUME NEW f \in Seq(Nameframe), NEW g \in Seq(Nameframe), NEW b, Frames(f, b),
           Len(f) = Len(g), \A i \in 1 .. Len(f) : f[i].root = g[i].root,
           NEW mm, NEW h, Fits(f, b, mm, h)
    PROVE  Fits(g, b, mm, h)
<1>1. f[1].root /\ Linked(f, b, mm) BY DEF Frames, Fits
<1>2. Linked(g, b, mm) BY <1>1, StillLinked
<1>. QED BY <1>2 DEF Fits

LEMMA PushedKeeps ==
    ASSUME NEW f \in Seq(Nameframe), NEW b, Frames(f, b), NEW k \in Int
    PROVE  /\ Pushed(f, k) \in Seq(Nameframe) /\ Len(Pushed(f, k)) = Len(f)
           /\ Frames(Pushed(f, k), b)
           /\ \A mm, h : Fits(f, b, mm, h) => Fits(Pushed(f, k), b, mm, h)
           /\ \A c : Matches(f, c) => Matches(Pushed(f, k), c)
<1>. DEFINE g == Pushed(f, k)  n == Len(f)
<1>1. /\ b \in Seq(Nat) /\ Len(b) = n /\ f # <<>> /\ f[1].root /\ n \in Nat
      /\ \A j \in 1 .. n : FrameAt(f[j], b[j])
      /\ \A j \in 1 .. n - 1 :
          /\ f[j].pushed >= 1
          /\ ~ f[j + 1].root => b[j + 1] = b[j] + f[j].nSub + f[j].pushed
  BY DEF Frames
<1>2. /\ g \in Seq(Nameframe) /\ Len(g) = n
      /\ \A i \in 1 .. n - 1 : g[i] = f[i]
      /\ \A i \in 1 .. n :
            /\ g[i].root = f[i].root /\ g[i].nSub = f[i].nSub
            /\ g[i].above = f[i].above /\ g[i].vars = f[i].vars
            /\ g[i].regSaved = f[i].regSaved
  BY <1>1, PushedParts
<1>. HIDE DEF g
<1>3. n # 0 /\ 1 \in 1 .. n /\ n \in 1 .. n /\ \A j \in 1 .. n - 1 : j + 1 \in 1 .. n
  BY <1>1
<1>4. ASSUME NEW j \in 1 .. n PROVE FrameAt(g[j], b[j])
  <2>1. FrameAt(f[j], b[j]) BY <1>1
  <2>. QED BY <1>2, <2>1 DEF FrameAt, PlacedIn
<1>5. Frames(g, b)
  <2>1. g # <<>> BY <1>1, <1>2, <1>3
  <2>2. g[1].root BY <1>1, <1>2, <1>3
  <2>3. \A j \in 1 .. n - 1 :
          /\ g[j].pushed >= 1
          /\ ~ g[j + 1].root => b[j + 1] = b[j] + g[j].nSub + g[j].pushed
    BY <1>1, <1>2, <1>3
  <2>. QED BY <1>1, <1>2, <1>4, <2>1, <2>2, <2>3 DEF Frames
<1>6. ASSUME NEW mm, NEW h, Fits(f, b, mm, h) PROVE Fits(g, b, mm, h)
  BY <1>2, <1>6, FitsAlike
<1>7. ASSUME NEW c, Matches(f, c) PROVE Matches(g, c)
  <2>1. ASSUME NEW x \in c.names PROVE Declared(g, x)
    <3>1. Declared(f, x) BY <1>7 DEF Matches
    <3>2. \A i \in 1 .. Len(f) : Declares(f[i], x) => Declares(g[i], x)
      BY <1>2 DEF Declares
    <3>3. /\ Len(f) <= Len(g) /\ \A i \in 1 .. Len(f) : f[i].root = g[i].root
          /\ \A i \in Len(f) + 1 .. Len(g) : ~ g[i].root
      BY <1>1, <1>2
    <3>. QED BY <1>2, <3>1, <3>2, <3>3, StillDeclared
  <2>. QED BY <1>2, <1>3, <1>7, <2>1 DEF Matches
<1>. QED BY <1>2, <1>5, <1>6, <1>7 DEF g

LEMMA PushedCounts ==
    ASSUME NEW f \in Seq(Nameframe), NEW b, Frames(f, b), NEW k \in Int,
           NEW h \in Int, Counts(f, b, h), h + k >= b[Len(f)] + f[Len(f)].nSub
    PROVE  Counts(Pushed(f, k), b, h + k)
<1>. DEFINE g == Pushed(f, k)  n == Len(f)
<1>1. f # <<>> /\ b \in Seq(Nat) /\ Len(b) = n /\ n \in Nat BY DEF Frames
<1>2. n \in 1 .. n BY <1>1
<1>3. /\ Len(g) = n /\ g[n].nSub = f[n].nSub /\ g[n].pushed = f[n].pushed + k
  BY <1>1, <1>2, PushedParts
<1>4. b[n] \in Nat /\ f[n].nSub \in Nat /\ f[n].pushed \in Int
  BY <1>1, <1>2, BaseType, FrameType
<1>. HIDE DEF g
<1>5. h = b[n] + f[n].nSub + f[n].pushed BY DEF Counts
<1>. DEFINE y == b[n]  w == f[n].nSub  p == f[n].pushed
<1>6. y \in Nat /\ w \in Nat /\ p \in Int /\ h = y + w + p /\ h + k >= y + w
  BY <1>4, <1>5
<1>. HIDE DEF y, w, p
<1>7. h + k = y + w + (p + k) /\ p + k >= 0 BY <1>6
<1>. QED BY <1>3, <1>7 DEF Counts, g, y, w, p

LEMMA FramesParts ==
    ASSUME NEW f \in Seq(Nameframe), NEW b, Frames(f, b)
    PROVE  /\ b \in Seq(Nat) /\ Len(b) = Len(f) /\ f # <<>> /\ f[1].root
           /\ Len(f) \in Nat /\ Len(f) # 0 /\ 1 \in 1 .. Len(f) /\ Len(f) \in 1 .. Len(f)
           /\ \A j \in 1 .. Len(f) : FrameAt(f[j], b[j])
           /\ \A j \in 1 .. Len(f) - 1 :
                 /\ f[j].pushed >= 1
                 /\ ~ f[j + 1].root => b[j + 1] = b[j] + f[j].nSub + f[j].pushed
           /\ \A j \in 1 .. Len(f) :
                 /\ b[j] \in Nat /\ b[j] >= 1
                 /\ f[j].nSub \in Nat /\ f[j].pushed \in Int /\ f[j].above \in Nat
<1>1. b \in Seq(Nat) /\ Len(b) = Len(f) /\ f # <<>> /\ f[1].root BY DEF Frames
<1>2. Len(f) \in Nat OBVIOUS
<1>3. Len(f) # 0 /\ 1 \in 1 .. Len(f) /\ Len(f) \in 1 .. Len(f) BY <1>1, <1>2
<1>4. \A j \in 1 .. Len(f) : FrameAt(f[j], b[j]) BY DEF Frames
<1>5. \A j \in 1 .. Len(f) - 1 :
         /\ f[j].pushed >= 1
         /\ ~ f[j + 1].root => b[j + 1] = b[j] + f[j].nSub + f[j].pushed
  BY DEF Frames
<1>6. ASSUME NEW j \in 1 .. Len(f)
      PROVE  /\ b[j] \in Nat /\ b[j] >= 1
             /\ f[j].nSub \in Nat /\ f[j].pushed \in Int /\ f[j].above \in Nat
  <2>1. f[j].nSub \in Nat /\ f[j].pushed \in Int /\ f[j].above \in Nat BY FrameType
  <2>2. b[j] \in Nat BY <1>1, BaseType
  <2>3. b[j] >= 1 BY <1>4 DEF FrameAt
  <2>. QED BY <2>1, <2>2, <2>3
<1>. QED BY <1>1, <1>2, <1>3, <1>4, <1>5, <1>6

\* A word that is reserved and free takes a new variable.
LEMMA RegisterKeeps ==
    ASSUME NEW f \in Seq(Nameframe), NEW b, Frames(f, b), NEW x \in Names, NEW d \in Nat,
           f[Len(f)].above < f[Len(f)].nSub
    PROVE  LET R == registerVar(f, x, d, b[Len(f)])
           IN  /\ R \in Seq(Nameframe) /\ Len(R) = Len(f)
               /\ \A i \in 1 .. Len(f) - 1 : R[i] = f[i]
               /\ \A i \in 1 .. Len(f) : R[i].root = f[i].root /\ R[i].nSub = f[i].nSub
               /\ Frames(R, b)
               /\ \A mm, h : Fits(f, b, mm, h) => Fits(R, b, mm, h)
               /\ \A h : Counts(f, b, h) => Counts(R, b, h)
               /\ \A c \in Scope : Matches(f, c) => Matches(R, Declare(c, x))
<1>. DEFINE n == Len(f)  g == f[n]  at == b[n]  R == registerVar(f, x, d, at)  k == Len(g.vars)
            v == R[n].vars[k + 1]
<1>1. /\ b \in Seq(Nat) /\ Len(b) = n /\ f # <<>> /\ f[1].root /\ n \in Nat
      /\ \A j \in 1 .. n : FrameAt(f[j], b[j])
      /\ \A j \in 1 .. n - 1 :
          /\ f[j].pushed >= 1
          /\ ~ f[j + 1].root => b[j + 1] = b[j] + f[j].nSub + f[j].pushed
  BY FramesParts
<1>2. n # 0 /\ 1 \in 1 .. n /\ n \in 1 .. n
      /\ \A j \in 1 .. n - 1 : j + 1 \in 1 .. n /\ j \in 1 .. n
  BY <1>1
<1>3. at \in Nat /\ g.above \in Nat /\ g.nSub \in Nat /\ g.vars \in Seq(VarOffset)
  BY <1>1, <1>2, BaseType, FrameType
<1>4. /\ R \in Seq(Nameframe) /\ Len(R) = n
      /\ \A i \in 1 .. n - 1 : R[i] = f[i]
      /\ \A i \in 1 .. n :
            /\ R[i].root = f[i].root /\ R[i].nSub = f[i].nSub
            /\ R[i].pushed = f[i].pushed /\ R[i].regSaved = f[i].regSaved
      /\ R[n].above = g.above + 1
      /\ Len(R[n].vars) = k + 1
      /\ \A i \in 1 .. k : R[n].vars[i] = g.vars[i]
      /\ v.name = x /\ v.off = -(g.above + 1 + g.regSaved)
      /\ v.slot = at - v.off
  <2>. HIDE DEF at
  <2>1. f # <<>> /\ at \in Nat BY <1>1, <1>3
  <2>2. /\ R \in Seq(Nameframe) /\ Len(R) = n
        /\ \A i \in 1 .. n - 1 : R[i] = f[i]
        /\ \A i \in 1 .. n :
              /\ R[i].root = f[i].root /\ R[i].nSub = f[i].nSub
              /\ R[i].pushed = f[i].pushed /\ R[i].regSaved = f[i].regSaved
    BY <2>1, RegisterParts
  <2>3. /\ R[n].above = g.above + 1
        /\ Len(R[n].vars) = k + 1
        /\ \A i \in 1 .. k : R[n].vars[i] = g.vars[i]
    BY <2>1, RegisterParts
  <2>4. v.name = x /\ v.off = -(g.above + 1 + g.regSaved) /\ v.slot = at - v.off
    BY <2>1, RegisterParts
  <2>. HIDE DEF R, g, v, k, n
  <2>. QED BY <2>2, <2>3, <2>4
<1>. HIDE DEF R
<1>5. R[n].vars \in Seq(VarOffset) /\ k \in Nat /\ DOMAIN R[n].vars = 1 .. k + 1
      /\ DOMAIN g.vars = 1 .. k
  <2>1. R[n].vars \in Seq(VarOffset) BY <1>2, <1>4, FrameType
  <2>2. k \in Nat BY <1>3
  <2>3. DOMAIN g.vars = 1 .. k BY <1>3
  <2>4. DOMAIN R[n].vars = 1 .. k + 1 BY <1>4, <2>1
  <2>. QED BY <2>1, <2>2, <2>3, <2>4
<1>6. PlacedIn(R[n], at, v)
  <2>1. g.regSaved = 0 BY <1>1, <1>2 DEF FrameAt
  <2>2. v.off = -(g.above + 1) BY <1>3, <1>4, <2>1
  <2>3. v.slot = at + (g.above + 1) BY <1>3, <1>4, <2>2
  <2>4. v.slot \in 1 .. at + g.nSub /\ v.slot > at
    <3>. DEFINE l == v.slot  a == g.above  w == g.nSub
    <3>1. at \in Nat /\ a \in Nat /\ w \in Nat /\ a < w /\ l = at + (a + 1) BY <1>3, <2>3
    <3>. HIDE DEF l, a, w, at
    <3>2. l \in 1 .. at + w /\ l > at BY <3>1
    <3>. QED BY <3>2 DEF l, w
  <2>. HIDE DEF v, g, at
  <2>5. R[n].nSub = g.nSub BY <1>2, <1>4 DEF g
  <2>6. v.slot # at BY <1>3, <2>4
  <2>. QED BY <1>4, <2>4, <2>5, <2>6 DEF PlacedIn
<1>7. ASSUME NEW j \in 1 .. n PROVE FrameAt(R[j], b[j])
  <2>1. FrameAt(f[j], b[j]) BY <1>1
  <2>2. CASE j # n
    <3>1. j \in 1 .. n - 1 BY <1>1, <2>2
    <3>. QED BY <1>4, <2>1, <3>1
  <2>3. CASE j = n
    <3>1. ASSUME NEW i \in 1 .. k + 1 PROVE PlacedIn(R[n], at, R[n].vars[i])
      <4>1. CASE i = k + 1 BY <1>6, <4>1
      <4>2. CASE i # k + 1
        <5>1. i \in 1 .. k BY <1>5, <4>2
        <5>2. PlacedIn(g, at, g.vars[i]) BY <1>5, <2>1, <2>3, <5>1 DEF FrameAt
        <5>3. R[n].vars[i] = g.vars[i] /\ R[n].nSub = g.nSub /\ R[n].root = g.root
          BY <1>2, <1>4, <5>1
        <5>. QED BY <5>2, <5>3 DEF PlacedIn
      <4>. QED BY <4>1, <4>2
    <3>2. R[n].regSaved = g.regSaved BY <1>2, <1>4
    <3>3. at >= 1 /\ g.regSaved = 0 BY <2>1, <2>3 DEF FrameAt
    <3>. QED BY <1>5, <2>3, <3>1, <3>2, <3>3 DEF FrameAt
  <2>. QED BY <2>2, <2>3
<1>8. Frames(R, b)
  <2>1. R # <<>> BY <1>1, <1>2, <1>4
  <2>2. R[1].root BY <1>1, <1>2, <1>4
  <2>3. \A j \in 1 .. n - 1 :
          /\ R[j].pushed >= 1
          /\ ~ R[j + 1].root => b[j + 1] = b[j] + R[j].nSub + R[j].pushed
    BY <1>1, <1>2, <1>4
  <2>. QED BY <1>1, <1>4, <1>7, <2>1, <2>2, <2>3 DEF Frames
<1>9. ASSUME NEW mm, NEW h, Fits(f, b, mm, h) PROVE Fits(R, b, mm, h)
  BY <1>4, <1>9, FitsAlike
<1>10. ASSUME NEW h, Counts(f, b, h) PROVE Counts(R, b, h)
  BY <1>2, <1>4, <1>10 DEF Counts
<1>11. ASSUME NEW c \in Scope, Matches(f, c) PROVE Matches(R, Declare(c, x))
  <2>1. /\ Declare(c, x).above = c.above + 1 /\ Declare(c, x).nSub = c.nSub
        /\ Declare(c, x).names = c.names \union {x}
    BY DEF Declare, Scope
  <2>2. ASSUME NEW y \in c.names PROVE Declared(R, y)
    <3>1. Declared(f, y) BY <1>11 DEF Matches
    <3>2. ASSUME NEW i \in 1 .. n, Declares(f[i], y) PROVE Declares(R[i], y)
      <4>1. CASE i # n
        <5>1. i \in 1 .. n - 1 BY <1>1, <4>1
        <5>. QED BY <1>4, <3>2, <5>1
      <4>2. CASE i = n
        <5>1. PICK l \in 1 .. k : g.vars[l].name = y BY <1>5, <3>2, <4>2 DEF Declares
        <5>2. R[n].vars[l].name = y /\ l \in 1 .. k + 1 BY <1>4, <1>5, <5>1
        <5>. QED BY <1>5, <4>2, <5>2 DEF Declares
      <4>. QED BY <4>1, <4>2
    <3>3. /\ Len(f) <= Len(R) /\ \A i \in 1 .. Len(f) : f[i].root = R[i].root
          /\ \A i \in Len(f) + 1 .. Len(R) : ~ R[i].root
      BY <1>1, <1>4
    <3>. QED BY <1>4, <3>1, <3>2, <3>3, StillDeclared
  <2>3. Declared(R, x)
    <3>1. n \in Chain(R) BY <1>2, <1>4, ChainParts
    <3>2. k + 1 \in DOMAIN R[n].vars BY <1>5
    <3>3. Declares(R[n], x) BY <1>4, <3>2 DEF Declares
    <3>. QED BY <3>1, <3>3 DEF Declared, Owners
  <2>4. f[n].above = c.above /\ f[n].nSub = c.nSub BY <1>11 DEF Matches
  <2>. QED BY <1>2, <1>4, <2>1, <2>2, <2>3, <2>4 DEF Matches
<1>. QED BY <1>2, <1>4, <1>8, <1>9, <1>10, <1>11 DEF R

\* Below depth k two states of the frames agree on all that is waited for there.
Alike(f, b, g, c, k) ==
    /\ k <= Len(f) /\ k <= Len(g)
    /\ \A i \in 1 .. k : b[i] = c[i] /\ f[i].root = g[i].root /\ f[i].nSub = g[i].nSub
    /\ \A i \in 1 .. k - 1 : f[i] = g[i]

LEMMA SameSeq ==
    ASSUME NEW S, NEW s \in Seq(S), NEW t \in Seq(S), Len(s) = Len(t),
           \A i \in 1 .. Len(s) : s[i] = t[i]
    PROVE  s = t
OBVIOUS

LEMMA BasesAppend ==
    ASSUME NEW b \in Seq(Nat), NEW at \in Nat
    PROVE  /\ Append(b, at) \in Seq(Nat) /\ Len(Append(b, at)) = Len(b) + 1
           /\ Append(b, at)[Len(b) + 1] = at
           /\ \A i \in 1 .. Len(b) : Append(b, at)[i] = b[i]
           /\ Cut(Append(b, at), Len(b)) = b
<1>. DEFINE c == Append(b, at)
<1>1. /\ c \in Seq(Nat) /\ Len(c) = Len(b) + 1 /\ c[Len(b) + 1] = at
      /\ \A i \in 1 .. Len(b) : c[i] = b[i]
  OBVIOUS
<1>. HIDE DEF c
<1>2. Len(b) \in 0 .. Len(c) BY <1>1
<1>3. /\ Cut(c, Len(b)) \in Seq(Nat) /\ Len(Cut(c, Len(b))) = Len(b)
      /\ \A i \in 1 .. Len(b) : Cut(c, Len(b))[i] = c[i]
  BY <1>1, <1>2, CutParts
<1>4. Cut(c, Len(b)) = b BY <1>1, <1>3, SameSeq
<1>. QED BY <1>1, <1>4 DEF c

LEMMA Ranges ==
    ASSUME NEW n \in Nat, n # 0
    PROVE  /\ \A i \in 1 .. n : i \in 1 .. n + 1
           /\ n \in 1 .. n /\ n + 1 \in 1 .. n + 1 /\ 1 \in 1 .. n
           /\ \A i \in 1 .. n + 1 : i = n + 1 \/ i \in 1 .. n
           /\ \A i \in 1 .. n : i = n \/ i \in 1 .. n - 1
           /\ \A i \in 1 .. n - 1 : i \in 1 .. n /\ i + 1 \in 1 .. n
           /\ n + 1 - 1 = n /\ n <= n
           /\ \A i \in n + 1 .. n + 1 : i = n + 1
OBVIOUS

\* O and c are f and b with a frame of w words opened on them, at depth h.
OpenedOn(f, b, O, c, e, h, w) ==
    LET n == Len(f)
    IN  /\ O \in Seq(Nameframe) /\ Len(O) = n + 1 /\ Frames(O, c)
        /\ Fits(O, c, e, h + 1 + w) /\ Counts(O, c, h + 1 + w)
        /\ c[n + 1] = h + 1 /\ O[n + 1].nSub = w /\ ~ O[n + 1].root
        /\ O[n].pushed = h + 1 - b[n] - f[n].nSub
        /\ Alike(f, b, O, c, n)
        /\ Cut(O, n) = Pushed(f, 1) /\ Cut(c, n) = b
        /\ \A S : (\A x \in S : Declared(f, x)) => Matches(O, Fresh(w, S))

LEMMA OpenKeeps ==
    ASSUME NEW f \in Seq(Nameframe), NEW b, Frames(f, b), NEW mm \in Machine, NEW h \in Nat,
           Fits(f, b, mm, h), Counts(f, b, h), NEW w \in Nat
    PROVE  OpenedOn(f, b, OpenFrame(f, 0, w), Append(b, h + 1), EnterFrame(mm, 0, w), h, w)
<1>. DEFINE O == OpenFrame(f, 0, w)  c == Append(b, h + 1)  n == Len(f)  P == Pushed(f, 1)
            e == EnterFrame(mm, 0, w)
<1>1. /\ b \in Seq(Nat) /\ Len(b) = n /\ f # <<>> /\ f[1].root
      /\ n \in Nat /\ n # 0 /\ 1 \in 1 .. n /\ n \in 1 .. n
      /\ \A j \in 1 .. n - 1 :
            /\ f[j].pushed >= 1
            /\ ~ f[j + 1].root => b[j + 1] = b[j] + f[j].nSub + f[j].pushed
      /\ \A j \in 1 .. n :
            /\ b[j] \in Nat /\ b[j] >= 1
            /\ f[j].nSub \in Nat /\ f[j].pushed \in Int /\ f[j].above \in Nat
  BY FramesParts
<1>2. /\ O \in Seq(Nameframe) /\ Len(O) = n + 1
      /\ \A i \in 1 .. n : O[i] = P[i]
      /\ ~ O[n + 1].root /\ O[n + 1].nSub = w /\ O[n + 1].pushed = 0
      /\ O[n + 1].regSaved = 0 /\ O[n + 1].above = 0 /\ O[n + 1].vars = <<>>
  BY <1>1, OpenParts
<1>3. /\ P \in Seq(Nameframe) /\ Len(P) = n
      /\ \A i \in 1 .. n - 1 : P[i] = f[i]
      /\ \A i \in 1 .. n : P[i].root = f[i].root /\ P[i].nSub = f[i].nSub /\ P[i].vars = f[i].vars
      /\ P[n].pushed = f[n].pushed + 1
  BY <1>1, PushedParts
<1>4. Frames(P, b)
  <2>1. 1 \in Int OBVIOUS
  <2>. QED BY <2>1, PushedKeeps
<1>5. /\ c \in Seq(Nat) /\ Len(c) = n + 1 /\ c[n + 1] = h + 1
      /\ \A i \in 1 .. n : c[i] = b[i]
      /\ Cut(c, n) = b
  <2>1. h + 1 \in Nat OBVIOUS
  <2>. QED BY <1>1, <2>1, BasesAppend
<1>6. /\ e \in Machine /\ e.bp = h + 1 /\ Len(e.stk) = h + 1 + w
      /\ e.stk[h + 1] = SavedBp(b[n])
      /\ \A i \in 1 .. h : e.stk[i] = mm.stk[i]
  <2>1. Len(mm.stk) = h /\ mm.bp = b[n] BY DEF Fits
  <2>2. /\ e \in Machine /\ e.bp = Len(mm.stk) + 1 /\ Len(e.stk) = Len(mm.stk) + 1 + w
        /\ e.stk[Len(mm.stk) + 1] = SavedBp(mm.bp)
        /\ \A i \in 1 .. Len(mm.stk) : e.stk[i] = mm.stk[i]
    BY EnterFrameParts
  <2>. HIDE DEF e
  <2>. QED BY <2>1, <2>2
<1>. HIDE DEF O, c, P, e
<1>0. n = Len(f) OBVIOUS
<1>. HIDE DEF n
<1>7. /\ \A i \in 1 .. n : i \in 1 .. n + 1
      /\ n \in 1 .. n /\ n + 1 \in 1 .. n + 1 /\ 1 \in 1 .. n
      /\ \A i \in 1 .. n + 1 : i = n + 1 \/ i \in 1 .. n
      /\ \A i \in 1 .. n : i = n \/ i \in 1 .. n - 1
      /\ \A i \in 1 .. n - 1 : i \in 1 .. n /\ i + 1 \in 1 .. n
      /\ n + 1 - 1 = n /\ n <= n
      /\ \A i \in n + 1 .. n + 1 : i = n + 1
  BY <1>1, Ranges
<1>8. P[n].pushed >= 1 /\ h + 1 = b[n] + P[n].nSub + P[n].pushed
      /\ P[n].pushed = h + 1 - b[n] - f[n].nSub
  <2>. DEFINE y == b[n]  u == f[n].nSub  p == f[n].pushed
  <2>1. y \in Nat /\ u \in Nat /\ p \in Int /\ h = y + u + p /\ p >= 0
    BY <1>0, <1>1 DEF Counts
  <2>2. P[n].pushed = p + 1 /\ P[n].nSub = u BY <1>1, <1>3
  <2>. HIDE DEF y, u, p
  <2>3. p + 1 >= 1 /\ h + 1 = y + u + (p + 1) /\ p + 1 = h + 1 - y - u BY <2>1
  <2>. QED BY <2>2, <2>3 DEF y, u
<1>9. Frames(O, c)
  <2>1. FrameAt(O[n + 1], c[n + 1])
    <3>1. DOMAIN O[n + 1].vars = {} BY <1>2
    <3>. QED BY <1>2, <1>5, <3>1 DEF FrameAt
  <2>2. ASSUME NEW j \in 1 .. n + 1 PROVE FrameAt(O[j], c[j])
    <3>1. ASSUME j \in 1 .. n PROVE FrameAt(O[j], c[j])
      <4>1. FrameAt(P[j], b[j]) BY <1>3, <1>4, <3>1 DEF Frames
      <4>. QED BY <1>2, <1>5, <3>1, <4>1
    <3>. QED BY <1>7, <2>1, <3>1
  <2>3. ASSUME NEW j \in 1 .. n
        PROVE  /\ O[j].pushed >= 1
               /\ ~ O[j + 1].root => c[j + 1] = c[j] + O[j].nSub + O[j].pushed
    <3>1. CASE j = n BY <1>1, <1>2, <1>5, <1>8, <3>1
    <3>2. CASE j # n
      <4>1. j \in 1 .. n - 1 /\ j + 1 \in 1 .. n BY <1>7, <3>2
      <4>2. P[j].pushed >= 1 /\ (~ P[j + 1].root => b[j + 1] = b[j] + P[j].nSub + P[j].pushed)
        BY <1>3, <1>4, <4>1 DEF Frames
      <4>. QED BY <1>2, <1>5, <4>1, <4>2
    <3>. QED BY <3>1, <3>2
  <2>4. O # <<>>
    <3>1. Len(O) # 0 BY <1>1, <1>2
    <3>. QED BY <1>2, <3>1
  <2>5. O[1].root BY <1>1, <1>2, <1>3
  <2>. QED BY <1>2, <1>5, <1>7, <2>2, <2>3, <2>4, <2>5 DEF Frames
<1>10. Fits(O, c, e, h + 1 + w)
  <2>1. ASSUME NEW j \in Chain(O), ~ O[j].root PROVE e.stk[c[j]] = SavedBp(c[j - 1])
    <3>1. j \in 1 .. n + 1 BY <1>2, ChainParts
    <3>2. CASE j = n + 1 BY <1>1, <1>5, <1>6, <1>7, <3>2
    <3>3. CASE j \in 1 .. n
      <4>1. ~ f[j].root BY <1>2, <1>3, <2>1, <3>3
      <4>2. ASSUME NEW k \in j + 1 .. n PROVE ~ f[k].root
        <5>1. k \in 1 .. n /\ k \in 1 .. n + 1 /\ k > j BY <1>1, <3>3
        <5>2. ~ O[k].root BY <1>2, <5>1, ChainParts
        <5>. QED BY <1>2, <1>3, <5>1, <5>2
      <4>3. j \in Chain(f) BY <1>0, <3>3, <4>2, ChainParts
      <4>4. mm.stk[b[j]] = SavedBp(b[j - 1]) BY <4>1, <4>3 DEF Fits, Linked
      <4>5. b[j] \in 1 .. b[n] BY <1>0, <4>3, BasesIn
      <4>6. b[n] <= h BY <1>0 DEF Fits
      <4>7. b[j] \in 1 .. h BY <1>1, <4>5, <4>6
      <4>8. j # 1 BY <1>1, <4>1
      <4>9. j - 1 \in 1 .. n BY <1>1, <3>3, <4>8
      <4>. QED BY <1>5, <1>6, <3>3, <4>4, <4>7, <4>9
    <3>. QED BY <1>7, <3>1, <3>2, <3>3
  <2>2. h + 1 <= h + 1 + w OBVIOUS
  <2>. QED BY <1>2, <1>5, <1>6, <2>1, <2>2 DEF Fits, Linked
<1>11. Counts(O, c, h + 1 + w) BY <1>2, <1>5 DEF Counts
<1>12. Alike(f, b, O, c, n)
  <2>1. n <= Len(f) /\ n <= Len(O) BY <1>0, <1>1, <1>2, <1>7
  <2>. QED BY <1>2, <1>3, <1>5, <1>7, <2>1 DEF Alike
<1>13. Cut(O, n) = P
  <2>1. n \in 0 .. Len(O) BY <1>1, <1>2
  <2>2. /\ Cut(O, n) \in Seq(Nameframe) /\ Len(Cut(O, n)) = n
        /\ \A i \in 1 .. n : Cut(O, n)[i] = O[i]
    BY <1>2, <2>1, CutParts
  <2>. QED BY <1>2, <1>3, <2>2, SameSeq
<1>14. ASSUME NEW S, \A x \in S : Declared(f, x) PROVE Matches(O, Fresh(w, S))
  <2>1. ASSUME NEW x \in S PROVE Declared(O, x)
    <3>1. Declared(f, x) BY <1>14
    <3>2. \A i \in 1 .. Len(f) : Declares(f[i], x) => Declares(O[i], x)
      BY <1>0, <1>2, <1>3 DEF Declares
    <3>3. /\ Len(f) <= Len(O) /\ \A i \in 1 .. Len(f) : f[i].root = O[i].root
          /\ \A i \in Len(f) + 1 .. Len(O) : ~ O[i].root
      <4>1. \A i \in Len(f) + 1 .. Len(O) : i = n + 1 BY <1>0, <1>2, <1>7
      <4>2. n <= n + 1 BY <1>1
      <4>. QED BY <1>0, <1>2, <1>3, <4>1, <4>2
    <3>. QED BY <1>2, <3>1, <3>2, <3>3, StillDeclared
  <2>2. /\ Fresh(w, S).above = 0 /\ Fresh(w, S).nSub = w /\ Fresh(w, S).names = S
    BY DEF Fresh
  <2>. QED BY <1>2, <2>1, <2>2 DEF Matches
<1>15. O[n].pushed = h + 1 - b[n] - f[n].nSub BY <1>1, <1>2, <1>8
<1>16. OpenedOn(f, b, O, c, e, h, w)
  BY <1>2, <1>5, <1>9, <1>10, <1>11, <1>12, <1>13, <1>14, <1>15 DEF OpenedOn, P, n
<1>. QED BY <1>16 DEF O, c, e

\* A function starts in a frame of its own, with its parameters in it.
LEMMA FunctionKeeps ==
    ASSUME Inv, At({"func"}, "body"), NEW b, Frames(nf, b), NEW h \in Nat, Counts(nf, b, h)
    PROVE  LET F == FunctionFrame
               c == Append(b, Passed + 2)
               n == Len(nf)
               d == Passed + 2 + F[n + 1].nSub
           IN  /\ F \in Seq(Nameframe) /\ Len(F) = n + 1 /\ Frames(F, c)
               /\ Fits(F, c, FunctionEntry(F), d) /\ Counts(F, c, d)
               /\ d \in Nat /\ c[n + 1] = Passed + 2 /\ F[n + 1].root
               /\ F[n].pushed = h + 1 - b[n] - nf[n].nSub
               /\ Alike(nf, b, F, c, n)
               /\ Cut(F, n) = Pushed(nf, 1) /\ Cut(c, n) = b
               /\ Matches(F, Parameters(tree, act.id))
<1>. DEFINE F == FunctionFrame  c == Append(b, Passed + 2)  n == Len(nf)  P == Pushed(nf, 1)
            e == FunctionEntry(F)
            w == frameWords(tree, act.id)
            L == Len(params)
            bp == Passed + 2
            off(i) == IF i <= 6 THEN -i ELSE i - 5
            vs == [i \in 1 .. L |-> [name |-> params[i], off |-> off(i),
                                     decl |-> act.id + i, slot |-> bp - off(i)]]
            g == [createNF(TRUE, w, 0) EXCEPT !.above = MinOf(6, L), !.vars = vs]
<1>1. /\ b \in Seq(Nat) /\ Len(b) = n /\ nf # <<>> /\ nf[1].root
      /\ n \in Nat /\ n # 0 /\ 1 \in 1 .. n /\ n \in 1 .. n
      /\ \A j \in 1 .. n - 1 :
            /\ nf[j].pushed >= 1
            /\ ~ nf[j + 1].root => b[j + 1] = b[j] + nf[j].nSub + nf[j].pushed
      /\ \A j \in 1 .. n :
            /\ b[j] \in Nat /\ b[j] >= 1
            /\ nf[j].nSub \in Nat /\ nf[j].pushed \in Int /\ nf[j].above \in Nat
  <2>1. nf \in Seq(Nameframe) BY AtFacts
  <2>. QED BY <2>1, FramesParts
<1>2. /\ nf \in Seq(Nameframe) /\ node \in Node /\ act.id \in 1 .. Len(tree) /\ tree \in Programs
      /\ node = tree[act.id] /\ node.op = "func" /\ status = "run"
  <2>1. /\ nf \in Seq(Nameframe) /\ node \in Node /\ act.id \in 1 .. Len(tree)
        /\ tree \in Programs /\ node.op \in {"func"} /\ status = "run"
    BY AtFacts
  <2>2. node = tree[act.id] BY DEF node
  <2>. QED BY <2>1, <2>2
<1>3. /\ L \in Nat /\ w \in Nat /\ Passed \in Nat
      /\ Passed = IF L > 6 THEN L - 6 ELSE 0
      /\ MinOf(6, L) \in Nat /\ MinOf(6, L) <= w
      /\ \A i \in 1 .. L : i <= 6 => i <= MinOf(6, L)
  <2>1. L \in Nat BY <1>2, NodeFields DEF params
  <2>2. w \in Nat BY <1>2, FrameWordsType
  <2>3. w = getVarCnt(tree, Child(tree, act.id, 1)) + MinOf(6, L)
    BY <1>2 DEF frameWords, params
  <2>4. getVarCnt(tree, Child(tree, act.id, 1)) \in Nat
    <3>1. KidOf(act.id, 1) \in 0 .. Len(tree) BY <1>2, TreeFacts
    <3>. QED BY <1>2, <3>1, VarCntType DEF KidOf
  <2>. DEFINE v == getVarCnt(tree, Child(tree, act.id, 1))
  <2>5. MinOf(6, L) \in Nat /\ \A i \in 1 .. L : i <= 6 => i <= MinOf(6, L)
    <3>. HIDE DEF L
    <3>. QED BY <2>1 DEF MinOf
  <2>6. MinOf(6, L) <= w
    <3>. HIDE DEF L, w, v
    <3>. QED BY <2>3, <2>4, <2>5 DEF v
  <2>7. Passed \in Nat /\ Passed = IF L > 6 THEN L - 6 ELSE 0 BY <2>1 DEF Passed
  <2>. QED BY <2>1, <2>2, <2>5, <2>6, <2>7
<1>4. F \in Seq(Nameframe) BY <1>2, FunctionFrameType
<1>5. /\ P \in Seq(Nameframe) /\ Len(P) = n
      /\ \A i \in 1 .. n - 1 : P[i] = nf[i]
      /\ \A i \in 1 .. n : P[i].root = nf[i].root /\ P[i].nSub = nf[i].nSub
      /\ P[n].pushed = nf[n].pushed + 1
  BY <1>1, <1>2, PushedParts
<1>6. Frames(P, b)
  <2>1. 1 \in Int OBVIOUS
  <2>. QED BY <1>2, <2>1, PushedKeeps
<1>7. /\ g.root /\ g.nSub = w /\ g.pushed = 0 /\ g.regSaved = 0 /\ g.above = MinOf(6, L)
      /\ g.vars = vs
  <2>. HIDE DEF vs, L, w
  <2>. QED BY DEF createNF
<1>8. F = Append(P, g) BY DEF FunctionFrame, Passed
<1>. HIDE DEF F, P, e, g, w, L, off
<1>9. /\ Len(F) = n + 1 /\ F[n + 1] = g /\ \A i \in 1 .. n : F[i] = P[i]
  <2>. DEFINE T == Nameframe \union {g}
  <2>1. P \in Seq(T) /\ g \in T BY <1>5
  <2>. HIDE DEF T
  <2>2. Len(F) = Len(P) + 1 /\ F[Len(P) + 1] = g /\ \A i \in 1 .. Len(P) : F[i] = P[i]
    BY <1>8, <2>1, AppendLast
  <2>. QED BY <1>5, <2>2
<1>10. /\ c \in Seq(Nat) /\ Len(c) = n + 1 /\ c[n + 1] = bp
       /\ \A i \in 1 .. n : c[i] = b[i]
       /\ Cut(c, n) = b /\ bp \in Nat /\ bp = Passed + 2
  <2>1. Passed + 2 \in Nat BY <1>3
  <2>. QED BY <1>1, <2>1, BasesAppend
<1>11. e \in Machine /\ e.bp = bp /\ Len(e.stk) = bp + w
  <2>1. /\ FunctionEntry(F) \in Machine /\ FunctionEntry(F).bp = Passed + 2
        /\ Len(FunctionEntry(F).stk) = Passed + 2 + F[Len(F)].nSub
    <3>1. F # <<>>
      <4>1. Len(F) # 0 BY <1>1, <1>9
      <4>. QED BY <1>4, <4>1
    <3>. QED BY <1>4, <3>1, FunctionEntryParts
  <2>. QED BY <1>7, <1>9, <2>1 DEF e
<1>. HIDE DEF c, bp
<1>0. n = Len(nf) OBVIOUS
<1>. HIDE DEF n
<1>12. /\ \A i \in 1 .. n : i \in 1 .. n + 1
       /\ n \in 1 .. n /\ n + 1 \in 1 .. n + 1 /\ 1 \in 1 .. n
       /\ \A i \in 1 .. n + 1 : i = n + 1 \/ i \in 1 .. n
       /\ \A i \in 1 .. n : i = n \/ i \in 1 .. n - 1
       /\ \A i \in 1 .. n - 1 : i \in 1 .. n /\ i + 1 \in 1 .. n
       /\ n + 1 - 1 = n /\ n <= n
  BY <1>1, Ranges
<1>13. P[n].pushed >= 1 /\ P[n].pushed = h + 1 - b[n] - nf[n].nSub
  <2>. DEFINE y == b[n]  u == nf[n].nSub  p == nf[n].pushed
  <2>1. y \in Nat /\ u \in Nat /\ p \in Int /\ h = y + u + p /\ p >= 0
    BY <1>0, <1>1 DEF Counts
  <2>2. P[n].pushed = p + 1 BY <1>1, <1>5
  <2>. HIDE DEF y, u, p
  <2>3. p + 1 >= 1 /\ p + 1 = h + 1 - y - u BY <2>1
  <2>. QED BY <2>2, <2>3 DEF y, u
<1>14. FrameAt(g, bp)
  <2>1. ASSUME NEW i \in DOMAIN vs PROVE PlacedIn(g, bp, vs[i])
    <3>1. i \in 1 .. L /\ i \in Nat /\ i >= 1 BY <1>3, <2>1
    <3>2. vs[i].off = off(i) /\ vs[i].slot = bp - off(i) BY <3>1
    <3>3. bp - off(i) \in 1 .. bp + w /\ bp - off(i) # bp
      <4>1. CASE i <= 6
        <5>1. off(i) = -i BY <4>1 DEF off
        <5>2. i <= MinOf(6, L) BY <1>3, <3>1, <4>1
        <5>3. i <= w BY <1>3, <3>1, <5>2
        <5>. QED BY <1>3, <1>10, <3>1, <5>1, <5>3
      <4>2. CASE ~ (i <= 6)
        <5>1. off(i) = i - 5 BY <4>2 DEF off
        <5>2. L > 6 /\ i <= L /\ i > 6 BY <1>3, <3>1, <4>2
        <5>3. bp = L - 4 BY <1>3, <1>10, <5>2
        <5>4. bp - off(i) = L + 1 - i BY <1>3, <3>1, <5>1, <5>3
        <5>. QED BY <1>3, <1>10, <3>1, <5>2, <5>3, <5>4
      <4>. QED BY <4>1, <4>2
    <3>. QED BY <1>7, <3>2, <3>3 DEF PlacedIn
  <2>2. bp >= 1 BY <1>3, <1>10
  <2>. QED BY <1>7, <2>1, <2>2 DEF FrameAt
<1>15. Frames(F, c)
  <2>1. ASSUME NEW j \in 1 .. n + 1 PROVE FrameAt(F[j], c[j])
    <3>1. ASSUME j \in 1 .. n PROVE FrameAt(F[j], c[j])
      <4>1. FrameAt(P[j], b[j]) BY <1>5, <1>6, <3>1 DEF Frames
      <4>. QED BY <1>9, <1>10, <3>1, <4>1
    <3>. QED BY <1>9, <1>10, <1>12, <1>14, <3>1
  <2>2. ASSUME NEW j \in 1 .. n
        PROVE  /\ F[j].pushed >= 1
               /\ ~ F[j + 1].root => c[j + 1] = c[j] + F[j].nSub + F[j].pushed
    <3>1. CASE j = n BY <1>7, <1>9, <1>12, <1>13, <3>1
    <3>2. CASE j # n
      <4>1. j \in 1 .. n - 1 /\ j + 1 \in 1 .. n BY <1>12, <3>2
      <4>2. P[j].pushed >= 1 /\ (~ P[j + 1].root => b[j + 1] = b[j] + P[j].nSub + P[j].pushed)
        BY <1>5, <1>6, <4>1 DEF Frames
      <4>. QED BY <1>9, <1>10, <4>1, <4>2
    <3>. QED BY <3>1, <3>2
  <2>3. F # <<>>
    <3>1. Len(F) # 0 BY <1>1, <1>9
    <3>. QED BY <1>4, <3>1
  <2>4. F[1].root BY <1>1, <1>5, <1>9
  <2>. QED BY <1>9, <1>10, <1>12, <2>1, <2>2, <2>3, <2>4 DEF Frames
<1>16. Fits(F, c, e, bp + w)
  <2>1. ASSUME NEW j \in Chain(F), ~ F[j].root PROVE FALSE
    <3>1. j \in 1 .. n + 1 BY <1>4, <1>9, ChainParts
    <3>2. j # n + 1 BY <1>7, <1>9, <2>1
    <3>3. j \in 1 .. n BY <1>12, <3>1, <3>2
    <3>4. n + 1 > j /\ n + 1 \in 1 .. Len(F) BY <1>1, <1>9, <1>12, <3>3
    <3>5. ~ F[n + 1].root BY <1>4, <3>4, ChainParts
    <3>. QED BY <1>7, <1>9, <3>5
  <2>2. Linked(F, c, e) BY <2>1 DEF Linked
  <2>3. bp <= bp + w BY <1>3, <1>10
  <2>. QED BY <1>9, <1>10, <1>11, <2>2, <2>3 DEF Fits
<1>17. Counts(F, c, bp + w) BY <1>3, <1>7, <1>9, <1>10 DEF Counts
<1>18. Alike(nf, b, F, c, n)
  <2>1. n <= Len(nf) /\ n <= Len(F) BY <1>0, <1>1, <1>9
  <2>2. \A i \in 1 .. n : F[i] = P[i] /\ c[i] = b[i] BY <1>9, <1>10
  <2>3. ASSUME NEW i \in 1 .. n
        PROVE  b[i] = c[i] /\ nf[i].root = F[i].root /\ nf[i].nSub = F[i].nSub
    BY <1>5, <2>2
  <2>4. ASSUME NEW i \in 1 .. n - 1 PROVE nf[i] = F[i]
    <3>1. i \in 1 .. n BY <1>12
    <3>. QED BY <1>5, <2>2, <3>1
  <2>. QED BY <2>1, <2>3, <2>4 DEF Alike
<1>19. Cut(F, n) = P
  <2>1. n \in 0 .. Len(F) BY <1>1, <1>9
  <2>2. /\ Cut(F, n) \in Seq(Nameframe) /\ Len(Cut(F, n)) = n
        /\ \A i \in 1 .. n : Cut(F, n)[i] = F[i]
    BY <1>4, <2>1, CutParts
  <2>. QED BY <1>5, <1>9, <2>2, SameSeq
<1>20. Matches(F, Parameters(tree, act.id))
  <2>1. /\ Parameters(tree, act.id).above = MinOf(6, L) /\ Parameters(tree, act.id).nSub = w
        /\ Parameters(tree, act.id).names = {params[k] : k \in DOMAIN params}
    BY <1>2 DEF Parameters, params, L, w
  <2>2. ASSUME NEW k \in DOMAIN params PROVE Declared(F, params[k])
    <3>1. k \in 1 .. L
      <4>1. params \in Seq(Names) BY <1>2, NodeFields DEF params
      <4>. QED BY <2>2, <4>1 DEF L
    <3>2. k \in DOMAIN vs /\ vs[k].name = params[k] BY <3>1
    <3>. HIDE DEF vs
    <3>3. Declares(g, params[k]) BY <1>7, <3>2 DEF Declares
    <3>4. n + 1 \in Chain(F)
      <4>1. Len(F) = n + 1 /\ F # <<>> BY <1>9, <1>15 DEF Frames
      <4>. QED BY <1>4, <4>1, ChainParts
    <3>. QED BY <1>9, <3>3, <3>4 DEF Declared, Owners
  <2>. HIDE DEF vs
  <2>. QED BY <1>7, <1>9, <2>1, <2>2 DEF Matches
<1>21. F[n].pushed = h + 1 - b[n] - nf[n].nSub BY <1>9, <1>12, <1>13
<1>22. /\ Passed + 2 + F[n + 1].nSub = bp + w /\ bp + w \in Nat /\ c[n + 1] = Passed + 2
       /\ F[n + 1].root
  BY <1>3, <1>7, <1>9, <1>10
<1>. HIDE DEF g, vs
<1>. QED BY <1>4, <1>9, <1>10, <1>15, <1>16, <1>17, <1>18, <1>19, <1>20, <1>21, <1>22 DEF F, c, P, e, n, bp

\* The innermost frame is closed.
LEMMA CutKeeps ==
    ASSUME NEW f \in Seq(Nameframe), NEW b, Frames(f, b), NEW r \in Nat, r # 0,
           Len(f) = r + 1, NEW d \in Nat, d >= b[r] + f[r].nSub,
           f[r].pushed = d + 1 - b[r] - f[r].nSub
    PROVE  LET p == Cut(f, r)
               g == CloseFrame(f)
               c == Cut(b, r)
           IN  /\ p \in Seq(Nameframe) /\ Len(p) = r /\ Frames(p, c)
               /\ g \in Seq(Nameframe) /\ Len(g) = r /\ Frames(g, c)
               /\ Counts(g, c, d) /\ Alike(f, b, g, c, r)
               /\ \A mn, h : Fits(p, c, mn, h) => Fits(g, c, mn, h)
               /\ \A S : Matches(p, S) => Matches(g, S)
               /\ \A mm : LeaveFrame(f, mm) = Unwind(mm)
               /\ ClosedUsed(f) = 0
<1>. DEFINE p == Cut(f, r)  g == CloseFrame(f)  c == Cut(b, r)
<1>1. /\ b \in Seq(Nat) /\ Len(b) = r + 1 /\ f[1].root
      /\ \A j \in 1 .. r + 1 : FrameAt(f[j], b[j])
      /\ \A j \in 1 .. r :
            /\ f[j].pushed >= 1
            /\ ~ f[j + 1].root => b[j + 1] = b[j] + f[j].nSub + f[j].pushed
      /\ \A j \in 1 .. r + 1 :
            /\ b[j] \in Nat /\ b[j] >= 1
            /\ f[j].nSub \in Nat /\ f[j].pushed \in Int /\ f[j].above \in Nat
  <2>. DEFINE n == Len(f)
  <2>1. /\ b \in Seq(Nat) /\ Len(b) = n /\ f[1].root
        /\ \A j \in 1 .. n : FrameAt(f[j], b[j])
        /\ \A j \in 1 .. n - 1 :
              /\ f[j].pushed >= 1
              /\ ~ f[j + 1].root => b[j + 1] = b[j] + f[j].nSub + f[j].pushed
        /\ \A j \in 1 .. n :
              /\ b[j] \in Nat /\ b[j] >= 1
              /\ f[j].nSub \in Nat /\ f[j].pushed \in Int /\ f[j].above \in Nat
    BY FramesParts
  <2>2. n = r + 1 /\ n - 1 = r OBVIOUS
  <2>. HIDE DEF n
  <2>. QED BY <2>1, <2>2
<1>2. /\ \A i \in 1 .. r : i \in 1 .. r + 1
      /\ r \in 1 .. r /\ r + 1 \in 1 .. r + 1 /\ 1 \in 1 .. r
      /\ \A i \in 1 .. r + 1 : i = r + 1 \/ i \in 1 .. r
      /\ \A i \in 1 .. r : i = r \/ i \in 1 .. r - 1
      /\ \A i \in 1 .. r - 1 : i \in 1 .. r /\ i + 1 \in 1 .. r
      /\ r + 1 - 1 = r /\ r <= r
  BY Ranges
<1>3. /\ p \in Seq(Nameframe) /\ Len(p) = r /\ \A i \in 1 .. r : p[i] = f[i]
      /\ c \in Seq(Nat) /\ Len(c) = r /\ \A i \in 1 .. r : c[i] = b[i]
  <2>1. r \in 0 .. Len(f) /\ r \in 0 .. Len(b) BY <1>1
  <2>. QED BY <1>1, <2>1, CutParts
<1>4. g = Pushed(p, -1) BY <1>2 DEF CloseFrame, Cut
<1>5. f[r + 1].regSaved = 0 BY <1>1, <1>2 DEF FrameAt
<1>6. ClosedUsed(f) = 0 /\ \A mm : LeaveFrame(f, mm) = Unwind(mm)
  BY <1>5 DEF ClosedUsed, LeaveFrame
<1>. HIDE DEF p, c, g
<1>7. Frames(p, c)
  <2>1. p # <<>> BY <1>3
  <2>2. p[1].root BY <1>1, <1>2, <1>3
  <2>3. \A j \in 1 .. r : FrameAt(p[j], c[j]) BY <1>1, <1>2, <1>3
  <2>4. \A j \in 1 .. r - 1 :
          /\ p[j].pushed >= 1
          /\ ~ p[j + 1].root => c[j + 1] = c[j] + p[j].nSub + p[j].pushed
    BY <1>1, <1>2, <1>3
  <2>. QED BY <1>3, <2>1, <2>2, <2>3, <2>4 DEF Frames
<1>8. -1 \in Int OBVIOUS
<1>9. /\ g \in Seq(Nameframe) /\ Len(g) = r /\ Frames(g, c)
      /\ \A mn, h : Fits(p, c, mn, h) => Fits(g, c, mn, h)
      /\ \A S : Matches(p, S) => Matches(g, S)
  BY <1>3, <1>4, <1>7, <1>8, PushedKeeps
<1>10. /\ \A i \in 1 .. r - 1 : g[i] = p[i]
       /\ \A i \in 1 .. r : g[i].root = p[i].root /\ g[i].nSub = p[i].nSub
       /\ g[r].pushed = p[r].pushed - 1
  <2>. DEFINE k == -1  w == p[r].pushed
  <2>1. p # <<>> /\ k \in Int BY <1>3
  <2>2. w + k = w - 1
    <3>1. w \in Int BY <1>1, <1>2, <1>3
    <3>. HIDE DEF w
    <3>. QED BY <3>1
  <2>. HIDE DEF k
  <2>3. /\ \A i \in 1 .. Len(p) - 1 : Pushed(p, k)[i] = p[i]
        /\ \A i \in 1 .. Len(p) :
              Pushed(p, k)[i].root = p[i].root /\ Pushed(p, k)[i].nSub = p[i].nSub
        /\ Pushed(p, k)[Len(p)].pushed = p[Len(p)].pushed + k
    BY <1>3, <2>1, PushedParts
  <2>4. g = Pushed(p, k) BY <1>4 DEF k
  <2>. QED BY <1>3, <2>2, <2>3, <2>4
<1>11. Alike(f, b, g, c, r)
  <2>1. r <= Len(f) /\ r <= Len(g) BY <1>9
  <2>. QED BY <1>2, <1>3, <1>10, <2>1 DEF Alike
<1>12. Counts(g, c, d)
  <2>. DEFINE y == b[r]  w == f[r].nSub  q == f[r].pushed
  <2>1. y \in Nat /\ w \in Nat /\ q \in Int /\ q = d + 1 - y - w /\ d >= y + w
    BY <1>1, <1>2
  <2>2. c[r] = y /\ g[r].nSub = w /\ g[r].pushed = q - 1 BY <1>2, <1>3, <1>10
  <2>. HIDE DEF y, w, q
  <2>3. d = y + w + (q - 1) /\ q - 1 >= 0 BY <2>1
  <2>. QED BY <1>9, <2>2, <2>3 DEF Counts
<1>. QED BY <1>3, <1>6, <1>7, <1>9, <1>11, <1>12 DEF p, g, c

\* leave: RSP and RBP are where they were before the frame was opened.
LEMMA CloseFits ==
    ASSUME NEW f \in Seq(Nameframe), NEW b, Frames(f, b), NEW r \in Nat, r # 0,
           Len(f) = r + 1, NEW d \in Nat, d >= b[r] + f[r].nSub,
           f[r].pushed = d + 1 - b[r] - f[r].nSub, ~ f[r + 1].root,
           NEW mm \in Machine, NEW h, Fits(f, b, mm, h)
    PROVE  /\ Unwind(mm) \in Machine
           /\ Fits(CloseFrame(f), Cut(b, r), Unwind(mm), d)
<1>. DEFINE p == Cut(f, r)  c == Cut(b, r)  e == Unwind(mm)
<1>1. /\ b \in Seq(Nat) /\ Len(b) = r + 1 /\ f[1].root
      /\ \A j \in 1 .. r :
            /\ f[j].pushed >= 1
            /\ ~ f[j + 1].root => b[j + 1] = b[j] + f[j].nSub + f[j].pushed
      /\ \A j \in 1 .. r + 1 :
            /\ b[j] \in Nat /\ b[j] >= 1
            /\ f[j].nSub \in Nat /\ f[j].pushed \in Int /\ f[j].above \in Nat
  <2>. DEFINE n == Len(f)
  <2>1. /\ b \in Seq(Nat) /\ Len(b) = n /\ f[1].root
        /\ \A j \in 1 .. n - 1 :
              /\ f[j].pushed >= 1
              /\ ~ f[j + 1].root => b[j + 1] = b[j] + f[j].nSub + f[j].pushed
        /\ \A j \in 1 .. n :
              /\ b[j] \in Nat /\ b[j] >= 1
              /\ f[j].nSub \in Nat /\ f[j].pushed \in Int /\ f[j].above \in Nat
    BY FramesParts
  <2>2. n = r + 1 /\ n - 1 = r OBVIOUS
  <2>. HIDE DEF n
  <2>. QED BY <2>1, <2>2
<1>2. /\ \A i \in 1 .. r : i \in 1 .. r + 1
      /\ r \in 1 .. r /\ r + 1 \in 1 .. r + 1 /\ 1 \in 1 .. r
      /\ \A i \in 1 .. r + 1 : i = r + 1 \/ i \in 1 .. r
      /\ r + 1 - 1 = r /\ r <= r
  BY Ranges
<1>3. /\ p \in Seq(Nameframe) /\ Len(p) = r /\ \A i \in 1 .. r : p[i] = f[i]
      /\ c \in Seq(Nat) /\ Len(c) = r /\ \A i \in 1 .. r : c[i] = b[i]
  <2>1. r \in 0 .. Len(f) /\ r \in 0 .. Len(b) BY <1>1
  <2>. QED BY <1>1, <2>1, CutParts
<1>4. Frames(p, c) /\ (Fits(p, c, e, d) => Fits(CloseFrame(f), c, e, d)) BY CutKeeps
<1>. HIDE DEF p, c
<1>5. b[r + 1] = d + 1
  <2>. DEFINE y == b[r]  w == f[r].nSub  q == f[r].pushed
  <2>1. y \in Nat /\ w \in Nat /\ q \in Int /\ q = d + 1 - y - w /\ b[r + 1] = y + w + q
    BY <1>1, <1>2
  <2>. HIDE DEF y, w, q
  <2>. QED BY <2>1
<1>6. mm.bp = d + 1 /\ d + 1 <= Len(mm.stk) /\ mm.stk[mm.bp] = SavedBp(b[r])
  <2>1. f # <<>> BY <1>1 DEF Frames
  <2>2. r + 1 \in Chain(f) BY <2>1, ChainParts
  <2>. QED BY <1>2, <1>5, <2>2 DEF Fits, Linked
<1>7. /\ e \in Machine /\ e.bp = b[r] /\ Len(e.stk) = d
      /\ \A i \in 1 .. d : e.stk[i] = mm.stk[i]
  <2>1. b[r] \in Nat /\ mm.bp >= 1 /\ mm.bp <= Len(mm.stk) /\ mm.bp - 1 = d
    BY <1>1, <1>2, <1>6
  <2>. QED BY <1>6, <2>1, UnwindParts
<1>. HIDE DEF e
<1>8. b[r] \in Nat /\ b[r] <= d
  <2>1. b[r] \in Nat /\ f[r].nSub \in Nat BY <1>1, <1>2
  <2>. QED BY <2>1
<1>9. ASSUME NEW j \in Chain(p), ~ p[j].root PROVE e.stk[c[j]] = SavedBp(c[j - 1])
  <2>1. j \in 1 .. r BY <1>3, ChainParts
  <2>2. ~ f[j].root BY <1>3, <1>9, <2>1
  <2>3. ASSUME NEW k \in j + 1 .. r + 1 PROVE ~ f[k].root
    <3>1. k = r + 1 \/ (k \in 1 .. r /\ k > j) BY <2>1
    <3>2. ASSUME k \in 1 .. r, k > j PROVE ~ f[k].root
      <4>1. ~ p[k].root BY <1>3, <3>2, ChainParts
      <4>. QED BY <1>3, <3>2, <4>1
    <3>. QED BY <3>1, <3>2
  <2>4. j \in Chain(f) BY <1>2, <2>1, <2>3, ChainParts
  <2>5. mm.stk[b[j]] = SavedBp(b[j - 1]) BY <2>2, <2>4 DEF Fits, Linked
  <2>6. b[j] \in 1 .. b[r]
    <3>1. c[j] \in 1 .. c[r] BY <1>3, <1>4, BasesIn
    <3>. QED BY <1>2, <1>3, <2>1, <3>1
  <2>7. b[j] \in 1 .. d BY <1>8, <2>6
  <2>8. j # 1 BY <1>1, <2>2
  <2>9. j - 1 \in 1 .. r BY <2>1, <2>8
  <2>. QED BY <1>3, <1>7, <2>1, <2>5, <2>7, <2>9
<1>10. Fits(p, c, e, d) BY <1>2, <1>3, <1>7, <1>8, <1>9 DEF Fits, Linked
<1>. QED BY <1>4, <1>7, <1>10 DEF e, c

-----------------------------------------------------------------------------
(* What the activations know of the stack.                                 *)

\* Words an activation has pushed: a call its registers and arguments.
Own(t, a) ==
    IF a.id # 0 /\ t[a.id].op = "call" /\ a.pc \in {"args", "push"}
      THEN a.r1 + Len(t[a.id].kids) - a.argsLeft - (IF a.pc = "push" THEN 1 ELSE 0)
      ELSE 0

\* The depth of the stack where activation a goes on.
Depth(t, f, b, a) ==
    IF opened(t, a) = 1 THEN b[a.frames0 + 1] + f[a.frames0 + 1].nSub
                        ELSE a.depth0 + Own(t, a)

\* Places with a machine saved before the frame was opened.
SavedBefore == {<<"tern", "then">>, <<"tern", "else">>, <<"func", "right">>, <<"logic", "right">>}

\* The saved machine is one of the frames it will be taken up in.
SavedFits(t, f, b, a) ==
    /\ a.id # 0 /\ <<t[a.id].op, a.pc>> \in SavedBefore =>
          Fits(Cut(f, a.frames0), Cut(b, a.frames0), a.save, a.depth0)
    /\ a.id # 0 /\ t[a.id].op = "while" /\ a.pc = "right" =>
          Fits(Cut(f, a.frames0 + 1), Cut(b, a.frames0 + 1), a.save, Depth(t, f, b, a))

\* The words that a caller of function i has pushed.
PassedTo(t, i) == IF Len(t[i].names) > 6 THEN Len(t[i].names) - 6 ELSE 0

\* A frame goes back to where it was opened, and to the scope behind the node.
\* A function has its own stack: the words it was passed, and RBP two beyond.
OpenedAt(t, q, f, b, a) ==
    opened(t, a) = 1 =>
        /\ f[a.frames0].pushed = a.depth0 + 1 - b[a.frames0] - f[a.frames0].nSub
        /\ Matches(Cut(f, a.frames0), q.after[a.id])
        /\ f[a.frames0 + 1].root <=> t[a.id].op = "func"
        /\ t[a.id].op = "func" => b[a.frames0 + 1] = PassedTo(t, a.id) + 2

ActStack(t, q, f, b, a) ==
    /\ a.pushed = 0
    /\ a.depth0 \in Nat /\ a.depth0 >= b[a.frames0] + f[a.frames0].nSub
    /\ OpenedAt(t, q, f, b, a)
    /\ SavedFits(t, f, b, a)

\* The scope where activation a goes on.
ScopeAt(t, q, a) ==
    CASE a.pc \in {"enter", "body"} -> q.before[a.id]
      [] a.pc = "done" -> q.after[a.id]
      [] a.pc = "args" -> IF a.argsLeft = 0 THEN q.after[a.id]
                                            ELSE StartScope(t, q, a.id, a.argsLeft)
      [] OTHER -> EndScope(t, q, a.id, Operand(t, a))

\* A NULL tree is in the scope of the operand it stands for.
ScopeNow(t, q, A) ==
    LET a == A[Len(A)]
        c == A[Len(A) - 1]
    IN  IF a.id # 0 THEN ScopeAt(t, q, a) ELSE StartScope(t, q, c.id, Operand(t, c))

Below(t, q, A, f, b) ==
    /\ A[1].id # 0
    /\ \A j \in 1 .. Len(A) : ActStack(t, q, f, b, A[j])
    /\ \A j \in 1 .. Len(A) - 1 : A[j + 1].depth0 = Depth(t, f, b, A[j])

\* The machine mm is where the innermost activation goes on.
On(t, f, b, a, mm) == Fits(f, b, mm, Depth(t, f, b, a)) /\ Counts(f, b, Depth(t, f, b, a))

Stands(q, b) ==
    /\ Frames(nf, b) /\ Below(tree, q, acts, nf, b)
    /\ On(tree, nf, b, act, m) /\ Matches(nf, ScopeNow(tree, q, acts))

StackBook(q) == status = "run" => \E b \in Seq(Nat) : Stands(q, b)

LEMMA CutAlike ==
    ASSUME NEW f \in Seq(Nameframe), NEW b, Frames(f, b), NEW g \in Seq(Nameframe),
           NEW c, Frames(g, c), NEW k \in Nat, Alike(f, b, g, c, k), NEW i \in 1 .. k
    PROVE  /\ \A mm, h : Fits(Cut(f, i), Cut(b, i), mm, h) => Fits(Cut(g, i), Cut(c, i), mm, h)
           /\ i # k => Cut(f, i) = Cut(g, i)
<1>. DEFINE p == Cut(f, i)  r == Cut(g, i)  x == Cut(b, i)  y == Cut(c, i)
<1>1. /\ b \in Seq(Nat) /\ Len(b) = Len(f) /\ f[1].root /\ Len(f) \in Nat
      /\ c \in Seq(Nat) /\ Len(c) = Len(g) /\ Len(g) \in Nat
  BY DEF Frames
<1>2. /\ k <= Len(f) /\ k <= Len(g)
      /\ \A j \in 1 .. k : b[j] = c[j] /\ f[j].root = g[j].root
      /\ \A j \in 1 .. k - 1 : f[j] = g[j]
  BY DEF Alike
<1>3. /\ i \in 0 .. Len(f) /\ i \in 0 .. Len(g) /\ i \in Nat /\ i \in 1 .. i /\ 1 \in 1 .. i
      /\ \A j \in 1 .. i : j \in 1 .. k
  BY <1>1, <1>2
<1>4. /\ p \in Seq(Nameframe) /\ Len(p) = i /\ \A j \in 1 .. i : p[j] = f[j]
      /\ r \in Seq(Nameframe) /\ Len(r) = i /\ \A j \in 1 .. i : r[j] = g[j]
  BY <1>3, CutParts
<1>5. /\ Len(x) = i /\ \A j \in 1 .. i : x[j] = b[j]
      /\ Len(y) = i /\ \A j \in 1 .. i : y[j] = c[j]
  <2>1. i \in 0 .. Len(b) /\ i \in 0 .. Len(c) BY <1>1, <1>3
  <2>2. Len(x) = i /\ \A j \in 1 .. i : x[j] = b[j] BY <1>1, <2>1, CutParts
  <2>3. Len(y) = i /\ \A j \in 1 .. i : y[j] = c[j] BY <1>1, <2>1, CutParts
  <2>. QED BY <2>2, <2>3
<1>. HIDE DEF p, r, x, y
<1>6. ASSUME NEW mm, NEW h, Fits(p, x, mm, h) PROVE Fits(r, y, mm, h)
  <2>1. \A j \in 1 .. Len(p) : p[j].root = r[j].root BY <1>2, <1>3, <1>4
  <2>2. \A j \in 1 .. Len(p) : x[j] = y[j] BY <1>2, <1>3, <1>4, <1>5
  <2>3. p[1].root BY <1>1, <1>3, <1>4
  <2>4. Linked(r, y, mm) BY <1>4, <1>6, <2>1, <2>2, <2>3, StillLinked DEF Fits
  <2>5. x[i] = y[i] BY <1>3, <1>4, <2>2
  <2>. QED BY <1>4, <1>6, <2>4, <2>5 DEF Fits
<1>7. ASSUME i # k PROVE p = r
  <2>1. \A j \in 1 .. i : j \in 1 .. k - 1 BY <1>7
  <2>2. \A j \in 1 .. i : p[j] = r[j] BY <1>2, <1>4, <2>1
  <2>. QED BY <1>4, <2>2, SameSeq
<1>. QED BY <1>6, <1>7 DEF p, r, x, y

LEMMA ActStackAlike ==
    ASSUME NEW f \in Seq(Nameframe), NEW b, Frames(f, b), NEW g \in Seq(Nameframe),
           NEW c, Frames(g, c), NEW k \in Nat, Alike(f, b, g, c, k),
           NEW t, NEW a \in Activation, a.frames0 >= 1, a.frames0 + opened(t, a) <= k
    PROVE  /\ Depth(t, g, c, a) = Depth(t, f, b, a)
           /\ \A q : ActStack(t, q, f, b, a) => ActStack(t, q, g, c, a)
<1>. DEFINE r == a.frames0
<1>1. r \in Nat /\ opened(t, a) \in {0, 1} BY DEF Activation, opened
<1>2. r \in 1 .. k /\ (opened(t, a) = 1 => r + 1 \in 1 .. k /\ r # k /\ r \in 1 .. k - 1)
  <2>. DEFINE o == opened(t, a)
  <2>1. o \in {0, 1} /\ r + o <= k /\ r >= 1 BY <1>1
  <2>. HIDE DEF o, r
  <2>2. r \in 1 .. k /\ (o = 1 => r + 1 \in 1 .. k /\ r # k /\ r \in 1 .. k - 1)
    BY <1>1, <2>1
  <2>. QED BY <2>2 DEF o, r
<1>. HIDE DEF r
<1>3. /\ \A i \in 1 .. k : b[i] = c[i] /\ f[i].root = g[i].root /\ f[i].nSub = g[i].nSub
      /\ \A i \in 1 .. k - 1 : f[i] = g[i]
  BY DEF Alike
<1>4. Depth(t, g, c, a) = Depth(t, f, b, a) BY <1>2, <1>3 DEF Depth, r
<1>5. ASSUME NEW q, ActStack(t, q, f, b, a) PROVE ActStack(t, q, g, c, a)
  <2>1. OpenedAt(t, q, g, c, a)
    <3>1. SUFFICES ASSUME opened(t, a) = 1
                   PROVE  /\ g[r].pushed = a.depth0 + 1 - c[r] - g[r].nSub
                          /\ Matches(Cut(g, r), q.after[a.id])
                          /\ g[r + 1].root <=> t[a.id].op = "func"
                          /\ t[a.id].op = "func" => c[r + 1] = PassedTo(t, a.id) + 2
      BY DEF OpenedAt, r
    <3>2. /\ f[r].pushed = a.depth0 + 1 - b[r] - f[r].nSub
          /\ Matches(Cut(f, r), q.after[a.id])
          /\ f[r + 1].root <=> t[a.id].op = "func"
          /\ t[a.id].op = "func" => b[r + 1] = PassedTo(t, a.id) + 2
      BY <1>5, <3>1 DEF ActStack, OpenedAt, r
    <3>3. Cut(f, r) = Cut(g, r) BY <1>2, <3>1, CutAlike
    <3>4. /\ f[r] = g[r] /\ b[r] = c[r] /\ f[r + 1].root = g[r + 1].root /\ b[r + 1] = c[r + 1]
      BY <1>2, <1>3, <3>1
    <3>. QED BY <3>2, <3>3, <3>4
  <2>2. SavedFits(t, g, c, a)
    <3>1. ASSUME a.id # 0, <<t[a.id].op, a.pc>> \in SavedBefore
          PROVE  Fits(Cut(g, r), Cut(c, r), a.save, a.depth0)
      <4>1. Fits(Cut(f, r), Cut(b, r), a.save, a.depth0)
        BY <1>5, <3>1 DEF ActStack, SavedFits, r
      <4>. QED BY <1>2, <4>1, CutAlike
    <3>2. ASSUME a.id # 0, t[a.id].op = "while", a.pc = "right"
          PROVE  Fits(Cut(g, r + 1), Cut(c, r + 1), a.save, Depth(t, g, c, a))
      <4>1. Fits(Cut(f, r + 1), Cut(b, r + 1), a.save, Depth(t, f, b, a))
        BY <1>5, <3>2 DEF ActStack, SavedFits, r
      <4>2. opened(t, a) = 1 BY <3>2 DEF opened, FrameOpen
      <4>. QED BY <1>2, <1>4, <4>1, <4>2, CutAlike
    <3>. QED BY <3>1, <3>2 DEF SavedFits, r
  <2>3. a.depth0 >= c[r] + g[r].nSub
    <3>1. b[r] = c[r] /\ f[r].nSub = g[r].nSub BY <1>2, <1>3
    <3>. QED BY <1>5, <3>1 DEF ActStack, r
  <2>. QED BY <1>5, <2>1, <2>2, <2>3 DEF ActStack, r
<1>. QED BY <1>4, <1>5

LEMMA StandsFacts ==
    ASSUME Inv, status = "run", NEW q, NEW b, Stands(q, b)
    PROVE  /\ Frames(nf, b) /\ b \in Seq(Nat) /\ Len(b) = Len(nf) /\ nf \in Seq(Nameframe) /\ nf # <<>>
           /\ ActStack(tree, q, nf, b, act) /\ act.pushed = 0 /\ act.depth0 \in Nat
           /\ act.depth0 >= b[act.frames0] + nf[act.frames0].nSub
           /\ Fits(nf, b, m, Depth(tree, nf, b, act)) /\ Counts(nf, b, Depth(tree, nf, b, act))
           /\ act.id # 0 => Matches(nf, ScopeAt(tree, q, act))
<1>1. Len(acts) \in 1 .. Len(acts) /\ nf \in Seq(Nameframe) BY InvFacts DEF Types
<1>2. ActStack(tree, q, nf, b, act) BY <1>1 DEF Stands, Below, act
<1>3. act.id # 0 => Matches(nf, ScopeAt(tree, q, act)) BY DEF Stands, ScopeNow, act
<1>4. Frames(nf, b) /\ On(tree, nf, b, act, m) BY DEF Stands
<1>. QED BY <1>1, <1>2, <1>3, <1>4 DEF ActStack, On, Frames

\* The activations below the innermost one.
LEMMA LowerOnes ==
    ASSUME Inv, NEW s, Book(s), status = "run", NEW j \in 1 .. Len(acts) - 1
    PROVE  /\ acts[j] \in Activation /\ acts[j].frames0 >= 1
           /\ acts[j].frames0 + opened(tree, acts[j]) <= act.frames0
           /\ j \in 1 .. Len(acts) /\ j + 1 \in 1 .. Len(acts)
           /\ acts[j].id # 0
<1>1. Len(acts) \in Nat \ {0} /\ acts \in Seq(Activation) BY InvFacts DEF Types
<1>2. j \in 1 .. Len(acts) /\ j + 1 \in 1 .. Len(acts) /\ Len(acts) \in 1 .. Len(acts)
  BY <1>1
<1>3. ActOK(tree, acts[j]) /\ acts[j].pc \notin {"enter", "body", "done"} BY <1>2 DEF Inv
<1>4. acts[j].frames0 + opened(tree, acts[j]) <= act.frames0 BY <1>2 DEF Book, act
<1>. QED BY <1>1, <1>2, <1>3, <1>4 DEF ActOK

LEMMA StayOn ==
    ASSUME Inv, NEW s, Book(s), status = "run", NEW q, NEW b, Stands(q, b),
           NEW a \in Activation, a.id = act.id, a.frames0 = act.frames0,
           a.depth0 = act.depth0,
           NEW f \in Seq(Nameframe), NEW c, Frames(f, c), Alike(nf, b, f, c, act.frames0),
           ActStack(tree, q, f, c, a), NEW mm, On(tree, f, c, a, mm),
           Matches(f, ScopeNow(tree, q, [acts EXCEPT ![Len(acts)] = a])),
           NEW u, Live([acts EXCEPT ![Len(acts)] = a], u, f, mm)
    PROVE  StackBook(q)'
<1>. DEFINE n == Len(acts)  as == [acts EXCEPT ![Len(acts)] = a]
<1>1. acts \in Seq(Activation) /\ acts # <<>> /\ n \in Nat \ {0} BY InvFacts DEF Types
<1>2. /\ Len(as) = n /\ as[n] = a
      /\ \A j \in 1 .. n - 1 : as[j] = acts[j]
  BY <1>1
<1>3. acts' = as /\ nf' = f /\ m' = mm /\ tree' = tree /\ status' = status
  BY DEF Live
<1>4. Matches(f, ScopeNow(tree, q, as)) OBVIOUS
<1>. HIDE DEF as
<1>5. ASSUME NEW j \in 1 .. n - 1
      PROVE  /\ Depth(tree, f, c, as[j]) = Depth(tree, nf, b, acts[j])
             /\ ActStack(tree, q, f, c, as[j])
  <2>1. /\ acts[j] \in Activation /\ acts[j].frames0 >= 1
        /\ acts[j].frames0 + opened(tree, acts[j]) <= act.frames0
        /\ j \in 1 .. n
    BY LowerOnes
  <2>2. ActStack(tree, q, nf, b, acts[j]) BY <2>1 DEF Stands, Below
  <2>3. /\ Frames(nf, b) /\ nf \in Seq(Nameframe) /\ act.frames0 \in Nat
    BY InvFacts, StandsFacts
  <2>4. /\ Depth(tree, f, c, acts[j]) = Depth(tree, nf, b, acts[j])
        /\ ActStack(tree, q, f, c, acts[j])
    BY <2>1, <2>2, <2>3, ActStackAlike
  <2>. QED BY <1>2, <2>4
<1>6. ASSUME NEW j \in 1 .. n PROVE j = n \/ j \in 1 .. n - 1
  BY <1>1
<1>7. ASSUME NEW j \in 1 .. n
      PROVE  ActStack(tree, q, f, c, as[j]) /\ as[j].depth0 = acts[j].depth0
             /\ as[j].id = acts[j].id
  BY <1>2, <1>5, <1>6 DEF act
<1>8. ASSUME NEW j \in 1 .. n - 1 PROVE as[j + 1].depth0 = Depth(tree, f, c, as[j])
  <2>1. j + 1 \in 1 .. n BY <1>1
  <2>2. acts[j + 1].depth0 = Depth(tree, nf, b, acts[j]) BY DEF Stands, Below
  <2>. QED BY <1>5, <1>7, <2>1, <2>2
<1>9. as[1].id # 0
  <2>1. 1 \in 1 .. n BY <1>1
  <2>. QED BY <1>7, <2>1 DEF Stands, Below
<1>10. Below(tree, q, as, f, c) BY <1>2, <1>7, <1>8, <1>9 DEF Below
<1>11. act' = a BY <1>2, <1>3 DEF act
<1>12. Stands(q, c)' BY <1>3, <1>4, <1>10, <1>11 DEF Stands
<1>13. c \in Seq(Nat) BY DEF Frames
<1>. QED BY <1>12, <1>13 DEF StackBook

\* codeGen is called for operand k.
LEMMA GenOn ==
    ASSUME Inv, NEW s, Book(s), status = "run", NEW q, NEW b, Stands(q, b),
           NEW a \in Activation, a.id = act.id, a.id # 0, a.frames0 = act.frames0,
           a.depth0 = act.depth0,
           NEW k, k # 0 => q.before[k] = StartScope(tree, q, a.id, Operand(tree, a)),
           NEW f \in Seq(Nameframe), NEW c, Frames(f, c), Alike(nf, b, f, c, act.frames0),
           Len(f) = a.frames0 + opened(tree, a),
           ActStack(tree, q, f, c, a), NEW mm \in Machine, On(tree, f, c, a, mm),
           Matches(f, StartScope(tree, q, a.id, Operand(tree, a))),
           NEW u, Gen(k, a, u, f, mm)
    PROVE  StackBook(q)'
<1>. DEFINE n == Len(acts)  e == NewAct(k, u, mm, f)
            low == [acts EXCEPT ![Len(acts)] = a]
            as == Append(low, e)
<1>1. acts \in Seq(Activation) /\ acts # <<>> /\ n \in Nat \ {0} BY InvFacts DEF Types
<1>2. /\ e.id = k /\ e.pc = "enter" /\ e.frames0 = Len(f) /\ e.depth0 = Len(mm.stk)
      /\ e.pushed = 0
  BY DEF NewAct
<1>3. /\ low \in Seq(Activation) /\ Len(low) = n /\ low[n] = a
      /\ \A j \in 1 .. n - 1 : low[j] = acts[j]
  BY <1>1
<1>4. /\ Len(as) = n + 1 /\ as[n + 1] = e /\ as[n] = a
      /\ \A j \in 1 .. n - 1 : as[j] = acts[j]
  <2>. HIDE DEF low, e
  <2>. QED BY <1>1, <1>3
<1>5. acts' = as /\ nf' = f /\ m' = mm /\ tree' = tree /\ status' = status
  BY DEF Live, Gen
<1>. HIDE DEF as, low, e
<1>6. /\ opened(tree, e) = 0 /\ Own(tree, e) = 0
      /\ \A x : <<x, e.pc>> \notin SavedBefore /\ e.pc # "right"
  BY <1>2 DEF opened, FrameOpen, Own, SavedBefore
<1>7. e.depth0 = Depth(tree, f, c, a) /\ e.depth0 \in Nat
  <2>1. Len(mm.stk) = Depth(tree, f, c, a) BY DEF On, Fits
  <2>2. Len(mm.stk) \in Nat BY RegistersOnly
  <2>. QED BY <1>2, <2>1, <2>2
<1>8. Depth(tree, f, c, e) = Depth(tree, f, c, a)
  <2>1. Depth(tree, f, c, e) = e.depth0 + 0 BY <1>6 DEF Depth
  <2>. QED BY <1>7, <2>1
<1>9. e.depth0 >= c[Len(f)] + f[Len(f)].nSub
  <2>. DEFINE y == c[Len(f)]  w == f[Len(f)].nSub  p == f[Len(f)].pushed  h == Depth(tree, f, c, a)
  <2>1. y \in Nat /\ w \in Nat /\ p \in Int BY FramesParts
  <2>2. h = y + w + p /\ p >= 0 BY DEF On, Counts
  <2>. HIDE DEF y, w, p, h
  <2>3. h >= y + w BY <2>1, <2>2
  <2>. QED BY <1>7, <2>3 DEF y, w, h
<1>10. ActStack(tree, q, f, c, e)
  <2>1. OpenedAt(tree, q, f, c, e) BY <1>6 DEF OpenedAt
  <2>2. SavedFits(tree, f, c, e) BY <1>6 DEF SavedFits
  <2>. QED BY <1>2, <1>7, <1>9, <2>1, <2>2 DEF ActStack
<1>11. ASSUME NEW j \in 1 .. n - 1
      PROVE  /\ Depth(tree, f, c, as[j]) = Depth(tree, nf, b, acts[j])
             /\ ActStack(tree, q, f, c, as[j])
  <2>1. /\ acts[j] \in Activation /\ acts[j].frames0 >= 1
        /\ acts[j].frames0 + opened(tree, acts[j]) <= act.frames0
        /\ j \in 1 .. n
    BY LowerOnes
  <2>2. ActStack(tree, q, nf, b, acts[j]) BY <2>1 DEF Stands, Below
  <2>3. /\ Frames(nf, b) /\ nf \in Seq(Nameframe) /\ act.frames0 \in Nat
    BY InvFacts, StandsFacts
  <2>4. /\ Depth(tree, f, c, acts[j]) = Depth(tree, nf, b, acts[j])
        /\ ActStack(tree, q, f, c, acts[j])
    BY <2>1, <2>2, <2>3, ActStackAlike
  <2>. QED BY <1>4, <2>4
<1>12. /\ n + 1 - 1 = n /\ n \in 1 .. n /\ 1 \in 1 .. n
       /\ \A j \in 1 .. n : j = n \/ (j \in 1 .. n - 1 /\ j + 1 \in 1 .. n)
       /\ \A j \in 1 .. n + 1 : j = n + 1 \/ j \in 1 .. n
  BY <1>1
<1>0. n = Len(acts) /\ act = acts[n] BY DEF act
<1>. HIDE DEF n
<1>13. ASSUME NEW j \in 1 .. n
       PROVE  ActStack(tree, q, f, c, as[j]) /\ as[j].depth0 = acts[j].depth0
              /\ as[j].id = acts[j].id
  <2>1. CASE j = n BY <1>0, <1>4, <2>1
  <2>2. CASE j # n
    <3>1. j \in 1 .. n - 1 BY <1>12, <2>2
    <3>. QED BY <1>4, <1>11, <3>1
  <2>. QED BY <2>1, <2>2
<1>14. ASSUME NEW j \in 1 .. n PROVE as[j + 1].depth0 = Depth(tree, f, c, as[j])
  <2>1. CASE j = n BY <1>4, <1>7, <2>1
  <2>2. CASE j # n
    <3>1. j \in 1 .. n - 1 /\ j + 1 \in 1 .. n BY <1>12, <2>2
    <3>2. acts[j + 1].depth0 = Depth(tree, nf, b, acts[j]) BY <1>0, <3>1 DEF Stands, Below
    <3>. QED BY <1>11, <1>13, <3>1, <3>2
  <2>. QED BY <2>1, <2>2
<1>15. as[1].id # 0 BY <1>12, <1>13 DEF Stands, Below
<1>16. \A j \in 1 .. n + 1 : ActStack(tree, q, f, c, as[j]) BY <1>4, <1>10, <1>12, <1>13
<1>17. Below(tree, q, as, f, c)
  <2>1. Len(as) = n + 1 /\ Len(as) - 1 = n BY <1>4, <1>12
  <2>. QED BY <1>14, <1>15, <1>16, <2>1 DEF Below
<1>18. act' = e BY <1>4, <1>5 DEF act
<1>19. ScopeNow(tree, q, as) = StartScope(tree, q, a.id, Operand(tree, a))
  <2>1. ScopeNow(tree, q, as) = IF k # 0 THEN ScopeAt(tree, q, e)
                                ELSE StartScope(tree, q, a.id, Operand(tree, a))
    <3>1. as[Len(as)] = e /\ as[Len(as) - 1] = a
      <4>1. Len(as) = n + 1 /\ Len(as) - 1 = n BY <1>4, <1>12
      <4>. QED BY <1>4, <4>1
    <3>. QED BY <1>2, <3>1 DEF ScopeNow
  <2>2. ScopeAt(tree, q, e) = q.before[k] BY <1>2 DEF ScopeAt
  <2>. QED BY <2>1, <2>2
<1>20. On(tree, f, c, e, mm) BY <1>8 DEF On
<1>21. Stands(q, c)' BY <1>5, <1>17, <1>18, <1>19, <1>20 DEF Stands
<1>22. c \in Seq(Nat) BY DEF Frames
<1>. QED BY <1>21, <1>22 DEF StackBook

-----------------------------------------------------------------------------
(* Steps of a node, and the scopes they pass through.                      *)

LEMMA ScopePath ==
    ASSUME NEW p, NEW q, NEW i
    PROVE  /\ p[i].op \notin {"call", "var", "while", "func"} => StartScope(p, q, i, 1) = q.before[i]
           /\ p[i].op = "var" => StartScope(p, q, i, 1) = Declare(q.before[i], p[i].names[1])
           /\ p[i].op = "while" =>
                 StartScope(p, q, i, 1) = Fresh(frameWords(p, i), q.before[i].names)
           /\ p[i].op = "func" => StartScope(p, q, i, 1) = Parameters(p, i)
           /\ p[i].op \notin {"call", "tern"} => StartScope(p, q, i, 2) = EndScope(p, q, i, 1)
           /\ p[i].op = "tern" => \A k \in {2, 3} :
                 StartScope(p, q, i, k) =
                     Fresh(frameWords(p, Child(p, i, k)), EndScope(p, q, i, 1).names)
           /\ \A k : EndScope(p, q, i, k) = IF Child(p, i, k) = 0 THEN StartScope(p, q, i, k)
                                           ELSE q.after[Child(p, i, k)]
<1>1. p[i].op # "call" => StartScope(p, q, i, 1) = FirstScope(p, q, i) BY DEF StartScope
<1>2. p[i].op # "call" => FirstDone(p, q, i) = EndScope(p, q, i, 1)
  BY <1>1 DEF FirstDone, EndScope
<1>3. /\ p[i].op \notin {"call", "tern"} => StartScope(p, q, i, 2) = FirstDone(p, q, i)
      /\ p[i].op = "tern" => \A k \in {2, 3} :
            StartScope(p, q, i, k) = Fresh(frameWords(p, Child(p, i, k)), FirstDone(p, q, i).names)
  BY DEF StartScope
<1>4. /\ p[i].op \notin {"call", "var", "while", "func"} => FirstScope(p, q, i) = q.before[i]
      /\ p[i].op = "var" => FirstScope(p, q, i) = Declare(q.before[i], p[i].names[1])
      /\ p[i].op = "while" =>
            FirstScope(p, q, i) = Fresh(frameWords(p, i), q.before[i].names)
      /\ p[i].op = "func" => FirstScope(p, q, i) = Parameters(p, i)
  BY DEF FirstScope
<1>5. p[i].op = "tern" => \A k \in {2, 3} :
          StartScope(p, q, i, k) = Fresh(frameWords(p, Child(p, i, k)), EndScope(p, q, i, 1).names)
  <2>1. SUFFICES ASSUME p[i].op = "tern", NEW k \in {2, 3}
                 PROVE  StartScope(p, q, i, k) =
                            Fresh(frameWords(p, Child(p, i, k)), EndScope(p, q, i, 1).names)
    OBVIOUS
  <2>2. FirstDone(p, q, i) = EndScope(p, q, i, 1) BY <1>2, <2>1
  <2>. QED BY <1>3, <2>1, <2>2
<1>6. \A k : EndScope(p, q, i, k) = IF Child(p, i, k) = 0 THEN StartScope(p, q, i, k)
                                    ELSE q.after[Child(p, i, k)]
  BY DEF EndScope
<1>7. p[i].op \notin {"call", "tern"} => StartScope(p, q, i, 2) = EndScope(p, q, i, 1)
  BY <1>2, <1>3
<1>. QED BY <1>1, <1>4, <1>5, <1>6, <1>7

LEMMA BehindPath ==
    ASSUME NEW p, NEW q, NEW i
    PROVE  /\ p[i].op \in ScopeThrough => Behind(p, q, i) = EndScope(p, q, i, 2)
           /\ p[i].op \in OneOperand \union {"tern"} => Behind(p, q, i) = EndScope(p, q, i, 1)
           /\ p[i].op = "call" => Behind(p, q, i) = IF p[i].kids # <<>> THEN EndScope(p, q, i, 1)
                                                    ELSE q.before[i]
           /\ p[i].op \notin ScopeThrough \union OneOperand \union {"tern", "call"} =>
                 Behind(p, q, i) = q.before[i]
<1>. DEFINE o == p[i].op
<1>1. /\ o \in ScopeThrough => o \notin OneOperand \union {"tern", "call"}
      /\ o \in OneOperand \union {"tern"} => o # "call"
  BY DEF ScopeThrough, TwoOperand, OneOperand
<1>. QED BY <1>1 DEF Behind

LEMMA AtScope ==
    ASSUME Inv, NEW s, NEW q, Scoped(tree, s, q), NEW ops, NEW p, At(ops, p)
    PROVE  /\ NodeScoped(tree, s, q, act.id) /\ q.after[act.id] = Behind(tree, q, act.id)
           /\ q.before[act.id] \in Scope /\ q.after[act.id] \in Scope
           /\ \A k \in Operands(tree, act.id) : Kid(k) # 0 =>
                 q.before[Kid(k)] = StartScope(tree, q, act.id, k)
           /\ tree[act.id] = node
<1>1. act.id \in 1 .. Len(tree) /\ tree \in Programs BY AtFacts
<1>2. act.id \in DOMAIN tree BY <1>1, TreeFacts
<1>3. NodeScoped(tree, s, q, act.id) BY <1>2 DEF Scoped
<1>4. q.before \in [1 .. Len(tree) -> Scope] /\ q.after \in [1 .. Len(tree) -> Scope]
  BY DEF Scoped, Scopings
<1>5. \A k : Kid(k) = Child(tree, act.id, k) BY DEF Kid, KidOf
<1>. QED BY <1>1, <1>3, <1>4, <1>5 DEF NodeScoped, node

LEMMA NoSave ==
    ASSUME NEW t, NEW f, NEW b, NEW a, <<t[a.id].op, a.pc>> \notin SavedBefore,
           t[a.id].op # "while" \/ a.pc # "right"
    PROVE  SavedFits(t, f, b, a)
BY DEF SavedFits

LEMMA PlacedToo ==
    ASSUME Inv, status = "run", NEW p \in PCs
    PROVE  /\ Resume(p).depth0 = act.depth0 /\ Resume(p).pushed = act.pushed
           /\ \A ok \in BOOLEAN, mm \in Machine :
                 /\ Fork(p, ok, mm).depth0 = act.depth0 /\ Fork(p, ok, mm).pushed = act.pushed
                 /\ Fork(p, ok, mm).save = mm
<1>1. act \in Activation BY InvFacts
<1>. QED BY <1>1 DEF Resume, Fork, Activation

LEMMA AlikeSelf ==
    ASSUME NEW f \in Seq(Nameframe), NEW b, NEW k, k <= Len(f)
    PROVE  Alike(f, b, f, b, k)
BY DEF Alike

\* A place where the frame is the one the node was found in.
LEMMA PlainStack ==
    ASSUME Inv, NEW q, NEW b, Stands(q, b), NEW ops, NEW p, At(ops, p),
           \A o \in ops : <<o, p>> \notin FrameOpen,
           "call" \notin ops \/ p \notin {"args", "push"}
    PROVE  /\ Depth(tree, nf, b, act) = act.depth0 /\ Len(nf) = act.frames0
           /\ Frames(nf, b) /\ Fits(nf, b, m, act.depth0) /\ Counts(nf, b, act.depth0)
           /\ act.depth0 \in Nat /\ Len(m.stk) = act.depth0
           /\ Matches(nf, ScopeAt(tree, q, act)) /\ Alike(nf, b, nf, b, act.frames0)
           /\ act.pushed = 0 /\ act.frames0 \in Nat /\ m \in Machine /\ nf \in Seq(Nameframe)
<1>1. /\ status = "run" /\ act.id # 0 /\ act.pc = p /\ node.op \in ops
      /\ opened(tree, act) = IF <<node.op, p>> \in FrameOpen THEN 1 ELSE 0
      /\ Len(nf) = act.frames0 + opened(tree, act) /\ m \in Machine /\ nf \in Seq(Nameframe)
  BY AtFacts
<1>2. act.frames0 \in Nat BY <1>1, InvFacts
<1>3. opened(tree, act) = 0 /\ Len(nf) = act.frames0 BY <1>1, <1>2
<1>4. Own(tree, act) = 0 BY <1>1 DEF Own, node
<1>5. act.depth0 \in Nat BY <1>1, StandsFacts
<1>6. Depth(tree, nf, b, act) = act.depth0 BY <1>3, <1>4, <1>5 DEF Depth
<1>7. Alike(nf, b, nf, b, act.frames0)
  <2>1. act.frames0 <= Len(nf) BY <1>2, <1>3
  <2>. QED BY <1>1, <2>1, AlikeSelf
<1>8. Fits(nf, b, m, act.depth0) /\ Counts(nf, b, act.depth0) BY <1>1, <1>6, StandsFacts
<1>9. Frames(nf, b) /\ Matches(nf, ScopeAt(tree, q, act)) /\ act.pushed = 0
  BY <1>1, StandsFacts
<1>10. Len(m.stk) = act.depth0 BY <1>8 DEF Fits
<1>. QED BY <1>1, <1>2, <1>3, <1>5, <1>6, <1>7, <1>8, <1>9, <1>10

\* RSP is never below the words of the frame.
LEMMA CountsAbove ==
    ASSUME NEW f \in Seq(Nameframe), NEW b, Frames(f, b), NEW h, Counts(f, b, h)
    PROVE  h >= b[Len(f)] + f[Len(f)].nSub /\ h \in Nat /\ b[Len(f)] <= h
<1>. DEFINE y == b[Len(f)]  w == f[Len(f)].nSub  p == f[Len(f)].pushed
<1>1. y \in Nat /\ w \in Nat /\ p \in Int BY FramesParts
<1>2. h = y + w + p /\ p >= 0 BY DEF Counts
<1>. HIDE DEF y, w, p
<1>3. h >= y + w /\ h \in Nat /\ y <= h BY <1>1, <1>2
<1>. QED BY <1>3 DEF y, w

LEMMA FinishOn ==
    ASSUME Inv, NEW s, Book(s), NEW q, NEW b, Stands(q, b), NEW ops, NEW p, At(ops, p),
           NEW f \in Seq(Nameframe), NEW c, Frames(f, c), Len(f) = act.frames0,
           Alike(nf, b, f, c, act.frames0), NEW mm, Fits(f, c, mm, act.depth0),
           Counts(f, c, act.depth0), Matches(f, q.after[act.id]),
           NEW u, Finish(u, f, mm)
    PROVE  StackBook(q)'
<1>. DEFINE a == Resume("done")
<1>1. status = "run" /\ act.id # 0 BY AtFacts
<1>2. act.pushed = 0 /\ act.depth0 \in Nat BY <1>1, StandsFacts
<1>3. /\ a \in Activation /\ a.id = act.id /\ a.frames0 = act.frames0
      /\ a.pc = "done" /\ opened(tree, a) = 0
  BY <1>1, Resumed, DonePC DEF FrameOpen
<1>4. a.depth0 = act.depth0 /\ a.pushed = 0 BY <1>1, <1>2, PlacedToo, DonePC
<1>5. Live([acts EXCEPT ![Len(acts)] = a], u, f, mm) BY <1>2 DEF Finish
<1>. HIDE DEF a
<1>6. Own(tree, a) = 0 /\ Depth(tree, f, c, a) = act.depth0
  <2>1. Own(tree, a) = 0 BY <1>3 DEF Own
  <2>. QED BY <1>2, <1>3, <1>4, <2>1 DEF Depth
<1>7. ActStack(tree, q, f, c, a)
  <2>1. act.depth0 >= c[Len(f)] + f[Len(f)].nSub BY CountsAbove
  <2>2. OpenedAt(tree, q, f, c, a) BY <1>3 DEF OpenedAt
  <2>3. SavedFits(tree, f, c, a) BY <1>3 DEF SavedFits, SavedBefore
  <2>. QED BY <1>2, <1>3, <1>4, <2>1, <2>2, <2>3 DEF ActStack
<1>8. On(tree, f, c, a, mm) BY <1>6 DEF On
<1>9. Matches(f, ScopeNow(tree, q, [acts EXCEPT ![Len(acts)] = a]))
  <2>1. acts # <<>> /\ acts \in Seq(Activation) BY <1>1, InvFacts DEF Types
  <2>. DEFINE as == [acts EXCEPT ![Len(acts)] = a]
  <2>2. as[Len(as)] = a BY <2>1
  <2>. HIDE DEF as
  <2>3. ScopeNow(tree, q, as) = ScopeAt(tree, q, a) BY <1>1, <1>3, <2>2 DEF ScopeNow
  <2>4. ScopeAt(tree, q, a) = q.after[act.id] BY <1>3 DEF ScopeAt
  <2>. QED BY <2>3, <2>4 DEF as
<1>. QED BY <1>1, <1>3, <1>4, <1>5, <1>7, <1>8, <1>9, StayOn

LEMMA PlainGenOn ==
    ASSUME Inv, NEW s, Book(s), NEW q, Scoped(tree, s, q), NEW b, Stands(q, b),
           NEW ops, NEW p, At(ops, p), "call" \notin ops,
           NEW r \in PCs, \A o \in ops : <<o, p>> \notin FrameOpen /\ <<o, r>> \notin FrameOpen,
           NEW a, a = Resume(r) \/ \E ok \in BOOLEAN, mn \in Machine : a = Fork(r, ok, mn),
           NEW f \in Seq(Nameframe), Len(f) = Len(nf), Frames(f, b),
           Alike(nf, b, f, b, act.frames0), SavedFits(tree, f, b, a),
           NEW mm \in Machine, Fits(f, b, mm, act.depth0), Counts(f, b, act.depth0),
           NEW k, k = Operand(tree, a), k \in Operands(tree, act.id),
           Matches(f, StartScope(tree, q, act.id, k)),
           NEW u, Gen(Kid(k), a, u, f, mm)
    PROVE  StackBook(q)'
<1>1. status = "run" /\ act.id # 0 /\ node.op \in ops BY AtFacts
<1>2. /\ act.pushed = 0 /\ act.depth0 \in Nat /\ Len(nf) = act.frames0 /\ act.frames0 \in Nat
  BY PlainStack
<1>3. <<node.op, r>> \notin FrameOpen BY <1>1
<1>4. /\ a \in Activation /\ a.id = act.id /\ a.frames0 = act.frames0 /\ a.pc = r
      /\ opened(tree, a) = 0 /\ a.depth0 = act.depth0 /\ a.pushed = 0
  <2>1. CASE a = Resume(r) BY <1>1, <1>2, <1>3, <2>1, Resumed, PlacedToo
  <2>2. ASSUME NEW ok \in BOOLEAN, NEW mn \in Machine, a = Fork(r, ok, mn)
        PROVE  /\ a \in Activation /\ a.id = act.id /\ a.frames0 = act.frames0
               /\ a.pc = r /\ opened(tree, a) = 0 /\ a.depth0 = act.depth0 /\ a.pushed = 0
    <3>1. /\ a \in Activation /\ a.id = act.id /\ a.frames0 = act.frames0 /\ a.pc = r
          /\ opened(tree, a) = IF <<node.op, r>> \in FrameOpen THEN 1 ELSE 0
      BY <1>1, <2>2, Forked
    <3>2. a.depth0 = act.depth0 /\ a.pushed = act.pushed BY <1>1, <2>2, PlacedToo
    <3>. QED BY <1>2, <1>3, <3>1, <3>2
  <2>. QED BY <2>1, <2>2
<1>5. Own(tree, a) = 0 /\ Depth(tree, f, b, a) = act.depth0
  <2>1. Own(tree, a) = 0 BY <1>1, <1>4 DEF Own, node
  <2>. QED BY <1>2, <1>4, <2>1 DEF Depth
<1>6. ActStack(tree, q, f, b, a)
  <2>1. act.depth0 >= b[Len(f)] + f[Len(f)].nSub BY CountsAbove
  <2>2. OpenedAt(tree, q, f, b, a) BY <1>4 DEF OpenedAt
  <2>. QED BY <1>2, <1>4, <2>1, <2>2 DEF ActStack
<1>7. On(tree, f, b, a, mm) BY <1>5 DEF On
<1>8. Kid(k) # 0 => q.before[Kid(k)] = StartScope(tree, q, a.id, Operand(tree, a))
  BY <1>4, AtScope
<1>9. Len(f) = a.frames0 + opened(tree, a) BY <1>2, <1>4
<1>10. Matches(f, StartScope(tree, q, a.id, Operand(tree, a))) BY <1>4
<1>. QED BY <1>1, <1>4, <1>6, <1>7, <1>8, <1>9, <1>10, GenOn

-----------------------------------------------------------------------------
(* One lemma per action: entry and return.                                 *)

LEMMA NowAt ==
    ASSUME Inv, status = "run", NEW q, NEW a, a.id # 0
    PROVE  ScopeNow(tree, q, [acts EXCEPT ![Len(acts)] = a]) = ScopeAt(tree, q, a)
<1>. DEFINE as == [acts EXCEPT ![Len(acts)] = a]
<1>1. acts # <<>> /\ acts \in Seq(Activation) BY InvFacts DEF Types
<1>2. as[Len(as)] = a BY <1>1
<1>. HIDE DEF as
<1>3. ScopeNow(tree, q, as) = ScopeAt(tree, q, a) BY <1>2 DEF ScopeNow
<1>. QED BY <1>3 DEF as

LEMMA GenNullOn ==
    ASSUME Inv, NEW s, Shaped(tree, s), Book(s), NEW q, NEW b, Stands(q, b), GenNull
    PROVE  StackBook(q)'
<1>. DEFINE a == Resume("done")  mm == Mov(m, used, Val(0))
<1>1. status = "run" /\ act.id = 0 /\ act.pc = "enter" BY DEF GenNull, pc
<1>2. ActBook(tree, s, act) /\ used = InUse(tree, s, act) /\ act.used0 \in 0 .. 12
  BY <1>1, BookFacts
<1>3. used \in Regs BY <1>1, <1>2 DEF InUse, Regs, regStackSz
<1>4. Live([acts EXCEPT ![Len(acts)] = a], used + 1, nf, mm) BY <1>3 DEF GenNull
<1>5. /\ a \in Activation /\ a.id = act.id /\ a.frames0 = act.frames0
      /\ a.pc = "done" /\ opened(tree, a) = 0 /\ a.depth0 = act.depth0 /\ a.pushed = act.pushed
  BY <1>1, Resumed, PlacedToo, DonePC
<1>6. /\ Frames(nf, b) /\ nf \in Seq(Nameframe) /\ act.pushed = 0 /\ act.depth0 \in Nat
      /\ act.depth0 >= b[act.frames0] + nf[act.frames0].nSub
      /\ Fits(nf, b, m, Depth(tree, nf, b, act)) /\ Counts(nf, b, Depth(tree, nf, b, act))
  BY <1>1, StandsFacts
<1>7. opened(tree, act) = 0 /\ Len(nf) = act.frames0 + opened(tree, act) /\ act.frames0 \in Nat
      /\ m \in Machine
  BY <1>1, InvFacts DEF opened, Types
<1>8. SameStack(m, mm) BY <1>7, RegistersOnly
<1>. HIDE DEF a, mm
<1>9. Own(tree, a) = 0 /\ Own(tree, act) = 0 BY <1>1, <1>5 DEF Own
<1>10. Depth(tree, nf, b, act) = act.depth0 /\ Depth(tree, nf, b, a) = act.depth0
  BY <1>5, <1>6, <1>7, <1>9 DEF Depth
<1>11. On(tree, nf, b, a, mm) BY <1>6, <1>8, <1>10, SameFits DEF On
<1>12. ActStack(tree, q, nf, b, a)
  <2>1. OpenedAt(tree, q, nf, b, a) BY <1>5 DEF OpenedAt
  <2>2. SavedFits(tree, nf, b, a) BY <1>1, <1>5 DEF SavedFits
  <2>. QED BY <1>5, <1>6, <2>1, <2>2 DEF ActStack
<1>13. Alike(nf, b, nf, b, act.frames0)
  <2>1. act.frames0 <= Len(nf) BY <1>7
  <2>. QED BY <1>6, <2>1, AlikeSelf
<1>14. Matches(nf, ScopeNow(tree, q, [acts EXCEPT ![Len(acts)] = a]))
  <2>. DEFINE n == Len(acts)  as == [acts EXCEPT ![Len(acts)] = a]
  <2>1. acts # <<>> /\ acts \in Seq(Activation) /\ n \in Nat \ {0} BY <1>1, InvFacts DEF Types
  <2>2. acts[1].id # 0 /\ acts[n].id = 0 BY <1>1 DEF Stands, Below, act
  <2>3. n - 1 \in 1 .. n /\ n - 1 # n BY <2>1, <2>2
  <2>4. Len(as) = n /\ as[n] = a /\ as[n - 1] = acts[n - 1] BY <2>1, <2>3
  <2>. HIDE DEF as
  <2>5. ScopeNow(tree, q, as) = ScopeNow(tree, q, acts) BY <1>1, <1>5, <2>2, <2>4 DEF ScopeNow
  <2>. QED BY <2>5 DEF Stands, as
<1>. QED BY <1>1, <1>4, <1>5, <1>6, <1>11, <1>12, <1>13, <1>14, StayOn

LEMMA BeginOn ==
    ASSUME Inv, NEW s, Shaped(tree, s), Book(s), NEW q, NEW b, Stands(q, b), Begin
    PROVE  StackBook(q)'
<1>. DEFINE a0 == Resume("body")  a == [a0 EXCEPT !.r1 = used]
<1>1. At(Ops, "enter") BY DEF Begin
<1>2. /\ status = "run" /\ act.pc = "enter" /\ act.id # 0 /\ act.used0 \in 0 .. 10
      /\ used = InUse(tree, s, act)
  BY <1>1, AtBook
<1>3. used = act.used0 BY <1>2 DEF InUse
<1>4. "body" \in PCs /\ \A o \in Ops : <<o, "enter">> \notin FrameOpen BY DEF PCs, FrameOpen
<1>5. /\ Depth(tree, nf, b, act) = act.depth0 /\ Len(nf) = act.frames0
      /\ Frames(nf, b) /\ Fits(nf, b, m, act.depth0) /\ Counts(nf, b, act.depth0)
      /\ act.depth0 \in Nat /\ Alike(nf, b, nf, b, act.frames0)
      /\ Matches(nf, ScopeAt(tree, q, act))
      /\ act.pushed = 0 /\ act.frames0 \in Nat /\ m \in Machine /\ nf \in Seq(Nameframe)
  BY <1>1, <1>4, PlainStack
<1>6. /\ a0 \in Activation /\ a0.id = act.id /\ a0.frames0 = act.frames0
      /\ a0.pc = "body" /\ a0.depth0 = act.depth0 /\ a0.pushed = 0
  BY <1>2, <1>4, <1>5, Resumed, PlacedToo
<1>. HIDE DEF a0
<1>7. /\ a \in Activation /\ a.id = act.id /\ a.frames0 = act.frames0
      /\ a.pc = "body" /\ a.depth0 = act.depth0 /\ a.pushed = 0
  BY <1>2, <1>3, <1>6 DEF Activation, regStackSz
<1>8. Live([acts EXCEPT ![Len(acts)] = a], used, nf, m) BY DEF Begin, a0
<1>. HIDE DEF a
<1>9. opened(tree, a) = 0 /\ Own(tree, a) = 0 BY <1>7, Openings DEF opened, Own
<1>10. On(tree, nf, b, a, m) BY <1>5, <1>7, <1>9 DEF On, Depth
<1>11. ActStack(tree, q, nf, b, a)
  <2>1. act.depth0 >= b[Len(nf)] + nf[Len(nf)].nSub BY <1>5, CountsAbove
  <2>2. OpenedAt(tree, q, nf, b, a) BY <1>9 DEF OpenedAt
  <2>3. SavedFits(tree, nf, b, a) BY <1>7 DEF SavedFits, SavedBefore
  <2>. QED BY <1>5, <1>7, <2>1, <2>2, <2>3 DEF ActStack
<1>12. ScopeAt(tree, q, a) = ScopeAt(tree, q, act) BY <1>2, <1>7 DEF ScopeAt
<1>13. Matches(nf, ScopeNow(tree, q, [acts EXCEPT ![Len(acts)] = a]))
  BY <1>2, <1>5, <1>7, <1>12, NowAt
<1>. QED BY <1>2, <1>5, <1>7, <1>8, <1>10, <1>11, <1>13, StayOn

LEMMA ReturnOn ==
    ASSUME Inv, NEW s, Book(s), NEW q, NEW b, Stands(q, b), Return
    PROVE  StackBook(q)'
<1>. DEFINE n == Len(acts)  as == SubSeq(acts, 1, n - 1)
<1>1. status = "run" /\ n > 1 /\ act.pc = "done" BY DEF Return, pc
<1>2. acts \in Seq(Activation) /\ n \in Nat BY <1>1, InvFacts DEF Types
<1>3. Len(as) = n - 1 /\ \A j \in 1 .. n - 1 : as[j] = acts[j]
  <2>1. n - 1 \in 1 .. n BY <1>1, <1>2
  <2>. QED BY <1>2, <2>1, Prefix
<1>4. acts' = as /\ nf' = nf /\ m' = m /\ tree' = tree /\ status' = status
  BY DEF Return, Live
<1>. HIDE DEF as
<1>5. /\ n - 1 \in 1 .. n - 1 /\ n - 1 + 1 = n /\ 1 \in 1 .. n - 1
      /\ \A j \in 1 .. n - 1 : j \in 1 .. n
      /\ \A j \in 1 .. n - 1 - 1 : j \in 1 .. n - 1 /\ j + 1 \in 1 .. n - 1
  BY <1>1, <1>2
<1>. DEFINE a == acts[n - 1]
<1>6. act' = a BY <1>3, <1>4, <1>5 DEF act
<1>7. Serves(tree, a, act) /\ act.depth0 = Depth(tree, nf, b, a)
  BY <1>5 DEF Book, Stands, Below, act
<1>8. a.id # 0 BY <1>1, <1>5, LowerOnes
<1>9. Depth(tree, nf, b, act) = act.depth0
  <2>1. opened(tree, act) = 0 /\ Own(tree, act) = 0 BY <1>1, Openings DEF opened, Own
  <2>2. act.depth0 \in Nat BY <1>1, StandsFacts
  <2>. QED BY <2>1, <2>2 DEF Depth
<1>10. On(tree, nf, b, a, m)
  <2>1. On(tree, nf, b, act, m) BY DEF Stands
  <2>. HIDE DEF a
  <2>. QED BY <1>7, <1>9, <2>1 DEF On
<1>11. ScopeAt(tree, q, a) = EndScope(tree, q, a.id, Operand(tree, a))
  <2>1. a.pc \in Waiting BY <1>7 DEF Serves
  <2>. HIDE DEF a
  <2>. QED BY <2>1 DEF ScopeAt, Waiting
<1>12. ScopeNow(tree, q, acts) = ScopeAt(tree, q, a)
  <2>1. ScopeNow(tree, q, acts) = IF act.id # 0 THEN ScopeAt(tree, q, act)
                                  ELSE StartScope(tree, q, a.id, Operand(tree, a))
    BY DEF ScopeNow, act
  <2>2. act.id = Child(tree, a.id, Operand(tree, a)) BY <1>7 DEF Serves
  <2>3. ScopeAt(tree, q, act) = q.after[act.id] BY <1>1, DonePC DEF ScopeAt
  <2>. HIDE DEF a
  <2>. QED BY <1>11, <2>1, <2>2, <2>3 DEF EndScope
<1>13. ScopeNow(tree, q, as) = ScopeAt(tree, q, a)
  <2>1. as[Len(as)] = a BY <1>3, <1>5
  <2>. HIDE DEF a
  <2>. QED BY <1>8, <2>1 DEF ScopeNow
<1>14. Below(tree, q, as, nf, b)
  <2>1. \A j \in 1 .. n : ActStack(tree, q, nf, b, acts[j]) BY DEF Stands, Below
  <2>2. \A j \in 1 .. n - 1 : acts[j + 1].depth0 = Depth(tree, nf, b, acts[j])
    BY DEF Stands, Below
  <2>3. acts[1].id # 0 BY DEF Stands, Below
  <2>4. ASSUME NEW j \in 1 .. n - 1 - 1 PROVE as[j + 1].depth0 = Depth(tree, nf, b, as[j])
    BY <1>3, <1>5, <2>2
  <2>5. \A j \in 1 .. n - 1 : ActStack(tree, q, nf, b, as[j]) BY <1>3, <1>5, <2>1
  <2>6. as[1].id # 0 BY <1>3, <1>5, <2>3
  <2>7. \A j \in 1 .. Len(as) : ActStack(tree, q, nf, b, as[j]) BY <1>3, <2>5
  <2>8. \A j \in 1 .. Len(as) - 1 : as[j + 1].depth0 = Depth(tree, nf, b, as[j])
    BY <1>3, <2>4
  <2>. QED BY <2>6, <2>7, <2>8 DEF Below
<1>15. Frames(nf, b) /\ Matches(nf, ScopeNow(tree, q, acts)) BY DEF Stands
<1>. HIDE DEF a
<1>16. Stands(q, b)' BY <1>4, <1>6, <1>10, <1>12, <1>13, <1>14, <1>15 DEF Stands
<1>17. b \in Seq(Nat) BY <1>15 DEF Frames
<1>. QED BY <1>16, <1>17 DEF StackBook

LEMMA ExitOn ==
    ASSUME NEW q, Exit
    PROVE  StackBook(q)'
BY DEF Exit, StackBook

-----------------------------------------------------------------------------
(* The operators with two operands, with one, and the leaves.              *)

LEMMA PlainFinishOn ==
    ASSUME Inv, NEW s, Book(s), NEW q, NEW b, Stands(q, b), NEW ops, NEW p, At(ops, p),
           \A o \in ops : <<o, p>> \notin FrameOpen, "call" \notin ops,
           Matches(nf, q.after[act.id]), NEW mm, Fits(nf, b, mm, act.depth0) \/ SameStack(m, mm),
           NEW u, Finish(u, nf, mm)
    PROVE  StackBook(q)'
<1>1. /\ Len(nf) = act.frames0
      /\ Frames(nf, b) /\ Fits(nf, b, m, act.depth0) /\ Counts(nf, b, act.depth0)
      /\ Alike(nf, b, nf, b, act.frames0) /\ nf \in Seq(Nameframe)
  BY PlainStack
<1>2. Fits(nf, b, mm, act.depth0) BY <1>1, SameFits
<1>. QED BY <1>1, <1>2, FinishOn

LEMMA EvalLeftOn ==
    ASSUME Inv, NEW s, Shaped(tree, s), Book(s), NEW q, Scoped(tree, s, q),
           NEW b, Stands(q, b), EvalLeft
    PROVE  StackBook(q)'
<1>. DEFINE ops == TwoOperand \union {"compare"}  a == Resume("left")
            u == IF node.op = "compare" THEN used + 1 ELSE used
<1>1. At(ops, "body") /\ Gen(Kid(1), a, u, nf, m) BY DEF EvalLeft
<1>2. status = "run" /\ act.pc = "body" /\ node.op \in ops /\ tree[act.id] = node
  BY <1>1, AtFacts DEF node
<1>3. /\ "call" \notin ops /\ \A o \in ops : o \notin {"var", "while", "func", "call"}
      /\ \A o \in ops : <<o, "body">> \notin FrameOpen /\ <<o, "left">> \notin FrameOpen
      /\ "left" \in PCs
  BY Openings DEF TwoOperand
<1>4. a.pc = "left" /\ a.id = act.id BY <1>2, <1>3, Resumed
<1>5. Operand(tree, a) = 1 /\ 1 \in Operands(tree, act.id) BY <1>2, <1>4, OperandAt, OperandSets
<1>6. SavedFits(tree, nf, b, a)
  <2>1. <<tree[a.id].op, a.pc>> \notin SavedBefore /\ a.pc # "right" BY <1>4 DEF SavedBefore
  <2>. QED BY <2>1, NoSave
<1>7. Matches(nf, StartScope(tree, q, act.id, 1))
  <2>1. ScopeAt(tree, q, act) = q.before[act.id] BY <1>2 DEF ScopeAt
  <2>2. StartScope(tree, q, act.id, 1) = q.before[act.id] BY <1>2, <1>3, ScopePath
  <2>. QED BY <1>1, <1>3, <2>1, <2>2, PlainStack
<1>8. /\ Frames(nf, b) /\ Fits(nf, b, m, act.depth0) /\ Counts(nf, b, act.depth0)
      /\ Alike(nf, b, nf, b, act.frames0) /\ m \in Machine /\ nf \in Seq(Nameframe)
  BY <1>1, <1>3, PlainStack
<1>. HIDE DEF u, ops, a
<1>. QED BY <1>1, <1>3, <1>5, <1>6, <1>7, <1>8, PlainGenOn DEF a

LEMMA EvalRightOn ==
    ASSUME Inv, NEW s, Shaped(tree, s), Book(s), NEW q, Scoped(tree, s, q),
           NEW b, Stands(q, b), EvalRight
    PROVE  StackBook(q)'
<1>. DEFINE ops == TwoOperand \union {"compare"}  a == Resume("right")
<1>1. At(ops, "left") /\ Gen(Kid(2), a, used, nf, m) BY DEF EvalRight
<1>2. status = "run" /\ act.pc = "left" /\ node.op \in ops /\ tree[act.id] = node
  BY <1>1, AtFacts DEF node
<1>3. /\ "call" \notin ops
      /\ \A o \in ops : o \notin {"tern", "while", "func", "call", "logic"} \union OneOperand
      /\ \A o \in ops : <<o, "left">> \notin FrameOpen /\ <<o, "right">> \notin FrameOpen
      /\ "right" \in PCs
  BY Openings DEF TwoOperand, OneOperand, FrameOpen
<1>4. a.pc = "right" /\ a.id = act.id BY <1>2, <1>3, Resumed
<1>5. Operand(tree, a) = 2 /\ 2 \in Operands(tree, act.id)
  BY <1>2, <1>3, <1>4, OperandAt, OperandSets
<1>6. SavedFits(tree, nf, b, a)
  <2>1. <<tree[a.id].op, a.pc>> \notin SavedBefore /\ tree[a.id].op # "while"
    BY <1>2, <1>3, <1>4 DEF SavedBefore
  <2>. QED BY <2>1, NoSave
<1>7. Matches(nf, StartScope(tree, q, act.id, 2))
  <2>1. ScopeAt(tree, q, act) = EndScope(tree, q, act.id, 1)
    BY <1>2, OperandAt DEF ScopeAt
  <2>2. StartScope(tree, q, act.id, 2) = EndScope(tree, q, act.id, 1) BY <1>2, <1>3, ScopePath
  <2>. QED BY <1>1, <1>3, <2>1, <2>2, PlainStack
<1>8. /\ Frames(nf, b) /\ Fits(nf, b, m, act.depth0) /\ Counts(nf, b, act.depth0)
      /\ Alike(nf, b, nf, b, act.frames0) /\ m \in Machine /\ nf \in Seq(Nameframe)
  BY <1>1, <1>3, PlainStack
<1>. HIDE DEF ops, a
<1>. QED BY <1>1, <1>3, <1>5, <1>6, <1>7, <1>8, PlainGenOn DEF a

LEMMA TwoOperandsDoneOn ==
    ASSUME Inv, NEW s, Shaped(tree, s), Book(s), NEW q, Scoped(tree, s, q), NEW b, Stands(q, b),
           CaseBinary \/ CaseCompare \/ CaseShift \/ CaseDivMod \/ CaseSetMem
    PROVE  StackBook(q)'
<1>. DEFINE ops == TwoOperand \union {"compare"}
<1>1. PICK mm, u : At(ops, "right") /\ Finish(u, nf, mm) /\ SameStack(m, mm)
  <2>0. At(ops, "right") BY DEF CaseBinary, CaseCompare, CaseShift, CaseDivMod, CaseSetMem, At, TwoOperand
  <2>1. status = "run" /\ m \in Machine BY <2>0, AtFacts
  <2>2. \A ok : SameStack(m, Result(m, r1, act.id, ok)) BY <2>1, RegistersOnly
  <2>3. CASE CaseBinary BY <2>0, <2>2, <2>3 DEF CaseBinary
  <2>4. CASE CaseCompare BY <2>0, <2>2, <2>4 DEF CaseCompare
  <2>5. CASE CaseShift BY <2>0, <2>1, <2>5, ShiftKeeps DEF CaseShift
  <2>6. CASE CaseDivMod
    <3>. DEFINE w == IF node.op = "div" THEN RAX ELSE RDX
    <3>1. w \in Regs BY NamedRegs
    <3>. HIDE DEF w
    <3>2. SameStack(m, DivModCode(w)) BY <2>1, <3>1, DivModKeeps
    <3>3. Finish(Less(used, 1), nf, DivModCode(w)) BY <2>6 DEF CaseDivMod, w
    <3>. QED BY <2>0, <3>2, <3>3
  <2>7. CASE CaseSetMem BY <2>0, <2>2, <2>7 DEF CaseSetMem
  <2>. QED BY <2>3, <2>4, <2>5, <2>6, <2>7
<1>2. status = "run" /\ act.pc = "right" /\ node.op \in ops /\ tree[act.id] = node
  BY <1>1, AtFacts DEF node
<1>3. /\ "call" \notin ops /\ \A o \in ops : o \notin {"func"} \union OneOperand
      /\ \A o \in ops : <<o, "right">> \notin FrameOpen /\ o \in ScopeThrough
  BY DEF TwoOperand, OneOperand, FrameOpen, ScopeThrough
<1>4. Matches(nf, q.after[act.id])
  <2>1. ScopeAt(tree, q, act) = EndScope(tree, q, act.id, 2)
    <3>1. Operand(tree, act) = 2 BY <1>2, <1>3, OperandAt
    <3>. QED BY <1>2, <3>1 DEF ScopeAt
  <2>2. q.after[act.id] = Behind(tree, q, act.id) BY <1>1, AtScope
  <2>3. Behind(tree, q, act.id) = EndScope(tree, q, act.id, 2) BY <1>2, <1>3, BehindPath
  <2>. QED BY <1>1, <1>3, <2>1, <2>2, <2>3, PlainStack
<1>. QED BY <1>1, <1>3, <1>4, PlainFinishOn

LEMMA EvalOperandOn ==
    ASSUME Inv, NEW s, Shaped(tree, s), Book(s), NEW q, Scoped(tree, s, q),
           NEW b, Stands(q, b), EvalOperand
    PROVE  StackBook(q)'
<1>. DEFINE a == Resume("right")
            f == IF node.op = "var" THEN registerVar(nf, node.names[1], act.id, m.bp) ELSE nf
<1>1. At(OneOperand, "body") /\ Gen(Kid(1), a, used, f, m) BY DEF EvalOperand
<1>2. /\ status = "run" /\ act.pc = "body" /\ node.op \in OneOperand /\ tree[act.id] = node
      /\ act.id \in 1 .. Len(tree) /\ tree \in Programs
  BY <1>1, AtFacts DEF node
<1>3. /\ "call" \notin OneOperand
      /\ \A o \in OneOperand : o \notin {"tern", "while", "func", "call", "logic"}
      /\ \A o \in OneOperand : <<o, "body">> \notin FrameOpen /\ <<o, "right">> \notin FrameOpen
      /\ "right" \in PCs
  BY Openings DEF OneOperand, FrameOpen
<1>4. a.pc = "right" /\ a.id = act.id BY <1>2, <1>3, Resumed
<1>5. Operand(tree, a) = 1 /\ 1 \in Operands(tree, act.id)
  BY <1>2, <1>4, OperandAt, OperandSets
<1>6. SavedFits(tree, f, b, a)
  <2>1. <<tree[a.id].op, a.pc>> \notin SavedBefore /\ tree[a.id].op # "while"
    BY <1>2, <1>3, <1>4 DEF SavedBefore
  <2>. HIDE DEF f
  <2>. QED BY <2>1, NoSave
<1>7. /\ Frames(nf, b) /\ Fits(nf, b, m, act.depth0) /\ Counts(nf, b, act.depth0)
      /\ Alike(nf, b, nf, b, act.frames0) /\ m \in Machine /\ nf \in Seq(Nameframe)
      /\ Len(nf) = act.frames0 /\ act.frames0 \in Nat
      /\ Matches(nf, ScopeAt(tree, q, act))
  BY <1>1, <1>3, PlainStack
<1>8. Matches(nf, q.before[act.id])
  <2>1. ScopeAt(tree, q, act) = q.before[act.id] BY <1>2 DEF ScopeAt
  <2>. QED BY <1>7, <2>1
<1>9. /\ f \in Seq(Nameframe) /\ Len(f) = Len(nf) /\ Frames(f, b)
      /\ Alike(nf, b, f, b, act.frames0)
      /\ Fits(f, b, m, act.depth0) /\ Counts(f, b, act.depth0)
      /\ Matches(f, StartScope(tree, q, act.id, 1))
  <2>1. CASE node.op # "var"
    <3>1. f = nf BY <2>1
    <3>. HIDE DEF f
    <3>2. StartScope(tree, q, act.id, 1) = q.before[act.id] BY <1>2, <1>3, <2>1, ScopePath
    <3>. QED BY <1>7, <1>8, <3>1, <3>2
  <2>2. CASE node.op = "var"
    <3>. DEFINE x == node.names[1]  R == registerVar(nf, x, act.id, b[Len(nf)])
    <3>1. f = R BY <1>7, <2>2 DEF Fits
    <3>. HIDE DEF f
    <3>2. x \in Names /\ act.id \in Nat
      <4>1. tree[act.id].op = "var" BY <1>2, <2>2
      <4>2. tree[act.id].names[1] \in Names BY <1>2, <4>1, TreeFacts
      <4>3. act.id \in Nat BY <1>2, InvFacts
      <4>. QED BY <1>2, <4>2, <4>3
    <3>3. NodeScoped(tree, s, q, act.id) /\ q.before[act.id] \in Scope BY <1>1, AtScope
    <3>4. nf[Len(nf)].above < nf[Len(nf)].nSub BY <1>2, <1>8, <2>2, <3>3 DEF NodeScoped, Matches
    <3>5. StartScope(tree, q, act.id, 1) = Declare(q.before[act.id], x) BY <1>2, <2>2, ScopePath
    <3>. HIDE DEF x
    <3>6. /\ R \in Seq(Nameframe) /\ Len(R) = Len(nf)
          /\ \A i \in 1 .. Len(nf) - 1 : R[i] = nf[i]
          /\ \A i \in 1 .. Len(nf) : R[i].root = nf[i].root /\ R[i].nSub = nf[i].nSub
          /\ Frames(R, b)
          /\ \A mm, h : Fits(nf, b, mm, h) => Fits(R, b, mm, h)
          /\ \A h : Counts(nf, b, h) => Counts(R, b, h)
          /\ \A c \in Scope : Matches(nf, c) => Matches(R, Declare(c, x))
      BY <1>7, <3>2, <3>4, RegisterKeeps
    <3>. HIDE DEF R
    <3>7. Alike(nf, b, R, b, act.frames0)
      <4>1. act.frames0 <= Len(nf) /\ act.frames0 <= Len(R) BY <1>7, <3>6
      <4>. QED BY <1>7, <3>6, <4>1 DEF Alike
    <3>. QED BY <1>7, <1>8, <3>1, <3>3, <3>5, <3>6, <3>7
  <2>. QED BY <2>1, <2>2
<1>. HIDE DEF f, a
<1>. QED BY <1>1, <1>3, <1>5, <1>6, <1>7, <1>9, PlainGenOn DEF a

LEMMA OneOperandDoneOn ==
    ASSUME Inv, NEW s, Shaped(tree, s), Book(s), NEW q, Scoped(tree, s, q), NEW b, Stands(q, b),
           CaseUnary \/ CaseStore \/ CaseOut
    PROVE  StackBook(q)'
<1>1. At(OneOperand, "right")
  BY DEF CaseUnary, CaseStore, CaseOut, At, OneOperand
<1>2. /\ status = "run" /\ act.pc = "right" /\ node.op \in OneOperand /\ tree[act.id] = node
      /\ m \in Machine
  BY <1>1, AtFacts DEF node
<1>3. /\ "call" \notin OneOperand /\ \A o \in OneOperand : <<o, "right">> \notin FrameOpen
  BY DEF OneOperand, FrameOpen
<1>4. Frames(nf, b) /\ Fits(nf, b, m, act.depth0) /\ nf \in Seq(Nameframe)
      /\ Matches(nf, ScopeAt(tree, q, act))
  BY <1>1, <1>3, PlainStack
<1>5. Matches(nf, q.after[act.id])
  <2>1. ScopeAt(tree, q, act) = EndScope(tree, q, act.id, 1)
    <3>1. Operand(tree, act) = 1 BY <1>2, OperandAt
    <3>. QED BY <1>2, <3>1 DEF ScopeAt
  <2>2. q.after[act.id] = Behind(tree, q, act.id) BY <1>1, AtScope
  <2>3. Behind(tree, q, act.id) = EndScope(tree, q, act.id, 1) BY <1>2, BehindPath
  <2>. QED BY <1>4, <2>1, <2>2, <2>3
<1>6. PICK mm, u : Finish(u, nf, mm) /\ (Fits(nf, b, mm, act.depth0) \/ SameStack(m, mm))
  <2>1. CASE CaseUnary
    <3>1. \A ok : SameStack(m, Result(m, r1, act.id, ok)) BY <1>2, RegistersOnly
    <3>. QED BY <2>1, <3>1 DEF CaseUnary
  <2>2. CASE CaseStore
    <3>. DEFINE x == node.names[1]  mn == StoreVar(m, nf, x)
    <3>1. node.op \in {"set", "var"} BY <2>2 DEF CaseStore, At
    <3>2. NodeScoped(tree, s, q, act.id) BY <1>1, AtScope
    <3>3. x \in q.after[act.id].names BY <1>2, <3>1, <3>2 DEF NodeScoped
    <3>4. Declared(nf, x) BY <1>5, <3>3 DEF Matches
    <3>5. mn \in Machine BY <1>2, <1>4, StoreVarType
    <3>6. Fits(nf, b, mn, act.depth0) BY <1>2, <1>4, <3>4, StoreFits
    <3>7. \A ok : SameStack(mn, Result(mn, r1, act.id, ok)) BY <3>5, RegistersOnly
    <3>. DEFINE ok == Holds(m, r1, Kid(1))  mm == Result(mn, r1, act.id, ok)
    <3>8. Finish(used, nf, mm) BY <2>2 DEF CaseStore
    <3>. HIDE DEF mn, ok
    <3>9. Fits(nf, b, mm, act.depth0) BY <3>6, <3>7, SameFits
    <3>. HIDE DEF mm
    <3>. QED BY <3>8, <3>9
  <2>3. CASE CaseOut BY <1>2, <2>3, OutKeeps DEF CaseOut
  <2>. QED BY <2>1, <2>2, <2>3
<1>. QED BY <1>1, <1>3, <1>5, <1>6, PlainFinishOn

LEMMA LeafOn ==
    ASSUME Inv, NEW s, Shaped(tree, s), Book(s), NEW q, Scoped(tree, s, q), NEW b, Stands(q, b),
           CaseIn \/ CaseNumberAddr \/ CaseIdent \/ CaseIncDec
    PROVE  StackBook(q)'
<1>1. At(Leaves, "body")
  BY DEF CaseIn, CaseNumberAddr, CaseIdent, CaseIncDec, Leaves, At
<1>2. /\ status = "run" /\ act.pc = "body" /\ node.op \in Leaves /\ tree[act.id] = node
      /\ m \in Machine
  BY <1>1, AtFacts DEF node
<1>3. /\ "call" \notin Leaves /\ \A o \in Leaves : <<o, "body">> \notin FrameOpen
      /\ \A o \in Leaves : o \notin ScopeThrough \union OneOperand \union {"tern", "call"}
  BY Openings DEF Leaves, ScopeThrough, TwoOperand, OneOperand
<1>4. Frames(nf, b) /\ Fits(nf, b, m, act.depth0) /\ nf \in Seq(Nameframe)
      /\ Matches(nf, ScopeAt(tree, q, act))
  BY <1>1, <1>3, PlainStack
<1>5. Matches(nf, q.after[act.id])
  <2>1. ScopeAt(tree, q, act) = q.before[act.id] BY <1>2 DEF ScopeAt
  <2>2. q.after[act.id] = Behind(tree, q, act.id) BY <1>1, AtScope
  <2>3. Behind(tree, q, act.id) = q.before[act.id] BY <1>2, <1>3, BehindPath
  <2>. QED BY <1>4, <2>1, <2>2, <2>3
<1>6. PICK mm, u : Finish(u, nf, mm) /\ (Fits(nf, b, mm, act.depth0) \/ SameStack(m, mm))
  <2>1. \A ok : SameStack(m, Result(m, r1, act.id, ok)) BY <1>2, RegistersOnly
  <2>2. CASE CaseIn BY <1>2, <2>2, InKeeps DEF CaseIn
  <2>3. CASE CaseNumberAddr BY <2>1, <2>3 DEF CaseNumberAddr
  <2>4. CASE CaseIdent BY <2>1, <2>4 DEF CaseIdent
  <2>5. CASE CaseIncDec
    <3>. DEFINE x == node.names[1]  ok == Readable(m, nf, x)  a == Result(m, r1, act.id, ok)
                c == IF node.op = "post" THEN Mov(a, r2, Junk) ELSE a
                mn == StoreVar(c, nf, x)
    <3>1. node.op \in {"post", "pre"} BY <2>5 DEF CaseIncDec, At
    <3>2. NodeScoped(tree, s, q, act.id) BY <1>1, AtScope
    <3>3. x \in q.after[act.id].names BY <1>2, <3>1, <3>2 DEF NodeScoped
    <3>4. Declared(nf, x) BY <1>5, <3>3 DEF Matches
    <3>5. a \in Machine /\ SameStack(m, a)
      <4>1. act.id \in Nat /\ r1 \in Regs BY <1>2, InvFacts, RegFacts
      <4>2. ok \in BOOLEAN BY DEF Readable
      <4>. HIDE DEF ok
      <4>. QED BY <1>2, <2>1, <4>1, <4>2, ResultType
    <3>6. Finish(used + 1, nf, mn) BY <2>5 DEF CaseIncDec
    <3>. HIDE DEF a, x
    <3>7. c \in Machine /\ SameStack(m, c)
      <4>1. r2 \in Regs BY <1>2, RegFacts
      <4>2. Junk \in Token BY Tokens
      <4>3. Mov(a, r2, Junk) \in Machine BY <3>5, <4>1, <4>2, MovType
      <4>4. SameStack(a, Mov(a, r2, Junk)) BY <3>5, RegistersOnly
      <4>. QED BY <3>5, <4>3, <4>4, SameTwice
    <3>. HIDE DEF c
    <3>8. Fits(nf, b, c, act.depth0) BY <1>4, <3>7, SameFits
    <3>9. Fits(nf, b, mn, act.depth0) BY <1>4, <3>4, <3>7, <3>8, StoreFits
    <3>. HIDE DEF mn
    <3>. QED BY <3>6, <3>9
  <2>. QED BY <2>2, <2>3, <2>4, <2>5
<1>. QED BY <1>1, <1>3, <1>5, <1>6, PlainFinishOn

-----------------------------------------------------------------------------
(* Control flow without frames: ENDL, LAND and LOR.                        *)

\* What a step knows at a place where the frame is the one the node was found in.
LEMMA PlainPoint ==
    ASSUME Inv, NEW s, Shaped(tree, s), Book(s), NEW q, Scoped(tree, s, q), NEW b, Stands(q, b),
           NEW op, op # "call", NEW p, p # "enter", <<op, p>> \notin FrameOpen, At({op}, p)
    PROVE  /\ status = "run" /\ act.pc = p /\ act.id # 0 /\ act.id \in 1 .. Len(tree)
           /\ node = tree[act.id] /\ node.op = op /\ r1 = act.used0
           /\ used = InUse(tree, s, act) /\ act.used0 = s.dep[act.id] /\ act.used0 \in 0 .. 10
           /\ NodeScoped(tree, s, q, act.id) /\ q.after[act.id] = Behind(tree, q, act.id)
           /\ Frames(nf, b) /\ Fits(nf, b, m, act.depth0) /\ Counts(nf, b, act.depth0)
           /\ Alike(nf, b, nf, b, act.frames0) /\ m \in Machine /\ nf \in Seq(Nameframe)
           /\ Len(nf) = act.frames0 /\ act.frames0 \in Nat /\ act.frames0 # 0 /\ act.depth0 \in Nat
           /\ act.depth0 >= b[act.frames0] + nf[act.frames0].nSub
           /\ act.pushed = 0 /\ SavedFits(tree, nf, b, act)
           /\ Matches(nf, ScopeAt(tree, q, act))
<1>1. /\ status = "run" /\ act.pc = p /\ act.id # 0 /\ act.id \in 1 .. Len(tree)
      /\ node = tree[act.id] /\ node.op = op /\ r1 = act.used0
      /\ used = InUse(tree, s, act) /\ act.used0 = s.dep[act.id] /\ act.used0 \in 0 .. 10
  BY SingleOp
<1>2. NodeScoped(tree, s, q, act.id) /\ q.after[act.id] = Behind(tree, q, act.id) BY AtScope
<1>3. /\ Frames(nf, b) /\ Fits(nf, b, m, act.depth0) /\ Counts(nf, b, act.depth0)
      /\ Alike(nf, b, nf, b, act.frames0) /\ m \in Machine /\ nf \in Seq(Nameframe)
      /\ Len(nf) = act.frames0 /\ act.frames0 \in Nat /\ act.depth0 \in Nat /\ act.pushed = 0
      /\ Matches(nf, ScopeAt(tree, q, act))
  BY PlainStack
<1>4. act.depth0 >= b[act.frames0] + nf[act.frames0].nSub /\ SavedFits(tree, nf, b, act)
  BY <1>1, StandsFacts DEF ActStack
<1>5. act.frames0 # 0 BY <1>1, InvFacts
<1>. QED BY <1>1, <1>2, <1>3, <1>4, <1>5

LEMMA ScopeEnds ==
    ASSUME NEW q, NEW k
    PROVE  EndScope(tree, q, act.id, k) =
               IF Kid(k) = 0 THEN StartScope(tree, q, act.id, k) ELSE q.after[Kid(k)]
BY DEF EndScope, Kid, KidOf

\* A compiler that stops asks nothing of the stack.
LEMMA StopOn ==
    ASSUME NEW q, NEW why \in {"assert", "crash"}, Stop(why)
    PROVE  StackBook(q)'
BY DEF Stop, StackBook

LEMMA EndlOn ==
    ASSUME Inv, NEW s, Shaped(tree, s), Book(s), NEW q, Scoped(tree, s, q),
           NEW b, Stands(q, b), Endl
    PROVE  StackBook(q)'
<1>. DEFINE ops == {"endl"}
<1>a. /\ \A p : <<"endl", p>> \notin FrameOpen /\ \A o \in ops : <<o, p>> \notin FrameOpen
      /\ "left" \in PCs /\ "right" \in PCs /\ "call" \notin ops
      /\ "endl" \notin OneOperand \union {"func", "tern", "call", "var", "while"}
      /\ "endl" \in ScopeThrough
  BY Openings DEF FrameOpen, OneOperand, ScopeThrough
<1>b. ASSUME NEW p \in {"body", "left", "right"}, At(ops, p)
      PROVE  /\ status = "run" /\ act.pc = p /\ act.id # 0
             /\ node = tree[act.id] /\ node.op = "endl"
             /\ q.after[act.id] = Behind(tree, q, act.id)
             /\ Frames(nf, b) /\ Fits(nf, b, m, act.depth0) /\ Counts(nf, b, act.depth0)
             /\ Alike(nf, b, nf, b, act.frames0) /\ m \in Machine /\ nf \in Seq(Nameframe)
             /\ Matches(nf, ScopeAt(tree, q, act)) /\ Operands(tree, act.id) = {1, 2}
  <2>1. p # "enter" /\ At({"endl"}, p) /\ "endl" # "call" /\ <<"endl", p>> \notin FrameOpen
    BY <1>a, <1>b
  <2>2. node = tree[act.id] /\ node.op = "endl" BY <2>1, PlainPoint
  <2>3. Operands(tree, act.id) = {1, 2} BY <2>2, OperandSets
  <2>4. /\ status = "run" /\ act.pc = p /\ act.id # 0
        /\ q.after[act.id] = Behind(tree, q, act.id)
        /\ Frames(nf, b) /\ Fits(nf, b, m, act.depth0) /\ Counts(nf, b, act.depth0)
        /\ Alike(nf, b, nf, b, act.frames0) /\ m \in Machine /\ nf \in Seq(Nameframe)
        /\ Matches(nf, ScopeAt(tree, q, act))
    BY <2>1, PlainPoint
  <2>. QED BY <2>2, <2>3, <2>4
<1>1. ASSUME At(ops, "body"), Gen(Kid(1), Resume("left"), used, nf, m) PROVE StackBook(q)'
  <2>. DEFINE a == Resume("left")
  <2>1. status = "run" /\ act.pc = "body" /\ node.op = "endl" /\ node = tree[act.id] /\ 1 \in Operands(tree, act.id) BY <1>1, <1>b
  <2>2. a.pc = "left" /\ a.id = act.id BY <1>a, <2>1, Resumed
  <2>3. 1 = Operand(tree, a) BY <2>2, OperandAt
  <2>4. Matches(nf, StartScope(tree, q, act.id, 1))
    <3>1. StartScope(tree, q, act.id, 1) = q.before[act.id] BY <1>a, <2>1, ScopePath
    <3>2. ScopeAt(tree, q, act) = q.before[act.id] BY <2>1 DEF ScopeAt
    <3>. QED BY <1>1, <1>b, <3>1, <3>2
  <2>5. SavedFits(tree, nf, b, a)
    <3>1. <<tree[a.id].op, a.pc>> \notin SavedBefore /\ a.pc # "right" BY <2>2 DEF SavedBefore
    <3>. QED BY <3>1, NoSave
  <2>. HIDE DEF a, ops
  <2>6. a = Resume("left") BY DEF a
  <2>7. Gen(Kid(1), a, used, nf, m) BY <1>1, <2>6
  <2>8. /\ Frames(nf, b) /\ Fits(nf, b, m, act.depth0) /\ Counts(nf, b, act.depth0)
        /\ Alike(nf, b, nf, b, act.frames0) /\ m \in Machine /\ nf \in Seq(Nameframe)
    BY <1>1, <1>b
  <2>. QED BY <1>1, <1>a, <2>1, <2>3, <2>4, <2>5, <2>6, <2>7, <2>8, PlainGenOn
<1>2. ASSUME At(ops, "left"), Kid(2) = 0, NEW mm, SameStack(m, mm), Finish(used, nf, mm)
      PROVE  StackBook(q)'
  <2>1. Operand(tree, act) = 1 /\ act.pc = "left" /\ node.op = "endl" /\ node = tree[act.id]
    <3>1. act.pc = "left" /\ node.op = "endl" /\ node = tree[act.id] BY <1>2, <1>b
    <3>. QED BY <3>1, OperandAt
  <2>2. ScopeAt(tree, q, act) = EndScope(tree, q, act.id, 1) BY <2>1 DEF ScopeAt
  <2>3. EndScope(tree, q, act.id, 2) = StartScope(tree, q, act.id, 2) BY <1>2, ScopeEnds
  <2>4. StartScope(tree, q, act.id, 2) = EndScope(tree, q, act.id, 1) BY <1>a, <2>1, ScopePath
  <2>5. Behind(tree, q, act.id) = EndScope(tree, q, act.id, 2) BY <1>a, <2>1, BehindPath
  <2>. HIDE DEF ops
  <2>6. Matches(nf, q.after[act.id]) BY <1>2, <1>b, <2>2, <2>3, <2>4, <2>5
  <2>. QED BY <1>2, <1>a, <2>6, PlainFinishOn
<1>3. ASSUME At(ops, "left"), NEW u, Gen(Kid(2), Resume("right"), u, nf, m)
      PROVE  StackBook(q)'
  <2>. DEFINE a == Resume("right")
  <2>1. status = "run" /\ act.pc = "left" /\ node.op = "endl" /\ node = tree[act.id] /\ 2 \in Operands(tree, act.id) BY <1>3, <1>b
  <2>2. a.pc = "right" /\ a.id = act.id BY <1>a, <2>1, Resumed
  <2>3. 2 = Operand(tree, a) BY <1>a, <2>1, <2>2, OperandAt
  <2>4. Matches(nf, StartScope(tree, q, act.id, 2))
    <3>1. StartScope(tree, q, act.id, 2) = EndScope(tree, q, act.id, 1) BY <1>a, <2>1, ScopePath
    <3>2. Operand(tree, act) = 1 BY <2>1, OperandAt
    <3>3. ScopeAt(tree, q, act) = EndScope(tree, q, act.id, 1) BY <2>1, <3>2 DEF ScopeAt
    <3>. QED BY <1>3, <1>b, <3>1, <3>3
  <2>5. SavedFits(tree, nf, b, a)
    <3>1. <<tree[a.id].op, a.pc>> \notin SavedBefore /\ tree[a.id].op # "while"
      BY <2>1, <2>2 DEF SavedBefore
    <3>. QED BY <3>1, NoSave
  <2>. HIDE DEF a, ops
  <2>6. a = Resume("right") BY DEF a
  <2>7. Gen(Kid(2), a, u, nf, m) BY <1>3, <2>6
  <2>8. /\ Frames(nf, b) /\ Fits(nf, b, m, act.depth0) /\ Counts(nf, b, act.depth0)
        /\ Alike(nf, b, nf, b, act.frames0) /\ m \in Machine /\ nf \in Seq(Nameframe)
    BY <1>3, <1>b
  <2>. QED BY <1>3, <1>a, <2>1, <2>3, <2>4, <2>5, <2>6, <2>7, <2>8, PlainGenOn
<1>4. ASSUME At(ops, "right"), NEW mm, SameStack(m, mm), Finish(used, nf, mm) PROVE StackBook(q)'
  <2>1. act.pc = "right" /\ node.op = "endl" /\ node = tree[act.id] BY <1>4, <1>b
  <2>2. Operand(tree, act) = 2 BY <1>a, <2>1, OperandAt
  <2>3. ScopeAt(tree, q, act) = EndScope(tree, q, act.id, 2) BY <2>1, <2>2 DEF ScopeAt
  <2>4. Behind(tree, q, act.id) = EndScope(tree, q, act.id, 2) BY <1>a, <2>1, BehindPath
  <2>. HIDE DEF ops
  <2>5. Matches(nf, q.after[act.id]) BY <1>4, <1>b, <2>3, <2>4
  <2>. QED BY <1>4, <1>a, <2>5, PlainFinishOn
<1>5. ASSUME m \in Machine PROVE \A ok : SameStack(m, Result(m, r1, act.id, ok)) BY <1>5, RegistersOnly
<1>6. m \in Machine BY AtFacts DEF Endl
<1>7. CASE At({"endl"}, "left") /\ Kid(2) # 0
           /\ IF Less(used, 1) = 0 THEN Gen(Kid(2), Resume("right"), 0, nf, m) ELSE Stop("assert")
  BY <1>3, <1>7, StopOn
<1>. QED BY <1>1, <1>2, <1>4, <1>5, <1>6, <1>7 DEF Endl

\* The frames of a node, cut where they end.
LEMMA CutHere ==
    ASSUME NEW f \in Seq(Nameframe), NEW b, Frames(f, b)
    PROVE  Cut(f, Len(f)) = f /\ Cut(b, Len(f)) = b
<1>1. b \in Seq(Nat) /\ Len(b) = Len(f) BY FramesParts
<1>. QED BY <1>1, CutAll

LEMMA LogicOn ==
    ASSUME Inv, NEW s, Shaped(tree, s), Book(s), NEW q, Scoped(tree, s, q),
           NEW b, Stands(q, b), Logic
    PROVE  StackBook(q)'
<1>. DEFINE ops == {"logic"}
<1>a. /\ \A p : <<"logic", p>> \notin FrameOpen /\ \A o \in ops : <<o, p>> \notin FrameOpen
      /\ "left" \in PCs /\ "right" \in PCs /\ "call" \notin ops
      /\ "logic" \notin OneOperand \union {"func", "tern", "call", "var", "while"}
      /\ "logic" \in ScopeThrough
  BY Openings DEF FrameOpen, OneOperand, ScopeThrough
<1>b. ASSUME NEW p \in {"body", "left", "right"}, At(ops, p)
      PROVE  /\ status = "run" /\ act.pc = p /\ act.id # 0
             /\ node = tree[act.id] /\ node.op = "logic"
             /\ q.after[act.id] = Behind(tree, q, act.id)
             /\ Frames(nf, b) /\ Fits(nf, b, m, act.depth0) /\ Counts(nf, b, act.depth0)
             /\ Alike(nf, b, nf, b, act.frames0) /\ m \in Machine /\ nf \in Seq(Nameframe)
             /\ Matches(nf, ScopeAt(tree, q, act)) /\ Operands(tree, act.id) = {1, 2}
             /\ Len(nf) = act.frames0 /\ SavedFits(tree, nf, b, act)
             /\ Cut(nf, act.frames0) = nf /\ Cut(b, act.frames0) = b
  <2>1. p # "enter" /\ At({"logic"}, p) /\ "logic" # "call" /\ <<"logic", p>> \notin FrameOpen
    BY <1>a, <1>b
  <2>2. node = tree[act.id] /\ node.op = "logic" BY <2>1, PlainPoint
  <2>3. Operands(tree, act.id) = {1, 2} BY <2>2, OperandSets
  <2>. HIDE DEF ops
  <2>4. /\ status = "run" /\ act.pc = p /\ act.id # 0
        /\ q.after[act.id] = Behind(tree, q, act.id)
        /\ Frames(nf, b) /\ Fits(nf, b, m, act.depth0) /\ Counts(nf, b, act.depth0)
        /\ Alike(nf, b, nf, b, act.frames0) /\ m \in Machine /\ nf \in Seq(Nameframe)
        /\ Matches(nf, ScopeAt(tree, q, act))
        /\ Len(nf) = act.frames0 /\ SavedFits(tree, nf, b, act)
    BY <2>1, PlainPoint
  <2>5. Cut(nf, act.frames0) = nf /\ Cut(b, act.frames0) = b BY <2>4, CutHere
  <2>. QED BY <2>2, <2>3, <2>4, <2>5
<1>1. ASSUME At(ops, "body"), Gen(Kid(1), Resume("left"), used, nf, m) PROVE StackBook(q)'
  <2>. DEFINE a == Resume("left")
  <2>1. status = "run" /\ act.pc = "body" /\ node.op = "logic" /\ node = tree[act.id] /\ 1 \in Operands(tree, act.id) BY <1>1, <1>b
  <2>2. a.pc = "left" /\ a.id = act.id BY <1>a, <2>1, Resumed
  <2>3. 1 = Operand(tree, a) BY <2>2, OperandAt
  <2>4. Matches(nf, StartScope(tree, q, act.id, 1))
    <3>1. StartScope(tree, q, act.id, 1) = q.before[act.id] BY <1>a, <2>1, ScopePath
    <3>2. ScopeAt(tree, q, act) = q.before[act.id] BY <2>1 DEF ScopeAt
    <3>. QED BY <1>1, <1>b, <3>1, <3>2
  <2>5. SavedFits(tree, nf, b, a)
    <3>1. <<tree[a.id].op, a.pc>> \notin SavedBefore /\ a.pc # "right" BY <2>2 DEF SavedBefore
    <3>. QED BY <3>1, NoSave
  <2>. HIDE DEF a, ops
  <2>6. a = Resume("left") BY DEF a
  <2>7. Gen(Kid(1), a, used, nf, m) BY <1>1, <2>6
  <2>8. /\ Frames(nf, b) /\ Fits(nf, b, m, act.depth0) /\ Counts(nf, b, act.depth0)
        /\ Alike(nf, b, nf, b, act.frames0) /\ m \in Machine /\ nf \in Seq(Nameframe)
    BY <1>1, <1>b
  <2>. QED BY <1>1, <1>a, <2>1, <2>3, <2>4, <2>5, <2>6, <2>7, <2>8, PlainGenOn
<1>2. ASSUME At(ops, "left"), NEW ok \in BOOLEAN, NEW u, Gen(Kid(2), Fork("right", ok, m), u, nf, m)
      PROVE  StackBook(q)'
  <2>. DEFINE a == Fork("right", ok, m)
  <2>1. /\ status = "run" /\ act.pc = "left" /\ node.op = "logic" /\ node = tree[act.id]
        /\ 2 \in Operands(tree, act.id) /\ act.id # 0 /\ m \in Machine
    BY <1>2, <1>b
  <2>2. a.pc = "right" /\ a.id = act.id /\ a.frames0 = act.frames0
    <3>1. ok \in BOOLEAN /\ "right" \in PCs BY <1>2, <1>a
    <3>2. Forking("right", ok, m) BY <2>1, <3>1 DEF Forking
    <3>3. ForkedTo("right", a) BY <3>2, ForkedAt
    <3>. QED BY <3>3 DEF ForkedTo
  <2>3. a.save = m /\ a.depth0 = act.depth0 BY <1>2, <1>a, <2>1, PlacedToo
  <2>4. 2 = Operand(tree, a) BY <1>a, <2>1, <2>2, OperandAt
  <2>5. Matches(nf, StartScope(tree, q, act.id, 2))
    <3>1. StartScope(tree, q, act.id, 2) = EndScope(tree, q, act.id, 1) BY <1>a, <2>1, ScopePath
    <3>2. Operand(tree, act) = 1 BY <2>1, OperandAt
    <3>3. ScopeAt(tree, q, act) = EndScope(tree, q, act.id, 1) BY <2>1, <3>2 DEF ScopeAt
    <3>. QED BY <1>2, <1>b, <3>1, <3>3
  <2>. HIDE DEF a, ops
  <2>6. a = Fork("right", ok, m) BY DEF a
  <2>7. Gen(Kid(2), a, u, nf, m) BY <1>2, <2>6
  <2>8. /\ Frames(nf, b) /\ Fits(nf, b, m, act.depth0) /\ Counts(nf, b, act.depth0)
        /\ Alike(nf, b, nf, b, act.frames0) /\ m \in Machine /\ nf \in Seq(Nameframe)
        /\ Cut(nf, act.frames0) = nf /\ Cut(b, act.frames0) = b
    BY <1>2, <1>b
  <2>9. SavedFits(tree, nf, b, a)
    <3>1. tree[a.id].op # "while" BY <2>1, <2>2
    <3>. QED BY <2>2, <2>3, <2>8, <3>1 DEF SavedFits
  <2>. QED BY <1>2, <1>a, <2>1, <2>4, <2>5, <2>6, <2>7, <2>8, <2>9, PlainGenOn
<1>3. ASSUME At(ops, "right"), NEW mm \in {act.save, m}, NEW mn, SameStack(mm, mn),
             Finish(used, nf, mn)
      PROVE  StackBook(q)'
  <2>1. act.pc = "right" /\ node.op = "logic" /\ node = tree[act.id] /\ act.id # 0 BY <1>3, <1>b
  <2>2. Operand(tree, act) = 2 BY <1>a, <2>1, OperandAt
  <2>3. ScopeAt(tree, q, act) = EndScope(tree, q, act.id, 2) BY <2>1, <2>2 DEF ScopeAt
  <2>4. Behind(tree, q, act.id) = EndScope(tree, q, act.id, 2) BY <1>a, <2>1, BehindPath
  <2>. HIDE DEF ops
  <2>5. Matches(nf, q.after[act.id]) BY <1>3, <1>b, <2>3, <2>4
  <2>6. Fits(nf, b, act.save, act.depth0)
    <3>1. SavedFits(tree, nf, b, act) /\ Cut(nf, act.frames0) = nf /\ Cut(b, act.frames0) = b
      BY <1>3, <1>b
    <3>2. <<tree[act.id].op, act.pc>> \in SavedBefore BY <2>1 DEF SavedBefore
    <3>. QED BY <2>1, <3>1, <3>2 DEF SavedFits
  <2>7. Fits(nf, b, m, act.depth0) BY <1>3, <1>b
  <2>8. Fits(nf, b, mn, act.depth0) BY <1>3, <2>6, <2>7, SameFits
  <2>. QED BY <1>3, <1>a, <2>5, <2>8, PlainFinishOn
<1>4. ASSUME NEW mm \in {act.save, m} PROVE \A ok : SameStack(mm, Result(mm, r1, act.id, ok))
  <2>1. status = "run" BY DEF Logic, At
  <2>2. mm \in Machine BY <1>4, <2>1, RegFacts, InvFacts DEF Types
  <2>. QED BY <2>2, RegistersOnly
<1>5. Holds(m, r1, Kid(1)) \in BOOLEAN BY DEF Holds
<1>6. CASE At({"logic"}, "right") /\ \E mm \in {act.save, m} :
              Finish(used, nf, Result(mm, r1, act.id, act.ok /\ Holds(m, r1, Kid(2))))
  <2>1. PICK mm \in {act.save, m} :
           Finish(used, nf, Result(mm, r1, act.id, act.ok /\ Holds(m, r1, Kid(2))))
    BY <1>6
  <2>2. SameStack(mm, Result(mm, r1, act.id, act.ok /\ Holds(m, r1, Kid(2)))) BY <1>4
  <2>. QED BY <1>3, <1>6, <2>1, <2>2
<1>. QED BY <1>1, <1>2, <1>5, <1>6 DEF Logic

-----------------------------------------------------------------------------
(* Control flow with frames: ?: and while.                                 *)

LEMMA AlikeTwice ==
    ASSUME NEW f, NEW b, NEW g, NEW c, NEW h, NEW d, NEW k,
           Alike(f, b, g, c, k), Alike(g, c, h, d, k)
    PROVE  Alike(f, b, h, d, k)
BY DEF Alike

\* A frame is opened and codeGen is called in it.
LEMMA InFrameOn ==
    ASSUME Inv, NEW s, Book(s), status = "run", NEW q, NEW b, Stands(q, b),
           NEW a \in Activation, a.id = act.id, a.id # 0, a.frames0 = act.frames0,
           a.depth0 = act.depth0, a.pushed = 0, opened(tree, a) = 1, tree[a.id].op # "func",
           NEW f \in Seq(Nameframe), NEW c, Frames(f, c), Len(f) = act.frames0,
           Alike(nf, b, f, c, act.frames0), NEW mm \in Machine, Fits(f, c, mm, act.depth0),
           Counts(f, c, act.depth0), Matches(f, q.after[act.id]),
           a.pc # "right",
           <<tree[a.id].op, a.pc>> \in SavedBefore => Fits(f, c, a.save, act.depth0),
           NEW o \in 1 .. Len(tree), NEW S, \A x \in S : Declared(f, x),
           StartScope(tree, q, a.id, Operand(tree, a)) = Fresh(frameWords(tree, o), S),
           NEW k, k # 0 => q.before[k] = StartScope(tree, q, a.id, Operand(tree, a)),
           NEW u, GenInFrame(k, u, o, a, 0, f, mm)
    PROVE  StackBook(q)'
<1>. DEFINE n == Len(f)  w == frameWords(tree, o)  h == act.depth0
            O == OpenFrame(f, 0, w)  C == Append(c, h + 1)  mn == EnterFrame(mm, 0, w)
<1>1. tree \in Programs /\ Len(tree) \in Nat /\ h \in Nat /\ act.frames0 \in Nat /\ act.frames0 # 0
  <2>1. Types /\ act.frames0 \in Nat \ {0} BY InvFacts
  <2>2. tree \in Programs BY <2>1 DEF Types
  <2>. QED BY <2>1, <2>2, TreeFacts, StandsFacts
<1>2. w \in Nat BY <1>1, FrameWordsType
<1>3. Gen(k, a, u, O, mn)
  <2>1. ~ (o = 0) /\ ~ (0 > regStackSz) BY <1>1 DEF regStackSz
  <2>. QED BY <2>1 DEF GenInFrame
<1>. HIDE DEF w
<1>4. mn \in Machine BY <1>2, EnterFrameParts
<1>5. h >= c[n] + f[n].nSub BY CountsAbove
<1>6. /\ O \in Seq(Nameframe) /\ Len(O) = n + 1 /\ Frames(O, C)
      /\ Fits(O, C, mn, h + 1 + w) /\ Counts(O, C, h + 1 + w)
      /\ C[n + 1] = h + 1 /\ O[n + 1].nSub = w /\ ~ O[n + 1].root
      /\ O[n].pushed = h + 1 - c[n] - f[n].nSub
      /\ Alike(f, c, O, C, n)
      /\ Cut(O, n) = Pushed(f, 1) /\ Cut(C, n) = c
      /\ \A T : (\A x \in T : Declared(f, x)) => Matches(O, Fresh(w, T))
  <2>1. OpenedOn(f, c, O, C, mn, h, w)
    <3>. HIDE DEF h
    <3>1. h \in Nat /\ Fits(f, c, mm, h) /\ Counts(f, c, h) BY <1>1 DEF h
    <3>. QED BY <1>2, <3>1, OpenKeeps
  <2>. HIDE DEF h, O, C, mn
  <2>. QED BY <2>1 DEF OpenedOn
<1>7. Matches(O, Fresh(w, S)) BY <1>6
<1>. HIDE DEF O, C, mn
<1>8. C[n] = c[n] /\ O[n].nSub = f[n].nSub
  <2>1. n \in 1 .. n BY <1>1
  <2>. QED BY <1>6, <2>1 DEF Alike
<1>9. Alike(nf, b, O, C, act.frames0) BY <1>6, AlikeTwice
<1>10. Depth(tree, O, C, a) = h + 1 + w BY <1>6 DEF Depth
<1>11. On(tree, O, C, a, mn) BY <1>6, <1>10 DEF On
<1>12. /\ \A x, y : Fits(f, c, x, y) => Fits(Pushed(f, 1), c, x, y)
       /\ \A x : Matches(f, x) => Matches(Pushed(f, 1), x)
  <2>1. 1 \in Int OBVIOUS
  <2>. QED BY <2>1, PushedKeeps
<1>13. ActStack(tree, q, O, C, a)
  <2>1. OpenedAt(tree, q, O, C, a) BY <1>6, <1>8, <1>12 DEF OpenedAt
  <2>2. SavedFits(tree, O, C, a) BY <1>6, <1>12 DEF SavedFits
  <2>. QED BY <1>1, <1>5, <1>8, <2>1, <2>2 DEF ActStack
<1>14. Len(O) = a.frames0 + opened(tree, a) BY <1>6
<1>15. Matches(O, StartScope(tree, q, a.id, Operand(tree, a))) BY <1>7 DEF w
<1>. QED BY <1>3, <1>4, <1>6, <1>9, <1>11, <1>13, <1>14, <1>15, GenOn

\* At a place in a frame of its own: what closing it gives back.
LEMMA ClosePoint ==
    ASSUME Inv, status = "run", NEW q, NEW b, Stands(q, b), opened(tree, act) = 1
    PROVE  LET g == CloseFrame(nf)
               c == Cut(b, act.frames0)
           IN  /\ g \in Seq(Nameframe) /\ Len(g) = act.frames0 /\ Frames(g, c)
               /\ Counts(g, c, act.depth0) /\ Alike(nf, b, g, c, act.frames0)
               /\ Matches(g, q.after[act.id]) /\ ClosedUsed(nf) = 0
               /\ \A mm : LeaveFrame(nf, mm) = Unwind(mm)
               /\ \A mn : Fits(Cut(nf, act.frames0), c, mn, act.depth0) => Fits(g, c, mn, act.depth0)
               /\ tree[act.id].op # "func" =>
                     \A mm \in Machine : \A h : Fits(nf, b, mm, h) =>
                        Unwind(mm) \in Machine /\ Fits(g, c, Unwind(mm), act.depth0)
<1>. DEFINE r == act.frames0  d == act.depth0
<1>1. /\ Frames(nf, b) /\ nf \in Seq(Nameframe) /\ ActStack(tree, q, nf, b, act)
      /\ d \in Nat /\ d >= b[r] + nf[r].nSub
  BY StandsFacts
<1>2. r \in Nat /\ r # 0 /\ Len(nf) = r + 1 BY InvFacts
<1>3. /\ nf[r].pushed = d + 1 - b[r] - nf[r].nSub
      /\ Matches(Cut(nf, r), q.after[act.id])
      /\ nf[r + 1].root <=> tree[act.id].op = "func"
  BY <1>1 DEF ActStack, OpenedAt
<1>. HIDE DEF r, d
<1>4. /\ CloseFrame(nf) \in Seq(Nameframe) /\ Len(CloseFrame(nf)) = r
      /\ Frames(CloseFrame(nf), Cut(b, r))
      /\ Counts(CloseFrame(nf), Cut(b, r), d) /\ Alike(nf, b, CloseFrame(nf), Cut(b, r), r)
      /\ \A mn, h : Fits(Cut(nf, r), Cut(b, r), mn, h) => Fits(CloseFrame(nf), Cut(b, r), mn, h)
      /\ \A S : Matches(Cut(nf, r), S) => Matches(CloseFrame(nf), S)
      /\ \A mm : LeaveFrame(nf, mm) = Unwind(mm)
      /\ ClosedUsed(nf) = 0
  BY <1>1, <1>2, <1>3, CutKeeps
<1>5. ASSUME tree[act.id].op # "func", NEW mm \in Machine, NEW h, Fits(nf, b, mm, h)
      PROVE  Unwind(mm) \in Machine /\ Fits(CloseFrame(nf), Cut(b, r), Unwind(mm), d)
  BY <1>1, <1>2, <1>3, <1>5, CloseFits
<1>. QED BY <1>3, <1>4, <1>5 DEF r, d

\* mov r1, rax; closeFrame: an arm leaves the stack as it was before its frame.
LEMMA ArmFits ==
    ASSUME Inv, status = "run", NEW q, NEW b, Stands(q, b), opened(tree, act) = 1,
           tree[act.id].op # "func", NEW k, NEW ok \in BOOLEAN
    PROVE  /\ ArmResult(k, ok) \in Machine
           /\ Fits(CloseFrame(nf), Cut(b, act.frames0), ArmResult(k, ok), act.depth0)
<1>. DEFINE good == ok /\ Holds(m, RAX, k)  x == Result(m, r1, act.id, good)
<1>1. /\ Fits(nf, b, m, Depth(tree, nf, b, act)) /\ nf # <<>> /\ m \in Machine
  BY StandsFacts, InvFacts DEF Types
<1>2. ArmResult(k, ok) = LeaveFrame(nf, x) BY DEF ArmResult
<1>3. good \in BOOLEAN BY DEF Holds
<1>4. act.id \in Nat /\ r1 \in Regs BY InvFacts, RegFacts
<1>. HIDE DEF good
<1>5. x \in Machine BY <1>1, <1>3, <1>4, ResultType
<1>6. SameStack(m, x) BY <1>1, RegistersOnly
<1>. HIDE DEF x
<1>7. Fits(nf, b, x, Depth(tree, nf, b, act)) BY <1>1, <1>6, SameFits
<1>8. /\ LeaveFrame(nf, x) = Unwind(x) /\ Unwind(x) \in Machine
      /\ Fits(CloseFrame(nf), Cut(b, act.frames0), Unwind(x), act.depth0)
  BY <1>5, <1>7, ClosePoint
<1>. QED BY <1>2, <1>8

LEMMA TernOn ==
    ASSUME Inv, NEW s, Shaped(tree, s), Book(s), NEW q, Scoped(tree, s, q),
           NEW b, Stands(q, b), Tern
    PROVE  StackBook(q)'
<1>. DEFINE ops == {"tern"}
<1>a. /\ \A p \in {"body", "test"} : <<"tern", p>> \notin FrameOpen /\ \A o \in ops : <<o, p>> \notin FrameOpen
      /\ \A p \in {"then", "else"} : <<"tern", p>> \in FrameOpen /\ <<"tern", p>> \in SavedBefore
      /\ "test" \in PCs /\ "then" \in PCs /\ "else" \in PCs /\ "call" \notin ops
      /\ "tern" \notin OneOperand \union {"func", "call", "var", "while"}
      /\ "tern" \in OneOperand \union {"tern"}
  BY Openings DEF OneOperand, SavedBefore
\* At every place of the operator.
<1>b. ASSUME NEW p \in {"body", "test", "then", "else"}, At(ops, p)
      PROVE  /\ status = "run" /\ act.pc = p /\ act.id # 0 /\ act.used0 = 0 /\ act.frames0 \in Nat
             /\ node = tree[act.id] /\ node.op = "tern"
             /\ Operands(tree, act.id) = {1, 2, 3}
             /\ Kid(2) \in 1 .. Len(tree) /\ Kid(3) \in 1 .. Len(tree)
             /\ q.after[act.id] = EndScope(tree, q, act.id, 1)
             /\ \A k \in {1, 2, 3} : Kid(k) # 0 => q.before[Kid(k)] = StartScope(tree, q, act.id, k)
             /\ \A k \in {2, 3} : StartScope(tree, q, act.id, k) =
                    Fresh(frameWords(tree, Kid(k)), q.after[act.id].names)
  <2>1. p # "enter" /\ ops = {"tern"} OBVIOUS
  <2>. HIDE DEF ops
  <2>2. /\ status = "run" /\ act.pc = p /\ act.id # 0 /\ act.id \in 1 .. Len(tree)
        /\ node = tree[act.id] /\ node.op = "tern" /\ NodeShaped(tree, s, act.id)
        /\ act.used0 = s.dep[act.id]
        /\ \A k \in Nat : Kid(k) \in 0 .. Len(tree)
    BY <1>b, <2>1, SingleOp
  <2>3. NodeScoped(tree, s, q, act.id) /\ q.after[act.id] = Behind(tree, q, act.id)
    BY <1>b, AtScope
  <2>4. Operands(tree, act.id) = {1, 2, 3} BY <2>2, OperandSets
  <2>5. act.used0 = 0 BY <2>2, <2>3 DEF NodeScoped
  <2>6. Child(tree, act.id, 2) # 0 /\ Child(tree, act.id, 3) # 0 BY <2>2 DEF NodeShaped
  <2>7. Kid(2) \in 1 .. Len(tree) /\ Kid(3) \in 1 .. Len(tree)
    <3>1. Kid(2) # 0 /\ Kid(3) # 0 BY <2>6 DEF Kid, KidOf
    <3>2. Kid(2) \in 0 .. Len(tree) /\ Kid(3) \in 0 .. Len(tree) BY <2>2
    <3>3. Len(tree) \in Nat BY <2>2, InvFacts, TreeFacts DEF Types
    <3>. QED BY <3>1, <3>2, <3>3
  <2>8. q.after[act.id] = EndScope(tree, q, act.id, 1)
    <3>1. tree[act.id].op \in OneOperand \union {"tern"} BY <2>2
    <3>2. Behind(tree, q, act.id) = EndScope(tree, q, act.id, 1) BY <3>1, BehindPath
    <3>. QED BY <2>3, <3>2
  <2>9. \A k \in {1, 2, 3} : Kid(k) # 0 => q.before[Kid(k)] = StartScope(tree, q, act.id, k)
    BY <1>b, <2>4, AtScope
  <2>10. \A k \in {2, 3} : StartScope(tree, q, act.id, k) =
            Fresh(frameWords(tree, Kid(k)), q.after[act.id].names)
    <3>1. tree[act.id].op = "tern" /\ \A k \in Nat : Child(tree, act.id, k) = Kid(k)
      BY <2>2 DEF Kid, KidOf
    <3>2. \A k \in {2, 3} : StartScope(tree, q, act.id, k) =
              Fresh(frameWords(tree, Child(tree, act.id, k)), EndScope(tree, q, act.id, 1).names)
      BY <3>1, ScopePath
    <3>. QED BY <2>8, <3>1, <3>2
  <2>11. act.frames0 \in Nat BY <2>2, InvFacts
  <2>. QED BY <2>2, <2>4, <2>5, <2>7, <2>8, <2>9, <2>10, <2>11
<1>1. ASSUME At(ops, "body"), Gen(Kid(1), Resume("test"), used, nf, m) PROVE StackBook(q)'
  <2>. DEFINE a == Resume("test")
  <2>1. /\ status = "run" /\ act.pc = "body" /\ node.op = "tern" /\ node = tree[act.id]
        /\ 1 \in Operands(tree, act.id)
    BY <1>1, <1>b
  <2>2. a.pc = "test" /\ a.id = act.id BY <1>a, <2>1, Resumed
  <2>3. 1 = Operand(tree, a) BY <2>2, OperandAt
  <2>9. \A o \in ops : <<o, "body">> \notin FrameOpen /\ <<o, "test">> \notin FrameOpen
    BY <1>a
  <2>. HIDE DEF ops
  <2>4. /\ Frames(nf, b) /\ Fits(nf, b, m, act.depth0) /\ Counts(nf, b, act.depth0)
        /\ Alike(nf, b, nf, b, act.frames0) /\ m \in Machine /\ nf \in Seq(Nameframe)
        /\ Matches(nf, ScopeAt(tree, q, act))
    BY <1>1, <1>a, PlainStack
  <2>5. Matches(nf, StartScope(tree, q, act.id, 1))
    <3>1. StartScope(tree, q, act.id, 1) = q.before[act.id] BY <1>a, <2>1, ScopePath
    <3>2. ScopeAt(tree, q, act) = q.before[act.id] BY <2>1 DEF ScopeAt
    <3>. QED BY <2>4, <3>1, <3>2
  <2>6. SavedFits(tree, nf, b, a)
    <3>1. <<tree[a.id].op, a.pc>> \notin SavedBefore /\ a.pc # "right" BY <2>2 DEF SavedBefore
    <3>. QED BY <3>1, NoSave
  <2>. HIDE DEF a
  <2>7. a = Resume("test") BY DEF a
  <2>8. Gen(Kid(1), a, used, nf, m) BY <1>1, <2>7
  <2>. QED BY <1>1, <1>a, <2>1, <2>3, <2>4, <2>5, <2>6, <2>7, <2>8, <2>9, PlainGenOn
\* An arm is started, at frames f that are those of the node.
<1>2. ASSUME NEW p \in {"test", "then"}, At(ops, p), NEW x \in {"then", "else"},
             NEW k, k = IF x = "then" THEN 2 ELSE 3, NEW ok \in BOOLEAN, NEW mT \in Machine,
             NEW f \in Seq(Nameframe), NEW c, Frames(f, c), Len(f) = act.frames0,
             Alike(nf, b, f, c, act.frames0), NEW mm \in Machine, Fits(f, c, mm, act.depth0),
             Counts(f, c, act.depth0), Matches(f, q.after[act.id]), Fits(f, c, mT, act.depth0),
             GenInFrame(Kid(k), 0, Kid(k), Fork(x, ok, mT), 0, f, mm)
      PROVE  StackBook(q)'
  <2>. DEFINE a == Fork(x, ok, mT)  S == q.after[act.id].names
  <2>1. /\ status = "run" /\ act.pc = p /\ act.id # 0
        /\ node.op = "tern" /\ node = tree[act.id] /\ k \in {2, 3} /\ k \in {1, 2, 3}
        /\ Kid(k) \in 1 .. Len(tree)
        /\ Kid(k) # 0 => q.before[Kid(k)] = StartScope(tree, q, act.id, k)
        /\ StartScope(tree, q, act.id, k) = Fresh(frameWords(tree, Kid(k)), S)
    BY <1>2, <1>b
  <2>2. x \in PCs /\ <<"tern", x>> \in FrameOpen /\ x # "right" BY <1>2, <1>a
  <2>3. /\ a \in Activation /\ a.id = act.id /\ a.pc = x /\ a.frames0 = act.frames0
        /\ opened(tree, a) = IF <<node.op, x>> \in FrameOpen THEN 1 ELSE 0
    <3>1. Forking(x, ok, mT) BY <1>2, <2>1, <2>2 DEF Forking
    <3>2. ForkedTo(x, a) BY <3>1, ForkedAt
    <3>. QED BY <3>2 DEF ForkedTo
  <2>4. opened(tree, a) = 1 BY <2>1, <2>2, <2>3
  <2>5. a.depth0 = act.depth0 /\ a.pushed = act.pushed /\ a.save = mT
    BY ZenonT(30), <1>2, <2>1, <2>2, PlacedToo
  <2>6. act.pushed = 0 BY <2>1, StandsFacts
  <2>7. Operand(tree, a) = k BY <1>2, <2>3, OperandAt
  <2>8. \A y \in S : Declared(f, y) BY <1>2 DEF Matches
  <2>9. GenInFrame(Kid(k), 0, Kid(k), a, 0, f, mm) BY <1>2
  <2>. HIDE DEF a, ops, S
  <2>10. tree[a.id].op # "func" /\ a.pc # "right" BY <2>1, <2>2, <2>3
  <2>11. /\ StartScope(tree, q, a.id, Operand(tree, a)) = Fresh(frameWords(tree, Kid(k)), S)
         /\ Kid(k) # 0 => q.before[Kid(k)] = StartScope(tree, q, a.id, Operand(tree, a))
    BY <2>1, <2>3, <2>7
  <2>. QED BY <1>2, <2>1, <2>3, <2>4, <2>5, <2>6, <2>8, <2>9, <2>10, <2>11, InFrameOn
<1>3. ASSUME At(ops, "test"), NEW ok \in BOOLEAN,
             GenInFrame(Kid(2), 0, Kid(2), Fork("then", ok, m), Less(used, 1), nf, m)
      PROVE  StackBook(q)'
  <2>1. /\ node.op = "tern" /\ act.pc = "test" /\ act.used0 = 0 /\ status = "run"
        /\ node = tree[act.id] /\ 1 \in Operands(tree, act.id) /\ act.id # 0
        /\ q.after[act.id] = EndScope(tree, q, act.id, 1)
    BY <1>3, <1>b
  <2>2. Operand(tree, act) = 1 BY <2>1, OperandAt
  <2>3. used = Start(node.op, act.used0, 1) + 1
    <3>1. <<node.op, 1>> \notin Uncounted BY <2>1 DEF Uncounted
    <3>2. "test" \in Waiting /\ 1 \in Nat BY DEF Waiting
    <3>. QED BY <1>3, <2>1, <2>2, <3>1, <3>2, Counted
  <2>4. Start(node.op, act.used0, 1) = 0 BY <2>1, Starts
  <2>5. Less(used, 1) = 0 BY <2>3, <2>4 DEF Less
  <2>6. ScopeAt(tree, q, act) = q.after[act.id] BY <2>1, <2>2 DEF ScopeAt
  <2>. HIDE DEF ops
  <2>7. /\ Frames(nf, b) /\ Fits(nf, b, m, act.depth0) /\ Counts(nf, b, act.depth0)
        /\ Alike(nf, b, nf, b, act.frames0) /\ m \in Machine /\ nf \in Seq(Nameframe)
        /\ Matches(nf, ScopeAt(tree, q, act)) /\ Len(nf) = act.frames0
    BY <1>3, <1>a, PlainStack
  <2>8. GenInFrame(Kid(2), 0, Kid(2), Fork("then", ok, m), 0, nf, m) BY <1>3, <2>5
  <2>9. Matches(nf, q.after[act.id]) BY <2>6, <2>7
  <2>10. 2 = IF "then" = "then" THEN 2 ELSE 3 OBVIOUS
  <2>. QED BY <1>2, <1>3, <2>7, <2>8, <2>9, <2>10
\* What the places in an arm know of its end.
<1>c. ASSUME NEW p \in {"then", "else"}, At(ops, p)
      PROVE  LET g == CloseFrame(nf)
                 c == Cut(b, act.frames0)
             IN  /\ g \in Seq(Nameframe) /\ Len(g) = act.frames0 /\ Frames(g, c)
                 /\ Counts(g, c, act.depth0) /\ Alike(nf, b, g, c, act.frames0)
                 /\ Matches(g, q.after[act.id]) /\ ClosedUsed(nf) = 0
                 /\ act.ok \in BOOLEAN /\ act.save \in Machine
                 /\ Fits(g, c, act.save, act.depth0)
                 /\ \A k : /\ ArmResult(k, act.ok) \in Machine
                           /\ Fits(g, c, ArmResult(k, act.ok), act.depth0)
  <2>1. /\ status = "run" /\ act.pc = p /\ act.id # 0 /\ node.op = "tern" /\ node = tree[act.id]
        /\ <<"tern", p>> \in FrameOpen /\ <<"tern", p>> \in SavedBefore
    BY <1>a, <1>b, <1>c
  <2>2. opened(tree, act) = 1 BY <2>1 DEF opened
  <2>3. act.ok \in BOOLEAN /\ act.save \in Machine BY <2>1, RegFacts
  <2>4. Fits(Cut(nf, act.frames0), Cut(b, act.frames0), act.save, act.depth0)
    <3>1. SavedFits(tree, nf, b, act) BY <2>1, StandsFacts DEF ActStack
    <3>. QED BY <2>1, <3>1 DEF SavedFits
  <2>5. tree[act.id].op # "func" BY <2>1
  <2>6. /\ CloseFrame(nf) \in Seq(Nameframe) /\ Len(CloseFrame(nf)) = act.frames0
        /\ Frames(CloseFrame(nf), Cut(b, act.frames0))
        /\ Counts(CloseFrame(nf), Cut(b, act.frames0), act.depth0)
        /\ Alike(nf, b, CloseFrame(nf), Cut(b, act.frames0), act.frames0)
        /\ Matches(CloseFrame(nf), q.after[act.id]) /\ ClosedUsed(nf) = 0
        /\ Fits(CloseFrame(nf), Cut(b, act.frames0), act.save, act.depth0)
    BY <2>1, <2>2, <2>4, ClosePoint
  <2>7. \A k : /\ ArmResult(k, act.ok) \in Machine
               /\ Fits(CloseFrame(nf), Cut(b, act.frames0), ArmResult(k, act.ok), act.depth0)
    BY <2>1, <2>2, <2>3, <2>5, ArmFits
  <2>. QED BY <2>3, <2>6, <2>7
<1>4. ASSUME At(ops, "then"), GenInFrame(Kid(3), 0, Kid(3), Fork("else", act.ok, ArmResult(Kid(2), act.ok)),
                                         ClosedUsed(nf), CloseFrame(nf), act.save)
      PROVE  StackBook(q)'
  <2>. DEFINE g == CloseFrame(nf)  c == Cut(b, act.frames0)  mT == ArmResult(Kid(2), act.ok)
  <2>1. /\ g \in Seq(Nameframe) /\ Len(g) = act.frames0 /\ Frames(g, c)
        /\ Counts(g, c, act.depth0) /\ Alike(nf, b, g, c, act.frames0)
        /\ Matches(g, q.after[act.id]) /\ ClosedUsed(nf) = 0
        /\ act.ok \in BOOLEAN /\ act.save \in Machine
        /\ Fits(g, c, act.save, act.depth0)
        /\ mT \in Machine /\ Fits(g, c, mT, act.depth0)
    BY <1>4, <1>c
  <2>2. GenInFrame(Kid(3), 0, Kid(3), Fork("else", act.ok, mT), 0, g, act.save) BY <1>4, <2>1
  <2>3. 3 = IF "else" = "then" THEN 2 ELSE 3 OBVIOUS
  <2>. HIDE DEF g, c, mT, ops
  <2>. QED BY <1>2, <1>4, <2>1, <2>2, <2>3
<1>5. ASSUME At(ops, "else"), NEW mm \in {act.save, ArmResult(Kid(3), act.ok)},
             NEW u, Finish(u, CloseFrame(nf), mm)
      PROVE  StackBook(q)'
  <2>. DEFINE g == CloseFrame(nf)  c == Cut(b, act.frames0)
  <2>1. /\ g \in Seq(Nameframe) /\ Len(g) = act.frames0 /\ Frames(g, c)
        /\ Counts(g, c, act.depth0) /\ Alike(nf, b, g, c, act.frames0)
        /\ Matches(g, q.after[act.id])
        /\ Fits(g, c, mm, act.depth0)
    BY <1>5, <1>c
  <2>2. Finish(u, g, mm) BY <1>5
  <2>. HIDE DEF g, c, ops
  <2>. QED BY <1>5, <2>1, <2>2, FinishOn
<1>6. Holds(m, r1, Kid(1)) \in BOOLEAN BY DEF Holds
<1>. QED BY <1>1, <1>3, <1>4, <1>5, <1>6 DEF Tern

LEMMA WhileOn ==
    ASSUME Inv, NEW s, Shaped(tree, s), Book(s), NEW q, Scoped(tree, s, q),
           NEW b, Stands(q, b), While
    PROVE  StackBook(q)'
<1>. DEFINE ops == {"while"}
<1>a. /\ \A o \in ops : <<o, "body">> \notin FrameOpen
      /\ <<"while", "body">> \notin FrameOpen
      /\ \A p \in {"test", "right"} : <<"while", p>> \in FrameOpen /\ p \in PCs
      /\ \A p : <<"while", p>> \notin SavedBefore
      /\ "while" \notin OneOperand \union {"func", "tern", "call", "var"}
      /\ "while" \notin ScopeThrough \union OneOperand \union {"tern", "call"}
  BY Openings DEF OneOperand, SavedBefore, ScopeThrough, TwoOperand
\* At every place of the loop.
<1>b. ASSUME NEW p \in {"body", "test", "right"}, At(ops, p)
      PROVE  /\ status = "run" /\ act.pc = p /\ act.id # 0 /\ act.used0 = 0 /\ act.frames0 \in Nat
             /\ node = tree[act.id] /\ node.op = "while" /\ act.id \in 1 .. Len(tree)
             /\ Operands(tree, act.id) = {1, 2} /\ used = InUse(tree, s, act)
             /\ q.after[act.id] = q.before[act.id]
             /\ \A k \in {1, 2} : Kid(k) # 0 => q.before[Kid(k)] = StartScope(tree, q, act.id, k)
  <2>1. p # "enter" /\ ops = {"while"} OBVIOUS
  <2>. HIDE DEF ops
  <2>2. /\ status = "run" /\ act.pc = p /\ act.id # 0 /\ act.id \in 1 .. Len(tree)
        /\ node = tree[act.id] /\ node.op = "while"
        /\ act.used0 = s.dep[act.id] /\ used = InUse(tree, s, act)
    BY <1>b, <2>1, SingleOp
  <2>3. NodeScoped(tree, s, q, act.id) /\ q.after[act.id] = Behind(tree, q, act.id)
    BY <1>b, AtScope
  <2>4. Operands(tree, act.id) = {1, 2} BY <2>2, OperandSets
  <2>5. act.used0 = 0 BY <2>2, <2>3 DEF NodeScoped
  <2>6. q.after[act.id] = q.before[act.id] BY <1>a, <2>2, <2>3, BehindPath
  <2>7. \A k \in {1, 2} : Kid(k) # 0 => q.before[Kid(k)] = StartScope(tree, q, act.id, k)
    BY <1>b, <2>4, AtScope
  <2>8. act.frames0 \in Nat BY <2>2, InvFacts
  <2>. QED BY <2>2, <2>4, <2>5, <2>6, <2>7, <2>8
\* At the places in the frame of the loop.
<1>c. ASSUME NEW p \in {"test", "right"}, At(ops, p)
      PROVE  /\ opened(tree, act) = 1 /\ m \in Machine /\ nf \in Seq(Nameframe)
             /\ Frames(nf, b) /\ ActStack(tree, q, nf, b, act)
             /\ On(tree, nf, b, act, m) /\ Matches(nf, ScopeAt(tree, q, act))
             /\ Len(nf) = act.frames0 + 1 /\ Alike(nf, b, nf, b, act.frames0)
  <2>1. status = "run" /\ act.pc = p /\ act.id # 0 /\ node = tree[act.id] /\ node.op = "while"
        /\ act.frames0 \in Nat
    BY <1>b, <1>c
  <2>2. opened(tree, act) = 1 BY <1>a, <2>1 DEF opened
  <2>3. Len(nf) = act.frames0 + 1 /\ m \in Machine BY <2>1, <2>2, InvFacts DEF Types
  <2>4. act.frames0 <= Len(nf) BY <2>1, <2>3
  <2>. QED BY <2>1, <2>2, <2>3, <2>4, StandsFacts, AlikeSelf DEF On
<1>1. ASSUME At(ops, "body"), GenInFrame(Kid(1), 1, act.id, Resume("test"), used, nf, m)
      PROVE  StackBook(q)'
  <2>. DEFINE a == Resume("test")  S == q.before[act.id].names  o == act.id  f == nf
  <2>1. /\ status = "run" /\ act.pc = "body" /\ node.op = "while" /\ node = tree[act.id]
        /\ act.id # 0 /\ act.used0 = 0 /\ act.id \in 1 .. Len(tree) /\ used = InUse(tree, s, act)
        /\ q.after[act.id] = q.before[act.id]
        /\ Kid(1) # 0 => q.before[Kid(1)] = StartScope(tree, q, act.id, 1)
    BY <1>1, <1>b
  <2>2. used = 0 BY <2>1 DEF InUse
  <2>3. /\ a \in Activation /\ a.id = act.id /\ a.pc = "test" /\ a.frames0 = act.frames0
        /\ opened(tree, a) = IF act.id # 0 /\ <<node.op, "test">> \in FrameOpen THEN 1 ELSE 0
    BY <1>a, <2>1, Resumed
  <2>4. opened(tree, a) = 1 BY <1>a, <2>1, <2>3
  <2>5. a.depth0 = act.depth0 /\ a.pushed = act.pushed BY <1>a, <2>1, PlacedToo
  <2>6. Operand(tree, a) = 1 BY <2>3, OperandAt
  <2>7. StartScope(tree, q, act.id, 1) = Fresh(frameWords(tree, act.id), S) BY <2>1, ScopePath
  <2>8. ScopeAt(tree, q, act) = q.after[act.id] BY <2>1 DEF ScopeAt
  <2>9. GenInFrame(Kid(1), 1, o, a, 0, f, m) BY <1>1, <2>2
  <2>10. <<tree[a.id].op, a.pc>> \notin SavedBefore BY <1>a, <2>1, <2>3
  <2>. HIDE DEF ops
  <2>11. /\ Frames(f, b) /\ Fits(f, b, m, act.depth0) /\ Counts(f, b, act.depth0)
         /\ Alike(nf, b, f, b, act.frames0) /\ m \in Machine /\ f \in Seq(Nameframe)
         /\ Matches(f, ScopeAt(tree, q, act)) /\ Len(f) = act.frames0 /\ act.pushed = 0
    BY <1>1, <1>a, PlainStack
  <2>12. Matches(f, q.after[act.id]) BY <2>8, <2>11
  <2>13. \A x \in S : Declared(f, x) BY <2>1, <2>12 DEF Matches
  <2>. HIDE DEF a, S, o, f
  <2>14. tree[a.id].op # "func" /\ a.pc # "right" BY <2>1, <2>3
  <2>15. o \in 1 .. Len(tree) /\ StartScope(tree, q, a.id, Operand(tree, a)) = Fresh(frameWords(tree, o), S)
         /\ (Kid(1) # 0 => q.before[Kid(1)] = StartScope(tree, q, a.id, Operand(tree, a)))
    BY <2>1, <2>3, <2>6, <2>7 DEF o
  <2>. QED BY <2>1, <2>3, <2>4, <2>5, <2>9, <2>10, <2>11, <2>12, <2>13, <2>14, <2>15, InFrameOn
<1>2. ASSUME At(ops, "test"), NEW ok \in BOOLEAN, NEW u, Gen(Kid(2), Fork("right", ok, m), u, nf, m)
      PROVE  StackBook(q)'
  <2>. DEFINE a == Fork("right", ok, m)
  <2>1. /\ status = "run" /\ act.pc = "test" /\ node.op = "while" /\ node = tree[act.id]
        /\ act.id # 0 /\ act.frames0 \in Nat
        /\ Kid(2) # 0 => q.before[Kid(2)] = StartScope(tree, q, act.id, 2)
    BY <1>2, <1>b
  <2>2. "right" \in PCs /\ <<"while", "right">> \in FrameOpen /\ ok \in BOOLEAN BY <1>2, <1>a
  <2>3. /\ opened(tree, act) = 1 /\ m \in Machine /\ nf \in Seq(Nameframe)
        /\ Frames(nf, b) /\ ActStack(tree, q, nf, b, act)
        /\ On(tree, nf, b, act, m) /\ Matches(nf, ScopeAt(tree, q, act))
        /\ Len(nf) = act.frames0 + 1 /\ Alike(nf, b, nf, b, act.frames0)
    BY <1>2, <1>c
  <2>4. /\ a \in Activation /\ a.id = act.id /\ a.pc = "right" /\ a.frames0 = act.frames0
        /\ opened(tree, a) = IF <<node.op, "right">> \in FrameOpen THEN 1 ELSE 0
    <3>1. Forking("right", ok, m) BY <2>1, <2>2, <2>3 DEF Forking
    <3>2. ForkedTo("right", a) BY <3>1, ForkedAt
    <3>. QED BY <3>2 DEF ForkedTo
  <2>5. a.depth0 = act.depth0 /\ a.pushed = act.pushed /\ a.save = m
    BY ZenonT(30), <2>1, <2>2, <2>3, PlacedToo
  <2>6. opened(tree, a) = 1 BY <2>1, <2>2, <2>4
  <2>7. Operand(tree, a) = 2 BY <1>a, <2>1, <2>4, OperandAt
  <2>8. Matches(nf, StartScope(tree, q, act.id, 2))
    <3>1. StartScope(tree, q, act.id, 2) = EndScope(tree, q, act.id, 1) BY <1>a, <2>1, ScopePath
    <3>2. Operand(tree, act) = 1 BY <2>1, OperandAt
    <3>3. ScopeAt(tree, q, act) = EndScope(tree, q, act.id, 1) BY <2>1, <3>2 DEF ScopeAt
    <3>. QED BY <2>3, <3>1, <3>3
  <2>9. <<tree[a.id].op, a.pc>> \notin SavedBefore BY <1>a, <2>1, <2>4
  <2>10. Gen(Kid(2), a, u, nf, m) BY <1>2
  <2>. HIDE DEF a, ops
  <2>11. Depth(tree, nf, b, a) = Depth(tree, nf, b, act) BY <2>3, <2>4, <2>6 DEF Depth
  <2>12. On(tree, nf, b, a, m) BY <2>3, <2>11 DEF On
  <2>13. Cut(nf, a.frames0 + 1) = nf /\ Cut(b, a.frames0 + 1) = b BY <2>3, <2>4, CutHere
  <2>14. SavedFits(tree, nf, b, a)
    <3>1. Fits(nf, b, m, Depth(tree, nf, b, a)) BY <2>12 DEF On
    <3>. QED BY <2>5, <2>9, <2>13, <3>1 DEF SavedFits
  <2>15. OpenedAt(tree, q, nf, b, a)
    <3>1. OpenedAt(tree, q, nf, b, act) BY <2>3 DEF ActStack
    <3>. QED BY <2>3, <2>4, <2>5, <2>6, <3>1 DEF OpenedAt
  <2>16. ActStack(tree, q, nf, b, a) BY <2>3, <2>4, <2>5, <2>14, <2>15 DEF ActStack
  <2>17. Len(nf) = a.frames0 + opened(tree, a) BY <2>3, <2>4, <2>6
  <2>18. /\ Kid(2) # 0 => q.before[Kid(2)] = StartScope(tree, q, a.id, Operand(tree, a))
         /\ Matches(nf, StartScope(tree, q, a.id, Operand(tree, a))) /\ a.id # 0
    BY <2>1, <2>4, <2>7, <2>8
  <2>. QED BY <2>1, <2>3, <2>4, <2>5, <2>10, <2>12, <2>16, <2>17, <2>18, GenOn
<1>3. ASSUME At(ops, "right"), NEW mm \in {act.save, Mov(m, RDI, Junk)},
             Finish(ClosedUsed(nf), CloseFrame(nf),
                    Result(LeaveFrame(nf, mm), r1, act.id, act.ok))
      PROVE  StackBook(q)'
  <2>. DEFINE g == CloseFrame(nf)  c == Cut(b, act.frames0)  d == Depth(tree, nf, b, act)
              x == LeaveFrame(nf, mm)  y == Result(x, r1, act.id, act.ok)
  <2>1. /\ status = "run" /\ act.pc = "right" /\ node.op = "while" /\ node = tree[act.id]
        /\ act.id # 0 /\ act.frames0 \in Nat
    BY <1>3, <1>b
  <2>2. /\ opened(tree, act) = 1 /\ m \in Machine /\ nf \in Seq(Nameframe)
        /\ Frames(nf, b) /\ ActStack(tree, q, nf, b, act)
        /\ On(tree, nf, b, act, m) /\ Len(nf) = act.frames0 + 1
    BY <1>3, <1>c
  <2>3. act.save \in Machine BY <2>1, RegFacts
  <2>4. Cut(nf, act.frames0 + 1) = nf /\ Cut(b, act.frames0 + 1) = b BY <2>2, CutHere
  <2>5. Fits(nf, b, act.save, d)
    <3>1. SavedFits(tree, nf, b, act) BY <2>2 DEF ActStack
    <3>. QED BY <2>1, <2>4, <3>1 DEF SavedFits
  <2>6. Fits(nf, b, m, d) BY <2>2 DEF On
  <2>7. Mov(m, RDI, Junk) \in Machine /\ Fits(nf, b, Mov(m, RDI, Junk), d)
    <3>1. Mov(m, RDI, Junk) \in Machine BY <2>2, NamedRegs, Tokens, MovType
    <3>2. SameStack(m, Mov(m, RDI, Junk)) BY <2>2, RegistersOnly
    <3>. QED BY <2>6, <3>1, <3>2, SameFits
  <2>8. mm \in Machine /\ Fits(nf, b, mm, d) BY <1>3, <2>3, <2>5, <2>7
  <2>9. tree[act.id].op # "func" BY <2>1
  <2>10. /\ g \in Seq(Nameframe) /\ Len(g) = act.frames0 /\ Frames(g, c)
         /\ Counts(g, c, act.depth0) /\ Alike(nf, b, g, c, act.frames0)
         /\ Matches(g, q.after[act.id])
         /\ x = Unwind(mm)
    <3>. HIDE DEF d
    <3>. QED BY <2>1, <2>2, <2>8, <2>9, ClosePoint
  <2>11. x \in Machine /\ Fits(g, c, x, act.depth0)
    <3>1. Unwind(mm) \in Machine /\ Fits(g, c, Unwind(mm), act.depth0)
      <4>. HIDE DEF d, x, y
      <4>. QED BY <2>1, <2>2, <2>8, <2>9, ClosePoint
    <3>. QED BY <2>10, <3>1
  <2>12. SameStack(x, y)
    <3>. HIDE DEF x
    <3>. QED BY <2>11, RegistersOnly
  <2>13. Finish(ClosedUsed(nf), g, y) BY <1>3
  <2>. HIDE DEF g, c, d, x, y, ops
  <2>14. Fits(g, c, y, act.depth0) BY <2>11, <2>12, SameFits
  <2>. QED BY <1>3, <2>10, <2>13, <2>14, FinishOn
<1>4. Holds(m, RDI, Kid(1)) \in BOOLEAN BY DEF Holds
<1>. QED BY <1>1, <1>2, <1>3, <1>4 DEF While

\* A node that has scopes is no ??.
LEMMA NoQq ==
    ASSUME Inv, NEW s, NEW q, Scoped(tree, s, q)
    PROVE  ~ Qq
<1>1. SUFFICES ASSUME NEW p, At({"qq"}, p) PROVE FALSE BY DEF Qq
<1>2. NodeScoped(tree, s, q, act.id) /\ tree[act.id] = node BY <1>1, AtScope
<1>3. node.op = "qq" BY <1>1 DEF At
<1>. QED BY <1>2, <1>3 DEF NodeScoped

-----------------------------------------------------------------------------
(* Functions and calls.                                                    *)

LEMMA FuncOn ==
    ASSUME Inv, NEW s, Shaped(tree, s), Book(s), NEW q, Scoped(tree, s, q),
           NEW b, Stands(q, b), Func
    PROVE  StackBook(q)'
<1>. DEFINE ops == {"func"}
<1>a. /\ \A o \in ops : <<o, "body">> \notin FrameOpen
      /\ <<"func", "body">> \notin FrameOpen
      /\ <<"func", "right">> \in FrameOpen /\ "right" \in PCs /\ <<"func", "right">> \in SavedBefore
      /\ "call" \notin ops
      /\ "func" \notin ScopeThrough \union OneOperand \union {"tern", "call"}
  BY Openings DEF OneOperand, SavedBefore, ScopeThrough, TwoOperand
\* At both places of the definition.
<1>b. ASSUME NEW p \in {"body", "right"}, At(ops, p)
      PROVE  /\ status = "run" /\ act.pc = p /\ act.id # 0 /\ act.frames0 \in Nat
             /\ node = tree[act.id] /\ node.op = "func"
             /\ q.after[act.id] = q.before[act.id]
             /\ Kid(1) # 0 => q.before[Kid(1)] = StartScope(tree, q, act.id, 1)
  <2>1. p # "enter" /\ ops = {"func"} OBVIOUS
  <2>. HIDE DEF ops
  <2>2. /\ status = "run" /\ act.pc = p /\ act.id # 0 /\ node = tree[act.id] /\ node.op = "func"
    BY <1>b, <2>1, SingleOp
  <2>3. q.after[act.id] = Behind(tree, q, act.id) BY <1>b, AtScope
  <2>4. 1 \in Operands(tree, act.id) BY <2>2, OperandSets
  <2>5. q.after[act.id] = q.before[act.id] BY <1>a, <2>2, <2>3, BehindPath
  <2>6. Kid(1) # 0 => q.before[Kid(1)] = StartScope(tree, q, act.id, 1)
    BY <1>b, <2>4, AtScope
  <2>7. act.frames0 \in Nat BY <2>2, InvFacts
  <2>. QED BY <2>2, <2>5, <2>6, <2>7
<1>1. ASSUME At(ops, "body"), NEW u,
             Gen(Kid(1), Fork("right", TRUE, m), u, FunctionFrame, FunctionEntry(FunctionFrame))
      PROVE  StackBook(q)'
  <2>. DEFINE a == Fork("right", TRUE, m)  F == FunctionFrame  e == FunctionEntry(F)
              n == Len(nf)  c == Append(b, Passed + 2)  d == Passed + 2 + F[n + 1].nSub
  <2>1. /\ status = "run" /\ act.pc = "body" /\ node.op = "func" /\ node = tree[act.id]
        /\ act.id # 0 /\ q.after[act.id] = q.before[act.id]
        /\ Kid(1) # 0 => q.before[Kid(1)] = StartScope(tree, q, act.id, 1)
    BY <1>1, <1>b
  <2>2. "right" \in PCs /\ <<"func", "right">> \in FrameOpen /\ TRUE \in BOOLEAN /\ m \in Machine
    BY <1>a, <2>1, InvFacts DEF Types
  <2>3. /\ a \in Activation /\ a.id = act.id /\ a.pc = "right" /\ a.frames0 = act.frames0
        /\ opened(tree, a) = IF <<node.op, "right">> \in FrameOpen THEN 1 ELSE 0
    <3>1. Forking("right", TRUE, m) BY <2>1, <2>2 DEF Forking
    <3>2. ForkedTo("right", a) BY <3>1, ForkedAt
    <3>. QED BY <3>2 DEF ForkedTo
  <2>4. a.depth0 = act.depth0 /\ a.pushed = act.pushed /\ a.save = m
    BY ZenonT(30), <2>1, <2>2, PlacedToo
  <2>5. opened(tree, a) = 1 BY <2>1, <2>2, <2>3
  <2>6. Operand(tree, a) = 1 BY <2>1, <2>3, OperandAt
  <2>7. Gen(Kid(1), a, u, F, e) BY <1>1
  <2>8. StartScope(tree, q, act.id, 1) = Parameters(tree, act.id) BY <2>1, ScopePath
  <2>9. ScopeAt(tree, q, act) = q.after[act.id] BY <2>1 DEF ScopeAt
  <2>a. At({"func"}, "body") BY <1>1
  <2>. HIDE DEF ops, a, F, e
  <2>10. /\ Frames(nf, b) /\ Fits(nf, b, m, act.depth0) /\ Counts(nf, b, act.depth0)
         /\ Matches(nf, ScopeAt(tree, q, act)) /\ n = act.frames0 /\ act.depth0 \in Nat
         /\ act.pushed = 0 /\ nf \in Seq(Nameframe)
    BY <1>1, <1>a, PlainStack
  <2>11. act.depth0 >= b[n] + nf[n].nSub BY <2>10, CountsAbove
  <2>12. /\ F \in Seq(Nameframe) /\ Len(F) = n + 1 /\ Frames(F, c)
         /\ Fits(F, c, e, d) /\ Counts(F, c, d) /\ c[n + 1] = Passed + 2 /\ F[n + 1].root
         /\ F[n].pushed = act.depth0 + 1 - b[n] - nf[n].nSub
         /\ Alike(nf, b, F, c, n)
         /\ Cut(F, n) = Pushed(nf, 1) /\ Cut(c, n) = b
         /\ Matches(F, Parameters(tree, act.id))
    <3>. HIDE DEF c, n, d
    <3>. QED BY <2>a, <2>10, FunctionKeeps DEF c, n, d, e, F
  <2>13. e \in Machine
    <3>1. F # <<>> BY <2>12, FramesParts
    <3>. QED BY <2>a, <2>12, <3>1, FunctionEntryParts DEF e
  <2>14. c[n] = b[n] /\ F[n].nSub = nf[n].nSub
    <3>1. n \in 1 .. n BY <2>10, FramesParts
    <3>. QED BY <2>12, <3>1 DEF Alike
  <2>15. /\ Fits(Pushed(nf, 1), b, m, act.depth0)
         /\ Matches(Pushed(nf, 1), q.after[act.id])
    <3>1. 1 \in Int OBVIOUS
    <3>. QED BY <2>9, <2>10, <3>1, PushedKeeps
  <2>16. Depth(tree, F, c, a) = d BY <2>3, <2>5, <2>10, <2>12 DEF Depth
  <2>17. On(tree, F, c, a, e) BY <2>12, <2>16 DEF On
  <2>. HIDE DEF c, d, n
  <2>18. SavedFits(tree, F, c, a)
    <3>1. ~ (tree[a.id].op = "while") BY <2>1, <2>3
    <3>. QED BY <2>3, <2>4, <2>10, <2>12, <2>15, <3>1 DEF SavedFits
  <2>19. OpenedAt(tree, q, F, c, a)
    <3>1. tree[a.id].op = "func" BY <2>1, <2>3
    <3>2. PassedTo(tree, a.id) = Passed BY <2>1, <2>3 DEF PassedTo, Passed, params
    <3>. QED BY <2>3, <2>4, <2>10, <2>12, <2>14, <2>15, <3>1, <3>2 DEF OpenedAt
  <2>20. ActStack(tree, q, F, c, a)
    BY <2>3, <2>4, <2>10, <2>11, <2>14, <2>18, <2>19 DEF ActStack
  <2>21. /\ Len(F) = a.frames0 + opened(tree, a) /\ a.id # 0
         /\ Kid(1) # 0 => q.before[Kid(1)] = StartScope(tree, q, a.id, Operand(tree, a))
         /\ Matches(F, StartScope(tree, q, a.id, Operand(tree, a)))
         /\ Alike(nf, b, F, c, act.frames0)
    BY <2>1, <2>3, <2>5, <2>6, <2>8, <2>10, <2>12
  <2>. QED BY <2>1, <2>3, <2>4, <2>7, <2>12, <2>13, <2>17, <2>20, <2>21, GenOn
<1>2. ASSUME At(ops, "right"), NEW ok, NEW u,
             Finish(u, CloseFrame(nf), Result(act.save, r1, act.id, ok))
      PROVE  StackBook(q)'
  <2>. DEFINE g == CloseFrame(nf)  c == Cut(b, act.frames0)  y == Result(act.save, r1, act.id, ok)
  <2>1. /\ status = "run" /\ act.pc = "right" /\ node.op = "func" /\ node = tree[act.id]
        /\ act.id # 0 /\ act.frames0 \in Nat
    BY <1>2, <1>b
  <2>2. opened(tree, act) = 1 BY <1>a, <2>1 DEF opened
  <2>3. act.save \in Machine BY <2>1, RegFacts
  <2>4. Fits(Cut(nf, act.frames0), c, act.save, act.depth0)
    <3>1. SavedFits(tree, nf, b, act) BY <2>1, StandsFacts DEF ActStack
    <3>. QED BY <1>a, <2>1, <3>1 DEF SavedFits
  <2>5. /\ g \in Seq(Nameframe) /\ Len(g) = act.frames0 /\ Frames(g, c)
        /\ Counts(g, c, act.depth0) /\ Alike(nf, b, g, c, act.frames0)
        /\ Matches(g, q.after[act.id]) /\ Fits(g, c, act.save, act.depth0)
    BY <2>1, <2>2, <2>4, ClosePoint
  <2>6. SameStack(act.save, y) BY <2>3, RegistersOnly
  <2>7. Finish(u, g, y) BY <1>2
  <2>. HIDE DEF g, c, y, ops
  <2>8. Fits(g, c, y, act.depth0) BY <2>5, <2>6, SameFits
  <2>. QED BY <1>2, <2>5, <2>7, <2>8, FinishOn
<1>. QED BY <1>1, <1>2 DEF Func

LEMMA PushedAlike ==
    ASSUME NEW f \in Seq(Nameframe), f # <<>>, NEW k \in Int, NEW b
    PROVE  Alike(f, b, Pushed(f, k), b, Len(f))
<1>. DEFINE g == Pushed(f, k)
<1>1. Len(f) \in Nat OBVIOUS
<1>2. /\ Len(g) = Len(f) /\ \A i \in 1 .. Len(f) - 1 : g[i] = f[i]
      /\ \A i \in 1 .. Len(f) : g[i].root = f[i].root /\ g[i].nSub = f[i].nSub
  BY PushedParts
<1>. HIDE DEF g
<1>. QED BY <1>1, <1>2 DEF Alike, g

LEMMA Remaining ==
    ASSUME NEW x \in 0 .. 10, NEW y \in Nat, NEW z \in Nat, z <= y
    PROVE  x + y - z - 0 \in Nat /\ (z + 1 <= y => x + y - z - 1 \in Nat)
OBVIOUS

\* What a call knows at every place: nothing but what it counts itself has
\* been pushed since it started.
LEMMA CallPoint ==
    ASSUME Inv, NEW s, Shaped(tree, s), Book(s), NEW q, Scoped(tree, s, q), NEW b, Stands(q, b),
           NEW p, p \in {"body", "args", "push"}, At({"call"}, p)
    PROVE  /\ status = "run" /\ act.pc = p /\ act.id # 0 /\ node = tree[act.id] /\ node.op = "call"
           /\ r1 = act.r1 /\ r1 \in 0 .. 10 /\ act.argsLeft \in Nat
           /\ Len(node.kids) \in 0 .. 6 /\ DOMAIN node.kids = 1 .. Len(node.kids)
           /\ act.argsLeft <= Len(node.kids)
           /\ p = "push" => act.argsLeft + 1 <= Len(node.kids)
           /\ \A k \in 1 .. Len(node.kids) :
                 /\ Kid(k) = node.kids[k] /\ Kid(k) # 0
                 /\ q.before[Kid(k)] = StartScope(tree, q, act.id, k)
           /\ q.after[act.id] = Behind(tree, q, act.id)
           /\ nf \in Seq(Nameframe) /\ nf # <<>> /\ m \in Machine /\ Frames(nf, b)
           /\ Len(nf) = act.frames0 /\ Alike(nf, b, nf, b, act.frames0)
           /\ act.pushed = 0 /\ act.depth0 \in Nat /\ act.depth0 >= b[Len(nf)] + nf[Len(nf)].nSub
           /\ Own(tree, act) \in Nat
           /\ Depth(tree, nf, b, act) = act.depth0 + Own(tree, act)
           /\ Fits(nf, b, m, act.depth0 + Own(tree, act))
           /\ Counts(nf, b, act.depth0 + Own(tree, act))
           /\ Len(m.stk) = act.depth0 + Own(tree, act) /\ b[Len(nf)] <= act.depth0
           /\ Matches(nf, ScopeAt(tree, q, act))
<1>. DEFINE ops == {"call"}  L == Len(node.kids)
<1>1. p # "enter" /\ ops = {"call"} /\ <<"call", p>> \notin FrameOpen BY DEF FrameOpen
<1>a. At(ops, p) OBVIOUS
<1>. HIDE DEF ops
<1>2. /\ status = "run" /\ act.pc = p /\ act.id # 0 /\ node = tree[act.id] /\ node.op = "call"
      /\ ActBook(tree, s, act) /\ node \in Node
      /\ \A k : Child(tree, act.id, k) = Kid(k)
  BY <1>1, <1>a, SingleOp, AtBook
<1>3. r1 = act.r1 /\ r1 \in 0 .. 10 BY <1>2, RegFacts DEF r1
<1>4. act.argsLeft \in Nat /\ act.argsLeft <= L /\ act.frames0 \in Nat
  <2>1. act \in Activation /\ ActOK(tree, act) BY <1>2, InvFacts
  <2>. QED BY <1>2, <2>1 DEF Activation, ActOK
<1>5. DOMAIN node.kids = 1 .. L /\ L \in Nat
  <2>1. node.kids \in Seq(Nat) BY <1>2, NodeFields
  <2>. QED BY <2>1
<1>6. NodeScoped(tree, s, q, act.id) /\ q.after[act.id] = Behind(tree, q, act.id)
  BY <1>a, AtScope
<1>7. L <= 6 /\ \A k \in DOMAIN node.kids : node.kids[k] # 0 BY <1>2, <1>6 DEF NodeScoped
<1>8. L \in 0 .. 6
  <2>. HIDE DEF L
  <2>1. L \in Nat /\ L <= 6 BY <1>5, <1>7 DEF L
  <2>. QED BY <2>1
<1>9. Operands(tree, act.id) = DOMAIN node.kids BY <1>2, OperandSets
<1>10. ASSUME NEW k \in 1 .. L
       PROVE  /\ Kid(k) = node.kids[k] /\ Kid(k) # 0
              /\ q.before[Kid(k)] = StartScope(tree, q, act.id, k)
  <2>1. Kid(k) = node.kids[k] BY <1>2, <1>5 DEF Kid, KidOf, Child
  <2>2. Kid(k) # 0 BY <1>5, <1>7, <2>1
  <2>3. k \in Operands(tree, act.id) BY <1>5, <1>9
  <2>. HIDE DEF L
  <2>. QED BY <1>a, <2>1, <2>2, <2>3, AtScope
<1>11. p = "push" => act.argsLeft + 1 <= L BY <1>2 DEF ActBook
<1>12. opened(tree, act) = 0 BY <1>1, <1>2 DEF opened
<1>13. /\ nf \in Seq(Nameframe) /\ nf # <<>> /\ m \in Machine /\ Frames(nf, b)
       /\ Len(nf) = act.frames0 /\ Alike(nf, b, nf, b, act.frames0)
  <2>1. Len(nf) = act.frames0 /\ m \in Machine BY <1>2, <1>4, <1>12, InvFacts DEF Types
  <2>2. act.frames0 <= Len(nf) BY <1>4, <2>1
  <2>. QED BY <1>2, <2>1, <2>2, StandsFacts, AlikeSelf
<1>14. Depth(tree, nf, b, act) = act.depth0 + Own(tree, act) BY <1>12 DEF Depth
<1>15. Own(tree, act) \in Nat
  <2>1. CASE p = "body" BY <1>2, <2>1 DEF Own
  <2>2. CASE p = "args"
    <3>1. Own(tree, act) = r1 + L - act.argsLeft - 0 BY <1>2, <1>3, <2>2 DEF Own
    <3>. QED BY <1>3, <1>4, <1>5, <3>1, Remaining
  <2>3. CASE p = "push"
    <3>1. Own(tree, act) = r1 + L - act.argsLeft - 1 BY <1>2, <1>3, <2>3 DEF Own
    <3>. QED BY <1>3, <1>4, <1>5, <1>11, <2>3, <3>1, Remaining
  <2>. QED BY <2>1, <2>2, <2>3
<1>16. /\ act.pushed = 0 /\ act.depth0 \in Nat /\ act.depth0 >= b[Len(nf)] + nf[Len(nf)].nSub
       /\ Fits(nf, b, m, act.depth0 + Own(tree, act))
       /\ Counts(nf, b, act.depth0 + Own(tree, act))
       /\ Matches(nf, ScopeAt(tree, q, act))
  BY <1>2, <1>13, <1>14, StandsFacts
<1>17. Len(m.stk) = act.depth0 + Own(tree, act) BY <1>16 DEF Fits
<1>18. b[Len(nf)] <= act.depth0
  <2>1. b[Len(nf)] \in Nat /\ nf[Len(nf)].nSub \in Nat BY <1>13, FramesParts
  <2>. QED BY <1>16, <2>1
<1>. QED BY <1>2, <1>3, <1>4, <1>5, <1>6, <1>8, <1>10, <1>11, <1>13, <1>14, <1>15, <1>16, <1>17,
         <1>18

LEMMA Raised ==
    ASSUME NEW x \in Nat, NEW y \in Nat, NEW z \in Nat, NEW w \in Nat, NEW k \in Nat,
           x >= z + w, z <= x
    PROVE  /\ x + y \in Nat /\ x + y \in Int /\ k \in Int /\ z <= x + y /\ z <= x + y + k
           /\ x + y + k >= z + w
OBVIOUS

\* A call pushes k words and goes on with its arguments.
LEMMA CallStays ==
    ASSUME Inv, NEW s, Shaped(tree, s), Book(s), NEW q, Scoped(tree, s, q), NEW b, Stands(q, b),
           NEW p, p \in {"body", "args", "push"}, At({"call"}, p),
           NEW a \in Activation, a.id = act.id, a.pc = "args", a.frames0 = act.frames0,
           a.depth0 = act.depth0, a.pushed = act.pushed,
           NEW k \in Nat, Own(tree, a) = Own(tree, act) + k,
           NEW mm, Len(mm.stk) = Len(m.stk) + k, Bottom(m, mm, Len(m.stk)),
           Matches(nf, ScopeAt(tree, q, a)),
           NEW u, Live([acts EXCEPT ![Len(acts)] = a], u, Pushed(nf, k), mm)
    PROVE  StackBook(q)'
<1>. DEFINE f == Pushed(nf, k)  h == act.depth0 + Own(tree, act)  at == b[Len(nf)]
<1>1. /\ status = "run" /\ act.id # 0 /\ node = tree[act.id] /\ node.op = "call"
      /\ nf \in Seq(Nameframe) /\ nf # <<>> /\ Frames(nf, b)
      /\ Len(nf) = act.frames0 /\ act.pushed = 0 /\ act.depth0 \in Nat
      /\ act.depth0 >= at + nf[Len(nf)].nSub /\ Own(tree, act) \in Nat
      /\ Fits(nf, b, m, h) /\ Counts(nf, b, h) /\ Len(m.stk) = h /\ at <= act.depth0
  BY CallPoint
<1>2. opened(tree, a) = 0 BY <1>1 DEF opened, FrameOpen
<1>3. at \in Nat /\ nf[Len(nf)].nSub \in Nat BY <1>1, FramesParts
<1>4. h \in Nat /\ h \in Int /\ k \in Int /\ at <= h /\ at <= h + k
      /\ h + k >= at + nf[Len(nf)].nSub
  BY <1>1, <1>3, Raised
<1>5. Depth(tree, f, b, a) = h + k
  <2>1. Depth(tree, f, b, a) = act.depth0 + (Own(tree, act) + k) BY <1>2 DEF Depth
  <2>. QED BY <1>1, <2>1
<1>. HIDE DEF h, at
<1>6. Fits(nf, b, mm, h + k)
  <2>1. Bottom(m, mm, at) BY <1>1, <1>3, <1>4 DEF Bottom
  <2>. QED BY <1>1, <1>4, <2>1, StillFits DEF at
<1>7. /\ f \in Seq(Nameframe) /\ Frames(f, b) /\ Fits(f, b, mm, h + k) /\ Len(f) = Len(nf)
      /\ Matches(f, ScopeAt(tree, q, a))
  BY <1>1, <1>4, <1>6, PushedKeeps
<1>8. Counts(f, b, h + k) BY <1>1, <1>4, PushedCounts DEF at
<1>9. Alike(nf, b, f, b, act.frames0) BY <1>1, <1>4, PushedAlike
<1>10. f[Len(nf)].nSub = nf[Len(nf)].nSub
  <2>1. Len(nf) \in 1 .. Len(nf) BY <1>1, FramesParts
  <2>. QED BY <1>1, <1>4, <2>1, PushedParts
<1>. HIDE DEF f
<1>11. On(tree, f, b, a, mm) BY <1>5, <1>7, <1>8 DEF On
<1>12. ActStack(tree, q, f, b, a)
  <2>1. SavedFits(tree, f, b, a)
    <3>1. <<tree[a.id].op, a.pc>> \notin SavedBefore /\ a.pc # "right" BY DEF SavedBefore
    <3>. QED BY <3>1, NoSave
  <2>2. OpenedAt(tree, q, f, b, a) BY <1>2 DEF OpenedAt
  <2>3. act.depth0 >= b[act.frames0] + f[act.frames0].nSub BY <1>1, <1>10 DEF at
  <2>. QED BY <1>1, <2>1, <2>2, <2>3 DEF ActStack
<1>13. Matches(f, ScopeNow(tree, q, [acts EXCEPT ![Len(acts)] = a]))
  <2>1. ScopeNow(tree, q, [acts EXCEPT ![Len(acts)] = a]) = ScopeAt(tree, q, a) BY <1>1, NowAt
  <2>. QED BY <1>7, <2>1
<1>14. Live([acts EXCEPT ![Len(acts)] = a], u, f, mm) BY DEF f
<1>. QED BY <1>1, <1>7, <1>9, <1>11, <1>12, <1>13, <1>14, StayOn

LEMMA CallOn ==
    ASSUME Inv, NEW s, Shaped(tree, s), Book(s), NEW q, Scoped(tree, s, q),
           NEW b, Stands(q, b), Call
    PROVE  StackBook(q)'
<1>. DEFINE ops == {"call"}
<1>a. /\ \A p : <<"call", p>> \notin FrameOpen
      /\ "args" \in PCs /\ "push" \in PCs
      /\ \A x \in {"body", "args", "push"} : x # "enter"
  BY Openings DEF FrameOpen
<1>1. ASSUME At(ops, "body"), NEW u,
             Live([acts EXCEPT ![Len(acts)] =
                     [Resume("args") EXCEPT !.argsLeft = Len(Args)]],
                  u, Pushed(nf, r1), PushRange(m, 0, r1 - 1))
      PROVE  StackBook(q)'
  <2>. DEFINE a0 == Resume("args")  a == [a0 EXCEPT !.argsLeft = Len(Args)]
              mm == PushRange(m, 0, r1 - 1)  L == Len(node.kids)
  <2>1. /\ status = "run" /\ act.pc = "body" /\ act.id # 0 /\ node = tree[act.id] /\ node.op = "call"
        /\ r1 = act.r1 /\ r1 \in 0 .. 10 /\ L \in 0 .. 6
        /\ q.after[act.id] = Behind(tree, q, act.id) /\ m \in Machine
        /\ Matches(nf, ScopeAt(tree, q, act))
    BY <1>1, CallPoint
  <2>2. L \in Nat /\ L <= L /\ Len(Args) = L BY <2>1 DEF Args
  <2>3. /\ a \in Activation /\ a.id = act.id /\ a.pc = "args" /\ a.frames0 = act.frames0
    BY <2>1, <2>2, Counting
  <2>4. /\ a0 \in Activation /\ a0.r1 = act.r1 /\ a0.pushed = act.pushed /\ a0.depth0 = act.depth0
    BY <1>a, <2>1, Resumed, Placed, PlacedToo
  <2>. HIDE DEF a0
  <2>5. a.r1 = act.r1 /\ a.pushed = act.pushed /\ a.depth0 = act.depth0 /\ a.argsLeft = L
    BY <2>2, <2>4 DEF Activation
  <2>6. Live([acts EXCEPT ![Len(acts)] = a], u, Pushed(nf, r1), mm) BY <1>1 DEF a0
  <2>. HIDE DEF a, mm
  <2>7. Own(tree, act) = 0 BY <2>1 DEF Own
  <2>8. Own(tree, a) = r1
    <3>1. Own(tree, a) = r1 + L - L - 0 BY <2>1, <2>3, <2>5 DEF Own
    <3>. HIDE DEF L
    <3>2. r1 \in Nat BY <2>1
    <3>. DEFINE x == r1
    <3>3. x \in Nat BY <3>2
    <3>. HIDE DEF x
    <3>4. x + L - L - 0 = x BY <2>2, <3>3
    <3>. QED BY <3>1, <3>4 DEF x
  <2>9. r1 \in Nat /\ r1 \in 0 .. 13 /\ Own(tree, a) = Own(tree, act) + r1 BY <2>1, <2>7, <2>8
  <2>10. Len(mm.stk) = Len(m.stk) + r1 /\ Bottom(m, mm, Len(m.stk))
    BY <2>1, <2>9, PushRangeParts DEF mm
  <2>11. ScopeAt(tree, q, a) = ScopeAt(tree, q, act)
    <3>1. ScopeAt(tree, q, act) = q.before[act.id] BY <2>1 DEF ScopeAt
    <3>2. CASE L = 0
      <4>1. node.kids = <<>>
        <5>1. node.kids \in Seq(Nat) BY <1>1, AtFacts, NodeFields
        <5>. QED BY <3>2, <5>1
      <4>2. Behind(tree, q, act.id) = q.before[act.id] BY <2>1, <4>1, BehindPath
      <4>3. ScopeAt(tree, q, a) = q.after[act.id] BY <2>3, <2>5, <3>2 DEF ScopeAt
      <4>. QED BY <2>1, <3>1, <4>2, <4>3
    <3>3. CASE L # 0
      <4>1. ScopeAt(tree, q, a) = StartScope(tree, q, act.id, L) BY <2>3, <2>5, <3>3 DEF ScopeAt
      <4>2. StartScope(tree, q, act.id, L) = q.before[act.id] BY <2>1 DEF StartScope
      <4>. QED BY <3>1, <4>1, <4>2
    <3>. QED BY <3>2, <3>3
  <2>. HIDE DEF L
  <2>12. At({"call"}, "body") BY <1>1
  <2>13. Matches(nf, ScopeAt(tree, q, a)) BY <2>1, <2>11
  <2>. QED BY <2>3, <2>5, <2>6, <2>9, <2>10, <2>12, <2>13, CallStays
<1>2. ASSUME At(ops, "args"), act.argsLeft > 0, NEW u,
             Gen(Args[act.argsLeft], [Resume("push") EXCEPT !.argsLeft = @ - 1], u, nf, m)
      PROVE  StackBook(q)'
  <2>. DEFINE n == act.argsLeft  a0 == Resume("push")  a == [a0 EXCEPT !.argsLeft = @ - 1]
              L == Len(node.kids)
  <2>1. /\ status = "run" /\ act.pc = "args" /\ act.id # 0 /\ node = tree[act.id] /\ node.op = "call"
        /\ r1 = act.r1 /\ r1 \in 0 .. 10 /\ L \in 0 .. 6 /\ n \in Nat /\ n <= L
        /\ nf \in Seq(Nameframe) /\ m \in Machine /\ Frames(nf, b)
        /\ Len(nf) = act.frames0 /\ Alike(nf, b, nf, b, act.frames0)
        /\ act.pushed = 0 /\ act.depth0 \in Nat /\ act.depth0 >= b[Len(nf)] + nf[Len(nf)].nSub
        /\ Fits(nf, b, m, act.depth0 + Own(tree, act))
        /\ Counts(nf, b, act.depth0 + Own(tree, act))
        /\ Matches(nf, ScopeAt(tree, q, act))
    BY <1>2, CallPoint
  <2>2. n \in 1 .. L /\ L \in Nat BY <1>2, <2>1
  <2>3. /\ Kid(n) = node.kids[n] /\ Kid(n) # 0
        /\ q.before[Kid(n)] = StartScope(tree, q, act.id, n)
    BY <1>2, <2>2, CallPoint
  <2>4. /\ a0 \in Activation /\ a0.argsLeft = n /\ a0.r1 = act.r1 /\ a0.pushed = act.pushed
        /\ a0.depth0 = act.depth0
    BY <1>a, <2>1, Resumed, Placed, PlacedToo
  <2>5. a = [Resume("push") EXCEPT !.argsLeft = n - 1] BY <2>4
  <2>6. n - 1 \in Nat /\ n - 1 <= L BY <2>2
  <2>7. /\ a \in Activation /\ a.id = act.id /\ a.pc = "push" /\ a.frames0 = act.frames0
        /\ opened(tree, a) = 0
    <3>. HIDE DEF a, n
    <3>. QED BY <2>1, <2>5, <2>6, Counting
  <2>8. a.argsLeft = n - 1 /\ a.r1 = act.r1 /\ a.pushed = act.pushed /\ a.depth0 = act.depth0
    <3>. HIDE DEF a0, n
    <3>. QED BY <2>4, <2>6 DEF Activation
  <2>9. Operand(tree, a) = n
    <3>1. Operand(tree, a) = a.argsLeft + 1 BY <2>7, OperandAt
    <3>2. n - 1 + 1 = n BY <2>1
    <3>. QED BY <2>8, <3>1, <3>2
  <2>10. Own(tree, a) = Own(tree, act)
    <3>1. Own(tree, a) = r1 + L - (n - 1) - 1 BY <2>1, <2>7, <2>8 DEF Own
    <3>2. Own(tree, act) = r1 + L - n - 0 BY <2>1 DEF Own
    <3>. DEFINE x == r1
    <3>3. x \in Nat BY <2>1
    <3>. HIDE DEF n, L, x
    <3>4. x + L - (n - 1) - 1 = x + L - n - 0 BY <2>1, <2>2, <3>3
    <3>. QED BY <3>1, <3>2, <3>4 DEF x
  <2>11. Depth(tree, nf, b, a) = act.depth0 + Own(tree, act) BY <2>7, <2>8, <2>10 DEF Depth
  <2>12. ScopeAt(tree, q, act) = StartScope(tree, q, act.id, n) BY <1>2, <2>1, <2>2 DEF ScopeAt
  <2>13. Gen(Kid(n), a, u, nf, m) BY <1>2, <2>3 DEF Args
  <2>. HIDE DEF a, a0, n, L
  <2>14. On(tree, nf, b, a, m) BY <2>1, <2>11 DEF On
  <2>15. ActStack(tree, q, nf, b, a)
    <3>1. SavedFits(tree, nf, b, a)
      <4>1. <<tree[a.id].op, a.pc>> \notin SavedBefore /\ a.pc # "right" BY <2>7 DEF SavedBefore
      <4>. QED BY <4>1, NoSave
    <3>2. OpenedAt(tree, q, nf, b, a) BY <2>7 DEF OpenedAt
    <3>. QED BY <2>1, <2>7, <2>8, <3>1, <3>2 DEF ActStack
  <2>16. /\ a.id # 0 /\ Kid(n) # 0 => q.before[Kid(n)] = StartScope(tree, q, a.id, Operand(tree, a))
         /\ Matches(nf, StartScope(tree, q, a.id, Operand(tree, a)))
    BY <2>1, <2>3, <2>7, <2>9, <2>12
  <2>17. Len(nf) = a.frames0 + opened(tree, a)
    <3>1. Len(nf) \in Nat BY <2>1
    <3>. QED BY <2>1, <2>7, <3>1
  <2>. QED BY <2>1, <2>7, <2>8, <2>13, <2>14, <2>15, <2>16, <2>17, GenOn
<1>3. ASSUME At(ops, "push"), NEW r \in Regs, NEW u,
             Live([acts EXCEPT ![Len(acts)] = Resume("args")], u, Pushed(nf, 1), Push(m, r))
      PROVE  StackBook(q)'
  <2>. DEFINE n == act.argsLeft  a == Resume("args")  mm == Push(m, r)  L == Len(node.kids)
  <2>1. /\ status = "run" /\ act.pc = "push" /\ act.id # 0 /\ node = tree[act.id] /\ node.op = "call"
        /\ r1 = act.r1 /\ r1 \in 0 .. 10 /\ L \in 0 .. 6 /\ n \in Nat /\ n + 1 <= L
        /\ q.after[act.id] = Behind(tree, q, act.id) /\ m \in Machine
        /\ Matches(nf, ScopeAt(tree, q, act))
    BY <1>3, CallPoint
  <2>2. n + 1 \in 1 .. L /\ L \in Nat /\ n # L BY <2>1
  <2>3. Kid(n + 1) = node.kids[n + 1] /\ Kid(n + 1) # 0
    <3>1. \A k \in 1 .. L : Kid(k) = node.kids[k] /\ Kid(k) # 0 BY <1>3, CallPoint
    <3>. QED BY <2>2, <3>1
  <2>4. /\ a \in Activation /\ a.id = act.id /\ a.pc = "args" /\ a.frames0 = act.frames0
        /\ a.argsLeft = n /\ a.r1 = act.r1 /\ a.pushed = act.pushed /\ a.depth0 = act.depth0
    BY <1>a, <2>1, Resumed, Placed, PlacedToo
  <2>5. Live([acts EXCEPT ![Len(acts)] = a], u, Pushed(nf, 1), mm) BY <1>3
  <2>. HIDE DEF a
  <2>6. Own(tree, a) = Own(tree, act) + 1
    <3>1. Own(tree, act) = r1 + L - n - 1 BY <2>1 DEF Own
    <3>2. Own(tree, a) = r1 + L - n - 0 BY <2>1, <2>4 DEF Own
    <3>. DEFINE x == r1
    <3>3. x \in Nat BY <2>1
    <3>. HIDE DEF n, L, x
    <3>4. x + L - n - 0 = x + L - n - 1 + 1 BY <2>1, <2>2, <3>3
    <3>. QED BY <3>1, <3>2, <3>4 DEF x
  <2>7. ScopeAt(tree, q, a) = ScopeAt(tree, q, act)
    <3>1. Operand(tree, act) = n + 1 BY <2>1, OperandAt
    <3>2. ScopeAt(tree, q, act) = EndScope(tree, q, act.id, n + 1) BY <2>1, <3>1 DEF ScopeAt
    <3>3. EndScope(tree, q, act.id, n + 1) = q.after[node.kids[n + 1]] BY <2>3, ScopeEnds
    <3>4. CASE n = 0
      <4>1. ScopeAt(tree, q, a) = q.after[act.id] BY <2>4, <3>4 DEF ScopeAt
      <4>2. node.kids # <<>> BY <2>2
      <4>3. Behind(tree, q, act.id) = EndScope(tree, q, act.id, 1) BY <2>1, <4>2, BehindPath
      <4>4. n + 1 = 1 BY <3>4
      <4>. QED BY <2>1, <3>2, <4>1, <4>3, <4>4
    <3>5. CASE n # 0
      <4>1. ScopeAt(tree, q, a) = StartScope(tree, q, act.id, n) BY <2>4, <3>5 DEF ScopeAt
      <4>2. StartScope(tree, q, act.id, n) = q.after[node.kids[n + 1]]
        BY <2>1, <2>2 DEF StartScope
      <4>. QED BY <3>2, <3>3, <4>1, <4>2
    <3>. QED BY <3>4, <3>5
  <2>. HIDE DEF n, L
  <2>8. Len(mm.stk) = Len(m.stk) + 1 /\ Bottom(m, mm, Len(m.stk)) BY <2>1, PushParts
  <2>. HIDE DEF mm
  <2>9. At({"call"}, "push") /\ 1 \in Nat BY <1>3
  <2>10. Matches(nf, ScopeAt(tree, q, a)) BY <2>1, <2>7
  <2>. QED BY <2>4, <2>5, <2>6, <2>8, <2>9, <2>10, CallStays
<1>4. ASSUME At(ops, "args"), act.argsLeft = 0, NEW u,
             Finish(u, Pushed(nf, -(InRegs + r1)), CallCode)
      PROVE  StackBook(q)'
  <2>. DEFINE L == Len(node.kids)  k == -(InRegs + r1)  f == Pushed(nf, k)
              h == act.depth0 + Own(tree, act)  at == b[Len(nf)]
  <2>1. /\ status = "run" /\ act.pc = "args" /\ act.id # 0 /\ node = tree[act.id] /\ node.op = "call"
        /\ r1 = act.r1 /\ r1 \in 0 .. 10 /\ L \in 0 .. 6
        /\ nf \in Seq(Nameframe) /\ nf # <<>> /\ m \in Machine /\ Frames(nf, b)
        /\ Len(nf) = act.frames0
        /\ act.depth0 \in Nat /\ act.depth0 >= at + nf[Len(nf)].nSub
        /\ Fits(nf, b, m, h) /\ Counts(nf, b, h) /\ Len(m.stk) = h /\ at <= act.depth0
        /\ Matches(nf, ScopeAt(tree, q, act))
    BY <1>4, CallPoint
  <2>2. Len(Args) = L BY DEF Args
  <2>a. r1 \in Nat /\ L \in Nat /\ L <= 6 /\ act.depth0 \in Nat
    <3>1. r1 \in 0 .. 10 /\ L \in 0 .. 6 /\ act.depth0 \in Nat BY <2>1
    <3>. HIDE DEF L
    <3>. QED BY <3>1
  <2>3. Own(tree, act) = r1 + L - 0 - 0 BY <1>4, <2>1 DEF Own
  <2>4. at \in Nat BY <2>1, FramesParts
  <2>5. /\ L + r1 \in Nat /\ h = act.depth0 + (L + r1) /\ h \in Int /\ L + r1 <= h
        /\ h - (L + r1) = act.depth0 /\ -(L + r1) \in Int /\ h + (-(L + r1)) = act.depth0
    <3>. DEFINE x == r1  d == act.depth0
    <3>1. x \in Nat /\ L \in Nat /\ d \in Nat BY <2>a
    <3>2. h = d + (x + L - 0 - 0) BY <2>3
    <3>. HIDE DEF x, d, L, h
    <3>3. /\ L + x \in Nat /\ h = d + (L + x) /\ h \in Int /\ L + x <= h
          /\ h - (L + x) = d /\ -(L + x) \in Int /\ h + (-(L + x)) = d
      BY <3>1, <3>2
    <3>. QED BY <3>3 DEF x, d
  <2>6. /\ InRegs = L /\ CallCode \in Machine
        /\ Len(CallCode.stk) = act.depth0 /\ Bottom(m, CallCode, act.depth0)
    <3>1. At({"call"}, "args") /\ Len(Args) <= 6 BY <1>4, <2>2, <2>a
    <3>2. Len(Args) + r1 <= Len(m.stk) BY <2>1, <2>2, <2>5
    <3>3. /\ InRegs = Len(Args) /\ CallCode \in Machine
          /\ Len(CallCode.stk) = Len(m.stk) - (Len(Args) + r1)
          /\ Bottom(m, CallCode, Len(m.stk) - (Len(Args) + r1))
      BY <3>1, <3>2, CallKeeps
    <3>. QED BY <2>1, <2>2, <2>5, <3>3
  <2>7. k \in Int /\ h + k = act.depth0 BY <2>5, <2>6
  <2>8. ScopeAt(tree, q, act) = q.after[act.id] BY <1>4, <2>1 DEF ScopeAt
  <2>9. Finish(u, f, CallCode) BY <1>4
  <2>. HIDE DEF k, h, L
  <2>10. Fits(nf, b, CallCode, act.depth0)
    <3>1. Bottom(m, CallCode, at) BY <2>1, <2>4, <2>6 DEF Bottom
    <3>. HIDE DEF at
    <3>. QED BY <2>1, <2>6, <3>1, StillFits DEF at
  <2>11. /\ f \in Seq(Nameframe) /\ Frames(f, b) /\ Fits(f, b, CallCode, act.depth0)
         /\ Len(f) = Len(nf) /\ Matches(f, q.after[act.id])
    BY <2>1, <2>7, <2>8, <2>10, PushedKeeps
  <2>12. Counts(f, b, act.depth0)
    <3>1. h \in Int BY <2>5
    <3>2. h + k >= at + nf[Len(nf)].nSub BY <2>1, <2>7
    <3>3. Counts(f, b, h + k) BY <2>1, <2>7, <3>1, <3>2, PushedCounts
    <3>. QED BY <2>7, <3>3
  <2>13. Alike(nf, b, f, b, act.frames0) BY <2>1, <2>7, PushedAlike
  <2>. HIDE DEF f, at, ops
  <2>. QED BY <1>4, <2>1, <2>9, <2>11, <2>12, <2>13, FinishOn
<1>5. ASSUME Stop("crash") PROVE StackBook(q)' BY <1>5, StopOn
<1>. QED BY <1>1, <1>2, <1>3, <1>4, <1>5 DEF Call

-----------------------------------------------------------------------------
(* The stack is right at the start and every step keeps it so.             *)

LEMMA InitOn ==
    ASSUME Init, NEW s, NEW q, Scoped(tree, s, q)
    PROVE  StackBook(q)
<1>. DEFINE w == frameWords(tree, 1)  g == createNF(TRUE, w, 0)  b == <<1>>
            a == NewAct(1, 0, m, nf)  e == Enter(Blank)  h == 1 + w
<1>1. /\ tree \in Programs /\ nf = <<g>> /\ m = Reserve(e, w) /\ acts = <<a>> BY DEF Init
<1>2. w \in Nat
  <2>1. 1 \in 1 .. Len(tree) BY <1>1, TreeFacts
  <2>. QED BY <1>1, <2>1, FrameWordsType
<1>3. e \in Machine /\ e.bp = 1 /\ Len(e.stk) = 1
  <2>1. Len(Blank.stk) = 0 BY DEF Blank
  <2>2. /\ Enter(Blank) \in Machine /\ Enter(Blank).bp = Len(Blank.stk) + 1
        /\ Len(Enter(Blank).stk) = Len(Blank.stk) + 1
    BY BlankType, EnterParts
  <2>. QED BY <2>1, <2>2
<1>. HIDE DEF w, e
<1>4. m.bp = 1 /\ Len(m.stk) = h /\ h \in Nat
  <2>1. /\ Len(Reserve(e, w).stk) = Len(e.stk) + w
        /\ Bottom(e, Reserve(e, w), Len(e.stk))
    BY <1>2, <1>3, ReserveParts
  <2>. QED BY <1>1, <1>2, <1>3, <2>1 DEF Bottom
<1>5. g.root /\ g.nSub = w /\ g.pushed = 0 /\ g.regSaved = 0 /\ g.above = 0 /\ g.vars = <<>>
  BY DEF createNF
<1>6. a.id = 1 /\ a.pc = "enter" /\ a.pushed = 0 /\ a.frames0 = Len(nf) /\ a.depth0 = Len(m.stk)
  BY DEF NewAct
<1>. HIDE DEF g, a
<1>7. Len(nf) = 1 /\ nf[1] = g /\ b[1] = 1 /\ Len(b) = 1 /\ b \in Seq(Nat) BY <1>1
<1>8. act = a /\ Len(acts) = 1 /\ acts[1] = a BY <1>1 DEF act
<1>. HIDE DEF b, h
<1>9. Frames(nf, b)
  <2>1. FrameAt(g, 1) BY <1>5 DEF FrameAt
  <2>2. 1 .. Len(nf) - 1 = {} /\ \A j \in 1 .. Len(nf) : j = 1 BY <1>7
  <2>3. nf # <<>> BY <1>7
  <2>. QED BY <1>5, <1>7, <2>1, <2>2, <2>3 DEF Frames
<1>10. Fits(nf, b, m, h)
  <2>1. Chain(nf) \subseteq {1} BY <1>7 DEF Chain
  <2>2. Linked(nf, b, m) BY <1>5, <1>7, <2>1 DEF Linked
  <2>3. 1 <= h BY <1>2 DEF h
  <2>. QED BY <1>4, <1>7, <2>2, <2>3 DEF Fits
<1>11. Counts(nf, b, h) BY <1>2, <1>5, <1>7 DEF Counts, h
<1>12. opened(tree, a) = 0 /\ Own(tree, a) = 0 BY <1>6 DEF opened, FrameOpen, Own
<1>13. Depth(tree, nf, b, a) = h BY <1>4, <1>6, <1>12 DEF Depth
<1>14. On(tree, nf, b, a, m) BY <1>10, <1>11, <1>13 DEF On
<1>15. ActStack(tree, q, nf, b, a)
  <2>1. SavedFits(tree, nf, b, a)
    <3>1. <<tree[a.id].op, a.pc>> \notin SavedBefore /\ a.pc # "right" BY <1>6 DEF SavedBefore
    <3>. QED BY <3>1, NoSave
  <2>2. OpenedAt(tree, q, nf, b, a) BY <1>12 DEF OpenedAt
  <2>3. h >= 1 + w BY <1>2 DEF h
  <2>. QED BY <1>4, <1>5, <1>6, <1>7, <2>1, <2>2, <2>3 DEF ActStack
<1>16. Below(tree, q, acts, nf, b)
  <2>1. 1 .. Len(acts) - 1 = {} /\ \A j \in 1 .. Len(acts) : j = 1 BY <1>8
  <2>. QED BY <1>6, <1>8, <1>15, <2>1 DEF Below
<1>17. Matches(nf, ScopeNow(tree, q, acts))
  <2>1. ScopeNow(tree, q, acts) = q.before[1] BY <1>6, <1>8 DEF ScopeNow, ScopeAt
  <2>2. q.before[1] = Fresh(w, {}) BY DEF Scoped, w
  <2>. QED BY <1>5, <1>7, <2>1, <2>2 DEF Matches, Fresh
<1>18. Stands(q, b) BY <1>8, <1>9, <1>14, <1>16, <1>17 DEF Stands
<1>. QED BY <1>7, <1>18 DEF StackBook

LEMMA NextOn ==
    ASSUME Inv, NEW s, Shaped(tree, s), Book(s), NEW q, Scoped(tree, s, q), StackBook(q),
           [Next]_vars
    PROVE  Scoped(tree, s, q)' /\ StackBook(q)'
<1>1. Scoped(tree, s, q)' BY TreeKept
<1>2. CASE UNCHANGED vars BY <1>2 DEF vars, StackBook, Stands, act
<1>3. CASE Stopped BY <1>3 DEF Stopped, vars, StackBook, Stands, act
<1>4. ASSUME Step PROVE StackBook(q)'
  <2>1. status = "run"
    BY <1>4 DEF Step, GenNull, Begin, Spill, Return, Exit, EvalLeft, EvalRight, CaseBinary,
       CaseCompare, CaseShift, CaseDivMod, CaseSetMem, EvalOperand, CaseUnary, CaseStore,
       CaseOut, CaseIn, CaseNumberAddr, CaseIdent, CaseIncDec, CaseUnsupported, Endl, Tern,
       Qq, Logic, While, Func, Call, At
  <2>2. PICK b \in Seq(Nat) : Stands(q, b) BY <2>1 DEF StackBook
  <2>3. CASE GenNull \/ Begin \/ Spill \/ Return \/ Exit
    BY <2>2, <2>3, GenNullOn, BeginOn, NeverSpills, ReturnOn, ExitOn
  <2>4. CASE EvalLeft \/ EvalRight BY <2>2, <2>4, EvalLeftOn, EvalRightOn
  <2>5. CASE CaseBinary \/ CaseCompare \/ CaseShift \/ CaseDivMod \/ CaseSetMem
    BY <2>2, <2>5, TwoOperandsDoneOn
  <2>6. CASE EvalOperand BY <2>2, <2>6, EvalOperandOn
  <2>7. CASE CaseUnary \/ CaseStore \/ CaseOut BY <2>2, <2>7, OneOperandDoneOn
  <2>8. CASE CaseIn \/ CaseNumberAddr \/ CaseIdent \/ CaseIncDec BY <2>2, <2>8, LeafOn
  <2>9. CASE CaseUnsupported BY <2>9, NothingUnsupported
  <2>10. CASE Endl \/ Tern \/ Qq BY <2>2, <2>10, EndlOn, TernOn, NoQq
  <2>11. CASE Logic \/ While \/ Func \/ Call
    BY <2>2, <2>11, LogicOn, WhileOn, FuncOn, CallOn
  <2>. QED BY <1>4, <2>3, <2>4, <2>5, <2>6, <2>7, <2>8, <2>9, <2>10, <2>11 DEF Step
<1>. QED BY <1>1, <1>2, <1>3, <1>4 DEF Next

StackInv ==
    /\ Inv
    /\ \E s \in Annotations(tree), q \in Scopings(tree) :
          Shaped(tree, s) /\ Book(s) /\ Scoped(tree, s, q) /\ StackBook(q)

LEMMA SpecStack == Spec /\ WellScoped(tree) => []StackInv
<1>1. Init /\ WellScoped(tree) => StackInv
  <2>. SUFFICES ASSUME Init, WellScoped(tree) PROVE StackInv OBVIOUS
  <2>1. PICK s \in Annotations(tree), q \in Scopings(tree) : Shaped(tree, s) /\ Scoped(tree, s, q)
    BY DEF WellScoped
  <2>2. Inv /\ Book(s) /\ StackBook(q) BY <2>1, InitInv, InitBook, InitOn
  <2>. QED BY <2>1, <2>2 DEF StackInv
<1>2. StackInv /\ [Next]_vars => StackInv'
  <2>. SUFFICES ASSUME StackInv, [Next]_vars PROVE StackInv' OBVIOUS
  <2>1. PICK s \in Annotations(tree), q \in Scopings(tree) :
           Shaped(tree, s) /\ Book(s) /\ Scoped(tree, s, q) /\ StackBook(q)
    BY DEF StackInv
  <2>2. Inv' BY NextInv DEF StackInv
  <2>3. Shaped(tree, s)' /\ Book(s)' BY <2>1, NextBook DEF StackInv
  <2>4. Scoped(tree, s, q)' /\ StackBook(q)' BY <2>1, NextOn DEF StackInv
  <2>5. (s \in Annotations(tree))' /\ (q \in Scopings(tree))' BY <2>3, <2>4 DEF Shaped, Scoped
  <2>. QED BY <2>2, <2>3, <2>4, <2>5 DEF StackInv
<1>. QED BY <1>1, <1>2, PTL DEF Spec

\* Where the compiler is, for one scoping.
LEMMA StackAt ==
    ASSUME StackInv, status = "run"
    PROVE  \E b \in Seq(Nat) :
              /\ Frames(nf, b) /\ nf \in Seq(Nameframe)
              /\ Fits(nf, b, m, Depth(tree, nf, b, act))
              /\ Counts(nf, b, Depth(tree, nf, b, act))
<1>1. PICK s \in Annotations(tree), q \in Scopings(tree) :
         Shaped(tree, s) /\ Book(s) /\ Scoped(tree, s, q) /\ StackBook(q)
  BY DEF StackInv
<1>2. PICK b \in Seq(Nat) : Stands(q, b) BY <1>1 DEF StackBook
<1>3. Inv BY DEF StackInv
<1>. QED BY <1>2, <1>3, StandsFacts

LEMMA StackIsBalanced == StackInv => StackBalanced
<1>. SUFFICES ASSUME StackInv, Returning PROVE Len(m.stk) = act.depth0 BY DEF StackBalanced
<1>1. status = "run" /\ act.pc = "done" BY DEF Returning, pc
<1>2. PICK b \in Seq(Nat) : Fits(nf, b, m, Depth(tree, nf, b, act)) BY <1>1, StackAt
<1>3. opened(tree, act) = 0 /\ Own(tree, act) = 0 BY <1>1, Openings DEF opened, Own
<1>4. act.depth0 \in Nat
  <2>1. act \in Activation BY <1>1, InvFacts DEF StackInv
  <2>. QED BY <2>1 DEF Activation
<1>5. Depth(tree, nf, b, act) = act.depth0 BY <1>3, <1>4 DEF Depth
<1>. QED BY <1>2, <1>5 DEF Fits

LEMMA StackOffsetsAgree == StackInv => OffsetsAgree
<1>. SUFFICES ASSUME StackInv, status = "run", NEW x \in Names, Declared(nf, x)
              PROVE  Addressed(nf, m.bp, x) = Entry(nf, x).slot
  BY DEF OffsetsAgree
<1>1. PICK b \in Seq(Nat) : /\ Frames(nf, b) /\ nf \in Seq(Nameframe)
                            /\ Fits(nf, b, m, Depth(tree, nf, b, act))
  BY StackAt
<1>2. m.bp = b[Len(nf)] BY <1>1 DEF Fits
<1>. QED BY <1>1, <1>2, AddressedAt

LEMMA StackLocalsReserved == StackInv => LocalsReserved
<1>. SUFFICES ASSUME StackInv, status = "run", NEW x \in Names, Declared(nf, x)
              PROVE  Entry(nf, x).slot \in 1 .. Len(m.stk)
  BY DEF LocalsReserved
<1>1. PICK b \in Seq(Nat) : /\ Frames(nf, b) /\ nf \in Seq(Nameframe)
                            /\ Fits(nf, b, m, Depth(tree, nf, b, act))
                            /\ Counts(nf, b, Depth(tree, nf, b, act))
  BY StackAt
<1>2. Entry(nf, x).slot \in 1 .. b[Len(nf)] + nf[Len(nf)].nSub BY <1>1, EntryWithin
<1>3. Len(m.stk) >= b[Len(nf)] + nf[Len(nf)].nSub /\ Len(m.stk) \in Nat
  BY <1>1, CountsAbove DEF Fits
<1>4. b[Len(nf)] \in Nat /\ nf[Len(nf)].nSub \in Nat BY <1>1, FramesParts
<1>. DEFINE x1 == b[Len(nf)]  y1 == nf[Len(nf)].nSub  z1 == Len(m.stk)
<1>5. x1 \in Nat /\ y1 \in Nat /\ z1 \in Nat /\ z1 >= x1 + y1 BY <1>3, <1>4
<1>. HIDE DEF x1, y1, z1
<1>6. \A i \in 1 .. x1 + y1 : i \in 1 .. z1 BY <1>5
<1>. QED BY <1>2, <1>6 DEF x1, y1, z1

\* In a program that has scopes, the code of a node leaves RSP where it found
\* it, on every path through branches, loops, functions and calls
\* (Backend.cpp:99-592): what it pushes it pops, and leave undoes the frames.
THEOREM ScopedStackBalanced == Spec /\ WellScoped(tree) => []StackBalanced
BY SpecStack, StackIsBalanced, PTL

\* In such a program getOffset (StFrame.cpp:25-43) finds every visible variable
\* where registerVar put it: the push counters of the frames in between are
\* what separates the RBP of now from the RBP of then.
THEOREM ScopedOffsetsAgree == Spec /\ WellScoped(tree) => []OffsetsAgree
BY SpecStack, StackOffsetsAgree, PTL

\* And every visible variable lies in words that are reserved, never beyond RSP,
\* where the next push or the next call would overwrite it (Backend.cpp:614-652).
THEOREM ScopedLocalsReserved == Spec /\ WellScoped(tree) => []LocalsReserved
BY SpecStack, StackLocalsReserved, PTL
=============================================================================
