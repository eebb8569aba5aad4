---------------------------- MODULE ValueProofs ----------------------------
(***************************************************************************)
(* Proofs about the values that the code of CodeGen leaves, for every      *)
(* program that reads what it has stored (Stores): ResultInPlace.          *)
(*                                                                         *)
(* A value is in its register when it is looked for if nothing has taken   *)
(* the register in between.  So the invariant says of every activation     *)
(* what it will need when it goes on: the registers of its left operand,   *)
(* the arguments it has pushed, the variables that hold a value.  And it   *)
(* says that what lies above needs other registers and deeper words.       *)
(* A machine that was saved has to suit the activations below as the one   *)
(* that runs does; only the body of a function runs on another machine,    *)
(* and nothing is asked of that until the function is left.                *)
(***************************************************************************)
EXTENDS Stores, StackProofs

\* The body of a function is being generated.
FuncBody(t, a) == a.id # 0 /\ t[a.id].op = "func" /\ a.pc = "right"

\* Activation j runs on the machine of activation l.
Shares(t, A, j, l) == \A i \in j + 1 .. l : ~ FuncBody(t, A[i])

\* The variables of S are declared and hold what was stored in them.
HasStored(f, mm, S) ==
    \A x \in S : Declared(f, x) /\ mm.stk[Entry(f, x).slot] = Slot(Entry(f, x).decl)

\* The words of a frame: nothing but the variables is in them.
FrameTidy(g, at, w) ==
    /\ \A i \in DOMAIN g.vars : w[g.vars[i].slot] \in {Junk, Slot(g.vars[i].decl)}
    /\ \A d \in at + g.above + 1 .. at + g.nSub : w[d] = Junk
Tidy(f, mm)     == \A j \in Chain(f) : FrameTidy(f[j], mm.bp - Hops(f, j), mm.stk)
TidyAt(f, b, w) == \A j \in Chain(f) : FrameTidy(f[j], b[j], w)

\* No two variables of a frame share a word.
FrameApart(g) ==
    \A i \in DOMAIN g.vars :
        /\ g.vars[i].off >= - g.above
        /\ \A k \in DOMAIN g.vars : g.vars[i].off = g.vars[k].off => i = k
Apart(f) == \A j \in 1 .. Len(f) : FrameApart(f[j])

-----------------------------------------------------------------------------
(* The variables and the words of name frames.                             *)

LEMMA FramesCut ==
    ASSUME NEW f \in Seq(Nameframe), NEW b, Frames(f, b), NEW k \in 1 .. Len(f)
    PROVE  /\ Cut(f, k) \in Seq(Nameframe) /\ Len(Cut(f, k)) = k /\ Frames(Cut(f, k), Cut(b, k))
           /\ \A i \in 1 .. k : Cut(f, k)[i] = f[i] /\ Cut(b, k)[i] = b[i]
           /\ Cut(b, k)[k] = b[k] /\ Cut(f, k)[k] = f[k] /\ k \in 1 .. k /\ k \in Nat
<1>. DEFINE g == Cut(f, k)  c == Cut(b, k)
<1>1. b \in Seq(Nat) /\ Len(b) = Len(f) /\ Len(f) \in Nat BY FramesParts
<1>2. k \in 0 .. Len(f) /\ k \in Nat /\ k \in 1 .. k /\ 1 \in 1 .. k BY <1>1
<1>3. g \in Seq(Nameframe) /\ Len(g) = k /\ \A i \in 1 .. k : g[i] = f[i] BY <1>2, CutParts
<1>4. c \in Seq(Nat) /\ Len(c) = k /\ \A i \in 1 .. k : c[i] = b[i] BY <1>1, <1>2, CutParts
<1>. HIDE DEF g, c
<1>5. \A i \in 1 .. k : i \in 1 .. Len(f) BY <1>1, <1>2
<1>6. \A i \in 1 .. k - 1 : i \in 1 .. Len(f) - 1 /\ i \in 1 .. k /\ i + 1 \in 1 .. k BY <1>1, <1>2
<1>7. g # <<>> /\ g[1].root
  <2>1. f[1].root BY DEF Frames
  <2>2. g # <<>> BY <1>2, <1>3
  <2>. QED BY <1>2, <1>3, <2>1, <2>2
<1>8. \A j \in 1 .. k : FrameAt(g[j], c[j]) BY <1>3, <1>4, <1>5 DEF Frames
<1>9. ASSUME NEW j \in 1 .. k - 1
      PROVE  g[j].pushed >= 1 /\ (~ g[j + 1].root => c[j + 1] = c[j] + g[j].nSub + g[j].pushed)
  <2>1. g[j] = f[j] /\ g[j + 1] = f[j + 1] /\ c[j] = b[j] /\ c[j + 1] = b[j + 1]
    BY <1>3, <1>4, <1>6
  <2>2. f[j].pushed >= 1 /\ (~ f[j + 1].root => b[j + 1] = b[j] + f[j].nSub + f[j].pushed)
    BY <1>6 DEF Frames
  <2>. QED BY <2>1, <2>2
<1>10. Frames(g, c) BY <1>3, <1>4, <1>7, <1>8, <1>9 DEF Frames
<1>. QED BY <1>2, <1>3, <1>4, <1>10 DEF g, c

LEMMA TidyIs ==
    ASSUME NEW f \in Seq(Nameframe), NEW b, Frames(f, b), NEW mm, mm.bp = b[Len(f)]
    PROVE  Tidy(f, mm) <=> TidyAt(f, b, mm.stk)
<1>1. ASSUME NEW j \in Chain(f) PROVE mm.bp - Hops(f, j) = b[j]
  <2>1. Hops(f, j) = b[Len(f)] - b[j] BY HopsAre
  <2>2. b[j] \in Nat /\ b[Len(f)] \in Nat BY BasesIn
  <2>. QED BY <2>1, <2>2
<1>. QED BY <1>1 DEF Tidy, TidyAt

\* The words of a frame of the chain are no deeper than the innermost ones.
LEMMA WordsIn ==
    ASSUME NEW f \in Seq(Nameframe), NEW b, Frames(f, b), NEW j \in Chain(f)
    PROVE  /\ j \in 1 .. Len(f) /\ b[j] \in Nat /\ b[j] >= 1 /\ f[j].nSub \in Nat /\ f[j].above \in Nat
           /\ b[j] + f[j].nSub <= b[Len(f)] + f[Len(f)].nSub
           /\ \A i \in DOMAIN f[j].vars :
                 /\ f[j].vars[i].slot \in 1 .. b[j] + f[j].nSub
                 /\ f[j].vars[i].slot = b[j] - f[j].vars[i].off
                 /\ f[j].vars[i].off \in Int
                 /\ ~ f[j].root => f[j].vars[i].slot > b[j]
<1>1. j \in 1 .. Len(f) BY ChainParts
<1>2. /\ FrameAt(f[j], b[j]) /\ b[j] \in Nat /\ b[j] >= 1 /\ f[j].nSub \in Nat /\ f[j].above \in Nat
      /\ Len(f) \in 1 .. Len(f) /\ Len(f) \in Nat
  BY <1>1, FramesParts
<1>3. b[Len(f)] \in Nat /\ f[Len(f)].nSub \in Nat BY <1>2, FramesParts
<1>4. b[j] + f[j].nSub <= b[Len(f)] + f[Len(f)].nSub
  <2>1. CASE j = Len(f) BY <1>3, <2>1
  <2>2. CASE j # Len(f)
    <3>1. j < Len(f) BY <1>1, <1>2, <2>2
    <3>2. b[Len(f)] >= b[j] + f[j].nSub + 1 BY <1>2, <3>1, BasesRise
    <3>. DEFINE x == b[j]  y == f[j].nSub  z == b[Len(f)]  u == f[Len(f)].nSub
    <3>3. x \in Nat /\ y \in Nat /\ z \in Nat /\ u \in Nat /\ z >= x + y + 1 BY <1>2, <1>3, <3>2
    <3>. HIDE DEF x, y, z, u
    <3>4. x + y <= z + u BY <3>3
    <3>. QED BY <3>4 DEF x, y, z, u
  <2>. QED BY <2>1, <2>2
<1>5. ASSUME NEW i \in DOMAIN f[j].vars
      PROVE  /\ PlacedIn(f[j], b[j], f[j].vars[i]) /\ f[j].vars[i].off \in Int
  <2>1. f[j].vars \in Seq(VarOffset) BY <1>1, FrameType
  <2>2. f[j].vars[i] \in VarOffset BY <2>1
  <2>. QED BY <1>2, <2>2 DEF FrameAt, VarOffset
<1>. QED BY <1>1, <1>2, <1>4, <1>5 DEF PlacedIn

LEMMA TidyWords ==
    ASSUME NEW f \in Seq(Nameframe), NEW b, Frames(f, b), NEW w, TidyAt(f, b, w),
           NEW z, \A d \in 1 .. b[Len(f)] + f[Len(f)].nSub : z[d] = w[d]
    PROVE  TidyAt(f, b, z)
<1>1. SUFFICES ASSUME NEW j \in Chain(f) PROVE FrameTidy(f[j], b[j], z) BY DEF TidyAt
<1>. DEFINE h == b[Len(f)] + f[Len(f)].nSub
<1>2. /\ j \in 1 .. Len(f) /\ b[j] \in Nat /\ b[j] >= 1 /\ f[j].nSub \in Nat /\ f[j].above \in Nat
      /\ b[j] + f[j].nSub <= h
      /\ \A i \in DOMAIN f[j].vars : f[j].vars[i].slot \in 1 .. b[j] + f[j].nSub
  BY WordsIn
<1>3. h \in Nat BY FramesParts
<1>4. FrameTidy(f[j], b[j], w) BY DEF TidyAt
<1>. HIDE DEF h
<1>5. \A d \in 1 .. b[j] + f[j].nSub : d \in 1 .. h BY <1>2, <1>3
<1>6. \A d \in b[j] + f[j].above + 1 .. b[j] + f[j].nSub : d \in 1 .. h
  <2>. DEFINE x == b[j]  y == f[j].above  u == f[j].nSub
  <2>1. x \in Nat /\ y \in Nat /\ u \in Nat /\ x + u <= h BY <1>2
  <2>. HIDE DEF x, y, u
  <2>2. \A d \in x + y + 1 .. x + u : d \in 1 .. h BY <1>3, <2>1
  <2>. QED BY <2>2 DEF x, y, u
<1>7. \A i \in DOMAIN f[j].vars : z[f[j].vars[i].slot] = w[f[j].vars[i].slot]
  BY <1>2, <1>5 DEF h
<1>8. \A d \in b[j] + f[j].above + 1 .. b[j] + f[j].nSub : z[d] = w[d] BY <1>6 DEF h
<1>. QED BY <1>4, <1>7, <1>8 DEF FrameTidy

\* The chain of f is that of g, which has more frames but no more functions.
LEMMA ChainOn ==
    ASSUME NEW f \in Seq(Nameframe), NEW g \in Seq(Nameframe), Len(f) <= Len(g),
           \A i \in 1 .. Len(f) : f[i].root = g[i].root,
           \A i \in Len(f) + 1 .. Len(g) : ~ g[i].root
    PROVE  \A j : j \in Chain(f) <=> j \in Chain(g) /\ j <= Len(f)
<1>1. Len(f) \in Nat /\ Len(g) \in Nat /\ Chain(f) \subseteq 1 .. Len(f) /\ Chain(g) \subseteq 1 .. Len(g)
  BY ChainParts
<1>2. ASSUME NEW j \in Chain(f) PROVE j \in Chain(g) /\ j <= Len(f)
  <2>1. j \in 1 .. Len(f) /\ j \in 1 .. Len(g) /\ j <= Len(f) BY <1>1
  <2>2. ASSUME NEW k \in j + 1 .. Len(g) PROVE ~ g[k].root
    <3>1. CASE k <= Len(f)
      <4>1. k \in 1 .. Len(f) /\ k > j BY <1>1, <2>1, <3>1
      <4>. QED BY <4>1, ChainParts
    <3>2. CASE ~ (k <= Len(f))
      <4>1. k \in Len(f) + 1 .. Len(g) BY <1>1, <2>1, <3>2
      <4>. QED BY <4>1
    <3>. QED BY <3>1, <3>2
  <2>. QED BY <2>1, <2>2, ChainParts
<1>3. ASSUME NEW j \in Chain(g), j <= Len(f) PROVE j \in Chain(f)
  <2>1. j \in 1 .. Len(f) BY <1>1, <1>3
  <2>2. ASSUME NEW k \in j + 1 .. Len(f) PROVE ~ f[k].root
    <3>1. k \in 1 .. Len(f) /\ k \in 1 .. Len(g) /\ k > j BY <1>1, <2>1
    <3>. QED BY <3>1, ChainParts
  <2>. QED BY <2>1, <2>2, ChainParts
<1>. QED BY <1>2, <1>3

\* Frames that declare the same: g has what f has, and frames with nothing in.
SameNames(f, g) ==
    /\ Len(f) <= Len(g)
    /\ \A i \in 1 .. Len(f) : f[i].root = g[i].root /\ f[i].vars = g[i].vars
    /\ \A i \in Len(f) + 1 .. Len(g) : ~ g[i].root /\ g[i].vars = <<>>

LEMMA SameEntries ==
    ASSUME NEW f \in Seq(Nameframe), NEW g \in Seq(Nameframe), SameNames(f, g), NEW x
    PROVE  /\ Declared(f, x) <=> Declared(g, x)
           /\ Declared(f, x) => Entry(f, x) = Entry(g, x)
<1>1. Len(f) \in Nat /\ Len(g) \in Nat /\ Chain(f) \subseteq 1 .. Len(f) /\ Chain(g) \subseteq 1 .. Len(g)
  BY ChainParts
<1>2. \A j : j \in Chain(f) <=> j \in Chain(g) /\ j <= Len(f) BY ChainOn DEF SameNames
<1>3. ASSUME NEW j \in Chain(g), Declares(g[j], x) PROVE j <= Len(f)
  <2>1. SUFFICES ASSUME ~ (j <= Len(f)) PROVE FALSE OBVIOUS
  <2>2. j \in Len(f) + 1 .. Len(g) BY <1>1, <2>1
  <2>3. g[j].vars = <<>> BY <2>2 DEF SameNames
  <2>. QED BY <1>3, <2>3 DEF Declares
<1>4. \A j \in 1 .. Len(f) : Declares(f[j], x) <=> Declares(g[j], x) BY DEF SameNames, Declares
<1>5. Owners(f, x) = Owners(g, x) BY <1>1, <1>2, <1>3, <1>4 DEF Owners
<1>6. Owner(f, x) = Owner(g, x) BY <1>5 DEF Owner
<1>7. ASSUME Declared(f, x) PROVE Entry(f, x) = Entry(g, x)
  <2>1. Owner(f, x) \in 1 .. Len(f) BY <1>1, <1>7, EntryFound DEF Owners
  <2>2. f[Owner(f, x)].vars = g[Owner(g, x)].vars BY <1>6, <2>1 DEF SameNames
  <2>. QED BY <2>2 DEF Entry
<1>. QED BY <1>5, <1>7 DEF Declared

LEMMA SameStored ==
    ASSUME NEW f \in Seq(Nameframe), NEW g \in Seq(Nameframe), SameNames(f, g), NEW mm, NEW S
    PROVE  HasStored(f, mm, S) <=> HasStored(g, mm, S)
<1>1. \A x : /\ Declared(f, x) <=> Declared(g, x)
             /\ Declared(f, x) => Entry(f, x) = Entry(g, x)
  BY SameEntries
<1>. QED BY <1>1 DEF HasStored

\* Words that are not junk stay what they are.
KeepsWords(x, y, h) == \A d \in 1 .. h : x.stk[d] # Junk => y.stk[d] = x.stk[d]

LEMMA WordsDiffer ==
    /\ \A i : Val(i) # Junk /\ Slot(i) # Junk /\ Ret # Junk
    /\ \A i, k : Val(i) # Slot(k) /\ (Val(i) = Val(k) => i = k) /\ (Slot(i) = Slot(k) => i = k)
    /\ \A i : Val(i) # Ret /\ Slot(i) # Ret
BY DEF Val, Slot, Junk, Ret

LEMMA StoredStill ==
    ASSUME NEW f \in Seq(Nameframe), NEW b, Frames(f, b), NEW S, NEW x, HasStored(f, x, S),
           NEW h \in Nat, b[Len(f)] + f[Len(f)].nSub <= h, NEW y, KeepsWords(x, y, h)
    PROVE  HasStored(f, y, S)
<1>1. SUFFICES ASSUME NEW z \in S
               PROVE  Declared(f, z) /\ y.stk[Entry(f, z).slot] = Slot(Entry(f, z).decl)
  BY DEF HasStored
<1>2. Declared(f, z) /\ x.stk[Entry(f, z).slot] = Slot(Entry(f, z).decl) BY DEF HasStored
<1>. DEFINE e == Entry(f, z)  k == b[Len(f)] + f[Len(f)].nSub
<1>3. e.slot \in 1 .. k BY <1>2, EntryWithin
<1>4. k \in Nat BY FramesParts
<1>5. x.stk[e.slot] # Junk BY <1>2, WordsDiffer
<1>. HIDE DEF e, k
<1>6. e.slot \in 1 .. h BY <1>3, <1>4 DEF k
<1>. QED BY <1>2, <1>5, <1>6 DEF KeepsWords, e

\* Two variables of the chain that share a word are the same one, and no
\* variable lies where a frame has words left.
LEMMA SlotsApart ==
    ASSUME NEW f \in Seq(Nameframe), NEW b, Frames(f, b), Apart(f), NEW j \in Chain(f),
           NEW i \in DOMAIN f[j].vars, NEW k \in Chain(f)
    PROVE  /\ \A l \in DOMAIN f[k].vars : f[j].vars[i].slot = f[k].vars[l].slot => j = k /\ i = l
           /\ f[j].vars[i].slot \notin b[k] + f[k].above + 1 .. b[k] + f[k].nSub
<1>. DEFINE z == f[j].vars[i].slot  o == f[j].vars[i].off
            J == b[j]  K == b[k]  p == f[k].nSub  r == f[j].nSub  u == f[k].above
<1>1. /\ j \in 1 .. Len(f) /\ J \in Nat /\ r \in Nat /\ f[j].above \in Nat
      /\ z \in 1 .. J + r /\ z = J - o /\ o \in Int /\ (~ f[j].root => z > J)
  BY WordsIn
<1>2. /\ k \in 1 .. Len(f) /\ K \in Nat /\ p \in Nat /\ u \in Nat
      /\ \A l \in DOMAIN f[k].vars :
            /\ f[k].vars[l].slot \in 1 .. K + p /\ f[k].vars[l].slot = K - f[k].vars[l].off
            /\ f[k].vars[l].off \in Int /\ (~ f[k].root => f[k].vars[l].slot > K)
  BY WordsIn
<1>3. j < k => K >= J + r + 1 /\ ~ f[k].root BY <1>2, BasesRise, ChainParts
<1>4. k < j => J >= K + p + 1 /\ ~ f[j].root BY <1>1, BasesRise, ChainParts
<1>5. FrameApart(f[j]) BY <1>1 DEF Apart
<1>6. o >= - f[j].above BY <1>5 DEF FrameApart
<1>7. CASE j < k
  <2>1. K >= J + r + 1 /\ ~ f[k].root BY <1>3, <1>7
  <2>. HIDE DEF z, o, J, K, p, r, u
  <2>2. z < K /\ z \notin K + u + 1 .. K + p BY <1>1, <1>2, <2>1
  <2>3. \A l \in DOMAIN f[k].vars : f[k].vars[l].slot > K /\ f[k].vars[l].slot \in Int BY <1>2, <2>1
  <2>4. \A l \in DOMAIN f[k].vars : f[k].vars[l].slot # z BY <1>2, <2>2, <2>3
  <2>. QED BY <2>2, <2>4 DEF z, K, p, u
<1>8. CASE k < j
  <2>1. J >= K + p + 1 /\ ~ f[j].root BY <1>4, <1>8
  <2>. HIDE DEF z, o, J, K, p, r, u
  <2>2. z > K + p /\ z \notin K + u + 1 .. K + p BY <1>1, <1>2, <2>1
  <2>3. \A l \in DOMAIN f[k].vars : f[k].vars[l].slot # z BY <1>2, <2>2
  <2>. QED BY <2>2, <2>3 DEF z, K, p, u
<1>9. CASE j = k
  <2>1. \A l \in DOMAIN f[j].vars : o = f[j].vars[l].off => i = l BY <1>5 DEF FrameApart
  <2>2. J = K /\ f[j].above = u BY <1>9
  <2>. HIDE DEF z, o, J, K, p, r, u
  <2>3. z <= K + u BY <1>1, <1>2, <1>6, <2>2
  <2>4. z \notin K + u + 1 .. K + p BY <1>1, <1>2, <2>3
  <2>5. ASSUME NEW l \in DOMAIN f[k].vars, z = f[k].vars[l].slot PROVE o = f[k].vars[l].off
    <3>. DEFINE y == f[k].vars[l].off
    <3>1. z = K - y /\ y \in Int BY <1>2, <2>5
    <3>. HIDE DEF y
    <3>2. o = y BY <1>1, <1>2, <2>2, <3>1
    <3>. QED BY <3>2 DEF y
  <2>. QED BY <1>9, <2>1, <2>4, <2>5 DEF z, K, p, u
<1>10. j < k \/ k < j \/ j = k BY <1>1, <1>2
<1>. QED BY <1>7, <1>8, <1>9, <1>10

LEMMA StoreParts ==
    ASSUME NEW f \in Seq(Nameframe), NEW b, Frames(f, b), NEW x, Declared(f, x),
           NEW mm \in Machine, mm.bp = b[Len(f)], b[Len(f)] + f[Len(f)].nSub <= Len(mm.stk)
    PROVE  LET mn == StoreVar(mm, f, x)
               e  == Entry(f, x)
           IN  /\ mn \in Machine /\ mn.reg = mm.reg /\ mn.bp = mm.bp /\ Len(mn.stk) = Len(mm.stk)
               /\ e.slot \in 1 .. Len(mm.stk) /\ mn.stk[e.slot] = Slot(e.decl)
               /\ \A d \in 1 .. Len(mm.stk) : d # e.slot => mn.stk[d] = mm.stk[d]
<1>. DEFINE d == Addressed(f, mm.bp, x)  t == Slot(Entry(f, x).decl)
            s == [i \in 1 .. Len(mm.stk) |-> IF i \in {d} THEN t ELSE mm.stk[i]]
            mn == [mm EXCEPT !.stk = s]  k == b[Len(f)] + f[Len(f)].nSub  e == Entry(f, x)
<1>1. StoreVar(mm, f, x) = mn BY DEF StoreVar, Poke
<1>2. mm.stk \in Seq(Token) /\ mn.stk = s /\ mn.bp = mm.bp /\ mn.reg = mm.reg BY DEF Machine
<1>3. Len(mm.stk) \in Nat BY <1>2
<1>4. Len(s) = Len(mm.stk) BY <1>3
<1>5. d = e.slot BY AddressedAt
<1>6. e.slot \in 1 .. k BY EntryWithin
<1>7. k \in Nat /\ k <= Len(mm.stk) BY FramesParts
<1>8. mn \in Machine BY <1>1, StoreVarType
<1>. HIDE DEF d, k, mn, e
<1>9. e.slot \in 1 .. Len(mm.stk) BY <1>3, <1>6, <1>7
<1>10. s[e.slot] = t BY <1>5, <1>9
<1>11. \A i \in 1 .. Len(mm.stk) : i # e.slot => s[i] = mm.stk[i] BY <1>5
<1>. HIDE DEF s
<1>. QED BY <1>1, <1>2, <1>4, <1>8, <1>9, <1>10, <1>11 DEF e

\* A store to a variable writes the word of that variable and no other.
LEMMA StoreKeeps ==
    ASSUME NEW f \in Seq(Nameframe), NEW b, Frames(f, b), Apart(f), NEW x, Declared(f, x),
           NEW mm \in Machine, mm.bp = b[Len(f)], b[Len(f)] + f[Len(f)].nSub <= Len(mm.stk),
           TidyAt(f, b, mm.stk)
    PROVE  LET mn == StoreVar(mm, f, x)
           IN  /\ TidyAt(f, b, mn.stk) /\ KeepsWords(mm, mn, Len(mm.stk))
               /\ \A S : HasStored(f, mm, S) => HasStored(f, mn, S \union {x})
<1>. DEFINE mn == StoreVar(mm, f, x)  e == Entry(f, x)  o == Owner(f, x)
<1>1. /\ mn \in Machine /\ mn.bp = mm.bp /\ Len(mn.stk) = Len(mm.stk)
      /\ e.slot \in 1 .. Len(mm.stk) /\ mn.stk[e.slot] = Slot(e.decl)
      /\ \A d \in 1 .. Len(mm.stk) : d # e.slot => mn.stk[d] = mm.stk[d]
  BY StoreParts
<1>2. PICK i \in DOMAIN f[o].vars : e = f[o].vars[i] BY EntryFound
<1>3. o \in Chain(f) BY EntryPlaced
<1>. DEFINE h == b[Len(f)] + f[Len(f)].nSub  n == Len(mm.stk)
<1>4. h \in Nat /\ h <= n BY FramesParts
<1>5. n \in Nat BY DEF Machine
<1>. HIDE DEF mn, e, o
<1>6. FrameTidy(f[o], b[o], mm.stk) BY <1>3 DEF TidyAt
<1>7. mm.stk[e.slot] \in {Junk, Slot(e.decl)} BY <1>2, <1>6 DEF FrameTidy
<1>8. ASSUME NEW j \in Chain(f) PROVE FrameTidy(f[j], b[j], mn.stk)
  <2>1. /\ b[j] \in Nat /\ b[j] >= 1 /\ f[j].nSub \in Nat /\ f[j].above \in Nat
        /\ b[j] + f[j].nSub <= h
        /\ \A l \in DOMAIN f[j].vars : f[j].vars[l].slot \in 1 .. b[j] + f[j].nSub
    BY WordsIn
  <2>2. /\ \A l \in DOMAIN f[j].vars : e.slot = f[j].vars[l].slot => o = j /\ i = l
        /\ e.slot \notin b[j] + f[j].above + 1 .. b[j] + f[j].nSub
    <3>1. /\ \A l \in DOMAIN f[j].vars : f[o].vars[i].slot = f[j].vars[l].slot => o = j /\ i = l
          /\ f[o].vars[i].slot \notin b[j] + f[j].above + 1 .. b[j] + f[j].nSub
      BY <1>2, <1>3, SlotsApart
    <3>. QED BY <1>2, <3>1
  <2>3. FrameTidy(f[j], b[j], mm.stk) BY DEF TidyAt
  <2>4. ASSUME NEW l \in DOMAIN f[j].vars
        PROVE  mn.stk[f[j].vars[l].slot] \in {Junk, Slot(f[j].vars[l].decl)}
    <3>. DEFINE z == f[j].vars[l].slot
    <3>1. z \in 1 .. b[j] + f[j].nSub BY <2>1
    <3>. HIDE DEF z, h, n
    <3>2. z \in 1 .. n BY <1>4, <1>5, <2>1, <3>1
    <3>3. CASE z = e.slot
      <4>1. o = j /\ i = l BY <2>2, <3>3 DEF z
      <4>2. e = f[j].vars[l] BY <1>2, <4>1
      <4>. QED BY <1>1, <3>3, <4>2 DEF z
    <3>4. CASE z # e.slot
      <4>1. mn.stk[z] = mm.stk[z] BY <1>1, <3>2, <3>4 DEF n
      <4>. QED BY <2>3, <4>1 DEF FrameTidy, z
    <3>. QED BY <3>3, <3>4
  <2>5. ASSUME NEW d \in b[j] + f[j].above + 1 .. b[j] + f[j].nSub PROVE mn.stk[d] = Junk
    <3>. DEFINE y == b[j]  u == f[j].above  r == f[j].nSub
    <3>1. y \in Nat /\ u \in Nat /\ r \in Nat /\ y + r <= h /\ d \in y + u + 1 .. y + r BY <2>1
    <3>. HIDE DEF y, u, r, h, n
    <3>2. d \in 1 .. n BY <1>4, <1>5, <3>1
    <3>3. d # e.slot BY <2>2, <2>5
    <3>4. mn.stk[d] = mm.stk[d] BY <1>1, <3>2, <3>3 DEF n
    <3>. QED BY <2>3, <2>5, <3>4 DEF FrameTidy
  <2>. QED BY <2>4, <2>5 DEF FrameTidy
<1>9. TidyAt(f, b, mn.stk) BY <1>8 DEF TidyAt
<1>10. KeepsWords(mm, mn, n)
  <2>1. SUFFICES ASSUME NEW d \in 1 .. n, mm.stk[d] # Junk PROVE mn.stk[d] = mm.stk[d]
    BY DEF KeepsWords
  <2>2. CASE d = e.slot BY <1>1, <1>7, <2>1, <2>2
  <2>3. CASE d # e.slot BY <1>1, <2>3
  <2>. QED BY <2>2, <2>3
<1>11. ASSUME NEW S, HasStored(f, mm, S) PROVE HasStored(f, mn, S \union {x})
  <2>1. HasStored(f, mn, S)
    <3>. HIDE DEF n
    <3>. QED BY <1>4, <1>5, <1>10, <1>11, StoredStill DEF h
  <2>2. Declared(f, x) /\ mn.stk[Entry(f, x).slot] = Slot(Entry(f, x).decl) BY <1>1 DEF e
  <2>. QED BY <2>1, <2>2 DEF HasStored
<1>. QED BY <1>9, <1>10, <1>11 DEF mn

\* Frames that differ in what has been pushed only.
SameFrames(f, g) ==
    /\ Len(f) = Len(g)
    /\ \A i \in 1 .. Len(f) : /\ f[i].root = g[i].root /\ f[i].nSub = g[i].nSub
                              /\ f[i].above = g[i].above /\ f[i].vars = g[i].vars

LEMMA SameFramesKeep ==
    ASSUME NEW f \in Seq(Nameframe), NEW g \in Seq(Nameframe), SameFrames(f, g)
    PROVE  /\ SameNames(f, g) /\ (Apart(f) => Apart(g))
           /\ \A b, w : TidyAt(f, b, w) => TidyAt(g, b, w)
           /\ \A mm, S : HasStored(f, mm, S) <=> HasStored(g, mm, S)
<1>1. Len(f) = Len(g) /\ Len(f) \in Nat /\ Chain(g) \subseteq 1 .. Len(g) BY ChainParts DEF SameFrames
<1>2. \A i \in Len(f) + 1 .. Len(g) : FALSE BY <1>1
<1>3. SameNames(f, g) BY <1>1, <1>2 DEF SameNames, SameFrames
<1>4. Apart(f) => Apart(g)
  <2>1. \A j \in 1 .. Len(f) : FrameApart(f[j]) => FrameApart(g[j]) BY DEF SameFrames, FrameApart
  <2>. QED BY <1>1, <2>1 DEF Apart
<1>5. ASSUME NEW b, NEW w, TidyAt(f, b, w), NEW j \in Chain(g) PROVE FrameTidy(g[j], b[j], w)
  <2>1. j \in 1 .. Len(f) /\ j \in Chain(f)
    <3>1. j \in 1 .. Len(f) BY <1>1
    <3>2. \A i : i \in Chain(f) <=> i \in Chain(g) /\ i <= Len(f)
      BY <1>1, <1>3, ChainOn DEF SameNames
    <3>. QED BY <1>1, <3>1, <3>2
  <2>2. FrameTidy(f[j], b[j], w) BY <1>5, <2>1 DEF TidyAt
  <2>. QED BY <2>1, <2>2 DEF FrameTidy, SameFrames
<1>6. \A b, w : TidyAt(f, b, w) => TidyAt(g, b, w) BY <1>5 DEF TidyAt
<1>. QED BY <1>3, <1>4, <1>6, SameStored

LEMMA SamePushed ==
    ASSUME NEW f \in Seq(Nameframe), f # <<>>, NEW k \in Int
    PROVE  SameFrames(f, Pushed(f, k)) /\ Pushed(f, k) \in Seq(Nameframe) /\ SameFrames(Pushed(f, k), f)
<1>1. Pushed(f, k) \in Seq(Nameframe) /\ Len(Pushed(f, k)) = Len(f) BY PushedParts
<1>2. \A i \in 1 .. Len(f) : /\ Pushed(f, k)[i].root = f[i].root /\ Pushed(f, k)[i].nSub = f[i].nSub
                             /\ Pushed(f, k)[i].above = f[i].above /\ Pushed(f, k)[i].vars = f[i].vars
  BY PushedParts
<1>. QED BY <1>1, <1>2 DEF SameFrames

\* The frame a function or an arm was generated in is left.
LEMMA CutTidy ==
    ASSUME NEW f \in Seq(Nameframe), NEW b, Frames(f, b), NEW k \in 1 .. Len(f),
           \A i \in k + 1 .. Len(f) : ~ f[i].root, NEW w, TidyAt(f, b, w)
    PROVE  TidyAt(Cut(f, k), Cut(b, k), w)
<1>1. /\ Cut(f, k) \in Seq(Nameframe) /\ Len(Cut(f, k)) = k
      /\ \A i \in 1 .. k : Cut(f, k)[i] = f[i] /\ Cut(b, k)[i] = b[i]
  BY FramesCut
<1>2. k <= Len(f) /\ Len(f) \in Nat BY FramesParts
<1>3. ASSUME NEW j \in Chain(Cut(f, k)) PROVE FrameTidy(Cut(f, k)[j], Cut(b, k)[j], w)
  <2>1. j \in 1 .. k BY <1>1, ChainParts
  <2>2. j \in Chain(f)
    <3>1. \A i : i \in Chain(Cut(f, k)) <=> i \in Chain(f) /\ i <= Len(Cut(f, k))
      BY <1>1, <1>2, ChainOn
    <3>. QED BY <3>1
  <2>3. FrameTidy(f[j], b[j], w) BY <2>2 DEF TidyAt
  <2>. QED BY <1>1, <2>1, <2>3
<1>. QED BY <1>3 DEF TidyAt

LEMMA CutApart ==
    ASSUME NEW f \in Seq(Nameframe), Apart(f), NEW k \in 0 .. Len(f)
    PROVE  Apart(Cut(f, k))
<1>1. Len(Cut(f, k)) = k /\ \A i \in 1 .. k : Cut(f, k)[i] = f[i] BY CutParts
<1>2. \A i \in 1 .. k : i \in 1 .. Len(f) OBVIOUS
<1>. QED BY <1>1, <1>2 DEF Apart

LEMMA ConcatTail ==
    ASSUME NEW S, NEW s \in Seq(S), NEW t \in Seq(S), NEW d \in Len(s) + 1 .. Len(s) + Len(t)
    PROVE  (s \o t)[d] = t[d - Len(s)]
OBVIOUS

\* A new frame has nothing in it.
LEMMA ReservedWords ==
    ASSUME NEW mm \in Machine, NEW w \in Nat
    PROVE  \A d \in Len(mm.stk) + 2 .. Len(mm.stk) + 1 + w : EnterFrame(mm, 0, w).stk[d] = Junk
<1>. DEFINE z == [i \in 1 .. 0 - 1 |-> Enter(mm).reg[1 + i - 1]]
            s == [i \in 1 .. w |-> Junk]
            a == PushRange(Enter(mm), 1, 0 - 1)
<1>1. mm.stk \in Seq(Token) /\ Len(mm.stk) \in Nat BY DEF Machine
<1>2. Enter(mm) \in Machine /\ Len(Enter(mm).stk) = Len(mm.stk) + 1 BY EnterParts
<1>3. Enter(mm).stk \in Seq(Token) BY <1>2 DEF Machine
<1>4. a.stk = Enter(mm).stk \o [i \in 1 .. 0 - 1 - 1 + 1 |-> Enter(mm).reg[1 + i - 1]]
  BY <1>2 DEF PushRange, Machine
<1>5. [i \in 1 .. 0 - 1 - 1 + 1 |-> Enter(mm).reg[1 + i - 1]] = <<>>
  <2>1. 1 .. 0 - 1 - 1 + 1 = {} OBVIOUS
  <2>. QED BY <2>1
<1>6. a.stk = Enter(mm).stk BY <1>3, <1>4, <1>5
<1>7. EnterFrame(mm, 0, w).stk = a.stk \o s BY <1>2 DEF EnterFrame, Reserve, PushRange, Machine
<1>8. s \in Seq(Token) /\ Len(s) = w /\ \A i \in 1 .. w : s[i] = Junk BY Tokens, Table
<1>. HIDE DEF s, a
<1>9. ASSUME NEW d \in Len(mm.stk) + 2 .. Len(mm.stk) + 1 + w PROVE (Enter(mm).stk \o s)[d] = Junk
  <2>1. d - (Len(mm.stk) + 1) \in 1 .. w /\ d \in Len(Enter(mm).stk) + 1 .. Len(Enter(mm).stk) + Len(s)
    BY <1>1, <1>2, <1>8
  <2>2. (Enter(mm).stk \o s)[d] = s[d - Len(Enter(mm).stk)]
    BY <1>3, <1>8, <2>1, ConcatTail
  <2>3. s[d - (Len(mm.stk) + 1)] = Junk BY <1>8, <2>1
  <2>. QED BY <1>2, <2>2, <2>3
<1>. QED BY <1>6, <1>7, <1>9

LEMMA OpenTidy ==
    ASSUME NEW f \in Seq(Nameframe), NEW b, Frames(f, b), NEW mm \in Machine, NEW h \in Nat,
           Fits(f, b, mm, h), Counts(f, b, h), NEW w \in Nat, Apart(f), TidyAt(f, b, mm.stk)
    PROVE  LET O == OpenFrame(f, 0, w)
               e == EnterFrame(mm, 0, w)
           IN  /\ Apart(O) /\ TidyAt(O, Append(b, h + 1), e.stk)
               /\ \A S : HasStored(f, mm, S) => HasStored(O, e, S)
               /\ KeepsWords(mm, e, h) /\ e.reg = mm.reg
<1>. DEFINE O == OpenFrame(f, 0, w)  e == EnterFrame(mm, 0, w)  c == Append(b, h + 1)  n == Len(f)
<1>1. f # <<>> /\ n \in Nat /\ b \in Seq(Nat) /\ Len(b) = n BY FramesParts
<1>2. /\ O \in Seq(Nameframe) /\ Len(O) = n + 1 /\ \A i \in 1 .. n : O[i] = Pushed(f, 1)[i]
      /\ ~ O[n + 1].root /\ O[n + 1].nSub = w /\ O[n + 1].above = 0 /\ O[n + 1].vars = <<>>
  BY <1>1, OpenParts
<1>3. \A i \in 1 .. n : /\ O[i].root = f[i].root /\ O[i].nSub = f[i].nSub
                        /\ O[i].above = f[i].above /\ O[i].vars = f[i].vars
  <2>1. \A i \in 1 .. n : /\ Pushed(f, 1)[i].root = f[i].root /\ Pushed(f, 1)[i].nSub = f[i].nSub
                          /\ Pushed(f, 1)[i].above = f[i].above
                          /\ Pushed(f, 1)[i].vars = f[i].vars
    BY <1>1, PushedParts
  <2>. HIDE DEF O, n
  <2>. QED BY <1>2, <2>1
<1>4. /\ Len(mm.stk) = h /\ h \in Nat /\ \A i \in 1 .. h : e.stk[i] = mm.stk[i] BY EnterFrameParts DEF Fits
<1>5. \A d \in h + 2 .. h + 1 + w : e.stk[d] = Junk BY <1>4, ReservedWords
<1>6. c[n + 1] = h + 1 /\ \A i \in 1 .. n : c[i] = b[i] BY <1>1, BasesAppend
<1>7. h >= b[n] + f[n].nSub BY CountsAbove
<1>8. e.reg = mm.reg BY DEF EnterFrame, Enter, PushRange, Reserve, Machine
<1>. HIDE DEF O, e, c
<1>9. Apart(O)
  <2>1. ASSUME NEW j \in 1 .. n PROVE FrameApart(O[j])
    <3>1. FrameApart(f[j]) BY DEF Apart
    <3>. QED BY <1>3, <3>1 DEF FrameApart
  <2>2. FrameApart(O[n + 1]) BY <1>2 DEF FrameApart
  <2>. QED BY <1>1, <1>2, <2>1, <2>2 DEF Apart
<1>10. SameNames(f, O)
  <2>1. \A i \in n + 1 .. n + 1 : i = n + 1 BY <1>1
  <2>. QED BY <1>1, <1>2, <1>3, <2>1 DEF SameNames
<1>11. \A j : j \in Chain(f) <=> j \in Chain(O) /\ j <= n BY <1>2, <1>10, ChainOn DEF SameNames
<1>12. b[n] + f[n].nSub \in Nat BY FramesParts
<1>13. TidyAt(f, b, e.stk)
  <2>. DEFINE k == b[n] + f[n].nSub
  <2>1. \A d \in 1 .. k : d \in 1 .. h BY <1>4, <1>7, <1>12
  <2>2. \A d \in 1 .. k : e.stk[d] = mm.stk[d] BY <1>4, <2>1
  <2>. QED BY <2>2, TidyWords
<1>14. ASSUME NEW j \in Chain(O) PROVE FrameTidy(O[j], c[j], e.stk)
  <2>1. j \in 1 .. n + 1 BY <1>2, ChainParts
  <2>2. CASE j <= n
    <3>1. j \in Chain(f) /\ j \in 1 .. n BY <1>1, <1>11, <2>1, <2>2
    <3>2. FrameTidy(f[j], b[j], e.stk) BY <1>13, <3>1 DEF TidyAt
    <3>. QED BY <1>3, <1>6, <3>1, <3>2 DEF FrameTidy
  <2>3. CASE j = n + 1
    <3>1. \A d \in h + 1 + 0 + 1 .. h + 1 + w : d \in h + 2 .. h + 1 + w BY <1>4
    <3>. QED BY <1>2, <1>5, <1>6, <2>3, <3>1 DEF FrameTidy
  <2>. QED BY <1>1, <2>1, <2>2, <2>3
<1>15. KeepsWords(mm, e, h) BY <1>4 DEF KeepsWords
<1>16. ASSUME NEW S, HasStored(f, mm, S) PROVE HasStored(O, e, S)
  <2>1. HasStored(f, e, S) BY <1>4, <1>7, <1>15, <1>16, StoredStill
  <2>. QED BY <1>2, <1>10, <2>1, SameStored
<1>. QED BY <1>8, <1>9, <1>14, <1>15, <1>16 DEF TidyAt, O, e, c

\* The first entry for a name is one.
FirstOf(vs, x, i) == vs[i].name = x /\ \A k \in 1 .. i - 1 : vs[k].name # x

LEMMA EntryFirst ==
    ASSUME NEW f \in Seq(Nameframe), NEW x, Declared(f, x),
           NEW i \in DOMAIN f[Owner(f, x)].vars, FirstOf(f[Owner(f, x)].vars, x, i)
    PROVE  Entry(f, x) = f[Owner(f, x)].vars[i]
<1>. DEFINE vs == f[Owner(f, x)].vars
<1>1. vs \in Seq(VarOffset)
  <2>1. Owner(f, x) \in 1 .. Len(f) BY EntryFound, ChainParts DEF Owners
  <2>. QED BY <2>1, FrameType
<1>2. Entry(f, x) = vs[CHOOSE l \in DOMAIN vs : FirstOf(vs, x, l)] BY DEF Entry, FirstOf
<1>. HIDE DEF vs
<1>3. \A l \in DOMAIN vs : FirstOf(vs, x, l) => l = i
  <2>1. SUFFICES ASSUME NEW l \in DOMAIN vs, FirstOf(vs, x, l), l # i PROVE FALSE OBVIOUS
  <2>2. l \in Nat /\ i \in Nat /\ l >= 1 /\ i >= 1 /\ i \in DOMAIN vs BY <1>1 DEF vs
  <2>3. CASE l < i
    <3>1. l \in 1 .. i - 1 BY <2>2, <2>3
    <3>. QED BY <2>1, <3>1 DEF FirstOf, vs
  <2>4. CASE i < l
    <3>1. i \in 1 .. l - 1 BY <2>2, <2>4
    <3>. QED BY <2>1, <3>1 DEF FirstOf, vs
  <2>. QED BY <2>1, <2>2, <2>3, <2>4
<1>4. (CHOOSE l \in DOMAIN vs : FirstOf(vs, x, l)) = i BY <1>3 DEF vs
<1>. QED BY <1>2, <1>4 DEF vs

LEMMA FirstExists ==
    ASSUME NEW vs \in Seq(VarOffset), NEW x, \E i \in DOMAIN vs : vs[i].name = x
    PROVE  \E i \in DOMAIN vs : FirstOf(vs, x, i)
<1>. DEFINE T == {i \in DOMAIN vs : vs[i].name = x}
<1>1. T \subseteq Nat /\ T # {} OBVIOUS
<1>. HIDE DEF T
<1>2. PICK i \in T : \A k \in T : i <= k BY <1>1, Least
<1>3. i \in DOMAIN vs /\ vs[i].name = x /\ i \in 1 .. Len(vs) /\ Len(vs) \in Nat BY <1>2 DEF T
<1>4. ASSUME NEW k \in 1 .. i - 1 PROVE vs[k].name # x
  <2>1. k \in DOMAIN vs /\ ~ (i <= k) BY <1>3
  <2>. QED BY <1>2, <2>1 DEF T
<1>. QED BY <1>3, <1>4 DEF FirstOf

\* A variable is registered: its word is one of the reserved ones, and what
\* the other names mean does not change.
LEMMA RegisterTidy ==
    ASSUME NEW f \in Seq(Nameframe), NEW b, Frames(f, b), NEW x \in Names, NEW d \in Nat,
           f[Len(f)].above < f[Len(f)].nSub, Apart(f)
    PROVE  LET R == registerVar(f, x, d, b[Len(f)])
           IN  /\ Apart(R) /\ \A w : TidyAt(f, b, w) => TidyAt(R, b, w)
               /\ \A mm, S : HasStored(f, mm, S) => HasStored(R, mm, S \ {x})
<1>. DEFINE n == Len(f)  g == f[n]  at == b[n]  R == registerVar(f, x, d, at)  k == Len(g.vars)
            v == R[n].vars[k + 1]
<1>1. /\ f # <<>> /\ n \in Nat /\ n \in 1 .. n /\ b \in Seq(Nat) /\ b[n] \in Nat
      /\ g.nSub \in Nat /\ g.above \in Nat /\ FrameAt(g, b[n])
  <2>1. f # <<>> /\ n \in Nat /\ n \in 1 .. n /\ b \in Seq(Nat) BY FramesParts
  <2>2. \A j \in 1 .. n : /\ b[j] \in Nat /\ f[j].nSub \in Nat /\ f[j].above \in Nat
                          /\ FrameAt(f[j], b[j])
    BY FramesParts
  <2>. QED BY <2>1, <2>2
<1>2. /\ R \in Seq(Nameframe) /\ Len(R) = n /\ \A i \in 1 .. n - 1 : R[i] = f[i]
      /\ \A i \in 1 .. n : R[i].root = f[i].root /\ R[i].nSub = f[i].nSub
      /\ R[n].above = g.above + 1 /\ Len(R[n].vars) = k + 1
      /\ \A i \in 1 .. k : R[n].vars[i] = g.vars[i]
      /\ v.name = x /\ v.off = -(g.above + 1 + g.regSaved) /\ v.slot = b[n] - v.off
  <2>1. at \in Nat BY <1>1
  <2>. HIDE DEF at
  <2>2. /\ R \in Seq(Nameframe) /\ Len(R) = n /\ \A i \in 1 .. n - 1 : R[i] = f[i]
        /\ \A i \in 1 .. n : R[i].root = f[i].root /\ R[i].nSub = f[i].nSub
        /\ R[n].above = g.above + 1 /\ Len(R[n].vars) = k + 1
        /\ \A i \in 1 .. k : R[n].vars[i] = g.vars[i]
        /\ v.name = x /\ v.off = -(g.above + 1 + g.regSaved) /\ v.slot = at - v.off
    BY <1>1, <2>1, RegisterParts
  <2>. QED BY <2>2 DEF at
<1>3. /\ g.vars \in Seq(VarOffset) /\ k \in Nat /\ R[n].vars \in Seq(VarOffset)
      /\ DOMAIN g.vars = 1 .. k /\ DOMAIN R[n].vars = 1 .. k + 1
  <2>1. R[n].vars \in Seq(VarOffset) BY <1>1, <1>2, FrameType
  <2>2. g.vars \in Seq(VarOffset) BY <1>1, FrameType
  <2>. QED BY <1>2, <2>1, <2>2
<1>4. g.regSaved = 0 BY <1>1 DEF FrameAt
<1>5. v.off = -(g.above + 1) /\ v.slot = at + g.above + 1 BY <1>1, <1>2, <1>4
<1>6. FrameApart(g) BY <1>1 DEF Apart
<1>7. \A i \in 1 .. k : g.vars[i].off \in Int
  <2>1. \A i \in 1 .. k : g.vars[i] \in VarOffset BY <1>3
  <2>. QED BY <2>1 DEF VarOffset
<1>. HIDE DEF R, v, n, g, k, at
<1>8. \A i \in 1 .. k + 1 : i \in 1 .. k \/ i = k + 1 BY <1>3
<1>9. FrameApart(R[n])
  <2>1. ASSUME NEW i \in 1 .. k + 1 PROVE R[n].vars[i].off >= - R[n].above
    <3>1. CASE i = k + 1 BY <1>1, <1>2, <1>5, <3>1 DEF v
    <3>2. CASE i \in 1 .. k
      <4>1. R[n].vars[i].off \in Int /\ R[n].vars[i].off >= - g.above
        BY <1>2, <1>3, <1>6, <1>7, <3>2 DEF FrameApart
      <4>. DEFINE o == R[n].vars[i].off  y == g.above  z == R[n].above
      <4>2. o \in Int /\ o >= - y /\ y \in Nat /\ z = y + 1 BY <1>1, <1>2, <4>1
      <4>. HIDE DEF o, y, z
      <4>3. o >= - z BY <4>2
      <4>. QED BY <4>3 DEF o, z
    <3>. QED BY <1>8, <3>1, <3>2
  <2>2. ASSUME NEW i \in 1 .. k PROVE R[n].vars[i].off # v.off
    <3>1. R[n].vars[i].off \in Int /\ R[n].vars[i].off >= - g.above
      BY <1>2, <1>3, <1>6, <1>7 DEF FrameApart
    <3>. QED BY <1>1, <1>5, <3>1
  <2>3. ASSUME NEW i \in 1 .. k + 1, NEW l \in 1 .. k + 1, R[n].vars[i].off = R[n].vars[l].off
        PROVE  i = l
    <3>1. CASE i \in 1 .. k /\ l \in 1 .. k
      <4>1. i \in DOMAIN g.vars /\ l \in DOMAIN g.vars BY <1>3, <3>1
      <4>2. g.vars[i].off = g.vars[l].off => i = l BY <1>6, <4>1 DEF FrameApart
      <4>3. R[n].vars[i] = g.vars[i] /\ R[n].vars[l] = g.vars[l] BY <1>2, <3>1
      <4>. QED BY <2>3, <4>2, <4>3
    <3>2. CASE ~ (i \in 1 .. k /\ l \in 1 .. k) BY <1>8, <2>2, <2>3, <3>2 DEF v
    <3>. QED BY <3>1, <3>2
  <2>. QED BY <1>3, <2>1, <2>3 DEF FrameApart
<1>10. Apart(R)
  <2>1. \A j \in 1 .. n : j = n \/ j \in 1 .. n - 1 BY <1>1
  <2>2. \A j \in 1 .. n - 1 : FrameApart(R[j]) BY <1>2 DEF Apart, n
  <2>. QED BY <1>2, <1>9, <2>1, <2>2 DEF Apart
<1>11. \A j : j \in Chain(f) <=> j \in Chain(R) /\ j <= n
  <2>1. \A i \in n + 1 .. n : ~ R[i].root BY <1>1
  <2>2. n <= Len(R) BY <1>1, <1>2
  <2>. QED BY <1>2, <2>1, <2>2, ChainOn DEF n
<1>12. Chain(R) \subseteq 1 .. n BY <1>2, ChainParts
<1>13. ASSUME NEW w, TidyAt(f, b, w) PROVE TidyAt(R, b, w)
  <2>1. SUFFICES ASSUME NEW j \in Chain(R) PROVE FrameTidy(R[j], b[j], w) BY DEF TidyAt
  <2>2. j \in 1 .. n /\ j \in Chain(f) BY <1>1, <1>11, <1>12
  <2>3. FrameTidy(f[j], b[j], w) BY <1>13, <2>2 DEF TidyAt
  <2>4. CASE j # n
    <3>1. j \in 1 .. n - 1 BY <1>1, <2>2, <2>4
    <3>. QED BY <1>2, <2>3, <3>1
  <2>5. CASE j = n
    <3>. DEFINE u == g.above  z == g.nSub
    <3>1. at \in Nat /\ u \in Nat /\ z \in Nat /\ u < z BY <1>1 DEF g, n, at
    <3>2. FrameTidy(g, at, w) BY <2>3, <2>5 DEF g, at
    <3>3. v.slot = at + u + 1 BY <1>5
    <3>4. R[n].above = u + 1 /\ R[n].nSub = z BY <1>1, <1>2 DEF g
    <3>5. \A y \in at + u + 1 .. at + z : w[y] = Junk BY <3>2 DEF FrameTidy
    <3>. HIDE DEF u, z
    <3>6. at + u + 1 \in at + u + 1 .. at + z BY <3>1
    <3>7. \A y \in at + (u + 1) + 1 .. at + z : y \in at + u + 1 .. at + z BY <3>1
    <3>8. w[v.slot] = Junk BY <3>3, <3>5, <3>6
    <3>9. \A i \in 1 .. k : w[R[n].vars[i].slot] \in {Junk, Slot(R[n].vars[i].decl)}
      BY <1>2, <1>3, <3>2 DEF FrameTidy
    <3>10. \A i \in DOMAIN R[n].vars : w[R[n].vars[i].slot] \in {Junk, Slot(R[n].vars[i].decl)}
      BY <1>3, <1>8, <3>8, <3>9 DEF v
    <3>. QED BY <2>5, <3>4, <3>5, <3>7, <3>10 DEF FrameTidy, at
  <2>. QED BY <2>4, <2>5
<1>14. ASSUME NEW y, y # x PROVE Owners(f, y) = Owners(R, y)
  <2>1. ASSUME NEW j \in 1 .. n PROVE Declares(f[j], y) <=> Declares(R[j], y)
    <3>1. CASE j # n
      <4>1. j \in 1 .. n - 1 BY <1>1, <3>1
      <4>. QED BY <1>2, <4>1
    <3>2. CASE j = n
      <4>1. \A i \in 1 .. k : i \in 1 .. k + 1 BY <1>3
      <4>2. Declares(g, y) => Declares(R[n], y) BY <1>2, <1>3, <4>1 DEF Declares
      <4>3. Declares(R[n], y) => Declares(g, y)
        BY <1>2, <1>3, <1>8, <1>14 DEF Declares, v
      <4>. QED BY <3>2, <4>2, <4>3 DEF g
    <3>. QED BY <3>1, <3>2
  <2>2. Chain(f) = Chain(R)
    <3>1. Chain(f) \subseteq 1 .. n BY ChainParts DEF n
    <3>2. \A j \in 1 .. n : j <= n BY <1>1
    <3>3. \A j : j \in Chain(f) => j \in Chain(R) BY <1>11
    <3>4. \A j : j \in Chain(R) => j \in Chain(f) BY <1>11, <1>12, <3>2
    <3>. QED BY <3>3, <3>4
  <2>. QED BY <1>12, <2>1, <2>2 DEF Owners
<1>15. ASSUME NEW y, y # x, Declared(f, y) PROVE Declared(R, y) /\ Entry(f, y) = Entry(R, y)
  <2>. DEFINE o == Owner(f, y)
  <2>1. Owners(f, y) = Owners(R, y) BY <1>14, <1>15
  <2>2. Declared(R, y) /\ Owner(R, y) = o BY <1>15, <2>1 DEF Declared, Owner
  <2>3. o \in 1 .. n /\ Declares(f[o], y)
    BY <1>12, <1>15, <2>1, EntryFound, ChainParts DEF Owners, n
  <2>4. f[o].vars \in Seq(VarOffset) BY <2>3, FrameType DEF n
  <2>5. PICK i \in DOMAIN f[o].vars : FirstOf(f[o].vars, y, i)
    <3>. HIDE DEF o
    <3>1. \E i \in DOMAIN f[o].vars : f[o].vars[i].name = y BY <2>3 DEF Declares
    <3>. QED BY <2>4, <3>1, FirstExists
  <2>6. Entry(f, y) = f[o].vars[i] BY <1>15, <2>5, EntryFirst
  <2>7. i \in DOMAIN R[o].vars /\ FirstOf(R[o].vars, y, i) /\ R[o].vars[i] = f[o].vars[i]
    <3>. HIDE DEF o
    <3>1. CASE o # n
      <4>1. o \in 1 .. n - 1 BY <1>1, <2>3, <3>1
      <4>. QED BY <1>2, <2>5, <4>1
    <3>2. CASE o = n
      <4>1. i \in 1 .. k /\ i \in 1 .. k + 1 BY <1>3, <2>5, <3>2 DEF g
      <4>2. \A l \in 1 .. i - 1 : l \in 1 .. k BY <1>3, <4>1
      <4>. QED BY <1>2, <1>3, <2>5, <3>2, <4>1, <4>2 DEF g, FirstOf
    <3>. QED BY <3>1, <3>2
  <2>8. Entry(R, y) = R[o].vars[i] BY <1>2, <2>2, <2>7, EntryFirst
  <2>. QED BY <2>2, <2>6, <2>7, <2>8
<1>16. ASSUME NEW mm, NEW S, HasStored(f, mm, S) PROVE HasStored(R, mm, S \ {x})
  <2>1. \A y \in S \ {x} : /\ Declared(f, y) /\ mm.stk[Entry(f, y).slot] = Slot(Entry(f, y).decl)
                           /\ y # x
    BY <1>16 DEF HasStored
  <2>. QED BY <1>15, <2>1 DEF HasStored
<1>. QED BY <1>10, <1>13, <1>16 DEF R, n, at

\* What a function finds on the stack it is called with.
LEMMA FunctionWords ==
    ASSUME Inv, At({"func"}, "body"), NEW f \in Seq(Nameframe), f # <<>>
    PROVE  LET e == FunctionEntry(f)
               L == Len(params)
           IN  /\ e.stk[Passed + 1] = Ret
               /\ \A d \in 1 .. Passed : e.stk[d] = Slot(act.id + L + 1 - d)
               /\ \A i \in 1 .. f[Len(f)].nSub :
                     e.stk[Passed + 2 + i] = IF i <= MinOf(6, L) THEN Slot(act.id + i) ELSE Junk
<1>1. node \in Node /\ status = "run" BY AtFacts
<1>2. Len(params) \in Nat /\ act.id \in Nat BY <1>1, NodeFields, InvFacts DEF params
<1>. DEFINE L == Len(params)
            k == IF L > 6 THEN L - 6 ELSE 0
            arg(i) == Slot(act.id + L + 1 - i)
            given == [i \in 1 .. k |-> arg(i)]
            passed == Append(given, Ret)
            called == [Blank EXCEPT !.stk = passed]
            entered == Enter(called)
            n == f[Len(f)].nSub
            inside == Reserve(entered, n)
            M == MinOf(6, L)
            word(d) == IF d - inside.bp \in 1 .. M
                         THEN Slot(act.id + d - inside.bp) ELSE inside.stk[d]
            stk == [d \in 1 .. Len(inside.stk) |-> word(d)]
<1>3. k \in 0 .. L /\ k \in Nat /\ L \in Nat BY <1>2
<1>4. given \in Seq(Token) /\ Len(given) = k /\ \A i \in 1 .. k : given[i] = arg(i)
  <2>1. ASSUME NEW i \in 1 .. k PROVE arg(i) \in Token
    <3>. HIDE DEF k
    <3>1. act.id + L + 1 - i \in Nat BY <1>2, <1>3
    <3>. QED BY <3>1, Tokens
  <2>2. given \in [1 .. k -> Token]
    <3>. HIDE DEF arg, k
    <3>. QED BY <2>1
  <2>3. \A i \in 1 .. k : given[i] = arg(i)
    <3>. HIDE DEF arg, k
    <3>. QED OBVIOUS
  <2>. HIDE DEF given, k
  <2>. QED BY <1>3, <2>2, <2>3, Table
<1>5. /\ passed \in Seq(Token) /\ Len(passed) = k + 1 /\ passed[k + 1] = Ret
      /\ \A i \in 1 .. k : passed[i] = arg(i)
  <2>. HIDE DEF given, k, arg
  <2>1. /\ Len(passed) = Len(given) + 1 /\ passed[Len(given) + 1] = Ret
        /\ \A i \in 1 .. Len(given) : passed[i] = given[i]
    BY <1>4, AppendLast, Tokens
  <2>2. passed \in Seq(Token) BY <1>4, AppendLast, Tokens
  <2>. QED BY <1>4, <2>1, <2>2
<1>6. called \in Machine /\ called.stk = passed
  <2>. HIDE DEF passed
  <2>0. passed \in Seq(Token) /\ 0 \in Nat BY <1>5
  <2>1. Blank \in Machine BY BlankType
  <2>. QED BY <2>0, <2>1 DEF Machine
<1>7. n \in Nat
  <2>1. f[Len(f)] \in Nameframe BY LastFrame
  <2>. QED BY <2>1 DEF Nameframe
<1>8. /\ entered \in Machine /\ entered.bp = k + 2 /\ Len(entered.stk) = k + 2
      /\ \A i \in 1 .. k + 1 : entered.stk[i] = passed[i]
  <2>. HIDE DEF called, k, passed
  <2>1. Len(called.stk) + 1 = k + 2 /\ Len(called.stk) = k + 1 BY <1>3, <1>5, <1>6
  <2>2. /\ entered \in Machine /\ entered.bp = Len(called.stk) + 1 /\ Len(entered.stk) = Len(called.stk) + 1
        /\ \A i \in 1 .. Len(called.stk) : entered.stk[i] = called.stk[i]
    BY <1>6, EnterParts
  <2>. HIDE DEF entered
  <2>. QED BY <1>6, <2>1, <2>2
<1>9. /\ inside \in Machine /\ inside.bp = k + 2 /\ Len(inside.stk) = k + 2 + n
      /\ \A i \in 1 .. k + 2 : inside.stk[i] = entered.stk[i]
  <2>. HIDE DEF entered, n, k
  <2>1. /\ Reserve(entered, n) \in Machine /\ Reserve(entered, n).bp = entered.bp
        /\ Len(Reserve(entered, n).stk) = Len(entered.stk) + n
        /\ \A i \in 1 .. Len(entered.stk) : Reserve(entered, n).stk[i] = entered.stk[i]
    BY <1>7, <1>8, ReserveParts DEF Bottom
  <2>. QED BY <1>8, <2>1
<1>10. \A i \in 1 .. n : inside.stk[k + 2 + i] = Junk
  <2>. DEFINE s == [i \in 1 .. n |-> Junk]
  <2>1. inside.stk = entered.stk \o s BY <1>8 DEF Reserve, Machine
  <2>2. s \in Seq(Token) /\ Len(s) = n /\ \A i \in 1 .. n : s[i] = Junk
    <3>1. \A i \in 1 .. n : s[i] = Junk
      <4>. HIDE DEF n
      <4>. QED OBVIOUS
    <3>2. Len(s) = n
      <4>. HIDE DEF n
      <4>. QED BY <1>7
    <3>3. s \in Seq(Token)
      <4>. HIDE DEF n
      <4>. QED BY <1>7, Tokens, Table
    <3>. QED BY <3>1, <3>2, <3>3
  <2>3. entered.stk \in Seq(Token) BY <1>8 DEF Machine
  <2>. HIDE DEF s, entered, inside, n, k
  <2>4. ASSUME NEW i \in 1 .. n PROVE inside.stk[k + 2 + i] = Junk
    <3>1. k + 2 + i \in Len(entered.stk) + 1 .. Len(entered.stk) + Len(s) /\ k + 2 + i - Len(entered.stk) = i
      BY <1>3, <1>7, <1>8, <2>2
    <3>2. (entered.stk \o s)[k + 2 + i] = s[k + 2 + i - Len(entered.stk)]
      BY <2>2, <2>3, <3>1, ConcatTail
    <3>. QED BY <2>1, <2>2, <3>1, <3>2
  <2>. QED BY <2>4
<1>11. FunctionEntry(f) = [inside EXCEPT !.stk = stk] BY DEF FunctionEntry
<1>12. M \in Nat BY <1>2 DEF MinOf
<1>. HIDE DEF inside, n, entered, passed, M
<1>13. FunctionEntry(f).stk = stk BY <1>9, <1>11 DEF Machine
<1>14. \A d \in 1 .. k + 2 + n :
          stk[d] = IF d - (k + 2) \in 1 .. M THEN Slot(act.id + d - (k + 2)) ELSE inside.stk[d]
  BY <1>9
<1>15. Passed = k BY DEF Passed
<1>. HIDE DEF k, stk
<1>16. ASSUME NEW d \in 1 .. k + 1 PROVE stk[d] = passed[d]
  <2>1. d \in 1 .. k + 2 /\ d \in 1 .. k + 2 + n /\ ~ (d - (k + 2) \in 1 .. M) BY <1>3, <1>7, <1>12
  <2>. QED BY <1>8, <1>9, <1>14, <2>1
<1>17. ASSUME NEW i \in 1 .. n
       PROVE  stk[k + 2 + i] = IF i <= M THEN Slot(act.id + i) ELSE Junk
  <2>1. k + 2 + i \in 1 .. k + 2 + n /\ k + 2 + i - (k + 2) = i /\ (i \in 1 .. M <=> i <= M)
        /\ act.id + (k + 2 + i) - (k + 2) = act.id + i
    BY <1>2, <1>3, <1>7, <1>12
  <2>. DEFINE d == k + 2 + i
  <2>2. d \in 1 .. k + 2 + n BY <2>1
  <2>. HIDE DEF d
  <2>3. stk[d] = IF d - (k + 2) \in 1 .. M THEN Slot(act.id + d - (k + 2)) ELSE inside.stk[d]
    BY <1>14, <2>2
  <2>7. d - (k + 2) = i /\ act.id + d - (k + 2) = act.id + i BY <1>2, <1>3, <1>7 DEF d
  <2>8. stk[d] = IF i \in 1 .. M THEN Slot(act.id + i) ELSE inside.stk[d] BY <2>3, <2>7
  <2>4. inside.stk[d] = Junk BY <1>10 DEF d
  <2>5. stk[d] = IF i <= M THEN Slot(act.id + i) ELSE Junk BY <2>1, <2>4, <2>8
  <2>. QED BY <2>5 DEF d
<1>18. stk[k + 1] = Ret /\ \A d \in 1 .. k : stk[d] = arg(d)
  <2>1. k + 1 \in 1 .. k + 1 /\ \A d \in 1 .. k : d \in 1 .. k + 1 BY <1>3
  <2>. HIDE DEF arg
  <2>. QED BY <1>5, <1>16, <2>1
<1>. QED BY <1>13, <1>15, <1>17, <1>18 DEF n, M

LEMMA FunctionTidy ==
    ASSUME Inv, At({"func"}, "body"), NEW b, Frames(nf, b), NEW h \in Nat, Counts(nf, b, h), Apart(nf)
    PROVE  LET F == FunctionFrame
               e == FunctionEntry(F)
           IN  /\ Apart(F) /\ TidyAt(F, Append(b, Passed + 2), e.stk)
               /\ HasStored(F, e, {params[k] : k \in DOMAIN params})
               /\ e.stk[Passed + 1] = Ret
<1>. DEFINE F == FunctionFrame  c == Append(b, Passed + 2)  n == Len(nf)  P == Pushed(nf, 1)
            e == FunctionEntry(F)
            w == frameWords(tree, act.id)
            L == Len(params)
            bp == Passed + 2
            off(i) == IF i <= 6 THEN -i ELSE i - 5
            vs == [i \in 1 .. L |-> [name |-> params[i], off |-> off(i),
                                     decl |-> act.id + i, slot |-> bp - off(i)]]
            g == [createNF(TRUE, w, 0) EXCEPT !.above = MinOf(6, L), !.vars = vs]
<1>1. /\ nf \in Seq(Nameframe) /\ node \in Node /\ act.id \in 1 .. Len(tree) /\ tree \in Programs
      /\ node = tree[act.id] /\ node.op = "func" /\ status = "run" /\ act.id \in Nat
  <2>1. /\ nf \in Seq(Nameframe) /\ node \in Node /\ act.id \in 1 .. Len(tree)
        /\ tree \in Programs /\ node.op \in {"func"} /\ status = "run"
    BY AtFacts
  <2>2. node = tree[act.id] BY DEF node
  <2>. QED BY <2>1, <2>2, InvFacts
<1>2. /\ F \in Seq(Nameframe) /\ Len(F) = n + 1 /\ Frames(F, c)
      /\ c[n + 1] = bp /\ F[n + 1].root /\ Cut(F, n) = P
  <2>. HIDE DEF F, c
  <2>. QED BY FunctionKeeps DEF F, c
<1>3. L \in Nat /\ Passed \in Nat /\ (L > 6 => Passed = L - 6) /\ params \in Seq(Names)
  <2>1. L \in Nat /\ params \in Seq(Names) BY <1>1, NodeFields DEF params
  <2>. HIDE DEF L
  <2>2. Passed \in Nat /\ (L > 6 => Passed = L - 6) BY <2>1 DEF Passed, L
  <2>. QED BY <2>1, <2>2
<1>4. nf # <<>> /\ n \in Nat /\ n \in 1 .. n BY <1>1, FramesParts
<1>5. P \in Seq(Nameframe) /\ Len(P) = n /\ SameFrames(nf, P) BY <1>1, <1>4, PushedParts, SamePushed
<1>6. g.nSub = w /\ g.above = MinOf(6, L) /\ g.vars = vs
  <2>. HIDE DEF vs, L, w
  <2>. QED BY DEF createNF
<1>7. F = Append(P, g) BY DEF FunctionFrame, Passed
<1>. HIDE DEF F, P, g, w, off, c
<1>8. F[n + 1] = g /\ \A i \in 1 .. n : F[i] = P[i]
  <2>. DEFINE T == Nameframe \union {g}
  <2>1. P \in Seq(T) /\ g \in T BY <1>5
  <2>. HIDE DEF T
  <2>2. Len(F) = Len(P) + 1 /\ F[Len(P) + 1] = g /\ \A i \in 1 .. Len(P) : F[i] = P[i]
    BY <1>7, <2>1, AppendLast
  <2>. QED BY <1>5, <2>2
<1>9. /\ e.stk[Passed + 1] = Ret
      /\ \A d \in 1 .. Passed : e.stk[d] = Slot(act.id + L + 1 - d)
      /\ \A i \in 1 .. w : e.stk[bp + i] = IF i <= MinOf(6, L) THEN Slot(act.id + i) ELSE Junk
  <2>1. F # <<>> /\ F[Len(F)].nSub = w BY <1>2, <1>4, <1>6, <1>8
  <2>. QED BY <1>2, <2>1, FunctionWords
<1>10. w \in Nat /\ MinOf(6, L) \in Nat /\ \A i \in 1 .. L : i <= 6 <=> i <= MinOf(6, L)
  <2>1. w \in Nat BY <1>1, FrameWordsType DEF w
  <2>. HIDE DEF L
  <2>. QED BY <1>3, <2>1 DEF MinOf
<1>11. MinOf(6, L) <= w
  <2>1. F[n + 1].nSub = w /\ F[n + 1].above = MinOf(6, L) BY <1>6, <1>8
  <2>2. w = getVarCnt(tree, Child(tree, act.id, 1)) + MinOf(6, L)
    BY <1>1 DEF frameWords, params, w
  <2>3. getVarCnt(tree, Child(tree, act.id, 1)) \in Nat
    <3>1. KidOf(act.id, 1) \in 0 .. Len(tree) BY <1>1, TreeFacts
    <3>. QED BY <1>1, <3>1, VarCntType DEF KidOf
  <2>. QED BY <1>10, <2>2, <2>3
<1>. HIDE DEF e, L, bp
<1>12. DOMAIN vs = 1 .. L /\ \A i \in 1 .. L :
          /\ vs[i].name = params[i] /\ vs[i].off = off(i) /\ vs[i].decl = act.id + i
          /\ vs[i].slot = bp - off(i)
  OBVIOUS
<1>13. ASSUME NEW i \in 1 .. L PROVE e.stk[vs[i].slot] = Slot(act.id + i)
  <2>1. vs[i].slot = bp - off(i) /\ i \in Nat /\ i >= 1 /\ i <= L BY <1>3, <1>12
  <2>2. CASE i <= 6
    <3>1. i \in 1 .. w /\ i <= MinOf(6, L) BY <1>10, <1>11, <2>1, <2>2
    <3>2. e.stk[bp + i] = Slot(act.id + i) BY <1>9, <3>1
    <3>3. bp - off(i) = bp + i BY <1>3, <2>1, <2>2 DEF off, bp
    <3>. QED BY <2>1, <3>2, <3>3
  <2>3. CASE ~ (i <= 6)
    <3>. DEFINE d == L + 1 - i
    <3>1. bp - off(i) = d /\ d \in 1 .. Passed /\ act.id + L + 1 - d = act.id + i
      <4>1. L > 6 /\ Passed = L - 6 BY <1>3, <2>1, <2>3
      <4>2. off(i) = i - 5 BY <2>3 DEF off
      <4>3. bp = L - 4 BY <1>3, <4>1 DEF bp
      <4>4. bp - off(i) = d BY <1>3, <2>1, <4>2, <4>3
      <4>5. d \in 1 .. Passed BY <1>3, <2>1, <2>3, <4>1
      <4>6. act.id + L + 1 - d = act.id + i
        <5>. DEFINE y == act.id
        <5>1. y \in Nat BY <1>1
        <5>. HIDE DEF y
        <5>2. y + L + 1 - d = y + i BY <1>3, <2>1, <5>1
        <5>. QED BY <5>2 DEF y
      <4>. QED BY <4>4, <4>5, <4>6
    <3>. HIDE DEF d
    <3>2. e.stk[d] = Slot(act.id + L + 1 - d) BY <1>9, <3>1
    <3>. QED BY <2>1, <3>1, <3>2
  <2>. QED BY <2>2, <2>3
<1>. HIDE DEF vs
<1>14. FrameApart(g)
  <2>1. ASSUME NEW i \in 1 .. L PROVE off(i) >= - MinOf(6, L) BY <1>3, <1>10 DEF off
  <2>2. ASSUME NEW i \in 1 .. L, NEW k \in 1 .. L, off(i) = off(k) PROVE i = k
    BY <1>3, <2>2 DEF off
  <2>. QED BY <1>6, <1>12, <2>1, <2>2 DEF FrameApart
<1>15. Apart(F)
  <2>1. Apart(P) BY <1>1, <1>5, SameFramesKeep
  <2>2. \A j \in 1 .. n + 1 : j = n + 1 \/ j \in 1 .. n BY <1>4
  <2>3. \A j \in 1 .. n : FrameApart(F[j]) BY <1>5, <1>8, <2>1 DEF Apart
  <2>. QED BY <1>2, <1>8, <1>14, <2>2, <2>3 DEF Apart
<1>16. FrameTidy(g, bp, e.stk)
  <2>1. \A i \in DOMAIN g.vars : e.stk[g.vars[i].slot] = Slot(g.vars[i].decl)
    BY <1>6, <1>12, <1>13
  <2>2. ASSUME NEW d \in bp + MinOf(6, L) + 1 .. bp + w PROVE e.stk[d] = Junk
    <3>. DEFINE i == d - bp
    <3>1. i \in 1 .. w /\ ~ (i <= MinOf(6, L)) /\ bp + i = d BY <1>3, <1>10, <2>2 DEF bp
    <3>. HIDE DEF i
    <3>. QED BY <1>9, <3>1
  <2>. QED BY <1>6, <2>1, <2>2 DEF FrameTidy
<1>17. \A j \in Chain(F) : j = n + 1
  <2>1. SUFFICES ASSUME NEW j \in Chain(F), j # n + 1 PROVE FALSE OBVIOUS
  <2>2. j \in 1 .. n + 1 BY <1>2, ChainParts
  <2>3. n + 1 > j /\ n + 1 \in 1 .. n + 1 BY <1>4, <2>1, <2>2
  <2>. QED BY <1>2, <2>3, ChainParts
<1>18. TidyAt(F, c, e.stk) BY <1>2, <1>8, <1>16, <1>17 DEF TidyAt
<1>19. ASSUME NEW k \in DOMAIN params
       PROVE  /\ Declared(F, params[k])
              /\ e.stk[Entry(F, params[k]).slot] = Slot(Entry(F, params[k]).decl)
  <2>. DEFINE x == params[k]
  <2>1. k \in 1 .. L BY <1>3 DEF L
  <2>2. n + 1 \in Chain(F)
    <3>1. F # <<>> BY <1>2, FramesParts
    <3>. QED BY <1>2, <3>1, ChainParts
  <2>3. Declares(F[n + 1], x) BY <1>6, <1>8, <1>12, <2>1 DEF Declares
  <2>4. Declared(F, x) BY <2>2, <2>3 DEF Declared, Owners
  <2>5. Owner(F, x) = n + 1
    <3>1. Owner(F, x) \in Chain(F) BY <1>2, <2>4, EntryPlaced
    <3>. QED BY <1>17, <3>1
  <2>6. PICK i \in DOMAIN g.vars : Entry(F, x) = g.vars[i] BY <1>2, <1>8, <2>4, <2>5, EntryFound
  <2>7. i \in 1 .. L /\ g.vars[i] = vs[i] BY <1>6, <1>12, <2>6
  <2>. QED BY <1>12, <1>13, <2>4, <2>6, <2>7
<1>20. HasStored(F, e, {params[k] : k \in DOMAIN params}) BY <1>19 DEF HasStored
<1>. QED BY <1>9, <1>15, <1>18, <1>20 DEF F, e, c, bp

-----------------------------------------------------------------------------
(* What an activation needs when it goes on.                               *)

\* The registers with the value of the left operand.
HeldIn(t, a) ==
    CASE a.pc = "right" /\ t[a.id].op \in TwoOperand -> {a.r1}
      [] a.pc = "right" /\ t[a.id].op = "compare" -> {a.r1 + 1}
      [] OTHER -> {}

\* The arguments of a call that are on the stack, and where they are.
InCall(t, a) == t[a.id].op = "call" /\ a.pc \in {"args", "push"}
Evaluated(t, a) == a.argsLeft + (IF a.pc = "push" THEN 2 ELSE 1) .. Len(t[a.id].kids)
PlaceOf(t, a, i) == a.depth0 + Len(t[a.id].kids) + 1 - i

\* Places from where the code goes back to the frame the node was entered in,
\* or joins code that has not gone further.
Reopens == {<<"tern", "then">>, <<"tern", "else">>, <<"while", "test">>, <<"while", "right">>,
            <<"func", "right">>}

\* The variables the code behind the node will read.  A right operand of LAND
\* or LOR that declares leaves a frame that tells nothing of the left one.
Restores(t, q, v, f, a, mm) ==
    /\ <<t[a.id].op, a.pc>> \in Reopens => HasStored(Cut(f, a.frames0), mm, v.after[a.id])
    /\ <<t[a.id].op, a.pc>> = <<"logic", "right">> =>
          /\ f[a.frames0].above >= EndScope(t, q, a.id, 1).above
          /\ f[a.frames0].above = EndScope(t, q, a.id, 1).above =>
                HasStored(Cut(f, a.frames0), mm, EndStored(t, v, a.id, 1))

Needs(t, q, v, f, a, mm) ==
    a.id # 0 =>
        /\ \A r \in HeldIn(t, a) : mm.reg[r] = Val(Child(t, a.id, 1))
        /\ InCall(t, a) =>
              \A i \in Evaluated(t, a) : mm.stk[PlaceOf(t, a, i)] = Val(t[a.id].kids[i])
        /\ FuncBody(t, a) => mm.stk[PassedTo(t, a.id) + 1] = Ret
        /\ ~ FuncBody(t, a) => Restores(t, q, v, f, a, mm)

\* Activation c, above a, works in other registers and on deeper words.
Within(t, a, c) ==
    /\ \A r \in HeldIn(t, a) : r < c.used0
    /\ InCall(t, a) => \A i \in Evaluated(t, a) : PlaceOf(t, a, i) <= c.depth0
    /\ FuncBody(t, a) => PassedTo(t, a.id) + 1 <= c.depth0
    /\ ~ FuncBody(t, a) => a.depth0 <= c.depth0

\* Machine mm is good for the activations that share it with activation l.
Suits(t, q, v, f, A, l, mm) ==
    \A j \in 1 .. l : Shares(t, A, j, l) => Needs(t, q, v, f, A[j], mm)

\* A saved machine is as good as the one that runs, in the frames it is for.
Saving(t, a) ==
    a.id # 0 /\ (<<t[a.id].op, a.pc>> \in SavedBefore \/ (t[a.id].op = "while" /\ a.pc = "right"))
LevelOf(t, a) == a.frames0 + (IF t[a.id].op = "while" THEN 1 ELSE 0)
SaveGood(t, q, v, f, A, l) ==
    Saving(t, A[l]) =>
        LET a == A[l]
        IN  /\ Suits(t, q, v, f, A, l - 1, a.save)
            /\ Restores(t, q, v, f, a, a.save)
            /\ Tidy(Cut(f, LevelOf(t, a)), a.save)
            /\ <<t[a.id].op, a.pc>> = <<"tern", "else">> => a.save.reg[a.r1] = Val(a.id)

\* The names that hold a value where activation a goes on.
StoredAt(t, v, a) ==
    CASE a.pc \in {"enter", "body"} -> v.before[a.id]
      [] a.pc = "done" -> v.after[a.id]
      [] a.pc = "args" -> IF a.argsLeft = 0 THEN v.after[a.id]
                                            ELSE StartStored(t, v, a.id, a.argsLeft)
      [] OTHER -> EndStored(t, v, a.id, Operand(t, a))
StoredNow(t, v, A) ==
    LET a == A[Len(A)]
        c == A[Len(A) - 1]
    IN  IF a.id # 0 THEN StoredAt(t, v, a) ELSE StartStored(t, v, c.id, Operand(t, c))

\* The value is where the caller looks for it.
Outcome(t, a, mm) ==
    /\ a.pc = "done" => mm.reg[a.used0] = Val(a.id)
    /\ a.pc \in Waiting =>
          mm.reg[Start(t[a.id].op, a.used0, Operand(t, a))] = Val(Child(t, a.id, Operand(t, a)))

Nested(t, A, l) == \A j \in 1 .. l - 1 : Shares(t, A, j, l - 1) => Within(t, A[j], A[l])

\* Machine mm and frames f are good for the activations A.
Ground(q, v, A, f, mm) ==
    /\ Apart(f) /\ Tidy(f, mm)
    /\ \A j \in 1 .. Len(A) :
          A[j].ok /\ Nested(tree, A, j) /\ SaveGood(tree, q, v, f, A, j)
    /\ Suits(tree, q, v, f, A, Len(A), mm)

Worth(q, v) ==
    status = "run" =>
        /\ Ground(q, v, acts, nf, m)
        /\ HasStored(nf, m, StoredNow(tree, v, acts)) /\ Outcome(tree, act, m)

-----------------------------------------------------------------------------
(* What is needed stays when registers, words and frames change.           *)

Keeps(x, y, u, h) ==
    /\ \A r \in Regs : r < u => y.reg[r] = x.reg[r]
    /\ KeepsWords(x, y, h)

LEMMA HeldRegs ==
    ASSUME NEW t, NEW a \in Activation
    PROVE  HeldIn(t, a) \subseteq Regs
<1>1. a.r1 \in 0 .. 10 BY DEF Activation, regStackSz
<1>2. a.r1 \in Regs /\ a.r1 + 1 \in Regs BY <1>1 DEF Regs, regStackSz
<1>. QED BY <1>2 DEF HeldIn

LEMMA PlacesIn ==
    ASSUME NEW t, NEW a \in Activation, Len(t[a.id].kids) \in Nat, a.depth0 \in Nat,
           NEW i \in Evaluated(t, a)
    PROVE  PlaceOf(t, a, i) \in Nat /\ PlaceOf(t, a, i) >= 1 /\ i \in 1 .. Len(t[a.id].kids)
<1>. DEFINE n == Len(t[a.id].kids)  l == a.argsLeft  d == a.depth0
<1>1. l \in Nat /\ n \in Nat /\ d \in Nat BY DEF Activation
<1>2. i \in l + 2 .. n \/ i \in l + 1 .. n BY DEF Evaluated
<1>3. PlaceOf(t, a, i) = d + n + 1 - i BY DEF PlaceOf
<1>. HIDE DEF n, l, d
<1>4. i \in Nat /\ i >= 1 /\ i <= n BY <1>1, <1>2
<1>5. i \in 1 .. n /\ d + n + 1 - i \in Nat /\ d + n + 1 - i >= 1 BY <1>1, <1>4
<1>. QED BY <1>3, <1>5 DEF n

LEMMA RestoresKept ==
    ASSUME NEW f \in Seq(Nameframe), NEW b, Frames(f, b), NEW t, NEW q, NEW v, NEW a,
           a.frames0 \in 1 .. Len(f),
           NEW h \in Nat, b[a.frames0] + f[a.frames0].nSub <= h,
           NEW x, Restores(t, q, v, f, a, x), NEW y, KeepsWords(x, y, h)
    PROVE  Restores(t, q, v, f, a, y)
<1>. DEFINE k == a.frames0  g == Cut(f, k)  c == Cut(b, k)
<1>1. /\ g \in Seq(Nameframe) /\ Len(g) = k /\ Frames(g, c) /\ c[k] = b[k] /\ g[k] = f[k]
  BY FramesCut
<1>2. \A S : HasStored(g, x, S) => HasStored(g, y, S)
  <2>. HIDE DEF g, c
  <2>. QED BY <1>1, StoredStill
<1>. QED BY <1>2 DEF Restores

LEMMA NeedsKept ==
    ASSUME NEW f \in Seq(Nameframe), NEW b, Frames(f, b), NEW t, NEW q, NEW v,
           NEW a \in Activation, a.frames0 \in 1 .. Len(f), a.depth0 \in Nat,
           b[a.frames0] + f[a.frames0].nSub <= a.depth0, a.id # 0, Len(t[a.id].kids) \in Nat,
           PassedTo(t, a.id) \in Nat, NEW c, c.depth0 \in Nat, Within(t, a, c),
           NEW x, Needs(t, q, v, f, a, x), NEW y, Keeps(x, y, c.used0, c.depth0)
    PROVE  Needs(t, q, v, f, a, y)
<1>. DEFINE h == c.depth0
<1>1. \A d \in 1 .. h : x.stk[d] # Junk => y.stk[d] = x.stk[d] BY DEF Keeps, KeepsWords
<1>2. ASSUME NEW r \in HeldIn(t, a) PROVE y.reg[r] = Val(Child(t, a.id, 1))
  <2>1. r \in Regs /\ r < c.used0 BY HeldRegs DEF Within
  <2>2. x.reg[r] = Val(Child(t, a.id, 1)) BY DEF Needs
  <2>. QED BY <2>1, <2>2 DEF Keeps
<1>3. ASSUME InCall(t, a), NEW i \in Evaluated(t, a)
      PROVE  y.stk[PlaceOf(t, a, i)] = Val(t[a.id].kids[i])
  <2>1. PlaceOf(t, a, i) \in Nat /\ PlaceOf(t, a, i) >= 1 BY PlacesIn
  <2>2. PlaceOf(t, a, i) <= h BY <1>3 DEF Within
  <2>3. x.stk[PlaceOf(t, a, i)] = Val(t[a.id].kids[i]) BY <1>3 DEF Needs
  <2>4. PlaceOf(t, a, i) \in 1 .. h BY <2>1, <2>2
  <2>. QED BY <1>1, <2>3, <2>4, WordsDiffer
<1>4. ASSUME FuncBody(t, a) PROVE y.stk[PassedTo(t, a.id) + 1] = Ret
  <2>. DEFINE w == PassedTo(t, a.id)  d == w + 1
  <2>1. x.stk[d] = Ret /\ d <= h /\ w \in Nat BY <1>4 DEF Needs, Within
  <2>2. h \in Nat OBVIOUS
  <2>. HIDE DEF w, h
  <2>3. d \in 1 .. h BY <2>1, <2>2
  <2>. QED BY <1>1, <2>1, <2>3, WordsDiffer DEF w
<1>5. ASSUME ~ FuncBody(t, a) PROVE Restores(t, q, v, f, a, y)
  <2>1. a.depth0 <= h /\ Restores(t, q, v, f, a, x) BY <1>5 DEF Needs, Within
  <2>2. b[a.frames0] \in Nat /\ f[a.frames0].nSub \in Nat BY FramesParts
  <2>. DEFINE z == b[a.frames0] + f[a.frames0].nSub  e == a.depth0
  <2>3. z \in Nat
    <3>1. \A x1, x2 \in Nat : x1 + x2 \in Nat OBVIOUS
    <3>. QED BY <2>2, <3>1, Zenon
  <2>4. z <= e /\ e \in Nat /\ e <= h /\ h \in Nat /\ KeepsWords(x, y, h)
    BY <2>1 DEF Keeps
  <2>. HIDE DEF z, e, h
  <2>5. z <= h BY <2>3, <2>4
  <2>6. h \in Nat /\ b[a.frames0] + f[a.frames0].nSub <= h BY <2>4, <2>5 DEF z
  <2>7. KeepsWords(x, y, h) /\ Restores(t, q, v, f, a, x) BY <2>1, <2>4
  <2>. QED BY <2>6, <2>7, RestoresKept
<1>. QED BY <1>2, <1>3, <1>4, <1>5 DEF Needs

\* Frames g of the depths c go on for those who were entered at level k or
\* below as f did: the names are the same, or there is one more in frame k.
Grown(f, b, g, c, k) ==
    /\ Alike(f, b, g, c, k)
    /\ SameFrames(Cut(f, k), Cut(g, k)) \/ g[k].above > f[k].above
    /\ \A w : TidyAt(Cut(f, k), Cut(b, k), w) => TidyAt(Cut(g, k), Cut(c, k), w)

LEMMA GrownCuts ==
    ASSUME NEW f \in Seq(Nameframe), NEW b, Frames(f, b), NEW g \in Seq(Nameframe),
           NEW c, Frames(g, c), NEW k \in Nat, Grown(f, b, g, c, k), NEW i \in 1 .. k
    PROVE  /\ \/ /\ f[i].above = g[i].above
                 /\ \A mm, S : HasStored(Cut(f, i), mm, S) <=> HasStored(Cut(g, i), mm, S)
              \/ i = k /\ g[k].above > f[k].above
           /\ i # k => Cut(f, i) = Cut(g, i)
           /\ \A mm : mm.bp = b[i] /\ Tidy(Cut(f, i), mm) => Tidy(Cut(g, i), mm)
<1>1. k <= Len(f) /\ k <= Len(g) /\ i \in 1 .. Len(f) /\ i \in 1 .. Len(g) /\ k \in 1 .. Len(f)
      /\ k \in 1 .. Len(g) /\ Alike(f, b, g, c, k)
  BY DEF Grown, Alike
<1>2. i # k => Cut(f, i) = Cut(g, i) /\ f[i] = g[i]
  <2>1. ASSUME i # k PROVE i \in 1 .. k - 1 BY <2>1
  <2>. QED BY <1>1, <2>1, CutAlike DEF Alike
<1>3. ASSUME SameFrames(Cut(f, k), Cut(g, k)), i = k
      PROVE  /\ f[i].above = g[i].above
             /\ \A mm, S : HasStored(Cut(f, i), mm, S) <=> HasStored(Cut(g, i), mm, S)
  <2>1. Cut(f, k) \in Seq(Nameframe) /\ Cut(g, k) \in Seq(Nameframe) /\ Len(Cut(f, k)) = k
        /\ Cut(f, k)[k] = f[k] /\ Cut(g, k)[k] = g[k] /\ k \in 1 .. k
    BY <1>1, FramesCut
  <2>2. f[k].above = g[k].above BY <1>3, <2>1 DEF SameFrames
  <2>. QED BY <1>3, <2>1, <2>2, SameFramesKeep
<1>4. ASSUME NEW mm, mm.bp = b[k], Tidy(Cut(f, k), mm) PROVE Tidy(Cut(g, k), mm)
  <2>1. /\ Cut(f, k) \in Seq(Nameframe) /\ Len(Cut(f, k)) = k /\ Frames(Cut(f, k), Cut(b, k))
        /\ Cut(b, k)[k] = b[k]
    BY <1>1, FramesCut
  <2>2. /\ Cut(g, k) \in Seq(Nameframe) /\ Len(Cut(g, k)) = k /\ Frames(Cut(g, k), Cut(c, k))
        /\ Cut(c, k)[k] = c[k]
    BY <1>1, FramesCut
  <2>3. b[k] = c[k] BY <1>1 DEF Alike
  <2>4. TidyAt(Cut(f, k), Cut(b, k), mm.stk) BY <1>4, <2>1, TidyIs
  <2>5. TidyAt(Cut(g, k), Cut(c, k), mm.stk) BY <2>4 DEF Grown
  <2>. QED BY <1>4, <2>2, <2>3, <2>5, TidyIs
<1>. QED BY <1>2, <1>3, <1>4 DEF Grown

LEMMA GrownSame ==
    ASSUME NEW f \in Seq(Nameframe), NEW b, Frames(f, b), NEW g \in Seq(Nameframe),
           NEW c, Frames(g, c), NEW k \in Nat, k # 0, Alike(f, b, g, c, k),
           SameFrames(Cut(f, k), Cut(g, k))
    PROVE  Grown(f, b, g, c, k)
<1>1. k \in 1 .. Len(f) /\ k \in 1 .. Len(g) BY DEF Alike
<1>2. b \in Seq(Nat) /\ c \in Seq(Nat) /\ Len(b) = Len(f) /\ Len(c) = Len(g) BY FramesParts
<1>3. Cut(b, k) = Cut(c, k)
  <2>1. Cut(b, k) \in Seq(Nat) /\ Len(Cut(b, k)) = k /\ \A i \in 1 .. k : Cut(b, k)[i] = b[i]
    BY <1>1, <1>2, CutParts
  <2>2. Cut(c, k) \in Seq(Nat) /\ Len(Cut(c, k)) = k /\ \A i \in 1 .. k : Cut(c, k)[i] = c[i]
    BY <1>1, <1>2, CutParts
  <2>3. \A i \in 1 .. k : b[i] = c[i] BY DEF Alike
  <2>4. \A i \in 1 .. Len(Cut(b, k)) : Cut(b, k)[i] = Cut(c, k)[i] BY <2>1, <2>2, <2>3
  <2>. QED BY <2>1, <2>2, <2>4, SameSeq
<1>4. Cut(f, k) \in Seq(Nameframe) /\ Cut(g, k) \in Seq(Nameframe) BY <1>1, FramesCut
<1>. QED BY <1>3, <1>4, SameFramesKeep DEF Grown

LEMMA GrownSelf ==
    ASSUME NEW f \in Seq(Nameframe), NEW b, Frames(f, b), NEW k \in 1 .. Len(f)
    PROVE  Grown(f, b, f, b, k)
<1>1. Alike(f, b, f, b, k) BY AlikeSelf
<1>2. SameFrames(Cut(f, k), Cut(f, k)) BY DEF SameFrames
<1>. QED BY <1>1, <1>2 DEF Grown

LEMMA RestoresGrown ==
    ASSUME NEW f \in Seq(Nameframe), NEW b, Frames(f, b), NEW g \in Seq(Nameframe),
           NEW c, Frames(g, c), NEW k \in Nat, Grown(f, b, g, c, k),
           NEW t, NEW q, NEW v, NEW a \in Activation, a.id # 0,
           a.frames0 >= 1, a.frames0 + opened(t, a) <= k,
           t[a.id].op = "logic" => EndScope(t, q, a.id, 1).above \in Nat,
           NEW mm, Restores(t, q, v, f, a, mm)
    PROVE  Restores(t, q, v, g, a, mm)
<1>. DEFINE i == a.frames0
<1>1. i \in Nat /\ i >= 1 /\ opened(t, a) \in {0, 1} BY DEF Activation, opened
<1>2. i \in 1 .. k BY <1>1
<1>3. /\ \/ /\ f[i].above = g[i].above
            /\ \A mn, S : HasStored(Cut(f, i), mn, S) <=> HasStored(Cut(g, i), mn, S)
         \/ i = k /\ g[k].above > f[k].above
      /\ i # k => Cut(f, i) = Cut(g, i)
  BY <1>2, GrownCuts
<1>4. ASSUME <<t[a.id].op, a.pc>> \in Reopens PROVE HasStored(Cut(g, i), mm, v.after[a.id])
  <2>1. opened(t, a) = 1 BY <1>4 DEF opened, FrameOpen, Reopens
  <2>2. i # k BY <1>1, <2>1
  <2>. QED BY <1>3, <1>4, <2>2 DEF Restores
<1>5. ASSUME <<t[a.id].op, a.pc>> = <<"logic", "right">>
      PROVE  /\ g[i].above >= EndScope(t, q, a.id, 1).above
             /\ g[i].above = EndScope(t, q, a.id, 1).above =>
                   HasStored(Cut(g, i), mm, EndStored(t, v, a.id, 1))
  <2>. DEFINE e == EndScope(t, q, a.id, 1).above  x == f[i].above  y == g[i].above
  <2>1. e \in Nat /\ x >= e /\ (x = e => HasStored(Cut(f, i), mm, EndStored(t, v, a.id, 1)))
    BY <1>5 DEF Restores
  <2>2. x \in Nat /\ y \in Nat
    <3>1. i \in 1 .. Len(f) /\ i \in 1 .. Len(g) BY <1>2 DEF Grown, Alike
    <3>. QED BY <3>1, FrameType
  <2>3. CASE x = y BY <1>3, <2>1, <2>2, <2>3
  <2>4. CASE x # y
    <3>1. y > x BY <1>3, <2>4
    <3>. HIDE DEF e, x, y
    <3>2. y >= e /\ y # e BY <2>1, <2>2, <3>1
    <3>. QED BY <3>2 DEF e, y
  <2>. QED BY <2>3, <2>4
<1>. QED BY <1>4, <1>5 DEF Restores

-----------------------------------------------------------------------------
(* The activations below the one that takes a step.                        *)

LEMMA SuitsSame ==
    ASSUME NEW t, NEW q, NEW v, NEW f, NEW A, NEW B, NEW l \in Int,
           \A i \in 1 .. l : A[i] = B[i], NEW mm, Suits(t, q, v, f, A, l, mm)
    PROVE  Suits(t, q, v, f, B, l, mm)
<1>1. ASSUME NEW j \in 1 .. l, Shares(t, B, j, l) PROVE Shares(t, A, j, l)
  <2>1. \A i \in j + 1 .. l : i \in 1 .. l OBVIOUS
  <2>. QED BY <1>1, <2>1 DEF Shares
<1>. QED BY <1>1 DEF Suits

LEMMA ActsSame ==
    ASSUME NEW t, NEW q, NEW v, NEW f, NEW A, NEW B, NEW l \in Int,
           \A i \in 1 .. l : A[i] = B[i], NEW j \in 1 .. l
    PROVE  /\ Nested(t, A, j) => Nested(t, B, j)
           /\ SaveGood(t, q, v, f, A, j) => SaveGood(t, q, v, f, B, j)
<1>1. \A i \in 1 .. j - 1 : A[i] = B[i] /\ i \in 1 .. l OBVIOUS
<1>2. A[j] = B[j] /\ j - 1 \in Int OBVIOUS
<1>3. ASSUME Nested(t, A, j) PROVE Nested(t, B, j)
  <2>1. SUFFICES ASSUME NEW i \in 1 .. j - 1, Shares(t, B, i, j - 1) PROVE Within(t, B[i], B[j])
    BY DEF Nested
  <2>2. \A k \in i + 1 .. j - 1 : k \in 1 .. j - 1 OBVIOUS
  <2>3. Shares(t, A, i, j - 1) BY <1>1, <2>1, <2>2 DEF Shares
  <2>4. Within(t, A[i], A[j]) BY <1>3, <2>3 DEF Nested
  <2>. QED BY <1>1, <1>2, <2>4
<1>4. ASSUME SaveGood(t, q, v, f, A, j) PROVE SaveGood(t, q, v, f, B, j)
  <2>1. \A mm : Suits(t, q, v, f, A, j - 1, mm) => Suits(t, q, v, f, B, j - 1, mm)
    BY <1>1, <1>2, SuitsSame
  <2>. QED BY <1>2, <1>4, <2>1 DEF SaveGood
<1>. QED BY <1>3, <1>4

LEMMA NodeCounts ==
    ASSUME Inv, NEW s, NEW q, Scoped(tree, s, q), NEW i \in 1 .. Len(tree)
    PROVE  /\ Len(tree[i].kids) \in Nat /\ PassedTo(tree, i) \in Nat
           /\ tree[i].op = "logic" => EndScope(tree, q, i, 1).above \in Nat
<1>1. /\ tree[i] \in Node /\ tree \in Programs
      /\ \A k \in Nat : KidOf(i, k) \in 0 .. Len(tree)
  BY TreeFacts DEF Inv, Types
<1>2. Len(tree[i].kids) \in Nat /\ Len(tree[i].names) \in Nat BY <1>1, NodeFields
<1>3. PassedTo(tree, i) \in Nat
  <2>. DEFINE l == Len(tree[i].names)
  <2>1. l \in Nat BY <1>2
  <2>. HIDE DEF l
  <2>2. (IF l > 6 THEN l - 6 ELSE 0) \in Nat BY <2>1
  <2>. QED BY <2>2 DEF l, PassedTo
<1>4. ASSUME tree[i].op = "logic" PROVE EndScope(tree, q, i, 1).above \in Nat
  <2>1. Child(tree, i, 1) \in 0 .. Len(tree) BY <1>1 DEF KidOf
  <2>2. StartScope(tree, q, i, 1) = q.before[i] BY <1>4, ScopePath
  <2>3. EndScope(tree, q, i, 1) = IF Child(tree, i, 1) = 0 THEN q.before[i]
                                  ELSE q.after[Child(tree, i, 1)]
    BY <2>2, ScopePath
  <2>4. /\ \A j \in 1 .. Len(tree) : q.before[j] \in Scope /\ q.after[j] \in Scope
        /\ \A x \in Scope : x.above \in Nat
    BY DEF Scoped, Scopings, Scope
  <2>. QED BY <2>1, <2>3, <2>4
<1>. QED BY <1>2, <1>3, <1>4

LEMMA LowerFacts ==
    ASSUME Inv, NEW s, Book(s), status = "run", NEW q, Scoped(tree, s, q), NEW b, Stands(q, b),
           NEW j \in 1 .. Len(acts) - 1
    PROVE  /\ acts[j] \in Activation /\ acts[j].id # 0 /\ acts[j].id \in 1 .. Len(tree)
           /\ acts[j].frames0 >= 1 /\ acts[j].frames0 + opened(tree, acts[j]) <= act.frames0
           /\ acts[j].frames0 \in 1 .. Len(nf) /\ acts[j].depth0 \in Nat
           /\ b[acts[j].frames0] + nf[acts[j].frames0].nSub <= acts[j].depth0
           /\ SavedFits(tree, nf, b, acts[j]) /\ act.depth0 \in Nat
           /\ act.frames0 \in 1 .. Len(nf) /\ Frames(nf, b) /\ nf \in Seq(Nameframe)
<1>1. /\ acts[j] \in Activation /\ acts[j].frames0 >= 1 /\ acts[j].id # 0
      /\ acts[j].frames0 + opened(tree, acts[j]) <= act.frames0 /\ j \in 1 .. Len(acts)
  BY LowerOnes
<1>2. acts[j].id \in 1 .. Len(tree)
  <2>1. ActOK(tree, acts[j]) BY <1>1 DEF Inv
  <2>2. Len(tree) \in Nat BY TreeFacts DEF Inv, Types
  <2>. QED BY <1>1, <2>1, <2>2 DEF ActOK
<1>3. ActStack(tree, q, nf, b, acts[j]) BY <1>1 DEF Stands, Below
<1>4. act.depth0 \in Nat /\ Frames(nf, b) /\ nf \in Seq(Nameframe) BY StandsFacts
<1>5. act.frames0 \in 1 .. Len(nf) /\ acts[j].frames0 \in 1 .. Len(nf)
  <2>1. Len(nf) = act.frames0 + opened(tree, act) /\ act.frames0 \in Nat \ {0} BY InvFacts
  <2>2. opened(tree, act) \in {0, 1} /\ opened(tree, acts[j]) \in {0, 1} BY DEF opened
  <2>3. acts[j].frames0 \in Nat BY <1>1 DEF Activation
  <2>. DEFINE x == acts[j].frames0  y == act.frames0  z == opened(tree, acts[j])  l == opened(tree, act)
  <2>4. x \in Nat /\ y \in Nat /\ y # 0 /\ z \in {0, 1} /\ l \in {0, 1} /\ x >= 1 /\ x + z <= y
        /\ Len(nf) = y + l
    BY <1>1, <2>1, <2>2, <2>3
  <2>. HIDE DEF x, y, z, l
  <2>5. y \in 1 .. Len(nf) /\ x \in 1 .. Len(nf) BY <2>4
  <2>. QED BY <2>5 DEF x, y
<1>6. /\ acts[j].depth0 \in Nat /\ SavedFits(tree, nf, b, acts[j])
      /\ b[acts[j].frames0] + nf[acts[j].frames0].nSub <= acts[j].depth0
  <2>. DEFINE d == acts[j].depth0  z == b[acts[j].frames0] + nf[acts[j].frames0].nSub
  <2>1. d \in Nat /\ d >= z BY <1>3 DEF ActStack
  <2>2. d >= z => z <= d OBVIOUS
  <2>. HIDE DEF d, z
  <2>3. z <= d BY <2>1, <2>2
  <2>. QED BY <1>3, <2>1, <2>3 DEF d, z, ActStack
<1>. QED BY <1>1, <1>2, <1>4, <1>5, <1>6

LEMMA LowerKept ==
    ASSUME Inv, NEW s, Book(s), status = "run", NEW q, Scoped(tree, s, q), NEW b, Stands(q, b),
           NEW v, Nested(tree, acts, Len(acts)),
           NEW x, Suits(tree, q, v, nf, acts, Len(acts) - 1, x),
           NEW y, Keeps(x, y, act.used0, act.depth0)
    PROVE  Suits(tree, q, v, nf, acts, Len(acts) - 1, y)
<1>1. SUFFICES ASSUME NEW j \in 1 .. Len(acts) - 1, Shares(tree, acts, j, Len(acts) - 1)
               PROVE  Needs(tree, q, v, nf, acts[j], y)
  BY DEF Suits
<1>2. Needs(tree, q, v, nf, acts[j], x) /\ Within(tree, acts[j], act)
  BY <1>1 DEF Suits, Nested, act
<1>. DEFINE a == acts[j]
<1>3. /\ a \in Activation /\ a.id # 0 /\ a.id \in 1 .. Len(tree)
      /\ a.frames0 \in 1 .. Len(nf) /\ a.depth0 \in Nat
      /\ b[a.frames0] + nf[a.frames0].nSub <= a.depth0
      /\ act.depth0 \in Nat /\ Frames(nf, b) /\ nf \in Seq(Nameframe)
  BY LowerFacts
<1>4. Len(tree[a.id].kids) \in Nat /\ PassedTo(tree, a.id) \in Nat BY <1>3, NodeCounts
<1>. HIDE DEF a
<1>5. Needs(tree, q, v, nf, a, y) BY <1>2, <1>3, <1>4, NeedsKept DEF a
<1>. QED BY <1>5 DEF a

LEMMA LowerGrown ==
    ASSUME Inv, NEW s, Book(s), status = "run", NEW q, Scoped(tree, s, q), NEW b, Stands(q, b),
           NEW v, NEW f \in Seq(Nameframe), NEW c, Frames(f, c), Grown(nf, b, f, c, act.frames0),
           NEW j \in 1 .. Len(acts) - 1
    PROVE  /\ \A x : Restores(tree, q, v, nf, acts[j], x) => Restores(tree, q, v, f, acts[j], x)
           /\ \A x : Needs(tree, q, v, nf, acts[j], x) => Needs(tree, q, v, f, acts[j], x)
<1>. DEFINE a == acts[j]
<1>1. /\ a \in Activation /\ a.id # 0 /\ a.id \in 1 .. Len(tree) /\ a.frames0 >= 1
      /\ a.frames0 + opened(tree, a) <= act.frames0
      /\ Frames(nf, b) /\ nf \in Seq(Nameframe) /\ act.frames0 \in Nat
  BY LowerFacts
<1>2. tree[a.id].op = "logic" => EndScope(tree, q, a.id, 1).above \in Nat BY <1>1, NodeCounts
<1>. HIDE DEF a
<1>3. ASSUME NEW x, Restores(tree, q, v, nf, a, x) PROVE Restores(tree, q, v, f, a, x)
  BY <1>1, <1>2, <1>3, RestoresGrown
<1>4. ASSUME NEW x, Needs(tree, q, v, nf, a, x) PROVE Needs(tree, q, v, f, a, x)
  BY <1>3, <1>4 DEF Needs
<1>. QED BY <1>3, <1>4 DEF a

LEMMA SuitsGrown ==
    ASSUME Inv, NEW s, Book(s), status = "run", NEW q, Scoped(tree, s, q), NEW b, Stands(q, b),
           NEW v, NEW f \in Seq(Nameframe), NEW c, Frames(f, c), Grown(nf, b, f, c, act.frames0),
           NEW l \in Int, l <= Len(acts) - 1, NEW x, Suits(tree, q, v, nf, acts, l, x)
    PROVE  Suits(tree, q, v, f, acts, l, x)
<1>1. SUFFICES ASSUME NEW j \in 1 .. l, Shares(tree, acts, j, l)
               PROVE  Needs(tree, q, v, f, acts[j], x)
  BY DEF Suits
<1>2. Len(acts) \in Nat BY InvFacts
<1>3. j \in 1 .. Len(acts) - 1 BY <1>2
<1>4. Needs(tree, q, v, nf, acts[j], x) BY <1>1 DEF Suits
<1>. QED BY <1>3, <1>4, LowerGrown

LEMMA SavesGrown ==
    ASSUME Inv, NEW s, Book(s), status = "run", NEW q, Scoped(tree, s, q), NEW b, Stands(q, b),
           NEW v, NEW f \in Seq(Nameframe), NEW c, Frames(f, c), Grown(nf, b, f, c, act.frames0),
           NEW j \in 1 .. Len(acts) - 1, SaveGood(tree, q, v, nf, acts, j)
    PROVE  SaveGood(tree, q, v, f, acts, j)
<1>. DEFINE a == acts[j]  k == act.frames0
<1>1. SUFFICES ASSUME Saving(tree, a)
               PROVE  /\ Suits(tree, q, v, f, acts, j - 1, a.save)
                      /\ Restores(tree, q, v, f, a, a.save)
                      /\ Tidy(Cut(f, LevelOf(tree, a)), a.save)
                      /\ <<tree[a.id].op, a.pc>> = <<"tern", "else">> => a.save.reg[a.r1] = Val(a.id)
  BY DEF SaveGood
<1>2. /\ Suits(tree, q, v, nf, acts, j - 1, a.save)
      /\ Restores(tree, q, v, nf, a, a.save)
      /\ Tidy(Cut(nf, LevelOf(tree, a)), a.save)
      /\ <<tree[a.id].op, a.pc>> = <<"tern", "else">> => a.save.reg[a.r1] = Val(a.id)
  BY <1>1 DEF SaveGood
<1>3. /\ a \in Activation /\ a.id # 0 /\ a.frames0 >= 1 /\ a.frames0 + opened(tree, a) <= k
      /\ SavedFits(tree, nf, b, a) /\ Frames(nf, b) /\ nf \in Seq(Nameframe) /\ k \in 1 .. Len(nf)
      /\ a.frames0 \in 1 .. Len(nf)
  BY LowerFacts
<1>4. Suits(tree, q, v, f, acts, j - 1, a.save)
  <2>1. Len(acts) \in Nat BY InvFacts
  <2>2. j - 1 \in Int /\ j - 1 <= Len(acts) - 1 BY <2>1
  <2>. QED BY <1>2, <2>2, SuitsGrown
<1>5. Restores(tree, q, v, f, a, a.save) BY <1>2, LowerGrown
<1>6. Tidy(Cut(f, LevelOf(tree, a)), a.save)
  <2>. DEFINE l == LevelOf(tree, a)
  <2>1. l \in 1 .. k /\ k \in Nat /\ l \in 1 .. Len(nf)
    <3>. DEFINE x == a.frames0
    <3>1. x \in Nat /\ x >= 1 /\ k \in Nat /\ k <= Len(nf)
      <4>1. Len(nf) \in Nat BY <1>3
      <4>2. \A i \in 1 .. Len(nf) : i \in Nat /\ i >= 1 /\ i <= Len(nf) BY <4>1
      <4>. QED BY <1>3, <4>2
    <3>2. tree[a.id].op = "while" => a.pc = "right" BY <1>1 DEF Saving, SavedBefore
    <3>3. tree[a.id].op = "while" => x + 1 <= k
      BY <1>3, <3>2 DEF opened, FrameOpen
    <3>4. x <= k
      <4>1. opened(tree, a) \in {0, 1} BY DEF opened
      <4>. HIDE DEF x, k
      <4>2. \A z \in {0, 1} : x + z <= k => x <= k BY <3>1
      <4>. QED BY <1>3, <4>1, <4>2 DEF x
    <3>5. l = IF tree[a.id].op = "while" THEN x + 1 ELSE x BY <3>1 DEF LevelOf
    <3>. HIDE DEF x, k, l, a
    <3>. QED BY <3>1, <3>3, <3>4, <3>5
  <2>2. a.save.bp = b[l]
    <3>1. CASE tree[a.id].op = "while"
      <4>1. Fits(Cut(nf, l), Cut(b, l), a.save, Depth(tree, nf, b, a))
        BY <1>1, <1>3, <3>1 DEF SavedFits, Saving, SavedBefore, LevelOf
      <4>2. Len(Cut(nf, l)) = l /\ Cut(b, l)[l] = b[l] BY <1>3, <2>1, FramesCut
      <4>. QED BY <4>1, <4>2 DEF Fits
    <3>2. CASE tree[a.id].op # "while"
      <4>1. l = a.frames0 BY <1>3, <3>2 DEF LevelOf, Activation
      <4>2. Fits(Cut(nf, l), Cut(b, l), a.save, a.depth0)
        BY <1>1, <1>3, <3>2, <4>1 DEF SavedFits, Saving
      <4>3. Len(Cut(nf, l)) = l /\ Cut(b, l)[l] = b[l] BY <1>3, <2>1, FramesCut
      <4>. QED BY <4>2, <4>3 DEF Fits
    <3>. QED BY <3>1, <3>2
  <2>. HIDE DEF l, a, k
  <2>3. Tidy(Cut(nf, l), a.save) BY <1>2 DEF l
  <2>4. \A mm : mm.bp = b[l] /\ Tidy(Cut(nf, l), mm) => Tidy(Cut(f, l), mm)
    BY <1>3, <2>1, GrownCuts DEF k
  <2>5. Tidy(Cut(f, l), a.save) BY <2>2, <2>3, <2>4
  <2>. QED BY <2>5 DEF l
<1>. QED BY <1>2, <1>4, <1>5, <1>6

-----------------------------------------------------------------------------
(* The ways a step of an activation ends.                                  *)

Replaced(a) == [acts EXCEPT ![Len(acts)] = a]

LEMMA ReplacedParts ==
    ASSUME Inv, status = "run", NEW a
    PROVE  /\ Len(acts) \in Nat /\ Len(acts) \in 1 .. Len(acts) /\ Len(Replaced(a)) = Len(acts)
           /\ Replaced(a)[Len(acts)] = a /\ act = acts[Len(acts)]
           /\ \A j \in 1 .. Len(acts) - 1 : Replaced(a)[j] = acts[j] /\ j \in 1 .. Len(acts)
           /\ \A j \in 1 .. Len(acts) : j = Len(acts) \/ j \in 1 .. Len(acts) - 1
<1>1. acts \in Seq(Activation) /\ acts # <<>> /\ Len(acts) \in Nat \ {0} BY InvFacts DEF Types
<1>. QED BY <1>1 DEF Replaced, act

LEMMA TopGround ==
    ASSUME Inv, NEW s, Book(s), status = "run", NEW q, Scoped(tree, s, q), NEW b, Stands(q, b),
           NEW v, Worth(q, v),
           NEW a, a.id = act.id, a.used0 = act.used0, a.depth0 = act.depth0, a.ok,
           NEW f \in Seq(Nameframe), NEW c, Frames(f, c), Grown(nf, b, f, c, act.frames0), Apart(f),
           NEW mm, Tidy(f, mm), Needs(tree, q, v, f, a, mm),
           ~ FuncBody(tree, a) => Suits(tree, q, v, nf, acts, Len(acts) - 1, mm),
           Saving(tree, a) =>
               /\ Suits(tree, q, v, nf, acts, Len(acts) - 1, a.save)
               /\ Restores(tree, q, v, f, a, a.save)
               /\ Tidy(Cut(f, LevelOf(tree, a)), a.save)
               /\ <<tree[a.id].op, a.pc>> = <<"tern", "else">> => a.save.reg[a.r1] = Val(a.id)
    PROVE  Ground(q, v, Replaced(a), f, mm)
<1>. DEFINE n == Len(acts)  A == Replaced(a)
<1>1. /\ n \in Nat /\ n \in 1 .. n /\ Len(A) = n /\ A[n] = a /\ act = acts[n]
      /\ \A j \in 1 .. n - 1 : A[j] = acts[j] /\ j \in 1 .. n
      /\ \A j \in 1 .. n : j = n \/ j \in 1 .. n - 1
  BY ReplacedParts
<1>2. \A j \in 1 .. n : acts[j].ok /\ Nested(tree, acts, j) /\ SaveGood(tree, q, v, nf, acts, j)
  BY DEF Worth, Ground
<1>. HIDE DEF A
<1>3. ASSUME NEW x, Suits(tree, q, v, nf, acts, n - 1, x) PROVE Suits(tree, q, v, f, A, n - 1, x)
  <2>1. n - 1 \in Int /\ n - 1 <= n - 1 BY <1>1
  <2>2. Suits(tree, q, v, f, acts, n - 1, x) BY <1>3, <2>1, SuitsGrown
  <2>. QED BY <1>1, <2>1, <2>2, SuitsSame
<1>4. ASSUME NEW j \in 1 .. n - 1
      PROVE  A[j].ok /\ Nested(tree, A, j) /\ SaveGood(tree, q, v, f, A, j)
  <2>1. SaveGood(tree, q, v, f, acts, j) BY <1>1, <1>2, SavesGrown
  <2>2. n - 1 \in Int BY <1>1
  <2>. QED BY <1>1, <1>2, <2>1, <2>2, ActsSame
<1>5. Nested(tree, A, n)
  <2>1. SUFFICES ASSUME NEW j \in 1 .. n - 1, Shares(tree, A, j, n - 1) PROVE Within(tree, A[j], A[n])
    BY DEF Nested
  <2>2. \A i \in j + 1 .. n - 1 : i \in 1 .. n - 1 OBVIOUS
  <2>3. Shares(tree, acts, j, n - 1) BY <1>1, <2>1, <2>2 DEF Shares
  <2>4. Within(tree, acts[j], act) BY <1>1, <1>2, <2>3 DEF Nested
  <2>. QED BY <1>1, <2>4 DEF Within
<1>6. SaveGood(tree, q, v, f, A, n) BY <1>1, <1>3 DEF SaveGood
<1>7. Suits(tree, q, v, f, A, n, mm)
  <2>1. SUFFICES ASSUME NEW j \in 1 .. n, Shares(tree, A, j, n), j # n
                 PROVE  Needs(tree, q, v, f, A[j], mm)
    BY <1>1 DEF Suits
  <2>2. j \in 1 .. n - 1 /\ n \in j + 1 .. n /\ \A i \in j + 1 .. n - 1 : i \in j + 1 .. n
    BY <1>1, <2>1
  <2>3. ~ FuncBody(tree, a) BY <1>1, <2>1, <2>2 DEF Shares
  <2>4. Suits(tree, q, v, f, A, n - 1, mm) BY <1>3, <2>3
  <2>5. Shares(tree, A, j, n - 1) BY <2>1, <2>2 DEF Shares
  <2>. QED BY <2>2, <2>4, <2>5 DEF Suits
<1>8. A[n].ok BY <1>1
<1>9. \A j \in 1 .. Len(A) : A[j].ok /\ Nested(tree, A, j) /\ SaveGood(tree, q, v, f, A, j)
  BY <1>1, <1>4, <1>5, <1>6, <1>8
<1>. QED BY <1>1, <1>7, <1>9 DEF Ground, A

LEMMA StoredTop ==
    ASSUME Inv, status = "run", NEW v, NEW a, a.id # 0
    PROVE  StoredNow(tree, v, Replaced(a)) = StoredAt(tree, v, a)
<1>1. Replaced(a)[Len(Replaced(a))] = a BY ReplacedParts
<1>. QED BY <1>1 DEF StoredNow

LEMMA StayWorth ==
    ASSUME Inv, status = "run", NEW q, NEW v, NEW a, NEW f, NEW mm,
           Ground(q, v, Replaced(a), f, mm),
           HasStored(f, mm, StoredNow(tree, v, Replaced(a))), Outcome(tree, a, mm),
           NEW u, Live(Replaced(a), u, f, mm)
    PROVE  Worth(q, v)'
<1>1. Replaced(a)[Len(Replaced(a))] = a BY ReplacedParts
<1>2. acts' = Replaced(a) /\ nf' = f /\ m' = mm /\ tree' = tree BY DEF Live
<1>3. act' = a BY <1>1, <1>2 DEF act
<1>4. Ground(q, v, acts, nf, m)' BY <1>2 DEF Ground
<1>. QED BY <1>2, <1>3, <1>4 DEF Worth

LEMMA AppendParts ==
    ASSUME NEW S, NEW x \in Seq(S), NEW e
    PROVE  /\ Len(Append(x, e)) = Len(x) + 1 /\ Append(x, e)[Len(x) + 1] = e
           /\ \A j \in 1 .. Len(x) : Append(x, e)[j] = x[j]
OBVIOUS

LEMMA GenWorth ==
    ASSUME Inv, NEW s, Book(s), status = "run", NEW q, Scoped(tree, s, q), NEW b, Stands(q, b),
           NEW v, Worth(q, v),
           NEW a \in Activation, a.id # 0, a.id = act.id, NEW f, NEW mm,
           Ground(q, v, Replaced(a), f, mm),
           NEW k, k # 0 => v.before[k] = StartStored(tree, v, a.id, Operand(tree, a)),
           HasStored(f, mm, StartStored(tree, v, a.id, Operand(tree, a))),
           NEW u, Within(tree, a, NewAct(k, u, mm, f)),
           ~ FuncBody(tree, a) => u \in Nat /\ act.used0 <= u /\ act.depth0 <= Len(mm.stk),
           Len(mm.stk) \in Nat, Gen(k, a, u, f, mm)
    PROVE  Worth(q, v)'
<1>. DEFINE n == Len(acts)  A == Replaced(a)  e == NewAct(k, u, mm, f)  E == Append(A, e)
<1>1. /\ n \in Nat /\ n \in 1 .. n /\ Len(A) = n /\ A[n] = a /\ act = acts[n]
      /\ \A j \in 1 .. n - 1 : A[j] = acts[j] /\ j \in 1 .. n
      /\ \A j \in 1 .. n : j = n \/ j \in 1 .. n - 1
  BY ReplacedParts
<1>2. Len(E) = n + 1 /\ E[n + 1] = e /\ \A j \in 1 .. n : E[j] = A[j]
  <2>1. acts \in Seq(Activation) /\ acts # <<>> BY InvFacts DEF Types
  <2>2. A \in Seq(Activation) BY <2>1 DEF Replaced
  <2>. HIDE DEF A, e
  <2>. QED BY <1>1, <2>2, AppendParts
<1>3. e.id = k /\ e.pc = "enter" /\ e.used0 = u /\ e.depth0 = Len(mm.stk) /\ e.ok BY DEF NewAct
<1>4. acts' = E /\ nf' = f /\ m' = mm /\ tree' = tree
  BY DEF Gen, Live, Replaced
<1>. HIDE DEF A, e, E
<1>5. ~ FuncBody(tree, e) /\ ~ Saving(tree, e) /\ Outcome(tree, e, mm) /\ Needs(tree, q, v, f, e, mm)
  BY <1>3 DEF FuncBody, Saving, SavedBefore, Outcome, Waiting, Needs, HeldIn, InCall, Restores, Reopens
<1>6. ASSUME NEW j \in 1 .. n, Shares(tree, A, j, n) PROVE Within(tree, A[j], e)
  <2>1. CASE j = n BY <1>1, <2>1 DEF e
  <2>2. CASE j # n
    <3>1. j \in 1 .. n - 1 /\ n \in j + 1 .. n
          /\ \A i \in j + 1 .. n - 1 : i \in 1 .. n - 1 /\ i \in j + 1 .. n
      BY <1>1, <2>2
    <3>2. ~ FuncBody(tree, a) BY <1>1, <1>6, <3>1 DEF Shares
    <3>3. Shares(tree, acts, j, n - 1) BY <1>1, <1>6, <3>1 DEF Shares
    <3>4. Within(tree, acts[j], act) BY <1>1, <3>1, <3>3 DEF Worth, Ground, Nested
    <3>. DEFINE z == acts[j]  y == act.used0  d == act.depth0  h == Len(mm.stk)
    <3>5. /\ z \in Activation /\ z.id # 0 /\ z.id \in 1 .. Len(tree) /\ z.depth0 \in Nat /\ d \in Nat
      BY <3>1, LowerFacts
    <3>6. y \in Nat /\ u \in Nat /\ y <= u /\ d <= h /\ h \in Nat
      <4>1. y \in Nat
        <5>1. y \in 0 .. 12 BY BookFacts
        <5>. HIDE DEF y
        <5>. QED BY <5>1
      <4>. QED BY <3>2, <4>1
    <3>7. HeldIn(tree, z) \subseteq Nat
      <4>1. HeldIn(tree, z) \subseteq Regs BY <3>5, HeldRegs
      <4>2. Regs \subseteq Nat BY DEF Regs, regStackSz
      <4>. QED BY <4>1, <4>2
    <3>8. tree \in Programs /\ tree[z.id] \in Node BY <3>5, TreeFacts DEF Inv, Types
    <3>9. Len(tree[z.id].kids) \in Nat /\ Len(tree[z.id].names) \in Nat BY <3>8, NodeFields
    <3>10. \A i \in Evaluated(tree, z) : PlaceOf(tree, z, i) \in Nat BY <3>5, <3>9, PlacesIn
    <3>11. PassedTo(tree, z.id) + 1 \in Nat
      <4>. DEFINE l == Len(tree[z.id].names)
      <4>1. l \in Nat BY <3>9
      <4>. HIDE DEF l
      <4>2. (IF l > 6 THEN l - 6 ELSE 0) + 1 \in Nat BY <4>1
      <4>. QED BY <4>2 DEF PassedTo, l
    <3>12. /\ \A r \in Nat : r < y => r < u
           /\ \A i \in Nat : i <= d => i <= h
      <4>. HIDE DEF y, d, h
      <4>. QED BY <3>5, <3>6
    <3>. HIDE DEF z
    <3>13. Within(tree, z, e)
      <4>1. \A r \in HeldIn(tree, z) : r < y BY <3>4 DEF Within, z
      <4>2. InCall(tree, z) => \A i \in Evaluated(tree, z) : PlaceOf(tree, z, i) <= d
        BY <3>4 DEF Within, z
      <4>3. FuncBody(tree, z) => PassedTo(tree, z.id) + 1 <= d BY <3>4 DEF Within, z
      <4>4. ~ FuncBody(tree, z) => z.depth0 <= d BY <3>4 DEF Within, z
      <4>. HIDE DEF y, d, h
      <4>5. \A r \in HeldIn(tree, z) : r < u BY <3>7, <3>12, <4>1
      <4>6. InCall(tree, z) => \A i \in Evaluated(tree, z) : PlaceOf(tree, z, i) <= h
        BY <3>10, <3>12, <4>2
      <4>7. FuncBody(tree, z) => PassedTo(tree, z.id) + 1 <= h BY <3>11, <3>12, <4>3
      <4>8. ~ FuncBody(tree, z) => z.depth0 <= h BY <3>5, <3>12, <4>4
      <4>9. e.used0 = u /\ e.depth0 = h BY <1>3 DEF h
      <4>. QED BY <4>5, <4>6, <4>7, <4>8, <4>9 DEF Within
    <3>14. A[j] = z BY <1>1, <3>1 DEF z
    <3>. QED BY <3>13, <3>14
  <2>. QED BY <2>1, <2>2
<1>7. Ground(q, v, A, f, mm) BY DEF A
<1>8. ASSUME NEW j \in 1 .. n
      PROVE  E[j].ok /\ Nested(tree, E, j) /\ SaveGood(tree, q, v, f, E, j)
  <2>1. A[j].ok /\ Nested(tree, A, j) /\ SaveGood(tree, q, v, f, A, j)
    BY <1>1, <1>7 DEF Ground
  <2>2. \A i \in 1 .. n : A[i] = E[i] BY <1>2
  <2>3. n \in Int BY <1>1
  <2>. QED BY <2>1, <2>2, <2>3, ActsSame
<1>9. n + 1 - 1 = n /\ \A j \in 1 .. n + 1 : j = n + 1 \/ j \in 1 .. n BY <1>1
<1>10. Nested(tree, E, n + 1)
  <2>1. SUFFICES ASSUME NEW j \in 1 .. n, Shares(tree, E, j, n) PROVE Within(tree, E[j], e)
    BY <1>2, <1>9 DEF Nested
  <2>2. \A i \in j + 1 .. n : i \in 1 .. n OBVIOUS
  <2>3. Shares(tree, A, j, n) BY <1>2, <2>1, <2>2 DEF Shares
  <2>. QED BY <1>2, <1>6, <2>3
<1>11. SaveGood(tree, q, v, f, E, n + 1) BY <1>2, <1>5 DEF SaveGood
<1>12. Suits(tree, q, v, f, E, n + 1, mm)
  <2>1. SUFFICES ASSUME NEW j \in 1 .. n, Shares(tree, E, j, n + 1)
                 PROVE  Needs(tree, q, v, f, E[j], mm)
    BY <1>2, <1>5, <1>9 DEF Suits
  <2>2. \A i \in j + 1 .. n : i \in 1 .. n /\ i \in j + 1 .. n + 1 OBVIOUS
  <2>3. Shares(tree, A, j, n) BY <1>2, <2>1, <2>2 DEF Shares
  <2>4. Needs(tree, q, v, f, A[j], mm) BY <1>1, <1>7, <2>3 DEF Ground, Suits
  <2>. QED BY <1>2, <2>4
<1>13. Ground(q, v, E, f, mm)
  <2>1. Apart(f) /\ Tidy(f, mm) BY <1>7 DEF Ground
  <2>2. \A j \in 1 .. n + 1 : E[j].ok /\ Nested(tree, E, j) /\ SaveGood(tree, q, v, f, E, j)
    BY <1>2, <1>3, <1>8, <1>9, <1>10, <1>11
  <2>. QED BY <1>2, <1>12, <2>1, <2>2 DEF Ground
<1>14. HasStored(f, mm, StoredNow(tree, v, E))
  <2>1. E[Len(E)] = e /\ E[Len(E) - 1] = a BY <1>1, <1>2, <1>9
  <2>2. k # 0 => StoredAt(tree, v, e) = v.before[k] BY <1>3 DEF StoredAt
  <2>3. StoredNow(tree, v, E) = StartStored(tree, v, a.id, Operand(tree, a))
    BY <1>3, <2>1, <2>2 DEF StoredNow
  <2>. QED BY <2>3
<1>15. act' = e BY <1>2, <1>4 DEF act
<1>16. Ground(q, v, acts, nf, m)' BY <1>4, <1>13 DEF Ground
<1>. QED BY <1>4, <1>5, <1>14, <1>15, <1>16 DEF Worth

LEMMA WorthFacts ==
    ASSUME Inv, status = "run", NEW q, NEW v, Worth(q, v)
    PROVE  /\ act.ok /\ Nested(tree, acts, Len(acts)) /\ SaveGood(tree, q, v, nf, acts, Len(acts))
           /\ Apart(nf) /\ Tidy(nf, m) /\ Outcome(tree, act, m)
           /\ act.id # 0 => HasStored(nf, m, StoredAt(tree, v, act))
           /\ Needs(tree, q, v, nf, act, m)
           /\ ~ FuncBody(tree, act) => Suits(tree, q, v, nf, acts, Len(acts) - 1, m)
           /\ Saving(tree, act) =>
                 /\ Suits(tree, q, v, nf, acts, Len(acts) - 1, act.save)
                 /\ Restores(tree, q, v, nf, act, act.save)
                 /\ Tidy(Cut(nf, LevelOf(tree, act)), act.save)
                 /\ <<node.op, act.pc>> = <<"tern", "else">> => act.save.reg[act.r1] = Val(act.id)
<1>. DEFINE n == Len(acts)
<1>1. n \in Nat /\ n \in 1 .. n /\ act = acts[n] BY ReplacedParts
<1>2. Ground(q, v, acts, nf, m) /\ HasStored(nf, m, StoredNow(tree, v, acts)) /\ Outcome(tree, act, m)
  BY DEF Worth
<1>3. act.id # 0 => StoredNow(tree, v, acts) = StoredAt(tree, v, act) BY DEF StoredNow, act
<1>4. Needs(tree, q, v, nf, act, m)
  <2>1. Shares(tree, acts, n, n) BY <1>1 DEF Shares
  <2>. QED BY <1>1, <1>2, <2>1 DEF Ground, Suits
<1>5. ASSUME ~ FuncBody(tree, act) PROVE Suits(tree, q, v, nf, acts, n - 1, m)
  <2>1. SUFFICES ASSUME NEW j \in 1 .. n - 1, Shares(tree, acts, j, n - 1)
                 PROVE  Needs(tree, q, v, nf, acts[j], m)
    BY DEF Suits
  <2>2. \A i \in j + 1 .. n : i = n \/ i \in j + 1 .. n - 1 BY <1>1
  <2>3. Shares(tree, acts, j, n) BY <1>1, <1>5, <2>1, <2>2 DEF Shares
  <2>4. j \in 1 .. n BY <1>1
  <2>. QED BY <1>2, <2>3, <2>4 DEF Ground, Suits
<1>6. SaveGood(tree, q, v, nf, acts, n) /\ act.ok /\ Nested(tree, acts, n) /\ Apart(nf) /\ Tidy(nf, m)
  BY <1>1, <1>2 DEF Ground
<1>7. Saving(tree, act) =>
         /\ Suits(tree, q, v, nf, acts, n - 1, act.save)
         /\ Restores(tree, q, v, nf, act, act.save)
         /\ Tidy(Cut(nf, LevelOf(tree, act)), act.save)
         /\ <<node.op, act.pc>> = <<"tern", "else">> => act.save.reg[act.r1] = Val(act.id)
  BY <1>1, <1>6 DEF SaveGood, node
<1>. QED BY <1>2, <1>3, <1>4, <1>5, <1>6, <1>7

LEMMA GenNullWorth ==
    ASSUME Inv, NEW s, Shaped(tree, s), Book(s), NEW q, Scoped(tree, s, q), NEW b, Stands(q, b),
           NEW v, Worth(q, v), GenNull
    PROVE  Worth(q, v)'
<1>. DEFINE a == Resume("done")  mm == Mov(m, used, Val(0))
<1>1. status = "run" /\ act.id = 0 /\ act.pc = "enter" BY DEF GenNull, pc
<1>2. used = act.used0 /\ used \in Regs /\ act.used0 \in 0 .. 12
  <2>1. used = InUse(tree, s, act) /\ act.used0 \in 0 .. 12 BY <1>1, BookFacts
  <2>. QED BY <1>1, <2>1 DEF InUse, Regs, regStackSz
<1>3. Live(Replaced(a), used + 1, nf, mm) BY <1>2 DEF GenNull, Replaced
<1>4. /\ a.id = act.id /\ a.pc = "done" /\ a.used0 = act.used0 /\ a.depth0 = act.depth0 /\ a.ok = act.ok
      /\ a.frames0 = act.frames0
  <2>1. act \in Activation BY <1>1, InvFacts
  <2>. QED BY <2>1 DEF Resume, Activation
<1>5. /\ Frames(nf, b) /\ nf \in Seq(Nameframe) /\ m \in Machine /\ act.frames0 \in 1 .. Len(nf)
  <2>1. Len(nf) = act.frames0 + opened(tree, act) /\ act.frames0 \in Nat \ {0} /\ opened(tree, act) = 0
    BY <1>1, InvFacts DEF opened
  <2>. QED BY <1>1, <2>1, StandsFacts, InvFacts DEF Types
<1>6. Grown(nf, b, nf, b, act.frames0) BY <1>5, GrownSelf
<1>7. /\ act.ok /\ Nested(tree, acts, Len(acts)) /\ Apart(nf) /\ Tidy(nf, m)
      /\ Suits(tree, q, v, nf, acts, Len(acts) - 1, m) /\ HasStored(nf, m, StoredNow(tree, v, acts))
  BY <1>1, WorthFacts DEF FuncBody, Worth
<1>8. mm.stk = m.stk /\ mm.bp = m.bp /\ mm.reg[used] = Val(0)
      /\ \A r \in Regs : r # used => mm.reg[r] = m.reg[r]
  BY <1>2, <1>5 DEF Mov, Machine
<1>. HIDE DEF a, mm
<1>9. Keeps(m, mm, act.used0, act.depth0)
  <2>1. \A r \in Regs : r < used => r # used BY <1>2 DEF Regs, regStackSz
  <2>. QED BY <1>2, <1>8, <2>1 DEF Keeps, KeepsWords
<1>10. Suits(tree, q, v, nf, acts, Len(acts) - 1, mm) BY <1>1, <1>7, <1>9, LowerKept
<1>11. Tidy(nf, mm) BY <1>7, <1>8 DEF Tidy
<1>12. Needs(tree, q, v, nf, a, mm) /\ ~ Saving(tree, a) /\ Outcome(tree, a, mm)
  BY <1>1, <1>2, <1>4, <1>8, DonePC DEF Needs, Saving, Outcome
<1>13. Ground(q, v, Replaced(a), nf, mm)
  BY <1>1, <1>4, <1>5, <1>6, <1>7, <1>10, <1>11, <1>12, TopGround
<1>14. HasStored(nf, mm, StoredNow(tree, v, Replaced(a)))
  <2>. DEFINE n == Len(acts)  A == Replaced(a)
  <2>1. /\ n \in Nat /\ n \in 1 .. n /\ Len(A) = n /\ A[n] = a /\ act = acts[n]
        /\ \A j \in 1 .. n - 1 : A[j] = acts[j]
        /\ \A j \in 1 .. n : j = n \/ j \in 1 .. n - 1
    BY <1>1, ReplacedParts
  <2>2. acts[1].id # 0 BY DEF Stands, Below
  <2>3. n # 1 BY <1>1, <2>1, <2>2
  <2>4. n - 1 \in 1 .. n - 1 BY <2>1, <2>3
  <2>. HIDE DEF A
  <2>5. StoredNow(tree, v, A) = StoredNow(tree, v, acts) BY <1>1, <1>4, <2>1, <2>4 DEF StoredNow
  <2>. QED BY <1>7, <1>8, <2>5 DEF HasStored, A
<1>. QED BY <1>1, <1>3, <1>12, <1>13, <1>14, StayWorth

LEMMA BeginWorth ==
    ASSUME Inv, NEW s, Shaped(tree, s), Book(s), NEW q, Scoped(tree, s, q), NEW b, Stands(q, b),
           NEW v, Worth(q, v), Begin
    PROVE  Worth(q, v)'
<1>. DEFINE a == [Resume("body") EXCEPT !.r1 = used]
<1>1. At(Ops, "enter") BY DEF Begin
<1>2. status = "run" /\ act.pc = "enter" /\ act.id # 0 BY <1>1, AtBook
<1>3. Live(Replaced(a), used, nf, m) BY DEF Begin, Replaced
<1>4. /\ a.id = act.id /\ a.pc = "body" /\ a.used0 = act.used0 /\ a.depth0 = act.depth0 /\ a.ok = act.ok
      /\ a.frames0 = act.frames0
  <2>1. act \in Activation BY <1>2, InvFacts
  <2>. QED BY <2>1 DEF Resume, Activation
<1>5. /\ Frames(nf, b) /\ nf \in Seq(Nameframe) /\ act.frames0 \in 1 .. Len(nf)
  <2>1. Len(nf) = act.frames0 + opened(tree, act) /\ act.frames0 \in Nat \ {0} /\ opened(tree, act) = 0
    BY <1>2, InvFacts DEF opened, FrameOpen
  <2>. QED BY <1>2, <2>1, StandsFacts
<1>6. Grown(nf, b, nf, b, act.frames0) BY <1>5, GrownSelf
<1>7. /\ act.ok /\ Apart(nf) /\ Tidy(nf, m) /\ HasStored(nf, m, StoredAt(tree, v, act))
      /\ Suits(tree, q, v, nf, acts, Len(acts) - 1, m)
  BY <1>2, WorthFacts DEF FuncBody
<1>. HIDE DEF a
<1>8. Needs(tree, q, v, nf, a, m) /\ ~ Saving(tree, a) /\ Outcome(tree, a, m)
  BY <1>4 DEF Needs, HeldIn, InCall, FuncBody, Restores, Reopens, Saving, SavedBefore, Outcome, Waiting
<1>9. Ground(q, v, Replaced(a), nf, m)
  BY <1>2, <1>4, <1>5, <1>6, <1>7, <1>8, TopGround
<1>10. StoredNow(tree, v, Replaced(a)) = StoredAt(tree, v, act)
  <2>1. StoredNow(tree, v, Replaced(a)) = StoredAt(tree, v, a) BY <1>2, <1>4, StoredTop
  <2>. QED BY <1>2, <1>4, <2>1 DEF StoredAt
<1>. QED BY <1>2, <1>3, <1>7, <1>8, <1>9, <1>10, StayWorth

LEMMA ReturnWorth ==
    ASSUME Inv, NEW s, Book(s), NEW q, Scoped(tree, s, q), NEW b, Stands(q, b),
           NEW v, Worth(q, v), Return
    PROVE  Worth(q, v)'
<1>. DEFINE n == Len(acts)  A == SubSeq(acts, 1, n - 1)  a == acts[n - 1]
<1>1. status = "run" /\ n > 1 /\ act.pc = "done" BY DEF Return, pc
<1>2. acts \in Seq(Activation) /\ n \in Nat BY <1>1, InvFacts DEF Types
<1>3. Len(A) = n - 1 /\ \A j \in 1 .. n - 1 : A[j] = acts[j]
  <2>1. n - 1 \in 1 .. n BY <1>1, <1>2
  <2>. QED BY <1>2, <2>1, Prefix
<1>4. acts' = A /\ nf' = nf /\ m' = m /\ tree' = tree BY DEF Return, Live
<1>. HIDE DEF A
<1>5. /\ n - 1 \in 1 .. n - 1 /\ n - 1 \in Int /\ n - 1 + 1 = n /\ \A j \in 1 .. n - 1 : j \in 1 .. n
  BY <1>1, <1>2
<1>6. Serves(tree, a, act) BY <1>5 DEF Book, act
<1>7. a.id # 0 BY <1>1, <1>5, LowerOnes
<1>8. /\ Ground(q, v, acts, nf, m) /\ HasStored(nf, m, StoredNow(tree, v, acts))
      /\ Outcome(tree, act, m) /\ Suits(tree, q, v, nf, acts, n - 1, m)
  BY <1>1, WorthFacts DEF FuncBody, Worth
<1>9. Ground(q, v, A, nf, m)
  <2>1. ASSUME NEW j \in 1 .. n - 1
        PROVE  A[j].ok /\ Nested(tree, A, j) /\ SaveGood(tree, q, v, nf, A, j)
    <3>1. acts[j].ok /\ Nested(tree, acts, j) /\ SaveGood(tree, q, v, nf, acts, j)
      BY <1>5, <1>8 DEF Ground
    <3>. QED BY <1>3, <1>5, <3>1, ActsSame
  <2>2. Suits(tree, q, v, nf, A, n - 1, m) BY <1>3, <1>5, <1>8, SuitsSame
  <2>. QED BY <1>3, <1>8, <2>1, <2>2 DEF Ground
<1>10. act' = a BY <1>3, <1>4, <1>5 DEF act
<1>. HIDE DEF a
<1>11. a.pc \in Waiting /\ a.pc # "done" /\ act.id = Child(tree, a.id, Operand(tree, a))
       /\ act.used0 = Start(tree[a.id].op, a.used0, Operand(tree, a))
  BY <1>6 DEF Serves, Waiting
<1>12. Outcome(tree, a, m) BY <1>1, <1>8, <1>11 DEF Outcome
<1>13. HasStored(nf, m, StoredNow(tree, v, A))
  <2>1. StoredNow(tree, v, acts) = IF act.id # 0 THEN StoredAt(tree, v, act)
                                   ELSE StartStored(tree, v, a.id, Operand(tree, a))
    BY DEF StoredNow, act, a
  <2>2. StoredAt(tree, v, act) = v.after[act.id] BY <1>1, DonePC DEF StoredAt
  <2>3. StoredAt(tree, v, a) = EndStored(tree, v, a.id, Operand(tree, a))
    BY <1>11 DEF StoredAt, Waiting
  <2>4. StoredNow(tree, v, acts) = StoredAt(tree, v, a) BY <1>11, <2>1, <2>2, <2>3 DEF EndStored
  <2>5. StoredNow(tree, v, A) = StoredAt(tree, v, a)
    <3>1. A[Len(A)] = a BY <1>3, <1>5 DEF a
    <3>. QED BY <1>7, <3>1 DEF StoredNow
  <2>. QED BY <1>8, <2>4, <2>5
<1>14. Ground(q, v, acts, nf, m)' BY <1>4, <1>9 DEF Ground
<1>. QED BY <1>4, <1>10, <1>12, <1>13, <1>14 DEF Worth

LEMMA ExitWorth ==
    ASSUME NEW q, NEW v, Exit
    PROVE  Worth(q, v)'
BY DEF Exit, Worth

LEMMA StopWorth ==
    ASSUME NEW q, NEW v, NEW why \in {"assert", "crash"}, Stop(why)
    PROVE  Worth(q, v)'
BY DEF Stop, Worth

LEMMA InitWorth ==
    ASSUME Init, NEW s, NEW q, NEW v, Stored(tree, s, q, v)
    PROVE  Worth(q, v)
<1>. DEFINE w == frameWords(tree, 1)  g == createNF(TRUE, w, 0)  e == Enter(Blank)
            a == NewAct(1, 0, m, nf)
<1>1. /\ tree \in Programs /\ nf = <<g>> /\ m = Reserve(e, w) /\ acts = <<a>> BY DEF Init
<1>2. nf \in Seq(Nameframe) BY InitInv DEF Inv, Types
<1>3. w \in Nat
  <2>1. 1 \in 1 .. Len(tree) BY <1>1, TreeFacts
  <2>. QED BY <1>1, <2>1, FrameWordsType
<1>4. e \in Machine /\ e.bp = 1 /\ Len(e.stk) = 1
  <2>1. Len(Blank.stk) = 0 BY DEF Blank
  <2>2. /\ Enter(Blank) \in Machine /\ Enter(Blank).bp = Len(Blank.stk) + 1
        /\ Len(Enter(Blank).stk) = Len(Blank.stk) + 1
    BY BlankType, EnterParts
  <2>. QED BY <2>1, <2>2
<1>. HIDE DEF w, e
<1>5. m.bp = 1 /\ \A d \in 2 .. 1 + w : m.stk[d] = Junk
  <2>. DEFINE tail == [i \in 1 .. w |-> Junk]
  <2>1. m = [e EXCEPT !.stk = e.stk \o tail] BY <1>1 DEF Reserve
  <2>2. m.stk = e.stk \o tail /\ m.bp = 1 BY <1>4, <2>1 DEF Machine
  <2>3. Junk \in Token BY Tokens
  <2>4. tail \in Seq(Token) /\ Len(tail) = w BY <1>3, <2>3, Table
  <2>5. \A i \in 1 .. w : tail[i] = Junk OBVIOUS
  <2>6. e.stk \in Seq(Token) BY <1>4 DEF Machine
  <2>. HIDE DEF tail
  <2>7. ASSUME NEW d \in 2 .. 1 + w PROVE m.stk[d] = Junk
    <3>1. d \in Len(e.stk) + 1 .. Len(e.stk) + Len(tail) BY <1>3, <1>4, <2>4
    <3>2. (e.stk \o tail)[d] = tail[d - Len(e.stk)] BY <2>4, <2>6, <3>1, ConcatTail
    <3>3. d - Len(e.stk) \in 1 .. w BY <1>3, <1>4
    <3>. QED BY <2>2, <2>5, <3>2, <3>3
  <2>. QED BY <2>2, <2>7
<1>6. g.root /\ g.nSub = w /\ g.above = 0 /\ g.vars = <<>> BY DEF createNF
<1>7. a.id = 1 /\ a.pc = "enter" /\ a.ok BY DEF NewAct
<1>. HIDE DEF g, a
<1>8. Len(nf) = 1 /\ nf[1] = g BY <1>1
<1>9. act = a /\ Len(acts) = 1 /\ acts[1] = a BY <1>1 DEF act
<1>10. Apart(nf)
  <2>1. FrameApart(g) BY <1>6 DEF FrameApart
  <2>2. \A j \in 1 .. Len(nf) : j = 1 BY <1>8
  <2>. QED BY <1>8, <2>1, <2>2 DEF Apart
<1>11. Tidy(nf, m)
  <2>1. Hops(nf, 1) = 0 BY <1>2, <1>8, HopsUnfold
  <2>2. FrameTidy(g, 1, m.stk)
    <3>1. 1 + 0 + 1 = 2 OBVIOUS
    <3>. QED BY <1>5, <1>6, <3>1 DEF FrameTidy
  <2>3. Chain(nf) \subseteq {1} BY <1>8 DEF Chain
  <2>4. m.bp - Hops(nf, 1) = 1 BY <1>5, <2>1
  <2>. QED BY <1>8, <2>2, <2>3, <2>4 DEF Tidy
<1>12. HasStored(nf, m, StoredNow(tree, v, acts))
  <2>1. StoredNow(tree, v, acts) = v.before[1] BY <1>7, <1>9 DEF StoredNow, StoredAt
  <2>2. v.before[1] = {} BY DEF Stored
  <2>. QED BY <2>1, <2>2 DEF HasStored
<1>13. /\ ~ Saving(tree, a) /\ Outcome(tree, a, m) /\ Needs(tree, q, v, nf, a, m)
  BY <1>7 DEF Saving, SavedBefore, Outcome, Waiting, Needs, HeldIn, InCall, FuncBody, Restores, Reopens
<1>14. \A j \in 1 .. Len(acts) : j = 1 BY <1>9
<1>15. 1 .. 1 - 1 = {} OBVIOUS
<1>16. Nested(tree, acts, 1) /\ SaveGood(tree, q, v, nf, acts, 1)
  BY <1>9, <1>13, <1>15 DEF Nested, SaveGood
<1>17. Suits(tree, q, v, nf, acts, Len(acts), m) BY <1>9, <1>13, <1>14 DEF Suits
<1>18. Ground(q, v, acts, nf, m)
  <2>1. \A j \in 1 .. Len(acts) :
           acts[j].ok /\ Nested(tree, acts, j) /\ SaveGood(tree, q, v, nf, acts, j)
    BY <1>7, <1>9, <1>14, <1>16
  <2>. QED BY <1>10, <1>11, <1>17, <2>1 DEF Ground
<1>. QED BY <1>9, <1>12, <1>13, <1>18 DEF Worth

-----------------------------------------------------------------------------
(* What is stored along the operands, and the end of a node.               *)

LEMMA StoredStart ==
    ASSUME NEW p, NEW v, NEW i
    PROVE  /\ p[i].op \notin {"call", "var", "func"} => StartStored(p, v, i, 1) = v.before[i]
           /\ p[i].op = "var" => StartStored(p, v, i, 1) = v.before[i] \ {p[i].names[1]}
           /\ p[i].op = "func" =>
                 StartStored(p, v, i, 1) = {p[i].names[k] : k \in DOMAIN p[i].names}
           /\ p[i].op # "call" => \A k : k # 1 => StartStored(p, v, i, k) = EndStored(p, v, i, 1)
<1>1. /\ p[i].op \notin {"call", "var", "func"} => StartStored(p, v, i, 1) = v.before[i]
      /\ p[i].op = "var" => StartStored(p, v, i, 1) = v.before[i] \ {p[i].names[1]}
      /\ p[i].op = "func" => StartStored(p, v, i, 1) = {p[i].names[k] : k \in DOMAIN p[i].names}
  BY DEF StartStored, FirstStored
<1>2. ASSUME p[i].op # "call" PROVE EndStored(p, v, i, 1) = FirstLeft(p, v, i)
  BY <1>2 DEF EndStored, FirstLeft, StartStored
<1>3. p[i].op # "call" => \A k : k # 1 => StartStored(p, v, i, k) = EndStored(p, v, i, 1)
  BY <1>2 DEF StartStored
<1>. QED BY <1>1, <1>3

LEMMA StoredPath ==
    ASSUME NEW p, NEW q, NEW v, NEW i
    PROVE  /\ p[i].op \in TwoOperand \union {"compare", "endl"} => Left(p, q, v, i) = EndStored(p, v, i, 2)
           /\ p[i].op \in {"unary", "out", "tern"} => Left(p, q, v, i) = EndStored(p, v, i, 1)
           /\ p[i].op \in {"set", "var"} =>
                 Left(p, q, v, i) = EndStored(p, v, i, 1) \union {p[i].names[1]}
           /\ p[i].op = "call" =>
                 Left(p, q, v, i) = IF p[i].kids # <<>> THEN EndStored(p, v, i, 1) ELSE v.before[i]
           /\ p[i].op = "logic" =>
                 Left(p, q, v, i) = IF EndScope(p, q, i, 2) = EndScope(p, q, i, 1)
                                      THEN EndStored(p, v, i, 1) ELSE {}
           /\ p[i].op \in Leaves \union {"while", "func"} => Left(p, q, v, i) = v.before[i]
BY DEF Left, TwoOperand, Leaves

LEMMA AtStored ==
    ASSUME Inv, NEW s, NEW q, NEW v, Stored(tree, s, q, v), NEW ops, NEW p, At(ops, p)
    PROVE  /\ NodeStored(tree, s, q, v, act.id) /\ v.after[act.id] = Left(tree, q, v, act.id)
           /\ \A k \in Operands(tree, act.id) : Kid(k) # 0 =>
                 v.before[Kid(k)] = StartStored(tree, v, act.id, k)
<1>1. act.id \in 1 .. Len(tree) BY AtFacts
<1>2. DOMAIN tree = 1 .. Len(tree) BY TreeFacts DEF Inv, Types
<1>3. NodeStored(tree, s, q, v, act.id) BY <1>1, <1>2 DEF Stored
<1>. QED BY <1>3 DEF NodeStored, Kid, KidOf

LEMMA DoneWorth ==
    ASSUME Inv, NEW s, Book(s), status = "run", NEW q, Scoped(tree, s, q), NEW b, Stands(q, b),
           NEW v, Worth(q, v), act.id # 0,
           NEW f \in Seq(Nameframe), NEW c, Frames(f, c), Grown(nf, b, f, c, act.frames0), Apart(f),
           NEW mm, Tidy(f, mm), Suits(tree, q, v, nf, acts, Len(acts) - 1, mm),
           HasStored(f, mm, v.after[act.id]), mm.reg[act.used0] = Val(act.id),
           NEW u, Finish(u, f, mm)
    PROVE  Worth(q, v)'
<1>. DEFINE a == Resume("done")
<1>1. act.pushed = 0 BY StandsFacts
<1>2. Live(Replaced(a), u, f, mm) BY <1>1 DEF Finish, Replaced
<1>3. /\ a.id = act.id /\ a.pc = "done" /\ a.used0 = act.used0 /\ a.depth0 = act.depth0 /\ a.ok = act.ok
      /\ a.frames0 = act.frames0
  <2>1. act \in Activation BY InvFacts
  <2>. QED BY <2>1 DEF Resume, Activation
<1>4. act.ok BY WorthFacts
<1>. HIDE DEF a
<1>5. Needs(tree, q, v, f, a, mm) /\ ~ Saving(tree, a)
  BY <1>3 DEF Needs, HeldIn, InCall, FuncBody, Restores, Reopens, Saving, SavedBefore
<1>6. Ground(q, v, Replaced(a), f, mm) BY <1>3, <1>4, <1>5, TopGround
<1>7. Outcome(tree, a, mm) BY <1>3, DonePC DEF Outcome
<1>8. StoredNow(tree, v, Replaced(a)) = v.after[act.id]
  <2>1. StoredNow(tree, v, Replaced(a)) = StoredAt(tree, v, a) BY <1>3, StoredTop
  <2>. QED BY <1>3, <2>1, DonePC DEF StoredAt
<1>. QED BY <1>2, <1>6, <1>7, <1>8, StayWorth

-----------------------------------------------------------------------------
(* What the code of an operator does to the registers.                     *)

LEMMA MovEffect ==
    ASSUME NEW x \in Machine, NEW r \in Regs, NEW w
    PROVE  /\ Mov(x, r, w).reg[r] = w
           /\ \A i \in Regs : i # r => Mov(x, r, w).reg[i] = x.reg[i]
BY DEF Mov, Machine

LEMMA MovRREffect ==
    ASSUME NEW x \in Machine, NEW r \in Regs, NEW j
    PROVE  /\ MovRR(x, r, j).reg[r] = x.reg[j]
           /\ \A i \in Regs : i # r => MovRR(x, r, j).reg[i] = x.reg[i]
BY MovEffect DEF MovRR

LEMMA PopEffect ==
    ASSUME NEW x \in Machine, NEW r \in Regs
    PROVE  /\ Pop(x, r).reg[r] = Top(x)
           /\ \A i \in Regs : i # r => Pop(x, r).reg[i] = x.reg[i]
<1>1. Mov(x, r, Top(x)) \in Machine BY TopType, MovType
<1>2. Drop(Mov(x, r, Top(x)), 1).reg = Mov(x, r, Top(x)).reg BY <1>1 DEF Drop, Machine
<1>. QED BY <1>2, MovEffect DEF Pop

\* A register that was pushed is back when it is popped.
LEMMA Restored ==
    ASSUME NEW x \in Machine, NEW y \in Machine, NEW r \in Regs, SameStack(Push(x, r), y)
    PROVE  /\ Pop(y, r).reg[r] = x.reg[r]
           /\ \A i \in Regs : i # r => Pop(y, r).reg[i] = y.reg[i]
<1>1. Push(x, r).stk = Append(x.stk, x.reg[r]) /\ x.stk \in Seq(Token) /\ x.reg[r] \in Token
  BY DEF Push, Machine
<1>. DEFINE w == x.reg[r]
<1>2. y.stk = Append(x.stk, w) /\ w \in Token BY <1>1 DEF SameStack
<1>. HIDE DEF w
<1>3. Len(Append(x.stk, w)) = Len(x.stk) + 1 /\ Append(x.stk, w)[Len(x.stk) + 1] = w
      /\ Append(x.stk, w) # <<>>
  BY <1>1, <1>2, AppendParts
<1>4. Top(y) = w BY <1>2, <1>3 DEF Top
<1>. QED BY <1>4, PopEffect DEF w

LEMMA PushEffect ==
    ASSUME NEW x \in Machine, NEW r
    PROVE  Push(x, r).reg = x.reg
BY DEF Push, Machine

LEMMA ClobberEffect ==
    ASSUME NEW x \in Machine, NEW S
    PROVE  \A i \in Regs \ S : Clobber(x, S).reg[i] = x.reg[i]
BY DEF Clobber, Machine

LEMMA TakenRegs ==
    ASSUME Inv, status = "run"
    PROVE  /\ r1 \in 0 .. 10 /\ r2 = r1 + 1 /\ r3 = r1 + 2
           /\ r1 \in Regs /\ r2 \in Regs /\ r3 \in Regs /\ Regs = 0 .. 13
           /\ RAX = 0 /\ RDI = 1 /\ RSI = 2 /\ RDX = 3 /\ RCX = 4
           /\ RAX \in Regs /\ RDI \in Regs /\ RDX \in Regs /\ RCX \in Regs
           /\ act.id \in Nat /\ m \in Machine
BY RegFacts, InvFacts, NamedRegs DEF r1, r2, r3, Regs, regStackSz, RAX, RDI, RSI, RDX, RCX, Types

LEMMA TakenIn ==
    ASSUME Inv, status = "run"
    PROVE  /\ r1 \in Regs /\ r2 \in Regs /\ r3 \in Regs
           /\ RAX \in Regs /\ RDI \in Regs /\ RDX \in Regs /\ RCX \in Regs
           /\ act.id \in Nat /\ m \in Machine
BY TakenRegs

\* The result is in r1 and the registers below it are as they were.
Yields(mm) == mm.reg[r1] = Val(act.id) /\ \A r \in Regs : r < r1 => mm.reg[r] = m.reg[r]

LEMMA ResultYields ==
    ASSUME Inv, status = "run", NEW mm \in Machine,
           \A r \in Regs : r < r1 => mm.reg[r] = m.reg[r]
    PROVE  Yields(Result(mm, r1, act.id, TRUE))
<1>1. \A r \in Regs : r < r1 => r # r1 BY TakenRegs
<1>2. Result(mm, r1, act.id, TRUE) = Mov(mm, r1, Val(act.id)) BY DEF Result
<1>. DEFINE x == Mov(mm, r1, Val(act.id))
<1>3. x.reg[r1] = Val(act.id) /\ \A i \in Regs : i # r1 => x.reg[i] = mm.reg[i]
  BY TakenIn, MovEffect
<1>4. Result(mm, r1, act.id, TRUE) = x BY <1>2
<1>. HIDE DEF x
<1>. QED BY <1>1, <1>3, <1>4 DEF Yields

LEMMA ShiftYields ==
    ASSUME Inv, status = "run", m.reg[r1] = Val(Kid(1)), m.reg[r2] = Val(Kid(2))
    PROVE  Yields(ShiftCode)
<1>1. /\ act.id \in Nat /\ m \in Machine /\ RCX \in Regs /\ RCX = 4 /\ Regs = 0 .. 13
      /\ r1 \in Regs /\ r2 \in Regs /\ r3 \in Regs
      /\ r1 \in 0 .. 10 /\ r2 = r1 + 1 /\ r3 = r1 + 2
  BY TakenRegs
<1>0. /\ act.id \in Nat /\ m \in Machine /\ RCX \in Regs
      /\ r1 \in Regs /\ r2 \in Regs /\ r3 \in Regs
  BY TakenIn
<1>2. \A r \in Regs : r < r1 => r # r1 /\ r # r2 /\ r # r3 BY <1>1
<1>3. CASE r1 = RCX
  <2>. DEFINE x == MovRR(m, r3, r1)  a == MovRR(x, r1, r2)
              b == Result(a, r3, act.id, BothIn(a, r3, RCX))
              c == MovRR(b, r1, r3)
  <2>1. x \in Machine /\ x.reg[r3] = m.reg[r1] /\ \A i \in Regs : i # r3 => x.reg[i] = m.reg[i]
    BY <1>0, MovRRType, MovRREffect
  <2>. HIDE DEF x
  <2>2. a \in Machine /\ a.reg[r1] = x.reg[r2] /\ \A i \in Regs : i # r1 => a.reg[i] = x.reg[i]
    BY <1>0, <2>1, MovRRType, MovRREffect
  <2>. HIDE DEF a
  <2>3. r3 # r1 /\ r2 # r3 /\ r2 # r1 BY <1>1
  <2>4. BothIn(a, r3, RCX) BY <1>1, <1>3, <2>1, <2>2, <2>3 DEF BothIn, Holds
  <2>5. b \in Machine /\ b.reg[r3] = Val(act.id) /\ \A i \in Regs : i # r3 => b.reg[i] = a.reg[i]
    <3>1. b = Mov(a, r3, Val(act.id)) BY <2>4 DEF Result
    <3>2. b \in Machine BY <1>0, <2>2, ResultType
    <3>. HIDE DEF b
    <3>. QED BY <1>0, <2>2, <3>1, <3>2, MovEffect
  <2>. HIDE DEF b
  <2>6. c.reg[r1] = b.reg[r3] /\ \A i \in Regs : i # r1 => c.reg[i] = b.reg[i]
    BY <1>0, <2>5, MovRREffect
  <2>7. ShiftCode = c BY <1>3 DEF ShiftCode, x, a, b
  <2>. HIDE DEF c
  <2>. QED BY <1>1, <1>2, <2>1, <2>2, <2>5, <2>6, <2>7 DEF Yields
<1>4. CASE r1 # RCX
  <2>. DEFINE x == Push(m, RCX)  a == MovRR(x, RCX, r2)
              b == Result(a, r1, act.id, BothIn(a, r1, RCX))
              c == Pop(b, RCX)
  <2>1. x \in Machine /\ x.reg = m.reg BY <1>0, PushType, PushEffect
  <2>2. a \in Machine /\ SameStack(x, a) /\ a.reg[RCX] = x.reg[r2]
        /\ \A i \in Regs : i # RCX => a.reg[i] = x.reg[i]
    <3>. HIDE DEF x
    <3>. QED BY <1>0, <2>1, MovRRType, MovRREffect, RegistersOnly
  <2>. HIDE DEF a
  <2>3. BothIn(a, r1, RCX) BY <1>1, <1>4, <2>1, <2>2 DEF BothIn, Holds
  <2>4. b \in Machine /\ SameStack(a, b) /\ b.reg[r1] = Val(act.id)
        /\ \A i \in Regs : i # r1 => b.reg[i] = a.reg[i]
    <3>1. b = Mov(a, r1, Val(act.id)) BY <2>3 DEF Result
    <3>2. b \in Machine /\ SameStack(a, b) BY <1>0, <2>2, ResultType, RegistersOnly
    <3>. HIDE DEF b
    <3>. QED BY <1>0, <2>2, <3>1, <3>2, MovEffect
  <2>. HIDE DEF b
  <2>5. SameStack(x, b) BY <2>2, <2>4, SameTwice
  <2>6. c.reg[RCX] = m.reg[RCX] /\ \A i \in Regs : i # RCX => c.reg[i] = b.reg[i]
    BY <1>0, <2>4, <2>5, Restored
  <2>7. ShiftCode = c BY <1>4 DEF ShiftCode, a, b
  <2>. HIDE DEF c, x
  <2>. QED BY <1>1, <1>2, <1>4, <2>1, <2>2, <2>4, <2>6, <2>7 DEF Yields
<1>. QED BY <1>3, <1>4

LEMMA DivModYields ==
    ASSUME Inv, status = "run", m.reg[r1] = Val(Kid(1)), m.reg[r2] = Val(Kid(2)),
           NEW wanted \in {RAX, RDX}, r1 = RAX => wanted = RAX
    PROVE  Yields(DivModCode(wanted))
<1>1. /\ act.id \in Nat /\ m \in Machine /\ RAX \in Regs /\ RDX \in Regs /\ RAX = 0 /\ RDX = 3
      /\ r1 \in Regs /\ r2 \in Regs /\ r3 \in Regs /\ Regs = 0 .. 13
      /\ r1 \in 0 .. 10 /\ r2 = r1 + 1 /\ r3 = r1 + 2 /\ wanted \in Regs
  BY TakenRegs
<1>0. /\ act.id \in Nat /\ m \in Machine /\ RAX \in Regs /\ RDX \in Regs
      /\ r1 \in Regs /\ r2 \in Regs /\ r3 \in Regs /\ wanted \in Regs
  BY TakenIn
<1>. DEFINE a == IF r2 = RDX THEN MovRR(m, r3, r2) ELSE m
            b == IF r1 # RDX THEN Push(a, RDX) ELSE a
            c0 == IF r1 # RAX THEN Push(b, RAX) ELSE b
            c == IF r1 # RAX THEN MovRR(Push(b, RAX), RAX, r1) ELSE b
            divisor == IF r2 # RDX THEN r2 ELSE r3
            other == IF wanted = RAX THEN RDX ELSE RAX
            good == BothIn(c, RAX, divisor)
            d0 == Result(c, wanted, act.id, good)
            d == Mov(d0, other, Junk)
            e0 == IF r1 # RAX THEN MovRR(d, r1, wanted) ELSE d
            e == IF r1 # RAX THEN Pop(MovRR(d, r1, wanted), RAX) ELSE d
            g == IF r1 # RDX THEN Pop(e, RDX) ELSE e
<1>2. /\ a \in Machine /\ \A i \in Regs : i # r3 => a.reg[i] = m.reg[i]
      /\ a.reg[divisor] = m.reg[r2]
  <2>1. CASE r2 = RDX BY <1>0, <2>1, MovRRType, MovRREffect
  <2>2. CASE r2 # RDX
    <3>1. r2 # r3 BY <1>1
    <3>. QED BY <1>1, <2>2, <3>1
  <2>. QED BY <2>1, <2>2
<1>3. b \in Machine /\ b.reg = a.reg
  <2>. HIDE DEF a
  <2>. QED BY <1>1, <1>2, PushType, PushEffect
<1>4. /\ c \in Machine /\ c0 \in Machine /\ SameStack(c0, c)
      /\ c.reg[RAX] = b.reg[r1] /\ \A i \in Regs : i # RAX => c.reg[i] = b.reg[i]
  <2>. HIDE DEF b
  <2>1. CASE r1 # RAX
    <3>. DEFINE x == Push(b, RAX)
    <3>1. x \in Machine /\ x.reg = b.reg BY <1>1, <1>3, PushType, PushEffect
    <3>2. c0 = x /\ c = MovRR(x, RAX, r1) BY <2>1
    <3>. HIDE DEF x
    <3>. QED BY <1>0, <3>1, <3>2, MovRRType, RegistersOnly, MovRREffect
  <2>2. CASE r1 = RAX BY <1>3, <2>2 DEF SameStack
  <2>. QED BY <2>1, <2>2
<1>. HIDE DEF b, c, a
<1>5. divisor \in Regs /\ divisor # RAX /\ r1 # r3 BY <1>1
<1>6. good BY <1>1, <1>2, <1>3, <1>4, <1>5 DEF BothIn, Holds
<1>7. /\ d \in Machine /\ SameStack(c, d) /\ d.reg[wanted] = Val(act.id)
      /\ \A i \in Regs : i # RAX /\ i # RDX => d.reg[i] = c.reg[i]
  <2>1. /\ d0 \in Machine /\ SameStack(c, d0) /\ d0.reg[wanted] = Val(act.id)
        /\ \A i \in Regs : i # wanted => d0.reg[i] = c.reg[i]
    <3>1. d0 = Mov(c, wanted, Val(act.id)) BY <1>6 DEF Result
    <3>. HIDE DEF good
    <3>2. d0 \in Machine /\ SameStack(c, d0) BY <1>0, <1>4, ResultType, RegistersOnly
    <3>. HIDE DEF d0
    <3>. QED BY <1>0, <1>4, <3>1, <3>2, MovEffect
  <2>. HIDE DEF d0
  <2>2. other \in Regs /\ other # wanted /\ other \in {RAX, RDX} BY <1>1
  <2>. HIDE DEF other
  <2>3. /\ d \in Machine /\ SameStack(d0, d) /\ \A i \in Regs : i # other => d.reg[i] = d0.reg[i]
    BY <2>1, <2>2, MovType, Tokens, RegistersOnly, MovEffect
  <2>4. SameStack(c, d) BY <2>1, <2>3, SameTwice
  <2>. HIDE DEF d
  <2>. QED BY <1>1, <2>1, <2>2, <2>3, <2>4
<1>. HIDE DEF d, divisor, other, good, d0
<1>8. /\ e0 \in Machine /\ SameStack(d, e0) /\ e0.reg[r1] = Val(act.id)
      /\ \A i \in Regs : i # r1 => e0.reg[i] = d.reg[i]
  <2>1. CASE r1 # RAX BY <1>0, <1>7, <2>1, MovRRType, RegistersOnly, MovRREffect
  <2>2. CASE r1 = RAX BY <1>7, <2>2 DEF SameStack
  <2>. QED BY <2>1, <2>2
<1>9. /\ e \in Machine /\ SameStack(b, e)
      /\ r1 # RAX => e.reg[RAX] = b.reg[RAX]
      /\ r1 = RAX => e.reg[RAX] = e0.reg[RAX]
      /\ \A i \in Regs : i # RAX => e.reg[i] = e0.reg[i]
  <2>1. SameStack(c0, e0)
    <3>. HIDE DEF c0, e0
    <3>. QED BY <1>4, <1>7, <1>8, SameTwice
  <2>2. e = IF r1 # RAX THEN Pop(e0, RAX) ELSE e0 OBVIOUS
  <2>3. r1 # RAX => c0 = Push(b, RAX) OBVIOUS
  <2>. HIDE DEF e0, e
  <2>4. e \in Machine BY <1>8, <2>2, PopType
  <2>5. (r1 # RAX) \in BOOLEAN OBVIOUS
  <2>6. SameStack(b, e)
    <3>1. c0 = IF r1 # RAX THEN Push(b, RAX) ELSE b OBVIOUS
    <3>2. SameStack(IF r1 # RAX THEN Push(b, RAX) ELSE b, e0) BY Zenon, <2>1, <3>1
    <3>. QED BY <1>1, <1>3, <1>8, <2>2, <2>5, <3>2, Around
  <2>7. CASE r1 # RAX
    <3>1. SameStack(Push(b, RAX), e0) /\ e = Pop(e0, RAX) BY <2>1, <2>2, <2>3, <2>7
    <3>. QED BY <1>1, <1>3, <1>8, <2>4, <2>6, <2>7, <3>1, Restored
  <2>8. CASE r1 = RAX BY <2>2, <2>4, <2>6, <2>8
  <2>. QED BY <2>7, <2>8
<1>. HIDE DEF e, e0
<1>10. /\ r1 # RDX => g.reg[RDX] = a.reg[RDX]
       /\ r1 = RDX => g.reg[RDX] = e.reg[RDX]
       /\ \A i \in Regs : i # RDX => g.reg[i] = e.reg[i]
  <2>1. CASE r1 # RDX
    <3>1. g = Pop(e, RDX) BY <2>1
    <3>2. SameStack(Push(a, RDX), e) BY <1>9, <2>1 DEF b
    <3>. HIDE DEF g
    <3>. QED BY <1>1, <1>2, <1>9, <2>1, <3>1, <3>2, Restored
  <2>2. CASE r1 = RDX BY <2>2
  <2>. HIDE DEF g
  <2>. QED BY <2>1, <2>2
<1>11. DivModCode(wanted) = g BY DEF DivModCode, a, b, c, divisor, other, good, d0, d, e, g
<1>. HIDE DEF g
<1>12. g.reg[r1] = Val(act.id) BY <1>1, <1>8, <1>9, <1>10
<1>13. ASSUME NEW i \in Regs, i < r1 PROVE g.reg[i] = m.reg[i]
  <2>1. i # r1 /\ i # r3 /\ RAX # r3 BY <1>1, <1>13
  <2>2. CASE i = RAX
    <3>1. r1 # RAX /\ RAX # RDX BY <1>1, <1>13, <2>2
    <3>. QED BY <1>1, <1>2, <1>3, <1>9, <1>10, <2>1, <2>2, <3>1
  <2>3. CASE i = RDX BY <1>1, <1>2, <1>10, <2>1, <2>3
  <2>4. CASE i # RAX /\ i # RDX BY <1>2, <1>3, <1>4, <1>7, <1>8, <1>9, <1>10, <2>1, <2>4
  <2>. QED BY <2>2, <2>3, <2>4
<1>. QED BY <1>11, <1>12, <1>13 DEF Yields

LEMMA InYields ==
    ASSUME Inv, status = "run", r1 <= 1
    PROVE  Yields(InCode)
<1>0. /\ act.id \in Nat /\ m \in Machine /\ RAX \in Regs /\ r1 \in Regs
  BY TakenIn
<1>1. /\ r1 \in 0 .. 10 /\ RAX = 0 /\ Regs = 0 .. 13 BY TakenRegs
<1>. DEFINE a == IF r1 # RAX THEN Push(m, RAX) ELSE m
            b == Clobber(a, InScratch)
            c == Result(b, RAX, act.id, TRUE)
            d == MovRR(c, r1, RAX)
            e == IF r1 # RAX THEN Pop(d, RAX) ELSE d
<1>2. a \in Machine BY <1>0, PushType
<1>3. d \in Machine /\ SameStack(a, d) /\ d.reg[r1] = Val(act.id)
  <2>. HIDE DEF a
  <2>1. b \in Machine /\ SameStack(a, b) BY <1>2, ClobberType, RegistersOnly
  <2>2. c = Mov(b, RAX, Val(act.id)) BY DEF Result
  <2>. HIDE DEF b
  <2>3. c \in Machine /\ SameStack(b, c) BY <1>0, <2>1, ResultType, RegistersOnly
  <2>. HIDE DEF c
  <2>4. c.reg[RAX] = Val(act.id) BY <1>0, <2>1, <2>2, MovEffect
  <2>5. d \in Machine /\ SameStack(c, d) BY <1>0, <2>3, MovRRType, RegistersOnly
  <2>6. d.reg[r1] = c.reg[RAX] BY <1>0, <2>3, MovRREffect
  <2>. HIDE DEF d
  <2>. QED BY <2>1, <2>3, <2>4, <2>5, <2>6, SameTwice
<1>4. InCode = e BY DEF InCode
<1>. HIDE DEF d
<1>5. CASE r1 = RAX
  <2>1. e = d BY <1>5
  <2>. HIDE DEF e
  <2>2. \A r \in Regs : ~ (r < r1) BY <1>1, <1>5
  <2>. QED BY <1>3, <1>4, <2>1, <2>2 DEF Yields
<1>6. CASE r1 # RAX
  <2>1. e = Pop(d, RAX) /\ a = Push(m, RAX) BY <1>6
  <2>. HIDE DEF e, a
  <2>2. e.reg[RAX] = m.reg[RAX] /\ \A i \in Regs : i # RAX => e.reg[i] = d.reg[i]
    BY <1>0, <1>3, <2>1, Restored
  <2>3. e.reg[r1] = Val(act.id) BY <1>0, <1>3, <1>6, <2>2
  <2>4. \A r \in Regs : r < r1 => r = RAX BY <1>1
  <2>. QED BY <1>4, <2>2, <2>3, <2>4 DEF Yields
<1>. QED BY <1>5, <1>6

LEMMA OutYields ==
    ASSUME Inv, status = "run", r1 <= 2, m.reg[r1] = Val(Kid(1))
    PROVE  Yields(OutCode)
<1>0. /\ act.id \in Nat /\ m \in Machine /\ RAX \in Regs /\ RDI \in Regs /\ r1 \in Regs
  BY TakenIn
<1>1. /\ r1 \in 0 .. 10 /\ RAX = 0 /\ RDI = 1 /\ Regs = 0 .. 13 BY TakenRegs
<1>2. RAX # RDI BY <1>1
<1>. DEFINE a == IF r1 # RDI THEN Push(m, RDI) ELSE m
            b == IF r1 # RAX THEN Push(a, RAX) ELSE a
            c == MovRR(b, RDI, r1)
            ok == Holds(c, RDI, Kid(1))
            c1 == Clobber(c, OutScratch)
            d == Result(c1, RAX, act.id, ok)
            e == MovRR(d, r1, RAX)
            g == IF r1 # RAX THEN Pop(e, RAX) ELSE e
            h == IF r1 # RDI THEN Pop(g, RDI) ELSE g
<1>3. a \in Machine /\ a.reg = m.reg BY <1>0, PushType, PushEffect
<1>4. b \in Machine /\ b.reg = a.reg
  <2>. HIDE DEF a
  <2>. QED BY <1>0, <1>3, PushType, PushEffect
<1>5. e \in Machine /\ SameStack(b, e) /\ e.reg[r1] = Val(act.id)
  <2>. HIDE DEF b
  <2>1. c \in Machine /\ SameStack(b, c) BY <1>0, <1>4, MovRRType, RegistersOnly
  <2>2. c.reg[RDI] = b.reg[r1] BY <1>0, <1>4, MovRREffect
  <2>3. ok BY <1>3, <1>4, <2>2 DEF Holds
  <2>. HIDE DEF c
  <2>4. c1 \in Machine /\ SameStack(c, c1) BY <2>1, ClobberType, RegistersOnly
  <2>5. d = Mov(c1, RAX, Val(act.id)) BY <2>3 DEF Result
  <2>. HIDE DEF c1, ok
  <2>6. d \in Machine /\ SameStack(c1, d) BY <1>0, <2>4, ResultType, RegistersOnly
  <2>. HIDE DEF d
  <2>7. d.reg[RAX] = Val(act.id) BY <1>0, <2>4, <2>5, MovEffect
  <2>8. e \in Machine /\ SameStack(d, e) BY <1>0, <2>6, MovRRType, RegistersOnly
  <2>9. e.reg[r1] = d.reg[RAX] BY <1>0, <2>6, MovRREffect
  <2>. HIDE DEF e
  <2>. QED BY <2>1, <2>4, <2>6, <2>7, <2>8, <2>9, SameTwice
<1>6. OutCode = h BY DEF OutCode
<1>. HIDE DEF e
<1>7. /\ g \in Machine /\ SameStack(a, g) /\ g.reg[r1] = Val(act.id)
      /\ r1 # RAX => g.reg[RAX] = m.reg[RAX]
  <2>. HIDE DEF a
  <2>1. g \in Machine BY <1>5, PopType
  <2>2. (r1 # RAX) \in BOOLEAN OBVIOUS
  <2>3. SameStack(a, g) BY <1>0, <1>3, <1>5, <2>2, Around
  <2>4. CASE r1 = RAX
    <3>1. g = e BY <2>4
    <3>. QED BY <1>5, <2>1, <2>3, <2>4, <3>1
  <2>5. CASE r1 # RAX
    <3>1. g = Pop(e, RAX) /\ b = Push(a, RAX) BY <2>5
    <3>. HIDE DEF g, b
    <3>2. g.reg[RAX] = a.reg[RAX] /\ \A i \in Regs : i # RAX => g.reg[i] = e.reg[i]
      BY <1>0, <1>3, <1>5, <3>1, Restored
    <3>3. g.reg[r1] = Val(act.id) BY <1>0, <1>5, <2>5, <3>2
    <3>4. g.reg[RAX] = m.reg[RAX] BY <1>3, <3>2
    <3>. QED BY <2>1, <2>3, <3>3, <3>4
  <2>. QED BY <2>4, <2>5
<1>. HIDE DEF g
<1>8. CASE r1 = RDI
  <2>1. h = g BY <1>8
  <2>. HIDE DEF h
  <2>2. \A r \in Regs : r < r1 => r = RAX BY <1>1, <1>8
  <2>3. r1 # RAX BY <1>2, <1>8
  <2>. QED BY <1>6, <1>7, <2>1, <2>2, <2>3 DEF Yields
<1>9. CASE r1 # RDI
  <2>1. h = Pop(g, RDI) /\ a = Push(m, RDI) BY <1>9
  <2>. HIDE DEF h, a
  <2>2. h.reg[RDI] = m.reg[RDI] /\ \A i \in Regs : i # RDI => h.reg[i] = g.reg[i]
    BY <1>0, <1>7, <2>1, Restored
  <2>3. h.reg[r1] = Val(act.id) BY <1>0, <1>7, <1>9, <2>2
  <2>4. \A r \in Regs : r < r1 => (r = RAX \/ r = RDI) /\ r1 # RAX BY <1>1
  <2>5. r1 # RAX => h.reg[RAX] = m.reg[RAX] BY <1>0, <1>2, <1>7, <2>2
  <2>. QED BY <1>6, <2>2, <2>3, <2>4, <2>5 DEF Yields
<1>. QED BY <1>8, <1>9

LEMMA CallYields ==
    ASSUME Inv, At({"call"}, "args"), Len(Args) <= 6, Len(Args) <= Len(m.stk), r1 = 0,
           \A i \in 1 .. Len(Args) : Under(m, i - 1) = Val(Args[i])
    PROVE  Yields(CallCode)
<1>1. node \in Node /\ m \in Machine /\ status = "run" BY AtFacts
<1>2. /\ Len(Args) \in Nat /\ act.id \in Nat /\ RAX \in Regs /\ r1 \in Regs
      /\ r1 \in 0 .. 10
  BY <1>1, NodeFields, InvFacts, RegFacts, NamedRegs DEF Args
<1>3. InRegs = Len(Args) BY <1>2 DEF InRegs, MinOf
<1>. DEFINE L == Len(Args)
            a == PopUp(m, 1, InRegs)
            ok == ArgsInPlace(a)
            b0 == Clobber(a, Regs)
            b1 == Result(b0, RAX, act.id, ok)
            b == MovRR(b1, r1, RAX)
            d == PopRange(b, 1, r1)
<1>4. a \in Machine
  <2>1. a = PopUp(m, 1, L) BY <1>3
  <2>. QED BY <1>1, <1>2, <2>1, PopRanges
<1>5. ok
  <2>. DEFINE up == [r \in Regs |-> IF r \in 1 .. L THEN Under(m, r - 1) ELSE m.reg[r]]
  <2>1. a = Drop([m EXCEPT !.reg = up], L - 1 + 1) BY <1>3 DEF PopUp
  <2>2. a.reg = up
    <3>. HIDE DEF up
    <3>. QED BY <1>1, <2>1 DEF Drop, Machine
  <2>3. Regs = 0 .. 13 BY <1>1, TakenRegs
  <2>4. ASSUME NEW i \in 1 .. L PROVE Val(Args[i]) = IF i <= 6 THEN a.reg[i] ELSE Under(a, i - 7)
    <3>1. i <= 6 /\ i \in Regs BY <1>2, <2>3
    <3>2. a.reg[i] = Under(m, i - 1) BY <2>2, <3>1
    <3>. QED BY <3>1, <3>2
  <2>. QED BY <2>4 DEF ArgsInPlace
<1>6. b \in Machine /\ b.reg[r1] = Val(act.id)
  <2>. HIDE DEF a
  <2>1. b0 \in Machine BY <1>4, ClobberType
  <2>2. b1 = Mov(b0, RAX, Val(act.id)) BY <1>5 DEF Result
  <2>. HIDE DEF b0, ok
  <2>3. b1 \in Machine BY <1>2, <2>1, ResultType
  <2>. HIDE DEF b1
  <2>4. b1.reg[RAX] = Val(act.id) BY <1>2, <2>1, <2>2, MovEffect
  <2>5. b \in Machine BY <1>2, <2>3, MovRRType
  <2>6. b.reg[r1] = b1.reg[RAX] BY <1>2, <2>3, MovRREffect
  <2>. QED BY <2>4, <2>5, <2>6
<1>7. d.reg[r1] = Val(act.id)
  <2>. HIDE DEF b
  <2>. DEFINE down == [r \in Regs |-> IF r \in 1 .. r1 THEN Under(b, r1 - r) ELSE b.reg[r]]
  <2>1. d = Drop([b EXCEPT !.reg = down], r1 - 1 + 1) BY DEF PopRange
  <2>2. r1 \notin 1 .. r1 OBVIOUS
  <2>3. down[r1] = b.reg[r1] BY <1>2, <2>2
  <2>. HIDE DEF down
  <2>4. d.reg = down BY <1>6, <2>1 DEF Drop, Machine
  <2>. QED BY <1>6, <2>3, <2>4
<1>8. CallCode = d
  <2>1. ~ (Len(Args) > 6) BY <1>2
  <2>. QED BY <2>1 DEF CallCode, d, b, b1, b0, a
<1>9. \A r \in Regs : ~ (r < r1)
  <2>1. Regs = 0 .. 13 BY <1>1, TakenRegs
  <2>. QED BY <2>1
<1>. QED BY <1>7, <1>8, <1>9 DEF Yields

-----------------------------------------------------------------------------
(* Operators that end in the frame they were found in.                     *)

LEMMA SameKeeps ==
    ASSUME NEW x, NEW y, SameStack(x, y), NEW f
    PROVE  /\ Tidy(f, x) => Tidy(f, y)
           /\ \A S : HasStored(f, x, S) => HasStored(f, y, S)
           /\ \A h : KeepsWords(x, y, h)
BY DEF SameStack, Tidy, HasStored, KeepsWords

\* Where the code of a node neither opens nor closes a frame.
PlainAt(op, p) == op # "call" /\ p # "enter" /\ <<op, p>> \notin FrameOpen /\ At({op}, p)

\* All that is known of a state, so that a step names it at once.
Books(s, q, b) == Inv /\ Shaped(tree, s) /\ Book(s) /\ Scoped(tree, s, q) /\ Stands(q, b)
AllBooks(s, q, b, v) == Books(s, q, b) /\ Stored(tree, s, q, v) /\ Worth(q, v)

LEMMA PlainPointAt ==
    ASSUME NEW s, NEW q, NEW b, Books(s, q, b), NEW op, NEW p, PlainAt(op, p)
    PROVE  /\ status = "run" /\ act.pc = p /\ act.id # 0 /\ act.id \in 1 .. Len(tree)
           /\ node = tree[act.id] /\ node.op = op /\ r1 = act.used0
           /\ used = InUse(tree, s, act) /\ act.used0 = s.dep[act.id] /\ act.used0 \in 0 .. 10
           /\ NodeScoped(tree, s, q, act.id) /\ q.after[act.id] = Behind(tree, q, act.id)
           /\ Frames(nf, b) /\ Fits(nf, b, m, act.depth0) /\ Counts(nf, b, act.depth0)
           /\ Alike(nf, b, nf, b, act.frames0) /\ m \in Machine /\ nf \in Seq(Nameframe)
           /\ Len(nf) = act.frames0 /\ act.frames0 \in Nat /\ act.frames0 # 0 /\ act.depth0 \in Nat
           /\ act.depth0 >= b[act.frames0] + nf[act.frames0].nSub
           /\ act.pushed = 0 /\ SavedFits(tree, nf, b, act)
           /\ Matches(nf, ScopeAt(tree, q, act))
BY PlainPoint DEF Books, PlainAt

LEMMA HasFewer ==
    ASSUME NEW f, NEW x, NEW S, HasStored(f, x, S), NEW T, T \subseteq S
    PROVE  HasStored(f, x, T)
BY DEF HasStored

LEMMA PlainDone ==
    ASSUME Inv, NEW s, Shaped(tree, s), Book(s), NEW q, Scoped(tree, s, q), NEW b, Stands(q, b),
           NEW v, Worth(q, v),
           NEW op, op # "call", NEW p, p # "enter", <<op, p>> \notin FrameOpen, At({op}, p),
           NEW mm, Keeps(m, mm, act.used0, act.depth0), Tidy(nf, mm),
           HasStored(nf, mm, v.after[act.id]), mm.reg[act.used0] = Val(act.id),
           NEW u, Finish(u, nf, mm)
    PROVE  Worth(q, v)'
<1>1. /\ status = "run" /\ act.pc = p /\ act.id # 0 /\ node = tree[act.id] /\ node.op = op
  <2>1. Books(s, q, b) /\ PlainAt(op, p) BY DEF Books, PlainAt
  <2>. QED BY <2>1, PlainPointAt
<1>0. /\ Frames(nf, b) /\ nf \in Seq(Nameframe)
      /\ Len(nf) = act.frames0 /\ act.frames0 \in Nat /\ act.frames0 # 0
  <2>1. Books(s, q, b) /\ PlainAt(op, p) BY DEF Books, PlainAt
  <2>. QED BY <2>1, PlainPointAt
<1>2. ~ FuncBody(tree, act) BY <1>1 DEF FuncBody, FrameOpen
<1>3. Nested(tree, acts, Len(acts)) /\ Suits(tree, q, v, nf, acts, Len(acts) - 1, m) /\ Apart(nf)
  BY <1>1, <1>2, WorthFacts
<1>4. Suits(tree, q, v, nf, acts, Len(acts) - 1, mm) BY <1>1, <1>3, LowerKept
<1>5. act.frames0 \in 1 .. Len(nf) BY <1>0
<1>6. Grown(nf, b, nf, b, act.frames0) BY <1>0, <1>5, GrownSelf
<1>. QED BY <1>0, <1>1, <1>3, <1>4, <1>6, DoneWorth

\* Nothing but registers has changed.
LEMMA RegDone ==
    ASSUME Inv, NEW s, Shaped(tree, s), Book(s), NEW q, Scoped(tree, s, q), NEW b, Stands(q, b),
           NEW v, Worth(q, v),
           NEW op, op # "call", NEW p, p # "enter", <<op, p>> \notin FrameOpen, At({op}, p),
           NEW mm, SameStack(m, mm), Yields(mm), HasStored(nf, m, v.after[act.id]),
           NEW u, Finish(u, nf, mm)
    PROVE  Worth(q, v)'
<1>1. status = "run" /\ r1 = act.used0
  <2>1. Books(s, q, b) /\ PlainAt(op, p) BY DEF Books, PlainAt
  <2>. QED BY <2>1, PlainPointAt
<1>2. Tidy(nf, m) BY <1>1, WorthFacts
<1>3. /\ Tidy(nf, mm) /\ HasStored(nf, mm, v.after[act.id]) /\ KeepsWords(m, mm, act.depth0)
  BY <1>2, SameKeeps
<1>4. mm.reg[act.used0] = Val(act.id) /\ Keeps(m, mm, act.used0, act.depth0)
  BY <1>1, <1>3 DEF Yields, Keeps
<1>. QED BY <1>3, <1>4, PlainDone

\* A variable is stored to.
LEMMA StoreOver ==
    ASSUME Inv, NEW s, Shaped(tree, s), Book(s), NEW q, Scoped(tree, s, q), NEW b, Stands(q, b),
           NEW v, Worth(q, v),
           NEW op, op # "call", NEW p, p # "enter", <<op, p>> \notin FrameOpen, At({op}, p),
           NEW y \in Machine, SameStack(m, y), NEW x, Declared(nf, x)
    PROVE  LET mn == StoreVar(y, nf, x)
           IN  /\ mn \in Machine /\ mn.reg = y.reg /\ Tidy(nf, mn) /\ KeepsWords(m, mn, act.depth0)
               /\ \A S : HasStored(nf, m, S) => HasStored(nf, mn, S \union {x})
<1>1. /\ status = "run" /\ Frames(nf, b) /\ Fits(nf, b, m, act.depth0)
      /\ Counts(nf, b, act.depth0) /\ m \in Machine /\ nf \in Seq(Nameframe)
  <2>1. Books(s, q, b) /\ PlainAt(op, p) BY DEF Books, PlainAt
  <2>. QED BY <2>1, PlainPointAt
<1>. DEFINE mn == StoreVar(y, nf, x)
<1>2. b[Len(nf)] + nf[Len(nf)].nSub <= act.depth0 /\ Len(y.stk) = act.depth0 /\ y.bp = b[Len(nf)]
      /\ m.bp = b[Len(nf)]
  <2>1. act.depth0 >= b[Len(nf)] + nf[Len(nf)].nSub BY <1>1, CountsAbove
  <2>2. nf[Len(nf)].nSub \in Nat /\ b[Len(nf)] \in Nat BY <1>1, FramesParts
  <2>3. act.depth0 \in Nat
    <3>1. Books(s, q, b) /\ PlainAt(op, p) BY DEF Books, PlainAt
    <3>. QED BY <3>1, PlainPointAt
  <2>4. b[Len(nf)] + nf[Len(nf)].nSub <= act.depth0 BY <2>1, <2>2, <2>3
  <2>. QED BY <1>1, <2>4 DEF Fits, SameStack
<1>3. Tidy(nf, m) /\ Apart(nf) BY <1>1, WorthFacts
<1>4. TidyAt(nf, b, y.stk)
  <2>1. Tidy(nf, y) BY <1>3, SameKeeps
  <2>. QED BY <1>1, <1>2, <2>1, TidyIs
<1>5. b[Len(nf)] + nf[Len(nf)].nSub <= Len(y.stk) BY <1>2
<1>6. mn \in Machine /\ mn.reg = y.reg /\ mn.bp = y.bp BY <1>1, <1>2, <1>5, StoreParts
<1>7. /\ TidyAt(nf, b, mn.stk) /\ KeepsWords(y, mn, Len(y.stk))
      /\ \A S : HasStored(nf, y, S) => HasStored(nf, mn, S \union {x})
  BY <1>1, <1>2, <1>3, <1>4, <1>5, StoreKeeps
<1>. HIDE DEF mn
<1>8. Tidy(nf, mn)
  <2>1. mn.bp = b[Len(nf)] BY <1>2, <1>6
  <2>. QED BY <1>1, <1>7, <2>1, TidyIs
<1>9. KeepsWords(m, mn, act.depth0) BY <1>2, <1>7 DEF KeepsWords, SameStack
<1>10. ASSUME NEW S, HasStored(nf, m, S) PROVE HasStored(nf, mn, S \union {x})
  <2>1. HasStored(nf, y, S) BY <1>10, SameKeeps
  <2>. QED BY <1>7, <2>1
<1>. QED BY <1>6, <1>8, <1>9, <1>10 DEF mn

LEMMA TwoOperandsDoneWorth ==
    ASSUME Inv, NEW s, Shaped(tree, s), Book(s), NEW q, Scoped(tree, s, q), NEW b, Stands(q, b),
           NEW v, Stored(tree, s, q, v), Worth(q, v),
           CaseBinary \/ CaseCompare \/ CaseShift \/ CaseDivMod \/ CaseSetMem
    PROVE  Worth(q, v)'
<1>. DEFINE ops == TwoOperand \union {"compare"}
<1>1. At(ops, "right")
  BY DEF CaseBinary, CaseCompare, CaseShift, CaseDivMod, CaseSetMem, At, TwoOperand
<1>2. /\ status = "run" /\ act.pc = "right" /\ node.op \in ops /\ tree[act.id] = node
      /\ m \in Machine /\ At({node.op}, "right") /\ act.id # 0
  BY <1>1, AtFacts DEF node, At
<1>3. /\ "call" \notin ops /\ \A o \in ops : o \notin {"func"} \union OneOperand
      /\ \A o \in ops : <<o, "right">> \notin FrameOpen
      /\ "compare" \notin TwoOperand /\ "right" \in Waiting /\ "func" \notin ops
  BY DEF TwoOperand, OneOperand, FrameOpen, Waiting
<1>4. r1 = act.used0 /\ act.used0 = s.dep[act.id] /\ act.used0 \in 0 .. 10
  <2>1. node.op # "call" /\ <<node.op, "right">> \notin FrameOpen /\ "right" # "enter"
    BY <1>2, <1>3
  <2>p. Books(s, q, b) /\ PlainAt(node.op, "right") BY <1>2, <2>1 DEF Books, PlainAt
  <2>. QED BY <2>p, PlainPointAt
<1>5. Operand(tree, act) = 2 BY <1>2, <1>3, OperandAt
<1>6. /\ HasStored(nf, m, StoredAt(tree, v, act)) /\ Outcome(tree, act, m)
      /\ Needs(tree, q, v, nf, act, m)
  BY <1>2, WorthFacts
<1>7. HasStored(nf, m, v.after[act.id])
  <2>1. v.after[act.id] = EndStored(tree, v, act.id, 2)
    BY <1>1, <1>2, AtStored, StoredPath
  <2>2. StoredAt(tree, v, act) = EndStored(tree, v, act.id, 2) BY <1>2, <1>5 DEF StoredAt
  <2>. QED BY <1>6, <2>1, <2>2
<1>8. m.reg[Start(node.op, act.used0, 2)] = Val(Kid(2))
  BY <1>2, <1>3, <1>5, <1>6 DEF Outcome, Kid, KidOf
<1>9. /\ node.op \in TwoOperand => m.reg[r1] = Val(Kid(1)) /\ m.reg[r2] = Val(Kid(2))
      /\ node.op = "compare" => m.reg[r2] = Val(Kid(1)) /\ m.reg[r3] = Val(Kid(2))
  <2>1. CASE node.op \in TwoOperand
    <3>1. HeldIn(tree, act) = {r1} BY <1>2, <1>3, <2>1 DEF HeldIn, r1
    <3>2. m.reg[r1] = Val(Kid(1))
      <4>1. \A r \in HeldIn(tree, act) : m.reg[r] = Val(Child(tree, act.id, 1))
        BY <1>2, <1>6 DEF Needs
      <4>. QED BY <3>1, <4>1 DEF Kid, KidOf
    <3>3. Start(node.op, act.used0, 2) = act.used0 + 2 - 1 BY <2>1 DEF Start, TwoOperand
    <3>4. act.used0 + 2 - 1 = r2 BY <1>2, <1>4, TakenRegs
    <3>. QED BY <1>3, <1>8, <2>1, <3>2, <3>3, <3>4
  <2>2. CASE node.op = "compare"
    <3>1. HeldIn(tree, act) = {r2} BY <1>2, <1>3, <2>2 DEF HeldIn, r2
    <3>2. m.reg[r2] = Val(Kid(1))
      <4>1. \A r \in HeldIn(tree, act) : m.reg[r] = Val(Child(tree, act.id, 1))
        BY <1>2, <1>6 DEF Needs
      <4>. QED BY <3>1, <4>1 DEF Kid, KidOf
    <3>3. Start(node.op, act.used0, 2) = act.used0 + 2 BY <1>3, <2>2 DEF Start
    <3>4. act.used0 + 2 = r3 BY <1>2, <1>4, TakenRegs
    <3>. QED BY <1>3, <1>8, <2>2, <3>2, <3>3, <3>4
  <2>. QED BY <2>1, <2>2
<1>10. PICK mm, u : Finish(u, nf, mm) /\ SameStack(m, mm) /\ Yields(mm)
  <2>. DEFINE y == Result(m, r1, act.id, TRUE)
  <2>1. SameStack(m, y) /\ Yields(y) BY <1>2, ResultYields, RegistersOnly
  <2>2. CASE CaseBinary \/ CaseSetMem
    <3>1. node.op \in TwoOperand /\ Finish(Less(used, 1), nf, Result(m, r1, act.id, BothIn(m, r1, r2)))
      BY <2>2 DEF CaseBinary, CaseSetMem, At, TwoOperand
    <3>2. BothIn(m, r1, r2) BY <1>9, <3>1 DEF BothIn, Holds
    <3>3. Result(m, r1, act.id, BothIn(m, r1, r2)) = y BY <3>2 DEF Result
    <3>. HIDE DEF y
    <3>. QED BY <2>1, <3>1, <3>3
  <2>3. CASE CaseCompare
    <3>1. node.op = "compare" /\ Finish(Less(used, 2), nf, Result(m, r1, act.id, BothIn(m, r2, r3)))
      BY <2>3 DEF CaseCompare, At
    <3>2. BothIn(m, r2, r3) BY <1>9, <3>1 DEF BothIn, Holds
    <3>3. Result(m, r1, act.id, BothIn(m, r2, r3)) = y BY <3>2 DEF Result
    <3>. HIDE DEF y
    <3>. QED BY <2>1, <3>1, <3>3
  <2>4. CASE CaseShift
    <3>1. node.op \in TwoOperand /\ Finish(Less(used, 1), nf, ShiftCode)
      BY <2>4 DEF CaseShift, At, TwoOperand
    <3>. QED BY <1>2, <1>9, <3>1, ShiftKeeps, ShiftYields
  <2>5. CASE CaseDivMod
    <3>. DEFINE w == IF node.op = "div" THEN RAX ELSE RDX
    <3>1. node.op \in {"div", "mod"} /\ Finish(Less(used, 1), nf, DivModCode(w))
      BY <2>5 DEF CaseDivMod, At
    <3>2. node.op \in TwoOperand BY <3>1 DEF TwoOperand
    <3>3. w \in Regs /\ w \in {RAX, RDX} BY NamedRegs
    <3>4. r1 = RAX => w = RAX
      <4>1. RAX = 0 BY <1>2, TakenRegs
      <4>2. node.op = "mod" => s.dep[act.id] # 0 BY <1>1, <1>2, AtStored DEF NodeStored
      <4>. QED BY <1>4, <3>1, <4>1, <4>2
    <3>. HIDE DEF w
    <3>5. SameStack(m, DivModCode(w)) BY <1>2, <3>3, DivModKeeps
    <3>6. Yields(DivModCode(w)) BY <1>2, <1>9, <3>2, <3>3, <3>4, DivModYields
    <3>. QED BY <3>1, <3>5, <3>6
  <2>. QED BY <2>2, <2>3, <2>4, <2>5
<1>. QED BY <1>2, <1>3, <1>7, <1>10, RegDone

LEMMA OneOperandDoneWorth ==
    ASSUME Inv, NEW s, Shaped(tree, s), Book(s), NEW q, Scoped(tree, s, q), NEW b, Stands(q, b),
           NEW v, Stored(tree, s, q, v), Worth(q, v),
           CaseUnary \/ CaseStore \/ CaseOut
    PROVE  Worth(q, v)'
<1>1. At(OneOperand, "right")
  BY DEF CaseUnary, CaseStore, CaseOut, At, OneOperand
<1>2. /\ status = "run" /\ act.pc = "right" /\ node.op \in OneOperand /\ tree[act.id] = node
      /\ m \in Machine /\ At({node.op}, "right") /\ act.id # 0
  BY <1>1, AtFacts DEF node, At
<1>3. /\ node.op # "call" /\ <<node.op, "right">> \notin FrameOpen /\ "right" # "enter"
      /\ node.op \notin TwoOperand \union {"compare", "while", "func"} /\ "right" \in Waiting
  BY <1>2 DEF OneOperand, FrameOpen, TwoOperand, Waiting
<1>a. node.op # "call" /\ <<node.op, "right">> \notin FrameOpen /\ "right" # "enter" BY <1>3
<1>4. r1 = act.used0 /\ act.used0 = s.dep[act.id] /\ act.used0 \in 0 .. 10
  <2>1. Books(s, q, b) /\ PlainAt(node.op, "right") BY <1>2, <1>a DEF Books, PlainAt
  <2>. QED BY <2>1, PlainPointAt
<1>5. Operand(tree, act) = 1 BY <1>2, OperandAt
<1>6. /\ HasStored(nf, m, StoredAt(tree, v, act)) /\ Outcome(tree, act, m)
  BY <1>2, WorthFacts
<1>7. HasStored(nf, m, EndStored(tree, v, act.id, 1))
  <2>2. StoredAt(tree, v, act) = EndStored(tree, v, act.id, 1) BY <1>2, <1>5 DEF StoredAt
  <2>. QED BY <1>6, <2>2
<1>8. m.reg[r1] = Val(Kid(1))
  <2>1. m.reg[Start(node.op, act.used0, 1)] = Val(Kid(1))
    BY <1>2, <1>3, <1>5, <1>6 DEF Outcome, Kid, KidOf
  <2>2. Start(node.op, act.used0, 1) = act.used0 BY <1>3 DEF Start
  <2>. QED BY <1>4, <2>1, <2>2
<1>9. v.after[act.id] = Left(tree, q, v, act.id) /\ NodeStored(tree, s, q, v, act.id)
  BY <1>1, AtStored
<1>. DEFINE y == Result(m, r1, act.id, TRUE)
<1>10. CASE CaseUnary
  <2>1. node.op = "unary" /\ Finish(used, nf, Result(m, r1, act.id, Holds(m, r1, Kid(1))))
    BY <1>10 DEF CaseUnary, At
  <2>2. SameStack(m, y) /\ Yields(y) BY <1>2, ResultYields, RegistersOnly
  <2>3. Result(m, r1, act.id, Holds(m, r1, Kid(1))) = y BY <1>8 DEF Result, Holds
  <2>. HIDE DEF y
  <2>4. v.after[act.id] = EndStored(tree, v, act.id, 1) BY <1>2, <1>9, <2>1, StoredPath
  <2>. QED BY <1>2, <1>3, <1>7, <2>1, <2>2, <2>3, <2>4, RegDone
<1>11. CASE CaseOut
  <2>1. node.op = "out" /\ Finish(used, nf, OutCode) BY <1>11 DEF CaseOut, At
  <2>2. v.after[act.id] = EndStored(tree, v, act.id, 1) BY <1>2, <1>9, <2>1, StoredPath
  <2>3. r1 <= 2 BY <1>2, <1>4, <1>9, <2>1 DEF NodeStored
  <2>4. SameStack(m, OutCode) /\ Yields(OutCode) BY <1>2, <1>8, <2>3, OutKeeps, OutYields
  <2>. QED BY <1>2, <1>3, <1>7, <2>1, <2>2, <2>4, RegDone
<1>12. CASE CaseStore
  <2>. DEFINE x == node.names[1]  mn == StoreVar(m, nf, x)  mm == Result(mn, r1, act.id, TRUE)
  <2>1. node.op \in {"set", "var"} /\ Finish(used, nf, Result(mn, r1, act.id, Holds(m, r1, Kid(1))))
    BY <1>12 DEF CaseStore, At
  <2>2. Declared(nf, x)
    <3>1. NodeScoped(tree, s, q, act.id) BY <1>1, AtScope
    <3>2. x \in q.after[act.id].names BY <1>2, <2>1, <3>1 DEF NodeScoped
    <3>3. q.after[act.id] = EndScope(tree, q, act.id, 1) BY <1>1, <1>2, AtScope, BehindPath
    <3>4. ScopeAt(tree, q, act) = EndScope(tree, q, act.id, 1) BY <1>2, <1>5 DEF ScopeAt
    <3>5. Matches(nf, ScopeAt(tree, q, act))
      <4>1. Books(s, q, b) /\ PlainAt(node.op, "right") BY <1>2, <1>3 DEF Books, PlainAt
      <4>. QED BY <4>1, PlainPointAt
    <3>. QED BY <3>2, <3>3, <3>4, <3>5 DEF Matches
  <2>3. v.after[act.id] = EndStored(tree, v, act.id, 1) \union {x} BY <1>2, <1>9, <2>1, StoredPath
  <2>4. SameStack(m, m) BY DEF SameStack
  <2>. HIDE DEF x
  <2>5. /\ mn \in Machine /\ mn.reg = m.reg /\ Tidy(nf, mn) /\ KeepsWords(m, mn, act.depth0)
        /\ HasStored(nf, mn, v.after[act.id])
    BY <1>2, <1>3, <1>7, <2>2, <2>3, <2>4, StoreOver
  <2>6. Result(mn, r1, act.id, Holds(m, r1, Kid(1))) = mm BY <1>8 DEF Result, Holds
  <2>. HIDE DEF mn
  <2>7. Yields(mm) BY <1>2, <2>5, ResultYields
  <2>8. SameStack(mn, mm) BY <2>5, RegistersOnly
  <2>. HIDE DEF mm
  <2>9. /\ Tidy(nf, mm) /\ HasStored(nf, mm, v.after[act.id])
        /\ KeepsWords(m, mm, act.depth0)
    <3>1. Tidy(nf, mm) /\ HasStored(nf, mm, v.after[act.id]) BY <2>5, <2>8, SameKeeps
    <3>. QED BY <2>5, <2>8, <3>1 DEF KeepsWords, SameStack
  <2>10. mm.reg[act.used0] = Val(act.id) /\ Keeps(m, mm, act.used0, act.depth0)
    BY <1>4, <2>7, <2>9 DEF Yields, Keeps
  <2>. QED BY <1>2, <1>3, <2>1, <2>6, <2>9, <2>10, PlainDone
<1>. QED BY <1>10, <1>11, <1>12

\* A variable that holds a value is read.
LEMMA ReadsStored ==
    ASSUME Inv, NEW s, Shaped(tree, s), Book(s), NEW q, Scoped(tree, s, q), NEW b, Stands(q, b),
           NEW op, op # "call", NEW p, p # "enter", <<op, p>> \notin FrameOpen, At({op}, p),
           NEW S, HasStored(nf, m, S), NEW x \in S
    PROVE  Declared(nf, x) /\ Readable(m, nf, x)
<1>1. /\ status = "run" /\ Frames(nf, b) /\ Fits(nf, b, m, act.depth0)
      /\ Counts(nf, b, act.depth0) /\ m \in Machine /\ nf \in Seq(Nameframe) /\ act.depth0 \in Nat
  <2>1. Books(s, q, b) /\ PlainAt(op, p) BY DEF Books, PlainAt
  <2>. QED BY <2>1, PlainPointAt
<1>2. Declared(nf, x) /\ m.stk[Entry(nf, x).slot] = Slot(Entry(nf, x).decl) BY DEF HasStored
<1>3. Addressed(nf, m.bp, x) = Entry(nf, x).slot BY <1>1, <1>2, AddressedAt DEF Fits
<1>4. Entry(nf, x).slot \in 1 .. Len(m.stk)
  <2>1. Entry(nf, x).slot \in 1 .. b[Len(nf)] + nf[Len(nf)].nSub BY <1>1, <1>2, EntryWithin
  <2>2. act.depth0 >= b[Len(nf)] + nf[Len(nf)].nSub BY <1>1, CountsAbove
  <2>3. nf[Len(nf)].nSub \in Nat /\ b[Len(nf)] \in Nat BY <1>1, FramesParts
  <2>4. Len(m.stk) = act.depth0 BY <1>1 DEF Fits
  <2>. QED BY <1>1, <2>1, <2>2, <2>3, <2>4
<1>. QED BY <1>2, <1>3, <1>4 DEF Readable

LEMMA LeafWorth ==
    ASSUME Inv, NEW s, Shaped(tree, s), Book(s), NEW q, Scoped(tree, s, q), NEW b, Stands(q, b),
           NEW v, Stored(tree, s, q, v), Worth(q, v),
           CaseIn \/ CaseNumberAddr \/ CaseIdent \/ CaseIncDec
    PROVE  Worth(q, v)'
<1>1. At(Leaves, "body")
  BY DEF CaseIn, CaseNumberAddr, CaseIdent, CaseIncDec, Leaves, At
<1>2. /\ status = "run" /\ act.pc = "body" /\ node.op \in Leaves /\ tree[act.id] = node
      /\ m \in Machine /\ At({node.op}, "body") /\ act.id # 0
  BY <1>1, AtFacts DEF node, At
<1>3. /\ node.op # "call" /\ <<node.op, "body">> \notin FrameOpen /\ "body" # "enter"
      /\ node.op \notin ScopeThrough \union OneOperand \union {"tern", "call"}
  BY <1>2, Openings DEF Leaves, ScopeThrough, TwoOperand, OneOperand
<1>a. node.op # "call" /\ <<node.op, "body">> \notin FrameOpen /\ "body" # "enter" BY <1>3
<1>4. r1 = act.used0 /\ act.used0 = s.dep[act.id] /\ act.used0 \in 0 .. 10
      /\ Frames(nf, b) /\ Fits(nf, b, m, act.depth0) /\ nf \in Seq(Nameframe)
  <2>1. r1 = act.used0 /\ act.used0 = s.dep[act.id] /\ act.used0 \in 0 .. 10
    <3>1. At({node.op}, "body") BY <1>2
    <3>p. Books(s, q, b) /\ PlainAt(node.op, "body") BY <1>a, <3>1 DEF Books, PlainAt
    <3>. QED BY <3>p, PlainPointAt
  <2>2. Frames(nf, b) /\ Fits(nf, b, m, act.depth0) /\ nf \in Seq(Nameframe)
    <3>1. At({node.op}, "body") BY <1>2
    <3>p. Books(s, q, b) /\ PlainAt(node.op, "body") BY <1>a, <3>1 DEF Books, PlainAt
    <3>. QED BY <3>p, PlainPointAt
  <2>. QED BY <2>1, <2>2
<1>5. v.after[act.id] = v.before[act.id] /\ NodeStored(tree, s, q, v, act.id)
  BY <1>1, <1>2, AtStored, StoredPath
<1>6. HasStored(nf, m, v.before[act.id]) /\ HasStored(nf, m, v.after[act.id])
  <2>1. StoredAt(tree, v, act) = v.before[act.id] BY <1>2 DEF StoredAt
  <2>. QED BY <1>2, <1>5, <2>1, WorthFacts
<1>. DEFINE y == Result(m, r1, act.id, TRUE)
<1>7. SameStack(m, y) /\ Yields(y) BY <1>2, ResultYields, RegistersOnly
<1>8. CASE CaseIn
  <2>1. node.op = "in" /\ Finish(used + 1, nf, InCode) BY <1>8 DEF CaseIn, At
  <2>2. r1 <= 1 BY <1>2, <1>4, <1>5, <2>1 DEF NodeStored
  <2>3. SameStack(m, InCode) /\ Yields(InCode) BY <1>2, <2>2, InKeeps, InYields
  <2>. QED BY <1>2, <1>3, <1>6, <2>1, <2>3, RegDone
<1>9. CASE CaseNumberAddr
  <2>. DEFINE ok == node.op = "addr" =>
                        /\ Declared(nf, node.names[1])
                        /\ Addressed(nf, m.bp, node.names[1]) = Entry(nf, node.names[1]).slot
  <2>1. Finish(used + 1, nf, Result(m, r1, act.id, ok)) BY <1>9 DEF CaseNumberAddr
  <2>2. ok
    <3>1. SUFFICES ASSUME node.op = "addr"
                   PROVE  /\ Declared(nf, node.names[1])
                          /\ Addressed(nf, m.bp, node.names[1]) = Entry(nf, node.names[1]).slot
      OBVIOUS
    <3>2. node.names[1] \in q.before[act.id].names BY <1>2, <1>5, <3>1 DEF NodeStored
    <3>3. ScopeAt(tree, q, act) = q.before[act.id] BY <1>2 DEF ScopeAt
    <3>4. Matches(nf, ScopeAt(tree, q, act))
      <4>1. Books(s, q, b) /\ PlainAt(node.op, "body") BY <1>2, <1>3 DEF Books, PlainAt
      <4>. QED BY <4>1, PlainPointAt
    <3>5. Declared(nf, node.names[1]) BY <3>2, <3>3, <3>4 DEF Matches
    <3>. QED BY <1>4, <3>5, AddressedAt DEF Fits
  <2>3. Result(m, r1, act.id, ok) = y BY <2>2 DEF Result
  <2>. HIDE DEF ok, y
  <2>. QED BY <1>2, <1>3, <1>6, <1>7, <2>1, <2>3, RegDone
<1>10. CASE CaseIdent
  <2>1. node.op = "ident" /\ Finish(used + 1, nf, Result(m, r1, act.id, Readable(m, nf, node.names[1])))
    BY <1>10 DEF CaseIdent, At
  <2>2. node.names[1] \in v.before[act.id] BY <1>2, <1>5, <2>1 DEF NodeStored
  <2>3. Readable(m, nf, node.names[1]) BY <1>2, <1>3, <1>6, <2>2, ReadsStored
  <2>4. Result(m, r1, act.id, Readable(m, nf, node.names[1])) = y BY <2>3 DEF Result
  <2>. HIDE DEF y
  <2>. QED BY <1>2, <1>3, <1>6, <1>7, <2>1, <2>4, RegDone
<1>11. CASE CaseIncDec
  <2>. DEFINE x == node.names[1]  a == Result(m, r1, act.id, Readable(m, nf, x))
              c == IF node.op = "post" THEN Mov(a, r2, Junk) ELSE a
              mn == StoreVar(c, nf, x)
  <2>1. node.op \in {"post", "pre"} /\ Finish(used + 1, nf, mn) BY <1>11 DEF CaseIncDec, At
  <2>2. x \in v.before[act.id] BY <1>2, <1>5, <2>1 DEF NodeStored
  <2>3. Declared(nf, x) /\ Readable(m, nf, x) BY <1>2, <1>3, <1>6, <2>2, ReadsStored
  <2>4. a = y BY <2>3 DEF Result
  <2>. HIDE DEF a, x
  <2>5. y \in Machine /\ r2 \in Regs /\ r1 \in Regs /\ r1 # r2 /\ Junk \in Token
        /\ \A r \in Regs : r < r1 => r # r2
    <3>1. r1 # r2 /\ \A r \in Regs : r < r1 => r # r2 BY <1>2, TakenRegs
    <3>2. r1 \in Regs /\ r2 \in Regs /\ act.id \in Nat BY <1>2, TakenIn
    <3>3. y \in Machine BY <1>2, <3>2, ResultType
    <3>. HIDE DEF y
    <3>. QED BY <3>1, <3>2, <3>3, Tokens
  <2>. HIDE DEF y
  <2>6. c \in Machine /\ SameStack(m, c) /\ Yields(c)
    <3>1. CASE node.op # "post" BY <1>7, <2>4, <2>5, <3>1
    <3>2. CASE node.op = "post"
      <4>1. c = Mov(y, r2, Junk) BY <2>4, <3>2
      <4>2. r2 \in Regs /\ y \in Machine BY <2>5
      <4>. HIDE DEF c
      <4>3. c \in Machine /\ SameStack(y, c) BY <2>5, <4>1, MovType, RegistersOnly
      <4>4. \A i \in Regs : i # r2 => c.reg[i] = y.reg[i] BY <4>1, <4>2, MovEffect
      <4>5. SameStack(m, c) BY <1>7, <4>3, SameTwice
      <4>. QED BY <1>7, <2>5, <4>3, <4>4, <4>5 DEF Yields
    <3>. QED BY <3>1, <3>2
  <2>. HIDE DEF c
  <2>7. /\ mn.reg = c.reg /\ Tidy(nf, mn) /\ KeepsWords(m, mn, act.depth0)
        /\ HasStored(nf, mn, v.before[act.id] \union {x})
    BY <1>2, <1>3, <1>6, <2>3, <2>6, StoreOver
  <2>. HIDE DEF mn
  <2>8. HasStored(nf, mn, v.after[act.id])
    <3>1. v.after[act.id] \subseteq v.before[act.id] \union {x} BY <1>5
    <3>. QED BY <2>7, <3>1, HasFewer
  <2>9. mn.reg[act.used0] = Val(act.id) /\ Keeps(m, mn, act.used0, act.depth0)
    BY <1>4, <2>6, <2>7 DEF Yields, Keeps
  <2>. QED BY <1>2, <1>3, <2>1, <2>7, <2>8, <2>9, PlainDone
<1>. QED BY <1>8, <1>9, <1>10, <1>11

-----------------------------------------------------------------------------
(* Calls of codeGen in the frame the node was found in.                    *)

LEMMA PlainGenWorth ==
    ASSUME Inv, NEW s, Shaped(tree, s), Book(s), NEW q, Scoped(tree, s, q), NEW b, Stands(q, b),
           NEW v, Stored(tree, s, q, v), Worth(q, v),
           NEW op, op # "call", NEW p, p # "enter", <<op, p>> \notin FrameOpen, At({op}, p),
           NEW a \in Activation, a.id = act.id, a.used0 = act.used0, a.depth0 = act.depth0,
           a.frames0 = act.frames0, a.ok, <<op, a.pc>> \notin FrameOpen,
           <<op, a.pc>> = <<"logic", "right">> => a.save = m,
           NEW f \in Seq(Nameframe), Frames(f, b), Len(f) = act.frames0,
           Grown(nf, b, f, b, act.frames0), Apart(f), Tidy(f, m),
           NEW u \in Nat, act.used0 <= u,
           \A r \in HeldIn(tree, a) : m.reg[r] = Val(Kid(1)) /\ r < u,
           Restores(tree, q, v, f, a, m),
           NEW k, k = Operand(tree, a), k \in Operands(tree, act.id),
           HasStored(f, m, StartStored(tree, v, act.id, k)),
           Gen(Kid(k), a, u, f, m)
    PROVE  Worth(q, v)'
<1>1. /\ status = "run" /\ act.pc = p /\ act.id # 0 /\ node = tree[act.id] /\ node.op = op
      /\ act.depth0 \in Nat /\ act.frames0 \in Nat /\ act.frames0 # 0
      /\ Fits(nf, b, m, act.depth0)
  <2>1. Books(s, q, b) /\ PlainAt(op, p) BY DEF Books, PlainAt
  <2>. QED BY <2>1, PlainPointAt
<1>2. /\ ~ FuncBody(tree, act) /\ ~ FuncBody(tree, a) /\ ~ InCall(tree, a)
      /\ tree[a.id].op = op /\ a.id # 0
  BY <1>1 DEF FuncBody, FrameOpen, InCall
<1>3. Suits(tree, q, v, nf, acts, Len(acts) - 1, m) BY <1>1, <1>2, WorthFacts
<1>4. Needs(tree, q, v, f, a, m) BY <1>1, <1>2 DEF Needs, Kid, KidOf
<1>5. Saving(tree, a) => <<op, a.pc>> = <<"logic", "right">>
  BY <1>1, <1>2 DEF Saving, SavedBefore, FrameOpen
<1>6. ASSUME Saving(tree, a)
      PROVE  /\ Suits(tree, q, v, nf, acts, Len(acts) - 1, a.save)
             /\ Restores(tree, q, v, f, a, a.save)
             /\ Tidy(Cut(f, LevelOf(tree, a)), a.save)
             /\ <<tree[a.id].op, a.pc>> = <<"tern", "else">> => a.save.reg[a.r1] = Val(a.id)
  <2>1. a.save = m /\ op = "logic" /\ a.pc = "right" BY <1>5, <1>6
  <2>2. LevelOf(tree, a) = Len(f) BY <1>1, <1>2, <2>1 DEF LevelOf
  <2>3. Cut(f, Len(f)) = f BY CutAll
  <2>. QED BY <1>2, <1>3, <2>1, <2>2, <2>3
<1>7. Ground(q, v, Replaced(a), f, m) BY <1>1, <1>3, <1>4, <1>6, TopGround
<1>8. Len(m.stk) = act.depth0 BY <1>1 DEF Fits
<1>9. Within(tree, a, NewAct(Kid(k), u, m, f))
  <2>. DEFINE e == NewAct(Kid(k), u, m, f)
  <2>1. e.used0 = u /\ e.depth0 = Len(m.stk) BY DEF NewAct
  <2>. HIDE DEF e
  <2>2. \A r \in HeldIn(tree, a) : r < e.used0 BY <2>1
  <2>3. a.depth0 <= e.depth0 BY <1>1, <1>8, <2>1
  <2>4. Within(tree, a, e) BY <1>2, <2>2, <2>3 DEF Within
  <2>. QED BY <2>4 DEF e
<1>10. Kid(k) # 0 => v.before[Kid(k)] = StartStored(tree, v, a.id, Operand(tree, a))
  <2>1. At({op}, p) OBVIOUS
  <2>. QED BY <2>1, AtStored
<1>11. HasStored(f, m, StartStored(tree, v, a.id, Operand(tree, a))) OBVIOUS
<1>12. act.depth0 <= Len(m.stk) /\ Len(m.stk) \in Nat BY <1>1, <1>8
<1>. QED BY <1>1, <1>2, <1>7, <1>9, <1>10, <1>11, <1>12, GenWorth

\* What is asked of an activation that goes on in the middle of a plain operator.
LEMMA ResumedAs ==
    ASSUME Inv, status = "run", act.ok, NEW r \in PCs
    PROVE  LET a == Resume(r)
           IN  /\ a \in Activation /\ a.id = act.id /\ a.pc = r /\ a.r1 = r1 /\ a.ok
               /\ a.used0 = act.used0 /\ a.depth0 = act.depth0 /\ a.frames0 = act.frames0
               /\ a.argsLeft = act.argsLeft /\ a.pushed = act.pushed
               /\ \A mm \in Machine :
                     LET g == Fork(r, TRUE, mm)
                     IN  /\ g \in Activation /\ g.id = act.id /\ g.pc = r /\ g.r1 = r1 /\ g.ok
                         /\ g.used0 = act.used0 /\ g.depth0 = act.depth0
                         /\ g.frames0 = act.frames0 /\ g.save = mm /\ g.pushed = act.pushed
<1>1. act \in Activation BY InvFacts
<1>. QED BY <1>1 DEF Resume, Fork, Activation, r1

LEMMA EvalLeftWorth ==
    ASSUME Inv, NEW s, Shaped(tree, s), Book(s), NEW q, Scoped(tree, s, q), NEW b, Stands(q, b),
           NEW v, Stored(tree, s, q, v), Worth(q, v), EvalLeft
    PROVE  Worth(q, v)'
<1>. DEFINE a == Resume("left")
            u == IF node.op = "compare" THEN used + 1 ELSE used
<1>1. At(TwoOperand \union {"compare"}, "body") /\ Gen(Kid(1), a, u, nf, m) BY DEF EvalLeft
<1>2. /\ status = "run" /\ act.pc = "body" /\ node.op \in TwoOperand \union {"compare"}
      /\ tree[act.id] = node /\ At({node.op}, "body") /\ act.id # 0
  BY <1>1, AtFacts DEF node, At
<1>3. /\ node.op # "call" /\ <<node.op, "body">> \notin FrameOpen /\ "body" # "enter"
      /\ <<node.op, "left">> \notin FrameOpen /\ "left" \in PCs
      /\ node.op \notin {"call", "var", "while", "func", "logic", "tern"}
  BY <1>2 DEF FrameOpen, TwoOperand, PCs
<1>4. /\ Frames(nf, b) /\ nf \in Seq(Nameframe) /\ Len(nf) = act.frames0
      /\ act.frames0 \in Nat /\ act.frames0 # 0
  <2>1. node.op # "call" /\ <<node.op, "body">> \notin FrameOpen /\ "body" # "enter" BY <1>3
  <2>p. Books(s, q, b) /\ PlainAt(node.op, "body") BY <1>2, <2>1 DEF Books, PlainAt
  <2>. QED BY <2>p, PlainPointAt
<1>5. used = act.used0 /\ act.used0 \in Nat
  <2>1. node.op # "call" /\ <<node.op, "body">> \notin FrameOpen /\ "body" # "enter" BY <1>3
  <2>2. used = InUse(tree, s, act) /\ act.used0 \in 0 .. 10
    <3>1. Books(s, q, b) /\ PlainAt(node.op, "body") BY <1>2, <2>1 DEF Books, PlainAt
    <3>. QED BY <3>1, PlainPointAt
  <2>. QED BY <1>2, <2>2 DEF InUse
<1>6. u \in Nat /\ act.used0 <= u BY <1>5
<1>7. Grown(nf, b, nf, b, act.frames0)
  <2>1. act.frames0 \in 1 .. Len(nf) BY <1>4
  <2>. QED BY <1>4, <2>1, GrownSelf
<1>8. Apart(nf) /\ Tidy(nf, m) /\ act.ok /\ HasStored(nf, m, StoredAt(tree, v, act))
  BY <1>2, WorthFacts
<1>9. HasStored(nf, m, StartStored(tree, v, act.id, 1))
  <2>1. tree[act.id].op \notin {"call", "var", "func"} BY <1>2, <1>3
  <2>2. StartStored(tree, v, act.id, 1) = v.before[act.id] BY <2>1, StoredStart
  <2>. QED BY <1>2, <1>8, <2>2 DEF StoredAt
<1>10. /\ a \in Activation /\ a.id = act.id /\ a.pc = "left" /\ a.ok
       /\ a.used0 = act.used0 /\ a.depth0 = act.depth0 /\ a.frames0 = act.frames0
  BY <1>2, <1>3, <1>8, ResumedAs
<1>. HIDE DEF a, u
<1>11. Operand(tree, a) = 1 /\ 1 \in Operands(tree, act.id)
  BY <1>2, <1>10, OperandAt, OperandSets
<1>12. HeldIn(tree, a) = {} BY <1>10 DEF HeldIn
<1>13. Restores(tree, q, v, nf, a, m) BY <1>10 DEF Restores, Reopens
<1>14. <<node.op, a.pc>> # <<"logic", "right">> /\ <<node.op, a.pc>> \notin FrameOpen
  BY <1>3, <1>10
<1>. QED BY <1>1, <1>2, <1>3, <1>4, <1>6, <1>7, <1>8, <1>9, <1>10, <1>11, <1>12, <1>13, <1>14,
            PlainGenWorth

LEMMA EvalRightWorth ==
    ASSUME Inv, NEW s, Shaped(tree, s), Book(s), NEW q, Scoped(tree, s, q), NEW b, Stands(q, b),
           NEW v, Stored(tree, s, q, v), Worth(q, v), EvalRight
    PROVE  Worth(q, v)'
<1>. DEFINE a == Resume("right")
<1>1. At(TwoOperand \union {"compare"}, "left") /\ Gen(Kid(2), a, used, nf, m) BY DEF EvalRight
<1>2. /\ status = "run" /\ act.pc = "left" /\ node.op \in TwoOperand \union {"compare"}
      /\ tree[act.id] = node /\ At({node.op}, "left") /\ act.id # 0
  BY <1>1, AtFacts DEF node, At
<1>3. /\ node.op # "call" /\ <<node.op, "left">> \notin FrameOpen /\ "left" # "enter"
      /\ <<node.op, "right">> \notin FrameOpen /\ "right" \in PCs /\ "left" \in Waiting
      /\ node.op \notin {"call", "var", "while", "func", "logic", "tern"} \union OneOperand
      /\ "compare" \notin TwoOperand
  BY <1>2 DEF FrameOpen, TwoOperand, PCs, Waiting, OneOperand
<1>4. /\ Frames(nf, b) /\ nf \in Seq(Nameframe) /\ Len(nf) = act.frames0
      /\ act.frames0 \in Nat /\ act.frames0 # 0
  <2>1. node.op # "call" /\ <<node.op, "left">> \notin FrameOpen /\ "left" # "enter" BY <1>3
  <2>p. Books(s, q, b) /\ PlainAt(node.op, "left") BY <1>2, <2>1 DEF Books, PlainAt
  <2>. QED BY <2>p, PlainPointAt
<1>5. /\ r1 = act.used0 /\ act.used0 \in 0 .. 10
      /\ node.op \in TwoOperand => used = act.used0 + 1
      /\ node.op = "compare" => used = act.used0 + 2
  <2>1. node.op # "call" /\ <<node.op, "left">> \notin FrameOpen /\ "left" # "enter" BY <1>3
  <2>2. used = InUse(tree, s, act) /\ act.used0 \in 0 .. 10 /\ r1 = act.used0
    <3>1. Books(s, q, b) /\ PlainAt(node.op, "left") BY <1>2, <2>1 DEF Books, PlainAt
    <3>. QED BY <3>1, PlainPointAt
  <2>3. Operand(tree, act) = 1 /\ 1 \in Operands(tree, act.id) BY <1>2, OperandAt, OperandSets
  <2>4. <<node.op, 1>> \notin Uncounted BY <1>2, <1>3 DEF Uncounted
  <2>5. used = Start(node.op, act.used0, 1) + 1 BY <1>1, <1>3, <2>3, <2>4, Counted
  <2>6. act.used0 \in Nat BY <2>2
  <2>. QED BY <1>2, <2>2, <2>5, <2>6, Starts
<1>6. used \in Nat /\ act.used0 <= used BY <1>2, <1>5
<1>7. Grown(nf, b, nf, b, act.frames0)
  <2>1. act.frames0 \in 1 .. Len(nf) BY <1>4
  <2>. QED BY <1>4, <2>1, GrownSelf
<1>8. /\ Apart(nf) /\ Tidy(nf, m) /\ act.ok /\ HasStored(nf, m, StoredAt(tree, v, act))
      /\ Outcome(tree, act, m)
  BY <1>2, WorthFacts
<1>e. Operand(tree, act) = 1 BY <1>2, OperandAt
<1>9. HasStored(nf, m, StartStored(tree, v, act.id, 2))
  <2>0. tree[act.id].op # "call" /\ 2 # 1 BY <1>2, <1>3
  <2>1. StartStored(tree, v, act.id, 2) = EndStored(tree, v, act.id, 1) BY <2>0, StoredStart
  <2>2. StoredAt(tree, v, act) = EndStored(tree, v, act.id, 1) BY <1>2, <1>e DEF StoredAt
  <2>. QED BY <1>8, <2>1, <2>2
<1>f. m.reg[Start(node.op, act.used0, 1)] = Val(Kid(1))
  BY <1>2, <1>3, <1>e, <1>8 DEF Outcome, Kid, KidOf
<1>10. /\ a \in Activation /\ a.id = act.id /\ a.pc = "right" /\ a.ok /\ a.r1 = r1
       /\ a.used0 = act.used0 /\ a.depth0 = act.depth0 /\ a.frames0 = act.frames0
  BY <1>2, <1>3, <1>8, ResumedAs
<1>. HIDE DEF a
<1>11. Operand(tree, a) = 2 /\ 2 \in Operands(tree, act.id)
  BY <1>2, <1>3, <1>10, OperandAt, OperandSets
<1>12. \A r \in HeldIn(tree, a) : m.reg[r] = Val(Kid(1)) /\ r < used
  <2>0. act.used0 \in Nat BY <1>5
  <2>1. CASE node.op \in TwoOperand
    <3>1. HeldIn(tree, a) = {act.used0} BY <1>2, <1>3, <1>5, <1>10, <2>1 DEF HeldIn
    <3>2. Start(node.op, act.used0, 1) = act.used0 BY <2>0, <2>1, Starts
    <3>3. act.used0 < used BY <1>5, <2>1
    <3>. QED BY <1>f, <3>1, <3>2, <3>3
  <2>2. CASE node.op = "compare"
    <3>1. HeldIn(tree, a) = {act.used0 + 1} BY <1>2, <1>3, <1>5, <1>10, <2>2 DEF HeldIn
    <3>2. Start(node.op, act.used0, 1) = act.used0 + 1 BY <2>0, <2>2, Starts
    <3>3. act.used0 + 1 < used BY <1>5, <2>2
    <3>. QED BY <1>f, <3>1, <3>2, <3>3
  <2>. QED BY <1>2, <2>1, <2>2
<1>13. Restores(tree, q, v, nf, a, m) BY <1>2, <1>3, <1>10 DEF Restores, Reopens
<1>14. <<node.op, a.pc>> # <<"logic", "right">> /\ <<node.op, a.pc>> \notin FrameOpen
  BY <1>3, <1>10
<1>. QED BY <1>1, <1>2, <1>3, <1>4, <1>6, <1>7, <1>8, <1>9, <1>10, <1>11, <1>12, <1>13, <1>14,
            PlainGenWorth

\* What the name frames are like once VAR has registered its variable.
LEMMA RegisterWorth ==
    ASSUME Inv, NEW s, Shaped(tree, s), Book(s), NEW q, Scoped(tree, s, q), NEW b, Stands(q, b),
           NEW v, Worth(q, v), At({"var"}, "body"), NEW x, x = node.names[1],
           HasStored(nf, m, v.before[act.id])
    PROVE  LET f == registerVar(nf, x, act.id, m.bp)
           IN  /\ f \in Seq(Nameframe) /\ Frames(f, b) /\ Len(f) = act.frames0
               /\ Grown(nf, b, f, b, act.frames0) /\ Apart(f) /\ Tidy(f, m)
               /\ HasStored(f, m, v.before[act.id] \ {x})
<1>1. /\ status = "run" /\ act.pc = "body" /\ node.op = "var" /\ tree[act.id] = node
      /\ act.id \in 1 .. Len(tree) /\ tree \in Programs
  <2>1. At({"var"}, "body") OBVIOUS
  <2>2. status = "run" /\ act.pc = "body" /\ act.id \in 1 .. Len(tree) /\ tree \in Programs
    BY <2>1, AtFacts
  <2>3. node.op = "var" BY <2>1 DEF At
  <2>. QED BY <2>2, <2>3 DEF node
<1>2. /\ Frames(nf, b) /\ nf \in Seq(Nameframe) /\ Len(nf) = act.frames0
      /\ act.frames0 \in Nat /\ act.frames0 # 0 /\ Fits(nf, b, m, act.depth0)
      /\ Matches(nf, ScopeAt(tree, q, act)) /\ NodeScoped(tree, s, q, act.id)
  <2>1. <<"var", "body">> \notin FrameOpen /\ "var" # "call" /\ "body" # "enter" BY DEF FrameOpen
  <2>2. At({"var"}, "body") OBVIOUS
  <2>3. /\ Frames(nf, b) /\ nf \in Seq(Nameframe) /\ Len(nf) = act.frames0
        /\ act.frames0 \in Nat /\ act.frames0 # 0 /\ Fits(nf, b, m, act.depth0)
    <3>1. Books(s, q, b) /\ PlainAt("var", "body") BY <2>1, <2>2 DEF Books, PlainAt
    <3>. QED BY <3>1, PlainPointAt
  <2>4. Matches(nf, ScopeAt(tree, q, act)) /\ NodeScoped(tree, s, q, act.id)
    <3>1. Books(s, q, b) /\ PlainAt("var", "body") BY <2>1, <2>2 DEF Books, PlainAt
    <3>. QED BY <3>1, PlainPointAt
  <2>. QED BY <2>3, <2>4
<1>3. x \in Names /\ act.id \in Nat
  <2>1. tree[act.id].names[1] \in Names BY <1>1, TreeFacts
  <2>. QED BY <1>1, <2>1, InvFacts
<1>4. nf[Len(nf)].above < nf[Len(nf)].nSub
  <2>1. ScopeAt(tree, q, act) = q.before[act.id] BY <1>1 DEF ScopeAt
  <2>. QED BY <1>1, <1>2, <2>1 DEF NodeScoped, Matches
<1>5. Apart(nf) /\ Tidy(nf, m) BY <1>1, WorthFacts
<1>6. m.bp = b[Len(nf)] BY <1>2 DEF Fits
<1>. DEFINE R == registerVar(nf, x, act.id, b[Len(nf)])
<1>7. /\ R \in Seq(Nameframe) /\ Len(R) = Len(nf) /\ Frames(R, b)
      /\ \A i \in 1 .. Len(nf) - 1 : R[i] = nf[i]
      /\ \A i \in 1 .. Len(nf) : R[i].root = nf[i].root /\ R[i].nSub = nf[i].nSub
  BY <1>2, <1>3, <1>4, RegisterKeeps
<1>8. /\ Apart(R) /\ \A w : TidyAt(nf, b, w) => TidyAt(R, b, w)
      /\ \A mm, S : HasStored(nf, mm, S) => HasStored(R, mm, S \ {x})
  BY <1>2, <1>3, <1>4, <1>5, RegisterTidy
<1>9. R[Len(nf)].above = nf[Len(nf)].above + 1
  <2>1. b[Len(nf)] \in Nat /\ nf # <<>> BY <1>2, FramesParts
  <2>. QED BY <1>2, <1>3, <2>1, RegisterParts
<1>. HIDE DEF R
<1>10. Tidy(R, m)
  <2>1. TidyAt(R, b, m.stk) BY <1>2, <1>5, <1>6, <1>8, TidyIs
  <2>2. m.bp = b[Len(R)] BY <1>6, <1>7
  <2>. QED BY <1>7, <2>1, <2>2, TidyIs
<1>11. Grown(nf, b, R, b, act.frames0)
  <2>1. Cut(nf, act.frames0) = nf /\ Cut(b, act.frames0) = b BY <1>2, CutHere
  <2>2. Cut(R, act.frames0) = R BY <1>2, <1>7, CutHere
  <2>3. Alike(nf, b, R, b, act.frames0)
    <3>1. act.frames0 <= Len(nf) /\ act.frames0 <= Len(R) BY <1>2, <1>7
    <3>. QED BY <1>2, <1>7, <3>1 DEF Alike
  <2>4. nf[Len(nf)].above \in Nat BY <1>2, FramesParts
  <2>5. R[act.frames0].above > nf[act.frames0].above BY <1>2, <1>9, <2>4
  <2>. QED BY <1>8, <2>1, <2>2, <2>3, <2>5 DEF Grown
<1>12. HasStored(R, m, v.before[act.id] \ {x}) BY <1>8
<1>. QED BY <1>2, <1>6, <1>7, <1>8, <1>10, <1>11, <1>12 DEF R

LEMMA EvalOperandWorth ==
    ASSUME Inv, NEW s, Shaped(tree, s), Book(s), NEW q, Scoped(tree, s, q), NEW b, Stands(q, b),
           NEW v, Stored(tree, s, q, v), Worth(q, v), EvalOperand
    PROVE  Worth(q, v)'
<1>. DEFINE a == Resume("right")
            f == IF node.op = "var" THEN registerVar(nf, node.names[1], act.id, m.bp) ELSE nf
<1>1. At(OneOperand, "body") /\ Gen(Kid(1), a, used, f, m) BY DEF EvalOperand
<1>2. /\ status = "run" /\ act.pc = "body" /\ node.op \in OneOperand
      /\ tree[act.id] = node /\ At({node.op}, "body") /\ act.id # 0
  BY <1>1, AtFacts DEF node, At
<1>3. /\ node.op # "call" /\ <<node.op, "body">> \notin FrameOpen /\ "body" # "enter"
      /\ <<node.op, "right">> \notin FrameOpen /\ "right" \in PCs
      /\ node.op \notin {"call", "while", "func", "logic", "tern", "compare"} \union TwoOperand
  BY <1>2 DEF FrameOpen, TwoOperand, PCs, OneOperand
<1>4. /\ Frames(nf, b) /\ nf \in Seq(Nameframe) /\ Len(nf) = act.frames0
      /\ act.frames0 \in Nat /\ act.frames0 # 0
  <2>1. node.op # "call" /\ <<node.op, "body">> \notin FrameOpen /\ "body" # "enter" BY <1>3
  <2>2. At({node.op}, "body") BY <1>2
  <2>p. Books(s, q, b) /\ PlainAt(node.op, "body") BY <2>1, <2>2 DEF Books, PlainAt
  <2>. QED BY <2>p, PlainPointAt
<1>5. used = act.used0 /\ act.used0 \in Nat
  <2>1. node.op # "call" /\ <<node.op, "body">> \notin FrameOpen /\ "body" # "enter" BY <1>3
  <2>2. used = InUse(tree, s, act) /\ act.used0 \in 0 .. 10
    <3>1. Books(s, q, b) /\ PlainAt(node.op, "body") BY <1>2, <2>1 DEF Books, PlainAt
    <3>. QED BY <3>1, PlainPointAt
  <2>. QED BY <1>2, <2>2 DEF InUse
<1>6. used \in Nat /\ act.used0 <= used BY <1>5
<1>8. /\ Apart(nf) /\ Tidy(nf, m) /\ act.ok /\ HasStored(nf, m, v.before[act.id])
  <2>1. StoredAt(tree, v, act) = v.before[act.id] BY <1>2 DEF StoredAt
  <2>. QED BY <1>2, <2>1, WorthFacts
<1>9. /\ f \in Seq(Nameframe) /\ Frames(f, b) /\ Len(f) = act.frames0
      /\ Grown(nf, b, f, b, act.frames0) /\ Apart(f) /\ Tidy(f, m)
      /\ HasStored(f, m, StartStored(tree, v, act.id, 1))
  <2>1. CASE node.op # "var"
    <3>1. f = nf BY <2>1
    <3>. HIDE DEF f
    <3>0. tree[act.id].op \notin {"call", "var", "func"} BY <1>2, <1>3, <2>1
    <3>2. StartStored(tree, v, act.id, 1) = v.before[act.id] BY <3>0, StoredStart
    <3>3. act.frames0 \in 1 .. Len(nf) BY <1>4
    <3>4. Grown(nf, b, nf, b, act.frames0) BY <1>4, <3>3, GrownSelf
    <3>. QED BY <1>4, <1>8, <3>1, <3>2, <3>4
  <2>2. CASE node.op = "var"
    <3>. DEFINE x == node.names[1]
    <3>1. f = registerVar(nf, x, act.id, m.bp) BY <2>2
    <3>2. At({"var"}, "body") BY <1>2, <2>2
    <3>3. StartStored(tree, v, act.id, 1) = v.before[act.id] \ {x}
      <4>1. tree[act.id].op = "var" BY <1>2, <2>2
      <4>2. StartStored(tree, v, act.id, 1) = v.before[act.id] \ {tree[act.id].names[1]}
        BY <4>1, StoredStart
      <4>. QED BY <1>2, <4>2
    <3>. HIDE DEF f, x
    <3>4. x = node.names[1] BY DEF x
    <3>. QED BY <1>8, <3>1, <3>2, <3>3, <3>4, RegisterWorth
  <2>. QED BY <2>1, <2>2
<1>10. /\ a \in Activation /\ a.id = act.id /\ a.pc = "right" /\ a.ok /\ a.r1 = r1
       /\ a.used0 = act.used0 /\ a.depth0 = act.depth0 /\ a.frames0 = act.frames0
  BY <1>2, <1>3, <1>8, ResumedAs
<1>. HIDE DEF a, f
<1>11. Operand(tree, a) = 1 /\ 1 \in Operands(tree, act.id)
  BY <1>2, <1>10, OperandAt, OperandSets
<1>12. HeldIn(tree, a) = {} BY <1>2, <1>3, <1>10 DEF HeldIn
<1>13. Restores(tree, q, v, f, a, m) BY <1>2, <1>3, <1>10 DEF Restores, Reopens
<1>14. <<node.op, a.pc>> # <<"logic", "right">> /\ <<node.op, a.pc>> \notin FrameOpen
  BY <1>3, <1>10
<1>. QED BY <1>1, <1>2, <1>3, <1>6, <1>9, <1>10, <1>11, <1>12, <1>13, <1>14, PlainGenWorth

-----------------------------------------------------------------------------
(* ENDL, LAND and LOR.                                                     *)

\* What is known where an operator goes on in the frame it was found in.
LEMMA PlainValues ==
    ASSUME Inv, NEW s, Shaped(tree, s), Book(s), NEW q, Scoped(tree, s, q), NEW b, Stands(q, b),
           NEW v, Stored(tree, s, q, v), Worth(q, v),
           NEW op, op # "call", NEW p, p # "enter", <<op, p>> \notin FrameOpen, At({op}, p)
    PROVE  /\ status = "run" /\ act.pc = p /\ act.id # 0 /\ tree[act.id].op = op
           /\ node = tree[act.id] /\ node.op = op
           /\ r1 = act.used0 /\ act.used0 \in 0 .. 10 /\ act.used0 \in Nat /\ act.used0 = s.dep[act.id]
           /\ NodeShaped(tree, s, act.id) /\ ActBook(tree, s, act) /\ used = InUse(tree, s, act)
           /\ Frames(nf, b) /\ nf \in Seq(Nameframe) /\ Len(nf) = act.frames0
           /\ act.frames0 \in 1 .. Len(nf) /\ Cut(nf, act.frames0) = nf
           /\ Grown(nf, b, nf, b, act.frames0) /\ Apart(nf) /\ Tidy(nf, m) /\ act.ok
           /\ HasStored(nf, m, StoredAt(tree, v, act)) /\ Outcome(tree, act, m)
           /\ Needs(tree, q, v, nf, act, m) /\ ~ FuncBody(tree, act)
           /\ Suits(tree, q, v, nf, acts, Len(acts) - 1, m) /\ m \in Machine
           /\ v.after[act.id] = Left(tree, q, v, act.id)
           /\ Matches(nf, ScopeAt(tree, q, act)) /\ act \in Activation
<1>1. At({op}, p) OBVIOUS
<1>2. /\ status = "run" /\ act.pc = p /\ act.id # 0 /\ tree[act.id].op = op
      /\ node = tree[act.id] /\ node.op = op
  <2>1. Books(s, q, b) /\ PlainAt(op, p) BY DEF Books, PlainAt
  <2>. QED BY <2>1, PlainPointAt
<1>3. /\ r1 = act.used0 /\ act.used0 \in 0 .. 10 /\ act.used0 = s.dep[act.id]
      /\ used = InUse(tree, s, act) /\ Matches(nf, ScopeAt(tree, q, act))
  <2>1. Books(s, q, b) /\ PlainAt(op, p) BY DEF Books, PlainAt
  <2>. QED BY <2>1, PlainPointAt
<1>4. /\ Frames(nf, b) /\ nf \in Seq(Nameframe) /\ Len(nf) = act.frames0 /\ m \in Machine
      /\ act.frames0 \in Nat /\ act.frames0 # 0
  <2>1. Books(s, q, b) /\ PlainAt(op, p) BY DEF Books, PlainAt
  <2>. QED BY <2>1, PlainPointAt
<1>5. act.frames0 \in 1 .. Len(nf) /\ act.used0 \in Nat BY <1>3, <1>4
<1>6. Grown(nf, b, nf, b, act.frames0) BY <1>4, <1>5, GrownSelf
<1>7. ~ FuncBody(tree, act) BY <1>2 DEF FuncBody, FrameOpen
<1>8. /\ Apart(nf) /\ Tidy(nf, m) /\ act.ok
      /\ HasStored(nf, m, StoredAt(tree, v, act)) /\ Outcome(tree, act, m)
      /\ Needs(tree, q, v, nf, act, m)
      /\ Suits(tree, q, v, nf, acts, Len(acts) - 1, m)
  BY <1>2, <1>7, WorthFacts
<1>9. NodeShaped(tree, s, act.id) /\ ActBook(tree, s, act)
  <2>1. act.id \in 1 .. Len(tree) /\ tree \in Programs BY <1>1, AtFacts
  <2>. QED BY <1>2, <2>1, ShapeFacts, BookFacts
<1>10. v.after[act.id] = Left(tree, q, v, act.id) BY <1>1, AtStored
<1>11. Cut(nf, act.frames0) = nf BY <1>4, CutAll
<1>12. act \in Activation BY <1>2, InvFacts
<1>. QED BY <1>2, <1>3, <1>4, <1>5, <1>6, <1>7, <1>8, <1>9, <1>10, <1>11, <1>12

LEMMA PlainValuesAt ==
    ASSUME NEW s, NEW q, NEW b, NEW v, AllBooks(s, q, b, v), NEW op, NEW p, PlainAt(op, p)
    PROVE  /\ status = "run" /\ act.pc = p /\ act.id # 0 /\ tree[act.id].op = op
           /\ node = tree[act.id] /\ node.op = op
           /\ r1 = act.used0 /\ act.used0 \in 0 .. 10 /\ act.used0 \in Nat /\ act.used0 = s.dep[act.id]
           /\ NodeShaped(tree, s, act.id) /\ ActBook(tree, s, act) /\ used = InUse(tree, s, act)
           /\ Frames(nf, b) /\ nf \in Seq(Nameframe) /\ Len(nf) = act.frames0
           /\ act.frames0 \in 1 .. Len(nf) /\ Cut(nf, act.frames0) = nf
           /\ Grown(nf, b, nf, b, act.frames0) /\ Apart(nf) /\ Tidy(nf, m) /\ act.ok
           /\ HasStored(nf, m, StoredAt(tree, v, act)) /\ Outcome(tree, act, m)
           /\ Needs(tree, q, v, nf, act, m) /\ ~ FuncBody(tree, act)
           /\ Suits(tree, q, v, nf, acts, Len(acts) - 1, m) /\ m \in Machine
           /\ v.after[act.id] = Left(tree, q, v, act.id)
           /\ Matches(nf, ScopeAt(tree, q, act)) /\ act \in Activation
BY PlainValues DEF AllBooks, Books, PlainAt

\* The result is put in r1 of a machine that is good for what lies below.
LEMMA MachineDone ==
    ASSUME Inv, NEW s, Shaped(tree, s), Book(s), NEW q, Scoped(tree, s, q), NEW b, Stands(q, b),
           NEW v, Stored(tree, s, q, v), Worth(q, v),
           NEW op, op # "call", NEW p, p # "enter", <<op, p>> \notin FrameOpen, At({op}, p),
           NEW x \in Machine, Suits(tree, q, v, nf, acts, Len(acts) - 1, x), Tidy(nf, x),
           HasStored(nf, x, v.after[act.id]),
           NEW u, Finish(u, nf, Result(x, r1, act.id, TRUE))
    PROVE  Worth(q, v)'
<1>. DEFINE mm == Result(x, r1, act.id, TRUE)
<1>1. /\ status = "run" /\ act.id # 0 /\ r1 = act.used0 /\ Frames(nf, b)
      /\ nf \in Seq(Nameframe) /\ Grown(nf, b, nf, b, act.frames0) /\ Apart(nf)
  <2>1. AllBooks(s, q, b, v) /\ PlainAt(op, p) BY DEF AllBooks, Books, PlainAt
  <2>. QED BY <2>1, PlainValuesAt
<1>2. mm = Mov(x, r1, Val(act.id)) BY DEF Result
<1>3. SameStack(x, mm) BY RegistersOnly
<1>. HIDE DEF mm
<1>4. mm.reg[r1] = Val(act.id) /\ \A i \in Regs : i # r1 => mm.reg[i] = x.reg[i]
  BY <1>1, <1>2, TakenIn, MovEffect
<1>5. Keeps(x, mm, act.used0, act.depth0)
  <2>1. \A r \in Regs : r < r1 => r # r1 BY <1>1, TakenRegs
  <2>2. KeepsWords(x, mm, act.depth0) BY <1>3, SameKeeps
  <2>. QED BY <1>1, <1>4, <2>1, <2>2 DEF Keeps
<1>6. Nested(tree, acts, Len(acts)) BY <1>1, WorthFacts
<1>7. Suits(tree, q, v, nf, acts, Len(acts) - 1, mm) BY <1>1, <1>5, <1>6, LowerKept
<1>8. Tidy(nf, mm) /\ HasStored(nf, mm, v.after[act.id]) BY <1>3, SameKeeps
<1>9. Finish(u, nf, mm) BY DEF mm
<1>. QED BY <1>1, <1>4, <1>7, <1>8, <1>9, DoneWorth

LEMMA EndlWorth ==
    ASSUME Inv, NEW s, Shaped(tree, s), Book(s), NEW q, Scoped(tree, s, q), NEW b, Stands(q, b),
           NEW v, Stored(tree, s, q, v), Worth(q, v), Endl
    PROVE  Worth(q, v)'
<1>0. /\ \A p : <<"endl", p>> \notin FrameOpen
      /\ "endl" # "call" /\ "body" # "enter" /\ "left" # "enter" /\ "right" # "enter"
      /\ {"left", "right"} \subseteq PCs \cap Waiting
  BY DEF FrameOpen, PCs, Waiting
<1>1. /\ Start("endl", act.used0, 1) = act.used0 /\ Start("endl", act.used0, 2) = 0
  BY DEF Start, TwoOperand
<1>2. CASE At({"endl"}, "body") /\ Gen(Kid(1), Resume("left"), used, nf, m)
  <2>. DEFINE a == Resume("left")
  <2>0. At({"endl"}, "body") /\ Gen(Kid(1), a, used, nf, m) BY <1>2
  <2>1. /\ status = "run" /\ act.pc = "body" /\ act.id # 0 /\ tree[act.id].op = "endl"
        /\ act.used0 \in Nat /\ used = act.used0 /\ node = tree[act.id]
    <3>1. status = "run" /\ act.pc = "body" /\ act.id # 0 /\ tree[act.id].op = "endl"
          /\ act.used0 \in Nat /\ used = InUse(tree, s, act) /\ node = tree[act.id]
      <4>1. AllBooks(s, q, b, v) /\ PlainAt("endl", "body") BY <1>0, <2>0 DEF AllBooks, Books, PlainAt
      <4>. QED BY <4>1, PlainValuesAt
    <3>. QED BY <3>1 DEF InUse
  <2>2. /\ Frames(nf, b) /\ nf \in Seq(Nameframe) /\ Len(nf) = act.frames0
        /\ Grown(nf, b, nf, b, act.frames0) /\ Apart(nf) /\ Tidy(nf, m) /\ act.ok
        /\ HasStored(nf, m, StoredAt(tree, v, act))
    <3>1. AllBooks(s, q, b, v) /\ PlainAt("endl", "body") BY <1>0, <2>0 DEF AllBooks, Books, PlainAt
    <3>. QED BY <3>1, PlainValuesAt
  <2>3. /\ a \in Activation /\ a.id = act.id /\ a.pc = "left" /\ a.ok
        /\ a.used0 = act.used0 /\ a.depth0 = act.depth0 /\ a.frames0 = act.frames0
    BY <1>0, <2>1, <2>2, ResumedAs
  <2>. HIDE DEF a
  <2>4. Operand(tree, a) = 1 /\ 1 \in Operands(tree, act.id)
    BY <2>1, <2>3, OperandAt, OperandSets
  <2>5. HeldIn(tree, a) = {} BY <2>3 DEF HeldIn
  <2>6. Restores(tree, q, v, nf, a, m) BY <2>3 DEF Restores, Reopens
  <2>7. HasStored(nf, m, StartStored(tree, v, act.id, 1))
    <3>1. StartStored(tree, v, act.id, 1) = v.before[act.id]
      <4>1. tree[act.id].op \notin {"call", "var", "func"} BY <2>1
      <4>. QED BY <4>1, StoredStart
    <3>. QED BY <2>1, <2>2, <3>1 DEF StoredAt
  <2>8. used \in Nat /\ act.used0 <= used BY <2>1
  <2>9. <<"endl", a.pc>> # <<"logic", "right">> /\ <<"endl", a.pc>> \notin FrameOpen BY <1>0
  <2>. QED BY <1>0, <2>0, <2>2, <2>3, <2>4, <2>5, <2>6, <2>7, <2>8, <2>9, PlainGenWorth
<1>3. CASE At({"endl"}, "left") /\ Kid(2) = 0 /\ Finish(used, nf, Result(m, r1, act.id, Holds(m, r1, Kid(1))))
  <2>0. At({"endl"}, "left") BY <1>3
  <2>1. /\ status = "run" /\ act.pc = "left" /\ act.id # 0 /\ tree[act.id].op = "endl"
        /\ r1 = act.used0
    <3>1. AllBooks(s, q, b, v) /\ PlainAt("endl", "left") BY <1>0, <2>0 DEF AllBooks, Books, PlainAt
    <3>. QED BY <3>1, PlainValuesAt
  <2>2. /\ HasStored(nf, m, StoredAt(tree, v, act)) /\ Outcome(tree, act, m) /\ m \in Machine
        /\ v.after[act.id] = Left(tree, q, v, act.id)
        /\ Suits(tree, q, v, nf, acts, Len(acts) - 1, m) /\ Tidy(nf, m)
    <3>1. HasStored(nf, m, StoredAt(tree, v, act)) /\ Outcome(tree, act, m) /\ m \in Machine /\ Tidy(nf, m)
      <4>1. AllBooks(s, q, b, v) /\ PlainAt("endl", "left") BY <1>0, <2>0 DEF AllBooks, Books, PlainAt
      <4>. QED BY <4>1, PlainValuesAt
    <3>2. v.after[act.id] = Left(tree, q, v, act.id)
      <4>1. At({"endl"}, "left") /\ "endl" # "call" /\ "left" # "enter" /\ <<"endl", "left">> \notin FrameOpen
        BY <1>0, <2>0
      <4>2. v.after[act.id] = Left(tree, q, v, act.id) BY <2>0, AtStored
      <4>. QED BY <4>2
    <3>3. Suits(tree, q, v, nf, acts, Len(acts) - 1, m)
      <4>1. AllBooks(s, q, b, v) /\ PlainAt("endl", "left") BY <1>0, <2>0 DEF AllBooks, Books, PlainAt
      <4>. QED BY <4>1, PlainValuesAt
    <3>. QED BY <3>1, <3>2, <3>3
  <2>3. Operand(tree, act) = 1 BY <2>1, OperandAt
  <2>4. Holds(m, r1, Kid(1))
    BY <1>0, <1>1, <2>1, <2>2, <2>3 DEF Outcome, Kid, KidOf, Holds
  <2>5. v.after[act.id] = StoredAt(tree, v, act)
    <3>1. v.after[act.id] = EndStored(tree, v, act.id, 2) BY <2>1, <2>2, StoredPath
    <3>2. EndStored(tree, v, act.id, 2) = StartStored(tree, v, act.id, 2)
      BY <1>3 DEF EndStored, Kid, KidOf
    <3>3. StartStored(tree, v, act.id, 2) = EndStored(tree, v, act.id, 1)
      <4>1. tree[act.id].op # "call" /\ 2 # 1 BY <2>1
      <4>. QED BY <4>1, StoredStart
    <3>4. StoredAt(tree, v, act) = EndStored(tree, v, act.id, 1) BY <2>1, <2>3 DEF StoredAt
    <3>. QED BY <3>1, <3>2, <3>3, <3>4
  <2>6. Finish(used, nf, Result(m, r1, act.id, TRUE))
    <3>1. Result(m, r1, act.id, Holds(m, r1, Kid(1))) = Result(m, r1, act.id, TRUE)
      BY <2>4 DEF Result
    <3>. QED BY <1>3, <3>1
  <2>. QED BY <1>0, <2>0, <2>2, <2>5, <2>6, MachineDone
<1>4. CASE At({"endl"}, "left") /\ Kid(2) # 0
           /\ IF Less(used, 1) = 0 THEN Gen(Kid(2), Resume("right"), 0, nf, m) ELSE Stop("assert")
  <2>. DEFINE a == Resume("right")
  <2>0. At({"endl"}, "left") BY <1>4
  <2>1. /\ status = "run" /\ act.pc = "left" /\ act.id # 0 /\ tree[act.id].op = "endl"
        /\ r1 = act.used0 /\ node = tree[act.id] /\ act.used0 = s.dep[act.id]
        /\ NodeShaped(tree, s, act.id)
    <3>1. AllBooks(s, q, b, v) /\ PlainAt("endl", "left") BY <1>0, <2>0 DEF AllBooks, Books, PlainAt
    <3>. QED BY <3>1, PlainValuesAt
  <2>2. /\ Frames(nf, b) /\ nf \in Seq(Nameframe) /\ Len(nf) = act.frames0
        /\ Grown(nf, b, nf, b, act.frames0) /\ Apart(nf) /\ Tidy(nf, m) /\ act.ok
        /\ HasStored(nf, m, StoredAt(tree, v, act))
    <3>1. AllBooks(s, q, b, v) /\ PlainAt("endl", "left") BY <1>0, <2>0 DEF AllBooks, Books, PlainAt
    <3>. QED BY <3>1, PlainValuesAt
  <2>3. act.used0 = 0
    BY <1>4, <2>1 DEF NodeShaped, Kid, KidOf
  <2>4. CASE Less(used, 1) # 0
    <3>1. Stop("assert") BY <1>4, <2>4
    <3>. QED BY <3>1, StopWorth
  <2>5. CASE Less(used, 1) = 0
    <3>0. Gen(Kid(2), a, 0, nf, m) BY <1>4, <2>5
    <3>1. /\ a \in Activation /\ a.id = act.id /\ a.pc = "right" /\ a.ok
          /\ a.used0 = act.used0 /\ a.depth0 = act.depth0 /\ a.frames0 = act.frames0
      BY <1>0, <2>1, <2>2, ResumedAs
    <3>. HIDE DEF a
    <3>2. Operand(tree, a) = 2 /\ 2 \in Operands(tree, act.id)
      <4>1. tree[act.id].op \notin OneOperand \union {"func"} BY <2>1 DEF OneOperand
      <4>. QED BY <2>1, <3>1, <4>1, OperandAt, OperandSets
    <3>3. HeldIn(tree, a) = {} BY <2>1, <3>1 DEF HeldIn, TwoOperand
    <3>4. Restores(tree, q, v, nf, a, m) BY <2>1, <3>1 DEF Restores, Reopens
    <3>5. HasStored(nf, m, StartStored(tree, v, act.id, 2))
      <4>1. StartStored(tree, v, act.id, 2) = EndStored(tree, v, act.id, 1)
        <5>1. tree[act.id].op # "call" /\ 2 # 1 BY <2>1
        <5>. QED BY <5>1, StoredStart
      <4>2. Operand(tree, act) = 1 BY <2>1, OperandAt
      <4>3. StoredAt(tree, v, act) = EndStored(tree, v, act.id, 1) BY <2>1, <4>2 DEF StoredAt
      <4>. QED BY <2>2, <4>1, <4>3
    <3>6. 0 \in Nat /\ act.used0 <= 0 BY <2>3
    <3>7. <<"endl", a.pc>> # <<"logic", "right">> /\ <<"endl", a.pc>> \notin FrameOpen BY <1>0
    <3>. QED BY <1>0, <2>0, <2>2, <3>0, <3>1, <3>2, <3>3, <3>4, <3>5, <3>6, <3>7, PlainGenWorth
  <2>. QED BY <2>4, <2>5
<1>5. CASE At({"endl"}, "right") /\ Finish(used, nf, Result(m, r1, act.id, Holds(m, r1, Kid(2))))
  <2>0. At({"endl"}, "right") BY <1>5
  <2>1. /\ status = "run" /\ act.pc = "right" /\ act.id # 0 /\ tree[act.id].op = "endl"
        /\ r1 = act.used0 /\ act.used0 = s.dep[act.id]
        /\ NodeShaped(tree, s, act.id) /\ ActBook(tree, s, act)
    <3>1. AllBooks(s, q, b, v) /\ PlainAt("endl", "right") BY <1>0, <2>0 DEF AllBooks, Books, PlainAt
    <3>. QED BY <3>1, PlainValuesAt
  <2>2. /\ HasStored(nf, m, StoredAt(tree, v, act)) /\ Outcome(tree, act, m) /\ m \in Machine
        /\ v.after[act.id] = Left(tree, q, v, act.id)
        /\ Suits(tree, q, v, nf, acts, Len(acts) - 1, m) /\ Tidy(nf, m)
    <3>1. HasStored(nf, m, StoredAt(tree, v, act)) /\ Outcome(tree, act, m) /\ m \in Machine /\ Tidy(nf, m)
      <4>1. AllBooks(s, q, b, v) /\ PlainAt("endl", "right") BY <1>0, <2>0 DEF AllBooks, Books, PlainAt
      <4>. QED BY <4>1, PlainValuesAt
    <3>2. v.after[act.id] = Left(tree, q, v, act.id)
      <4>1. At({"endl"}, "right") /\ "endl" # "call" /\ "right" # "enter" /\ <<"endl", "right">> \notin FrameOpen
        BY <1>0, <2>0
      <4>2. v.after[act.id] = Left(tree, q, v, act.id) BY <2>0, AtStored
      <4>. QED BY <4>2
    <3>3. Suits(tree, q, v, nf, acts, Len(acts) - 1, m)
      <4>1. AllBooks(s, q, b, v) /\ PlainAt("endl", "right") BY <1>0, <2>0 DEF AllBooks, Books, PlainAt
      <4>. QED BY <4>1, PlainValuesAt
    <3>. QED BY <3>1, <3>2, <3>3
  <2>3. Operand(tree, act) = 2
    <3>1. tree[act.id].op \notin OneOperand \union {"func"} BY <2>1 DEF OneOperand
    <3>. QED BY <2>1, <3>1, OperandAt
  <2>4. act.used0 = 0
    <3>1. Child(tree, act.id, 2) # 0 BY <2>1 DEF ActBook
    <3>. QED BY <2>1, <3>1 DEF NodeShaped
  <2>5. Holds(m, r1, Kid(2))
    BY <1>0, <1>1, <2>1, <2>2, <2>3, <2>4 DEF Outcome, Kid, KidOf, Holds
  <2>6. v.after[act.id] = StoredAt(tree, v, act)
    <3>1. v.after[act.id] = EndStored(tree, v, act.id, 2) BY <2>1, <2>2, StoredPath
    <3>4. StoredAt(tree, v, act) = EndStored(tree, v, act.id, 2) BY <2>1, <2>3 DEF StoredAt
    <3>. QED BY <3>1, <3>4
  <2>7. Finish(used, nf, Result(m, r1, act.id, TRUE))
    <3>1. Result(m, r1, act.id, Holds(m, r1, Kid(2))) = Result(m, r1, act.id, TRUE)
      BY <2>5 DEF Result
    <3>. QED BY <1>5, <3>1
  <2>. QED BY <1>0, <2>0, <2>2, <2>6, <2>7, MachineDone
<1>. QED BY <1>2, <1>3, <1>4, <1>5 DEF Endl

LEMMA LogicWorth ==
    ASSUME Inv, NEW s, Shaped(tree, s), Book(s), NEW q, Scoped(tree, s, q), NEW b, Stands(q, b),
           NEW v, Stored(tree, s, q, v), Worth(q, v), Logic
    PROVE  Worth(q, v)'
<1>0. /\ \A p : <<"logic", p>> \notin FrameOpen
      /\ "logic" # "call" /\ "body" # "enter" /\ "left" # "enter" /\ "right" # "enter"
      /\ {"left", "right"} \subseteq PCs \cap Waiting
  BY DEF FrameOpen, PCs, Waiting
<1>1. /\ Start("logic", act.used0, 1) = act.used0 /\ Start("logic", act.used0, 2) = act.used0
  BY DEF Start, TwoOperand
<1>2. CASE At({"logic"}, "body") /\ Gen(Kid(1), Resume("left"), used, nf, m)
  <2>. DEFINE a == Resume("left")
  <2>0. At({"logic"}, "body") /\ Gen(Kid(1), a, used, nf, m) BY <1>2
  <2>1. /\ status = "run" /\ act.pc = "body" /\ act.id # 0 /\ tree[act.id].op = "logic"
        /\ act.used0 \in Nat /\ used = act.used0 /\ node = tree[act.id]
    <3>1. status = "run" /\ act.pc = "body" /\ act.id # 0 /\ tree[act.id].op = "logic"
          /\ act.used0 \in Nat /\ used = InUse(tree, s, act) /\ node = tree[act.id]
      <4>1. AllBooks(s, q, b, v) /\ PlainAt("logic", "body") BY <1>0, <2>0 DEF AllBooks, Books, PlainAt
      <4>. QED BY <4>1, PlainValuesAt
    <3>. QED BY <3>1 DEF InUse
  <2>2. /\ Frames(nf, b) /\ nf \in Seq(Nameframe) /\ Len(nf) = act.frames0
        /\ Grown(nf, b, nf, b, act.frames0) /\ Apart(nf) /\ Tidy(nf, m) /\ act.ok
        /\ HasStored(nf, m, StoredAt(tree, v, act))
    <3>1. AllBooks(s, q, b, v) /\ PlainAt("logic", "body") BY <1>0, <2>0 DEF AllBooks, Books, PlainAt
    <3>. QED BY <3>1, PlainValuesAt
  <2>3. /\ a \in Activation /\ a.id = act.id /\ a.pc = "left" /\ a.ok
        /\ a.used0 = act.used0 /\ a.depth0 = act.depth0 /\ a.frames0 = act.frames0
    BY <1>0, <2>1, <2>2, ResumedAs
  <2>. HIDE DEF a
  <2>4. Operand(tree, a) = 1 /\ 1 \in Operands(tree, act.id)
    BY <2>1, <2>3, OperandAt, OperandSets
  <2>5. HeldIn(tree, a) = {} BY <2>3 DEF HeldIn
  <2>6. Restores(tree, q, v, nf, a, m) BY <2>3 DEF Restores, Reopens
  <2>7. HasStored(nf, m, StartStored(tree, v, act.id, 1))
    <3>1. StartStored(tree, v, act.id, 1) = v.before[act.id]
      <4>1. tree[act.id].op \notin {"call", "var", "func"} BY <2>1
      <4>. QED BY <4>1, StoredStart
    <3>. QED BY <2>1, <2>2, <3>1 DEF StoredAt
  <2>8. used \in Nat /\ act.used0 <= used BY <2>1
  <2>9. <<"logic", a.pc>> # <<"logic", "right">> /\ <<"logic", a.pc>> \notin FrameOpen BY <1>0, <2>3
  <2>. QED BY <1>0, <2>0, <2>2, <2>3, <2>4, <2>5, <2>6, <2>7, <2>8, <2>9, PlainGenWorth
<1>3. CASE At({"logic"}, "left")
           /\ Gen(Kid(2), Fork("right", Holds(m, r1, Kid(1)), m), Less(used, 1), nf, m)
  <2>. DEFINE a == Fork("right", TRUE, m)
  <2>0. At({"logic"}, "left") BY <1>3
  <2>1. /\ status = "run" /\ act.pc = "left" /\ act.id # 0 /\ tree[act.id].op = "logic"
        /\ r1 = act.used0 /\ node = tree[act.id] /\ node.op = "logic" /\ act.used0 \in 0 .. 10
    <3>1. AllBooks(s, q, b, v) /\ PlainAt("logic", "left") BY <1>0, <2>0 DEF AllBooks, Books, PlainAt
    <3>. QED BY <3>1, PlainValuesAt
  <2>2. /\ Frames(nf, b) /\ nf \in Seq(Nameframe) /\ Len(nf) = act.frames0
        /\ Grown(nf, b, nf, b, act.frames0) /\ Apart(nf) /\ Tidy(nf, m) /\ act.ok
        /\ HasStored(nf, m, StoredAt(tree, v, act)) /\ Outcome(tree, act, m) /\ m \in Machine
        /\ Cut(nf, act.frames0) = nf /\ Matches(nf, ScopeAt(tree, q, act))
    <3>1. AllBooks(s, q, b, v) /\ PlainAt("logic", "left") BY <1>0, <2>0 DEF AllBooks, Books, PlainAt
    <3>. QED BY <3>1, PlainValuesAt
  <2>3. Operand(tree, act) = 1 /\ 1 \in Operands(tree, act.id) BY <2>1, OperandAt, OperandSets
  <2>4. Holds(m, r1, Kid(1))
    BY <1>0, <1>1, <2>1, <2>2, <2>3 DEF Outcome, Kid, KidOf, Holds
  <2>5. Less(used, 1) = act.used0
    <3>1. <<node.op, 1>> \notin Uncounted BY <2>1 DEF Uncounted
    <3>2. used = act.used0 + 1
      <4>1. used = Start(node.op, act.used0, 1) + 1 BY <1>0, <2>0, <2>1, <2>3, <3>1, Counted
      <4>. QED BY <1>1, <2>1, <4>1
    <3>. QED BY <2>1, <3>2 DEF Less
  <2>6. Gen(Kid(2), a, act.used0, nf, m)
    <3>1. Fork("right", Holds(m, r1, Kid(1)), m) = a BY <2>4 DEF Fork
    <3>. HIDE DEF a
    <3>. QED BY <1>3, <2>5, <3>1
  <2>7. /\ a \in Activation /\ a.id = act.id /\ a.pc = "right" /\ a.ok /\ a.save = m
        /\ a.used0 = act.used0 /\ a.depth0 = act.depth0 /\ a.frames0 = act.frames0
    BY <1>0, <2>1, <2>2, ResumedAs
  <2>. HIDE DEF a
  <2>8. Operand(tree, a) = 2 /\ 2 \in Operands(tree, act.id)
    <3>1. tree[act.id].op \notin OneOperand \union {"func"} BY <2>1 DEF OneOperand
    <3>. QED BY <2>1, <2>7, <3>1, OperandAt, OperandSets
  <2>9. HeldIn(tree, a) = {} BY <2>1, <2>7 DEF HeldIn, TwoOperand
  <2>10. HasStored(nf, m, EndStored(tree, v, act.id, 1))
    <3>1. StoredAt(tree, v, act) = EndStored(tree, v, act.id, 1) BY <2>1, <2>3 DEF StoredAt
    <3>. QED BY <2>2, <3>1
  <2>11. HasStored(nf, m, StartStored(tree, v, act.id, 2))
    <3>1. StartStored(tree, v, act.id, 2) = EndStored(tree, v, act.id, 1)
      <4>1. tree[act.id].op # "call" /\ 2 # 1 BY <2>1
      <4>. QED BY <4>1, StoredStart
    <3>. QED BY <2>10, <3>1
  <2>12. nf[Len(nf)].above = EndScope(tree, q, act.id, 1).above /\ nf[Len(nf)].above \in Nat
    <3>1. ScopeAt(tree, q, act) = EndScope(tree, q, act.id, 1) BY <2>1, <2>3 DEF ScopeAt
    <3>. QED BY <2>2, <3>1, FramesParts DEF Matches
  <2>13. Restores(tree, q, v, nf, a, m)
    <3>1. <<tree[a.id].op, a.pc>> \notin Reopens BY <2>1, <2>7 DEF Reopens
    <3>2. nf[a.frames0].above >= EndScope(tree, q, a.id, 1).above BY <2>2, <2>7, <2>12
    <3>3. HasStored(Cut(nf, a.frames0), m, EndStored(tree, v, a.id, 1)) BY <2>2, <2>7, <2>10
    <3>. QED BY <3>1, <3>2, <3>3 DEF Restores
  <2>14. act.used0 \in Nat /\ act.used0 <= act.used0 BY <2>1
  <2>15. <<"logic", a.pc>> \notin FrameOpen BY <1>0
  <2>. QED BY <1>0, <2>0, <2>2, <2>6, <2>7, <2>8, <2>9, <2>11, <2>13, <2>14, <2>15, PlainGenWorth
<1>4. CASE /\ At({"logic"}, "right")
           /\ \E mm \in {act.save, m} :
                 Finish(used, nf, Result(mm, r1, act.id, act.ok /\ Holds(m, r1, Kid(2))))
  <2>0. At({"logic"}, "right") BY <1>4
  <2>1. /\ status = "run" /\ act.pc = "right" /\ act.id # 0 /\ tree[act.id].op = "logic"
        /\ r1 = act.used0 /\ node = tree[act.id] /\ act.ok /\ Cut(nf, act.frames0) = nf
        /\ act \in Activation /\ Len(nf) = act.frames0 /\ ~ FuncBody(tree, act)
    <3>1. AllBooks(s, q, b, v) /\ PlainAt("logic", "right") BY <1>0, <2>0 DEF AllBooks, Books, PlainAt
    <3>. QED BY <3>1, PlainValuesAt
  <2>2. /\ Outcome(tree, act, m) /\ m \in Machine /\ Needs(tree, q, v, nf, act, m)
        /\ v.after[act.id] = Left(tree, q, v, act.id) /\ Matches(nf, ScopeAt(tree, q, act))
        /\ Suits(tree, q, v, nf, acts, Len(acts) - 1, m) /\ Tidy(nf, m)
    <3>1. Outcome(tree, act, m) /\ m \in Machine /\ Needs(tree, q, v, nf, act, m) /\ Tidy(nf, m)
      <4>1. AllBooks(s, q, b, v) /\ PlainAt("logic", "right") BY <1>0, <2>0 DEF AllBooks, Books, PlainAt
      <4>. QED BY <4>1, PlainValuesAt
    <3>2. v.after[act.id] = Left(tree, q, v, act.id) /\ Matches(nf, ScopeAt(tree, q, act))
      <4>1. At({"logic"}, "right") /\ "logic" # "call" /\ "right" # "enter" /\ <<"logic", "right">> \notin FrameOpen
        BY <1>0, <2>0
      <4>2. v.after[act.id] = Left(tree, q, v, act.id) BY <2>0, AtStored
      <4>3. Matches(nf, ScopeAt(tree, q, act))
        <5>1. AllBooks(s, q, b, v) /\ PlainAt("logic", "right") BY <4>1 DEF AllBooks, Books, PlainAt
        <5>. QED BY <5>1, PlainValuesAt
      <4>. QED BY <4>2, <4>3
    <3>3. Suits(tree, q, v, nf, acts, Len(acts) - 1, m)
      <4>1. AllBooks(s, q, b, v) /\ PlainAt("logic", "right") BY <1>0, <2>0 DEF AllBooks, Books, PlainAt
      <4>. QED BY <4>1, PlainValuesAt
    <3>. QED BY <3>1, <3>2, <3>3
  <2>3. Operand(tree, act) = 2
    <3>1. tree[act.id].op \notin OneOperand \union {"func"} BY <2>1 DEF OneOperand
    <3>. QED BY <2>1, <3>1, OperandAt
  <2>4. Holds(m, r1, Kid(2))
    BY <1>0, <1>1, <2>1, <2>2, <2>3 DEF Outcome, Kid, KidOf, Holds
  <2>5. PICK mm \in {act.save, m} : Finish(used, nf, Result(mm, r1, act.id, act.ok /\ Holds(m, r1, Kid(2))))
    BY <1>4
  <2>6. Finish(used, nf, Result(mm, r1, act.id, TRUE))
    <3>1. Result(mm, r1, act.id, act.ok /\ Holds(m, r1, Kid(2))) = Result(mm, r1, act.id, TRUE)
      BY <2>1, <2>4 DEF Result
    <3>. QED BY <2>5, <3>1
  <2>7. /\ mm \in Machine /\ Suits(tree, q, v, nf, acts, Len(acts) - 1, mm) /\ Tidy(nf, mm)
        /\ Restores(tree, q, v, nf, act, mm)
    <3>1. CASE mm = m
      <4>1. Restores(tree, q, v, nf, act, m) BY <2>1, <2>2 DEF Needs
      <4>. QED BY <2>2, <3>1, <4>1
    <3>2. CASE mm = act.save
      <4>1. Saving(tree, act) BY <2>1 DEF Saving, SavedBefore
      <4>2. /\ Suits(tree, q, v, nf, acts, Len(acts) - 1, act.save)
            /\ Restores(tree, q, v, nf, act, act.save)
            /\ Tidy(Cut(nf, LevelOf(tree, act)), act.save)
        BY <2>1, <4>1, WorthFacts
      <4>3. LevelOf(tree, act) = act.frames0
        <5>1. act.frames0 \in Nat BY <2>1 DEF Activation
        <5>. QED BY <2>1, <5>1 DEF LevelOf
      <4>4. act.save \in Machine BY <2>1 DEF Activation
      <4>. QED BY <2>1, <3>2, <4>2, <4>3, <4>4
    <3>. QED BY <3>1, <3>2
  <2>8. HasStored(nf, mm, v.after[act.id])
    <3>1. v.after[act.id] = IF EndScope(tree, q, act.id, 2) = EndScope(tree, q, act.id, 1)
                              THEN EndStored(tree, v, act.id, 1) ELSE {}
      <4>1. tree[act.id].op = "logic" BY <2>1
      <4>2. Left(tree, q, v, act.id) = IF EndScope(tree, q, act.id, 2) = EndScope(tree, q, act.id, 1)
                                         THEN EndStored(tree, v, act.id, 1) ELSE {}
        BY <4>1, StoredPath
      <4>. QED BY <2>2, <4>2
    <3>2. CASE EndScope(tree, q, act.id, 2) # EndScope(tree, q, act.id, 1)
      <4>1. v.after[act.id] = {} BY <3>1, <3>2
      <4>. QED BY <4>1 DEF HasStored
    <3>3. CASE EndScope(tree, q, act.id, 2) = EndScope(tree, q, act.id, 1)
      <4>1. ScopeAt(tree, q, act) = EndScope(tree, q, act.id, 2) BY <2>1, <2>3 DEF ScopeAt
      <4>2. nf[act.frames0].above = EndScope(tree, q, act.id, 1).above
        BY <2>1, <2>2, <3>3, <4>1 DEF Matches
      <4>3. HasStored(Cut(nf, act.frames0), mm, EndStored(tree, v, act.id, 1))
        BY <2>1, <2>7, <4>2 DEF Restores
      <4>. QED BY <2>1, <3>1, <3>3, <4>3
    <3>. QED BY <3>2, <3>3
  <2>. QED BY <1>0, <2>0, <2>6, <2>7, <2>8, MachineDone
<1>. QED BY <1>2, <1>3, <1>4 DEF Logic

-----------------------------------------------------------------------------
(* Control flow with frames: ?: and while.                                 *)

LEMMA SameFramesTwice ==
    ASSUME NEW f, NEW g, NEW h, SameFrames(f, g), SameFrames(g, h)
    PROVE  SameFrames(f, h)
BY DEF SameFrames

\* Machines see the same in frames that differ in their counters only.
LEMMA SameTidy ==
    ASSUME NEW f \in Seq(Nameframe), NEW g \in Seq(Nameframe), SameFrames(f, g),
           NEW c, Frames(f, c), Frames(g, c), NEW mm, mm.bp = c[Len(f)], Tidy(f, mm)
    PROVE  Tidy(g, mm)
<1>1. Len(f) = Len(g) BY DEF SameFrames
<1>2. TidyAt(f, c, mm.stk) BY TidyIs
<1>3. TidyAt(g, c, mm.stk) BY <1>2, SameFramesKeep
<1>. QED BY <1>1, <1>3, TidyIs

\* A frame is opened and codeGen is called in it.
LEMMA InFrameWorth ==
    ASSUME Inv, NEW s, Book(s), status = "run", NEW q, Scoped(tree, s, q), NEW b, Stands(q, b),
           NEW v, Worth(q, v),
           NEW a \in Activation, a.id = act.id, a.id # 0, a.used0 = act.used0,
           a.frames0 = act.frames0, a.depth0 = act.depth0, a.ok,
           tree[a.id].op \in {"tern", "while"}, a.pc # "right",
           NEW f \in Seq(Nameframe), NEW c, Frames(f, c), Len(f) = act.frames0,
           Alike(nf, b, f, c, act.frames0), SameFrames(Cut(nf, act.frames0), f), Apart(f),
           NEW mm \in Machine, Fits(f, c, mm, act.depth0), Counts(f, c, act.depth0),
           Tidy(f, mm), Suits(tree, q, v, nf, acts, Len(acts) - 1, mm),
           HasStored(f, mm, StartStored(tree, v, a.id, Operand(tree, a))),
           <<tree[a.id].op, a.pc>> \in Reopens => HasStored(f, mm, v.after[a.id]),
           Saving(tree, a) =>
               /\ Suits(tree, q, v, nf, acts, Len(acts) - 1, a.save)
               /\ HasStored(f, a.save, v.after[a.id])
               /\ Tidy(f, a.save) /\ Fits(f, c, a.save, act.depth0)
               /\ <<tree[a.id].op, a.pc>> = <<"tern", "else">> => a.save.reg[a.r1] = Val(a.id),
           NEW o \in 1 .. Len(tree),
           NEW k, k # 0 => v.before[k] = StartStored(tree, v, a.id, Operand(tree, a)),
           NEW u \in Nat, act.used0 <= u, GenInFrame(k, u, o, a, 0, f, mm)
    PROVE  Worth(q, v)'
<1>. DEFINE n == Len(f)  w == frameWords(tree, o)  h == act.depth0
            O == OpenFrame(f, 0, w)  C == Append(c, h + 1)  mn == EnterFrame(mm, 0, w)
<1>1. tree \in Programs /\ Len(tree) \in Nat /\ h \in Nat /\ act.frames0 \in Nat /\ act.frames0 # 0
  <2>1. Types /\ act.frames0 \in Nat \ {0} BY InvFacts
  <2>2. tree \in Programs BY <2>1 DEF Types
  <2>. QED BY <2>1, <2>2, TreeFacts, StandsFacts
<1>2. w \in Nat BY <1>1, FrameWordsType
<1>3. Gen(k, a, u, O, mn)
  <2>1. ~ (o = 0) /\ ~ (0 > regStackSz) BY <1>1 DEF regStackSz
  <2>. QED BY <2>1 DEF GenInFrame
<1>. HIDE DEF w
<1>4. /\ O \in Seq(Nameframe) /\ Frames(O, C) /\ Alike(f, c, O, C, n)
      /\ Cut(O, n) = Pushed(f, 1) /\ Cut(C, n) = c /\ C[n + 1] = h + 1
      /\ Len(O) = n + 1
  <2>1. OpenedOn(f, c, O, C, mn, h, w)
    <3>. HIDE DEF h
    <3>1. h \in Nat /\ Fits(f, c, mm, h) /\ Counts(f, c, h) BY <1>1 DEF h
    <3>. QED BY <1>2, <3>1, OpenKeeps
  <2>. HIDE DEF h, O, C, mn
  <2>. QED BY <2>1 DEF OpenedOn
<1>5. TidyAt(f, c, mm.stk)
  <2>1. mm.bp = c[n] BY DEF Fits
  <2>. QED BY <2>1, TidyIs
<1>6. /\ Apart(O) /\ TidyAt(O, C, mn.stk) /\ \A S : HasStored(f, mm, S) => HasStored(O, mn, S)
      /\ KeepsWords(mm, mn, h) /\ mn.reg = mm.reg
  <2>. HIDE DEF h
  <2>1. h \in Nat /\ Fits(f, c, mm, h) /\ Counts(f, c, h) BY <1>1 DEF h
  <2>. QED BY <1>2, <1>5, <2>1, OpenTidy
<1>7. mn \in Machine /\ mn.bp = Len(mm.stk) + 1 /\ Len(mn.stk) = Len(mm.stk) + 1 + w
  BY <1>2, EnterFrameParts
<1>8. Len(mm.stk) = h BY DEF Fits
<1>9. Tidy(O, mn)
  <2>1. mn.bp = C[Len(O)]
    <3>. QED BY <1>4, <1>7, <1>8
  <2>. HIDE DEF O, C, mn
  <2>. QED BY <1>4, <1>6, <2>1, TidyIs
<1>10. h <= Len(mn.stk) /\ Len(mn.stk) \in Nat
  <2>1. Len(mn.stk) = h + 1 + w BY <1>7, <1>8
  <2>. HIDE DEF h, mn
  <2>. QED BY <1>1, <1>2, <2>1
<1>. HIDE DEF O, C, mn
\* The frames below the new one.
<1>11. /\ Pushed(f, 1) \in Seq(Nameframe) /\ Frames(Pushed(f, 1), c) /\ SameFrames(f, Pushed(f, 1))
       /\ Len(Pushed(f, 1)) = n
  <2>1. 1 \in Int /\ f # <<>> BY FramesParts
  <2>. QED BY <2>1, PushedKeeps, SamePushed
<1>12. Frames(nf, b) /\ nf \in Seq(Nameframe) BY StandsFacts
<1>13. Grown(nf, b, O, C, act.frames0)
  <2>1. Alike(nf, b, O, C, act.frames0) BY <1>4, AlikeTwice
  <2>2. SameFrames(Cut(nf, act.frames0), Cut(O, act.frames0)) BY <1>4, <1>11, SameFramesTwice
  <2>. QED BY <1>1, <1>4, <1>12, <2>1, <2>2, GrownSame
<1>14. \A x, S : HasStored(f, x, S) => HasStored(Cut(O, a.frames0), x, S)
  BY <1>4, <1>11, SameFramesKeep
<1>15. Needs(tree, q, v, O, a, mn)
  <2>1. HeldIn(tree, a) = {} BY DEF HeldIn
  <2>2. ~ InCall(tree, a) /\ ~ FuncBody(tree, a) BY DEF InCall, FuncBody
  <2>3. Restores(tree, q, v, O, a, mn)
    <3>1. ASSUME <<tree[a.id].op, a.pc>> \in Reopens
          PROVE  HasStored(Cut(O, a.frames0), mn, v.after[a.id])
      <4>1. HasStored(f, mm, v.after[a.id]) BY <3>1
      <4>2. c[Len(f)] + f[Len(f)].nSub <= h
        <5>1. h >= c[Len(f)] + f[Len(f)].nSub BY CountsAbove
        <5>2. c[Len(f)] \in Nat /\ f[Len(f)].nSub \in Nat BY FramesParts
        <5>. DEFINE z == c[Len(f)] + f[Len(f)].nSub
        <5>3. z \in Nat
          <6>. DEFINE x == c[Len(f)]  y == f[Len(f)].nSub
          <6>. HIDE DEF x, y
          <6>1. x \in Nat /\ y \in Nat => x + y \in Nat OBVIOUS
          <6>. QED BY <5>2, <6>1 DEF x, y
        <5>. HIDE DEF z, h
        <5>4. z <= h BY <1>1, <5>1, <5>3 DEF z
        <5>. QED BY <5>4 DEF z
      <4>3. HasStored(f, mn, v.after[a.id])
        <5>. HIDE DEF h
        <5>. QED BY <1>1, <1>6, <4>1, <4>2, StoredStill
      <4>. QED BY <1>14, <4>3
    <3>2. <<tree[a.id].op, a.pc>> # <<"logic", "right">> OBVIOUS
    <3>. QED BY <3>1, <3>2 DEF Restores
  <2>. QED BY <2>1, <2>2, <2>3 DEF Needs
<1>16. Suits(tree, q, v, nf, acts, Len(acts) - 1, mn)
  <2>1. Keeps(mm, mn, act.used0, act.depth0) BY <1>6 DEF Keeps
  <2>2. Nested(tree, acts, Len(acts)) BY WorthFacts
  <2>. QED BY <2>1, <2>2, LowerKept
<1>17. ASSUME Saving(tree, a)
       PROVE  /\ Suits(tree, q, v, nf, acts, Len(acts) - 1, a.save)
              /\ Restores(tree, q, v, O, a, a.save)
              /\ Tidy(Cut(O, LevelOf(tree, a)), a.save)
              /\ <<tree[a.id].op, a.pc>> = <<"tern", "else">> => a.save.reg[a.r1] = Val(a.id)
  <2>1. tree[a.id].op # "while" BY <1>17 DEF Saving, SavedBefore
  <2>2. LevelOf(tree, a) = n BY <1>1, <2>1 DEF LevelOf
  <2>3. Restores(tree, q, v, O, a, a.save) BY <1>14, <1>17 DEF Restores
  <2>4. Tidy(Pushed(f, 1), a.save)
    <3>1. a.save.bp = c[n] BY <1>17 DEF Fits
    <3>. QED BY <1>11, <1>17, <3>1, SameTidy
  <2>. QED BY <1>4, <1>17, <2>2, <2>3, <2>4
<1>18. Ground(q, v, Replaced(a), O, mn)
  BY <1>4, <1>6, <1>9, <1>13, <1>15, <1>16, <1>17, TopGround
<1>19. Within(tree, a, NewAct(k, u, mn, O))
  <2>1. HeldIn(tree, a) = {} /\ ~ InCall(tree, a) /\ ~ FuncBody(tree, a)
    BY DEF HeldIn, InCall, FuncBody
  <2>. QED BY <1>10, <2>1 DEF Within, NewAct
<1>20. HasStored(O, mn, StartStored(tree, v, a.id, Operand(tree, a))) BY <1>6
<1>. QED BY <1>3, <1>10, <1>18, <1>19, <1>20, GenWorth

\* Returning rsp to rbp keeps the registers and the words below rbp.
LEMMA UnwindBelow ==
    ASSUME NEW mm \in Machine, mm.bp >= 1, mm.bp <= Len(mm.stk)
    PROVE  /\ Unwind(mm).reg = mm.reg /\ Len(Unwind(mm).stk) = mm.bp - 1
           /\ \A i \in 1 .. mm.bp - 1 : Unwind(mm).stk[i] = mm.stk[i]
<1>. DEFINE saved == IF mm.bp \in 1 .. Len(mm.stk) THEN mm.stk[mm.bp] ELSE Junk
            k == IF mm.bp > 0 THEN mm.bp - 1 ELSE 0
            s == [i \in 1 .. k |-> IF i <= Len(mm.stk) THEN mm.stk[i] ELSE Junk]
            p == IF saved[1] = "bp" THEN saved[2] ELSE 0
<1>1. mm.stk \in Seq(Token) /\ mm.bp \in Nat /\ Len(mm.stk) \in Nat BY DEF Machine
<1>2. k = mm.bp - 1 /\ k \in Nat /\ \A i \in 1 .. k : i <= Len(mm.stk) /\ i \in 1 .. Len(mm.stk)
  BY <1>1
<1>3. s \in [1 .. k -> Token] /\ \A i \in 1 .. k : s[i] = mm.stk[i]
  <2>. HIDE DEF k
  <2>. QED BY <1>1, <1>2
<1>4. Unwind(mm).stk = s /\ Unwind(mm).reg = mm.reg
  <2>1. Unwind(mm) = [mm EXCEPT !.stk = s, !.bp = p] BY DEF Unwind
  <2>. HIDE DEF s, p
  <2>. QED BY <2>1 DEF Machine
<1>. HIDE DEF s, k
<1>5. Len(s) = k BY <1>2, <1>3, Table
<1>. QED BY <1>2, <1>3, <1>4, <1>5

\* What closing a frame keeps: the names and words below it, and on leaving it
\* the registers.
LEMMA CloseWorth ==
    ASSUME Inv, status = "run", NEW q, NEW b, Stands(q, b), opened(tree, act) = 1,
           NEW v, Worth(q, v)
    PROVE  LET g == CloseFrame(nf)
               c == Cut(b, act.frames0)
           IN  /\ Grown(nf, b, g, c, act.frames0) /\ Apart(g) /\ SameFrames(Cut(nf, act.frames0), g)
               /\ \A x, S : HasStored(Cut(nf, act.frames0), x, S) <=> HasStored(g, x, S)
               /\ \A x : x.bp = c[act.frames0] /\ Tidy(Cut(nf, act.frames0), x) => Tidy(g, x)
               /\ tree[act.id].op # "func" =>
                     \A mm \in Machine : \A h : Fits(nf, b, mm, h) /\ Tidy(nf, mm) =>
                        /\ Tidy(g, Unwind(mm)) /\ Keeps(mm, Unwind(mm), act.used0, act.depth0)
                        /\ Unwind(mm).reg = mm.reg
<1>. DEFINE n == act.frames0  p == Cut(nf, n)  g == CloseFrame(nf)  c == Cut(b, n)
<1>1. /\ g \in Seq(Nameframe) /\ Len(g) = n /\ Frames(g, c)
      /\ Counts(g, c, act.depth0) /\ Alike(nf, b, g, c, n)
      /\ tree[act.id].op # "func" =>
            \A mm \in Machine : \A h : Fits(nf, b, mm, h) => Fits(g, c, Unwind(mm), act.depth0)
  BY ClosePoint
<1>2. /\ n \in Nat /\ n # 0 /\ Len(nf) = n + 1 /\ Frames(nf, b) /\ nf \in Seq(Nameframe)
      /\ ActStack(tree, q, nf, b, act) /\ act.depth0 \in Nat
  BY InvFacts, StandsFacts
<1>3. n \in 1 .. Len(nf) /\ n \in 0 .. Len(nf) /\ Len(nf) - 1 = n BY <1>2
<1>4. p \in Seq(Nameframe) /\ Len(p) = n /\ Frames(p, c) /\ p # <<>>
  <2>. HIDE DEF n
  <2>1. p \in Seq(Nameframe) /\ Len(p) = n /\ Frames(p, c) BY <1>2, <1>3, FramesCut
  <2>. QED BY <2>1, FramesParts
<1>5. g = Pushed(p, -1) BY <1>3 DEF CloseFrame, Cut
<1>6. SameFrames(p, g)
  <2>1. -1 \in Int OBVIOUS
  <2>. HIDE DEF p, g
  <2>. QED BY <1>4, <1>5, <2>1, SamePushed
<1>7. Cut(g, n) = g /\ n <= Len(g)
  <2>. HIDE DEF g, n
  <2>. QED BY <1>1, <1>2, CutAll
<1>8. Grown(nf, b, g, c, n)
  <2>1. SameFrames(Cut(nf, n), Cut(g, n)) BY <1>6, <1>7
  <2>. HIDE DEF g, n, c
  <2>. QED BY <1>1, <1>2, <2>1, GrownSame
<1>9. Apart(nf) /\ Tidy(nf, m) BY WorthFacts
<1>. HIDE DEF p, g, n, c
<1>10. Apart(g)
  <2>1. Apart(p) BY <1>2, <1>3, <1>9, CutApart DEF p
  <2>. QED BY <1>1, <1>4, <1>6, <2>1, SameFramesKeep
<1>11. \A x, S : HasStored(p, x, S) <=> HasStored(g, x, S) BY <1>1, <1>4, <1>6, SameFramesKeep
<1>12. ASSUME NEW x, x.bp = c[n], Tidy(p, x) PROVE Tidy(g, x)
  BY <1>1, <1>4, <1>6, <1>12, SameTidy
<1>13. ASSUME tree[act.id].op # "func", NEW mm \in Machine, NEW h, Fits(nf, b, mm, h), Tidy(nf, mm)
       PROVE  /\ Tidy(g, Unwind(mm)) /\ Keeps(mm, Unwind(mm), act.used0, act.depth0)
              /\ Unwind(mm).reg = mm.reg
  <2>1. Fits(g, c, Unwind(mm), act.depth0) BY <1>1, <1>13
  <2>2. mm.bp = b[n + 1] /\ mm.bp \in Nat /\ mm.bp >= 1 /\ mm.bp <= Len(mm.stk)
    <3>1. /\ mm.bp = b[Len(nf)] /\ Len(mm.stk) = h /\ b[Len(nf)] <= h
      BY <1>13 DEF Fits
    <3>2. b[Len(nf)] \in Nat /\ b[Len(nf)] >= 1 BY <1>2, FramesParts
    <3>. QED BY <1>2, <3>1, <3>2
  <2>3. /\ Unwind(mm).reg = mm.reg /\ Len(Unwind(mm).stk) = mm.bp - 1
        /\ \A i \in 1 .. mm.bp - 1 : Unwind(mm).stk[i] = mm.stk[i]
    BY <1>13, <2>2, UnwindBelow
  <2>. DEFINE y == Unwind(mm)
  <2>. HIDE DEF y
  <2>4. act.depth0 = mm.bp - 1 BY <2>1, <2>3 DEF Fits, y
  <2>5. KeepsWords(mm, y, act.depth0) BY <2>3, <2>4 DEF KeepsWords, y
  <2>6. Keeps(mm, y, act.used0, act.depth0) BY <2>3, <2>5 DEF Keeps, y
  <2>7. TidyAt(p, c, mm.stk)
    <3>1. \A i \in n + 1 .. Len(nf) : ~ nf[i].root
      <4>1. ~ nf[n + 1].root
        <5>1. OpenedAt(tree, q, nf, b, act) BY <1>2 DEF ActStack
        <5>. QED BY <1>13, <5>1 DEF OpenedAt, n
      <4>. QED BY <1>2, <4>1
    <3>2. TidyAt(nf, b, mm.stk) BY <1>2, <1>13, <2>2, TidyIs
    <3>3. n \in 1 .. Len(nf) BY <1>3
    <3>. QED BY <1>2, <3>1, <3>2, <3>3, CutTidy DEF p, c
  <2>8. TidyAt(g, c, mm.stk) BY <1>1, <1>4, <1>6, <2>7, SameFramesKeep
  <2>9. \A d \in 1 .. c[Len(g)] + g[Len(g)].nSub : y.stk[d] = mm.stk[d]
    <3>1. c[Len(g)] \in Nat /\ g[Len(g)].nSub \in Nat BY <1>1, FramesParts
    <3>2. act.depth0 >= c[Len(g)] + g[Len(g)].nSub BY <1>1, CountsAbove
    <3>. QED BY <1>2, <2>3, <2>4, <3>1, <3>2 DEF y
  <2>10. TidyAt(g, c, y.stk) BY <1>1, <2>8, <2>9, TidyWords
  <2>11. Tidy(g, y)
    <3>1. y.bp = c[Len(g)] BY <2>1 DEF Fits, y
    <3>. QED BY <1>1, <2>10, <3>1, TidyIs
  <2>. QED BY <2>3, <2>6, <2>11 DEF y
<1>. QED BY <1>8, <1>6, <1>10, <1>11, <1>12, <1>13 DEF p, g, n, c

\* The end of a node that has had a frame of its own.
LEMMA ClosedDone ==
    ASSUME Inv, NEW s, Book(s), status = "run", NEW q, Scoped(tree, s, q), NEW b, Stands(q, b),
           NEW v, Worth(q, v), opened(tree, act) = 1, r1 = act.used0,
           NEW x \in Machine, Suits(tree, q, v, nf, acts, Len(acts) - 1, x),
           Tidy(CloseFrame(nf), x), HasStored(CloseFrame(nf), x, v.after[act.id]),
           NEW u, Finish(u, CloseFrame(nf), Result(x, r1, act.id, TRUE))
    PROVE  Worth(q, v)'
<1>. DEFINE mm == Result(x, r1, act.id, TRUE)  g == CloseFrame(nf)  c == Cut(b, act.frames0)
<1>1. /\ act.id # 0 /\ g \in Seq(Nameframe) /\ Frames(g, c)
      /\ Grown(nf, b, g, c, act.frames0) /\ Apart(g)
  <2>1. act.id # 0 BY DEF opened
  <2>. QED BY <2>1, ClosePoint, CloseWorth
<1>2. mm = Mov(x, r1, Val(act.id)) BY DEF Result
<1>3. SameStack(x, mm) BY RegistersOnly
<1>9. Finish(u, g, mm) BY DEF mm
<1>. HIDE DEF mm, g, c
<1>4. mm.reg[r1] = Val(act.id) /\ \A i \in Regs : i # r1 => mm.reg[i] = x.reg[i]
  BY <1>1, <1>2, TakenIn, MovEffect
<1>5. Keeps(x, mm, act.used0, act.depth0)
  <2>1. \A r \in Regs : r < r1 => r # r1 BY <1>1, TakenRegs
  <2>2. KeepsWords(x, mm, act.depth0) BY <1>3, SameKeeps
  <2>. QED BY <1>1, <1>4, <2>1, <2>2 DEF Keeps
<1>6. Nested(tree, acts, Len(acts)) BY <1>1, WorthFacts
<1>7. Suits(tree, q, v, nf, acts, Len(acts) - 1, mm) BY <1>1, <1>5, <1>6, LowerKept
<1>8. Tidy(g, mm) /\ HasStored(g, mm, v.after[act.id]) BY <1>3, SameKeeps DEF g
<1>. QED BY <1>1, <1>4, <1>7, <1>8, <1>9, DoneWorth

\* Leaving a frame keeps what a machine has for the activations below.
LEMMA LeaveWorth ==
    ASSUME Inv, NEW s, Book(s), status = "run", NEW q, Scoped(tree, s, q), NEW b, Stands(q, b),
           NEW v, Worth(q, v), opened(tree, act) = 1, tree[act.id].op # "func",
           NEW x \in Machine, NEW h, Fits(nf, b, x, h), Tidy(nf, x),
           Suits(tree, q, v, nf, acts, Len(acts) - 1, x),
           NEW S, HasStored(Cut(nf, act.frames0), x, S)
    PROVE  LET g == CloseFrame(nf)
               y == LeaveFrame(nf, x)
           IN  /\ y \in Machine /\ Fits(g, Cut(b, act.frames0), y, act.depth0) /\ Tidy(g, y)
               /\ Suits(tree, q, v, nf, acts, Len(acts) - 1, y) /\ HasStored(g, y, S)
               /\ y.reg = x.reg
<1>. DEFINE g == CloseFrame(nf)  c == Cut(b, act.frames0)  y == Unwind(x)
<1>1. LeaveFrame(nf, x) = y BY ClosePoint
<1>2. /\ y \in Machine /\ Fits(g, c, y, act.depth0) /\ g \in Seq(Nameframe) /\ Frames(g, c)
      /\ Counts(g, c, act.depth0)
  BY ClosePoint
<1>3. /\ Tidy(g, y) /\ Keeps(x, y, act.used0, act.depth0) /\ y.reg = x.reg
      /\ HasStored(g, x, S)
  BY CloseWorth
<1>. HIDE DEF g, c, y
<1>4. Nested(tree, acts, Len(acts)) BY WorthFacts
<1>5. Suits(tree, q, v, nf, acts, Len(acts) - 1, y) BY <1>3, <1>4, LowerKept
<1>6. act.depth0 \in Nat /\ c[Len(g)] + g[Len(g)].nSub <= act.depth0
  <2>1. act.depth0 >= c[Len(g)] + g[Len(g)].nSub /\ act.depth0 \in Nat BY <1>2, CountsAbove
  <2>2. c[Len(g)] \in Nat /\ g[Len(g)].nSub \in Nat BY <1>2, FramesParts
  <2>. QED BY <2>1, <2>2
<1>7. HasStored(g, y, S)
  <2>1. KeepsWords(x, y, act.depth0) BY <1>3 DEF Keeps
  <2>. QED BY <1>2, <1>3, <1>6, <2>1, StoredStill
<1>. QED BY <1>1, <1>2, <1>3, <1>5, <1>7 DEF g, c, y

\* A machine with other registers from regStackUsed on.
LEMMA OtherRegs ==
    ASSUME Inv, NEW s, Book(s), status = "run", NEW q, Scoped(tree, s, q), NEW b, Stands(q, b),
           NEW v, Worth(q, v), ~ FuncBody(tree, act),
           NEW x, SameStack(m, x), \A r \in Regs : r < act.used0 => x.reg[r] = m.reg[r]
    PROVE  /\ Tidy(nf, x) /\ Suits(tree, q, v, nf, acts, Len(acts) - 1, x)
           /\ \A f, S : HasStored(f, m, S) => HasStored(f, x, S)
           /\ \A h : Fits(nf, b, m, h) => Fits(nf, b, x, h)
<1>1. /\ Tidy(nf, m) /\ Suits(tree, q, v, nf, acts, Len(acts) - 1, m)
      /\ Nested(tree, acts, Len(acts))
  BY WorthFacts
<1>2. Tidy(nf, x) /\ KeepsWords(m, x, act.depth0) /\ \A f, S : HasStored(f, m, S) => HasStored(f, x, S)
  BY <1>1, SameKeeps
<1>3. Keeps(m, x, act.used0, act.depth0) BY <1>2 DEF Keeps
<1>4. Suits(tree, q, v, nf, acts, Len(acts) - 1, x) BY <1>1, <1>3, LowerKept
<1>. QED BY <1>2, <1>4, SameFits

\* mov r1, rax; closeFrame: what an arm leaves.
LEMMA ArmWorth ==
    ASSUME Inv, NEW s, Shaped(tree, s), Book(s), NEW q, Scoped(tree, s, q), NEW b, Stands(q, b),
           NEW v, Worth(q, v), NEW p \in {"then", "else"}, At({"tern"}, p)
    PROVE  LET g == CloseFrame(nf)
               y == ArmResult(Kid(IF p = "then" THEN 2 ELSE 3), act.ok)
           IN  /\ y \in Machine /\ Fits(g, Cut(b, act.frames0), y, act.depth0) /\ Tidy(g, y)
               /\ Suits(tree, q, v, nf, acts, Len(acts) - 1, y)
               /\ HasStored(g, y, v.after[act.id]) /\ y.reg[r1] = Val(act.id)
<1>. DEFINE k == IF p = "then" THEN 2 ELSE 3  x == Result(m, r1, act.id, TRUE)
            g == CloseFrame(nf)  y == LeaveFrame(nf, x)
<1>1. /\ status = "run" /\ act.pc = p /\ act.id # 0 /\ node = tree[act.id] /\ node.op = "tern"
      /\ act.used0 = s.dep[act.id] /\ r1 = act.used0 /\ act.id \in 1 .. Len(tree)
  <2>1. p # "enter" OBVIOUS
  <2>. QED BY <2>1, SingleOp
<1>2. act.used0 = 0
  <2>1. NodeScoped(tree, s, q, act.id) BY AtScope
  <2>. QED BY <1>1, <2>1 DEF NodeScoped
<1>3. opened(tree, act) = 1 /\ ~ FuncBody(tree, act)
  <2>1. <<"tern", p>> \in FrameOpen BY Openings
  <2>. QED BY <1>1, <2>1 DEF opened, FuncBody
<1>4. act.ok /\ Outcome(tree, act, m) /\ Needs(tree, q, v, nf, act, m) BY <1>1, WorthFacts
<1>5. Operand(tree, act) = k BY <1>1, OperandAt
<1>6. Holds(m, RAX, Kid(k))
  <2>1. Start("tern", 0, k) = 0 BY Starts
  <2>2. act.pc \in Waiting BY <1>1 DEF Waiting
  <2>3. RAX = 0 BY DEF RAX
  <2>. HIDE DEF k
  <2>. QED BY <1>1, <1>2, <1>4, <1>5, <2>1, <2>2, <2>3 DEF Outcome, Kid, KidOf, Holds
<1>7. ArmResult(Kid(k), act.ok) = y
  <2>1. Result(m, r1, act.id, act.ok /\ Holds(m, RAX, Kid(k))) = x BY <1>4, <1>6 DEF Result
  <2>. QED BY <2>1 DEF ArmResult
<1>8. x \in Machine /\ SameStack(m, x) /\ x = Mov(m, r1, Val(act.id))
  BY <1>1, TakenIn, ResultType, RegistersOnly DEF Result
<1>. HIDE DEF x, y
<1>9. x.reg[r1] = Val(act.id) /\ \A i \in Regs : i # r1 => x.reg[i] = m.reg[i]
  BY <1>1, <1>8, TakenIn, MovEffect
<1>10. \A r \in Regs : r < act.used0 => x.reg[r] = m.reg[r]
  <2>1. \A r \in Regs : r < r1 => r # r1 BY <1>1, TakenRegs
  <2>. QED BY <1>1, <1>9, <2>1
<1>11. /\ Tidy(nf, x) /\ Suits(tree, q, v, nf, acts, Len(acts) - 1, x)
       /\ \A f, S : HasStored(f, m, S) => HasStored(f, x, S)
       /\ \A h : Fits(nf, b, m, h) => Fits(nf, b, x, h)
  BY <1>1, <1>3, <1>8, <1>10, OtherRegs
<1>12. HasStored(Cut(nf, act.frames0), x, v.after[act.id])
  <2>1. <<tree[act.id].op, act.pc>> \in Reopens BY <1>1 DEF Reopens
  <2>2. HasStored(Cut(nf, act.frames0), m, v.after[act.id])
    BY <1>1, <1>3, <1>4, <2>1 DEF Needs, Restores
  <2>. QED BY <1>11, <2>2
<1>13. Fits(nf, b, x, Depth(tree, nf, b, act)) BY <1>1, <1>11, StandsFacts
<1>14. tree[act.id].op # "func" BY <1>1
<1>15. /\ y \in Machine /\ Fits(g, Cut(b, act.frames0), y, act.depth0) /\ Tidy(g, y)
       /\ Suits(tree, q, v, nf, acts, Len(acts) - 1, y) /\ HasStored(g, y, v.after[act.id])
       /\ y.reg = x.reg
  BY <1>1, <1>3, <1>8, <1>11, <1>12, <1>13, <1>14, LeaveWorth DEF y
<1>. QED BY <1>7, <1>9, <1>15

LEMMA TernPoint ==
    ASSUME Inv, NEW s, Shaped(tree, s), Book(s), NEW q, Scoped(tree, s, q), NEW v,
           Stored(tree, s, q, v), NEW p \in {"body", "test", "then", "else"}, At({"tern"}, p)
    PROVE  /\ status = "run" /\ act.pc = p /\ act.id # 0 /\ act.used0 = 0 /\ r1 = act.used0
           /\ node = tree[act.id] /\ tree[act.id].op = "tern" /\ act.frames0 \in Nat
           /\ Operands(tree, act.id) = {1, 2, 3} /\ used = InUse(tree, s, act)
           /\ Kid(2) \in 1 .. Len(tree) /\ Kid(3) \in 1 .. Len(tree)
           /\ v.after[act.id] = EndStored(tree, v, act.id, 1)
           /\ StartStored(tree, v, act.id, 1) = v.before[act.id]
           /\ \A k \in {2, 3} : StartStored(tree, v, act.id, k) = v.after[act.id]
           /\ \A k \in {1, 2, 3} : Kid(k) # 0 => v.before[Kid(k)] = StartStored(tree, v, act.id, k)
<1>1. p # "enter" OBVIOUS
<1>2. /\ status = "run" /\ act.pc = p /\ act.id # 0 /\ act.id \in 1 .. Len(tree)
      /\ node = tree[act.id] /\ node.op = "tern" /\ NodeShaped(tree, s, act.id)
      /\ act.used0 = s.dep[act.id] /\ r1 = act.used0 /\ used = InUse(tree, s, act)
      /\ \A k \in Nat : Kid(k) \in 0 .. Len(tree)
  BY <1>1, SingleOp
<1>3. act.used0 = 0
  <2>1. NodeScoped(tree, s, q, act.id) BY AtScope
  <2>. QED BY <1>2, <2>1 DEF NodeScoped
<1>4. Operands(tree, act.id) = {1, 2, 3} BY <1>2, OperandSets
<1>5. Kid(2) \in 1 .. Len(tree) /\ Kid(3) \in 1 .. Len(tree)
  <2>1. Child(tree, act.id, 2) # 0 /\ Child(tree, act.id, 3) # 0 BY <1>2 DEF NodeShaped
  <2>2. Kid(2) # 0 /\ Kid(3) # 0 BY <2>1 DEF Kid, KidOf
  <2>3. Kid(2) \in 0 .. Len(tree) /\ Kid(3) \in 0 .. Len(tree) BY <1>2
  <2>4. Len(tree) \in Nat BY <1>2, InvFacts, TreeFacts DEF Types
  <2>. QED BY <2>2, <2>3, <2>4
<1>6. /\ v.after[act.id] = Left(tree, q, v, act.id)
      /\ \A k \in Operands(tree, act.id) : Kid(k) # 0 => v.before[Kid(k)] = StartStored(tree, v, act.id, k)
  BY AtStored
<1>7. v.after[act.id] = EndStored(tree, v, act.id, 1)
  <2>1. tree[act.id].op \in {"unary", "out", "tern"} BY <1>2
  <2>. QED BY <1>6, <2>1, StoredPath
<1>8. /\ StartStored(tree, v, act.id, 1) = v.before[act.id]
      /\ \A k \in {2, 3} : StartStored(tree, v, act.id, k) = v.after[act.id]
  <2>1. tree[act.id].op \notin {"call", "var", "func"} /\ tree[act.id].op # "call" BY <1>2
  <2>2. 2 # 1 /\ 3 # 1 OBVIOUS
  <2>. QED BY <1>7, <2>1, <2>2, StoredStart
<1>9. act.frames0 \in Nat BY <1>2, InvFacts
<1>. QED BY <1>2, <1>3, <1>4, <1>5, <1>6, <1>7, <1>8, <1>9

LEMMA TernWorth ==
    ASSUME Inv, NEW s, Shaped(tree, s), Book(s), NEW q, Scoped(tree, s, q), NEW b, Stands(q, b),
           NEW v, Stored(tree, s, q, v), Worth(q, v), Tern
    PROVE  Worth(q, v)'
<1>a. /\ \A p \in {"body", "test"} : <<"tern", p>> \notin FrameOpen
      /\ \A p \in {"then", "else"} : <<"tern", p>> \in FrameOpen /\ <<"tern", p>> \in SavedBefore
      /\ "test" \in PCs /\ "then" \in PCs /\ "else" \in PCs /\ "tern" # "call" /\ "tern" # "logic"
      /\ "body" # "enter" /\ "test" # "enter"
  BY Openings DEF SavedBefore
<1>1. ASSUME At({"tern"}, "body"), Gen(Kid(1), Resume("test"), used, nf, m) PROVE Worth(q, v)'
  <2>. DEFINE a == Resume("test")
  <2>1. /\ status = "run" /\ act.id # 0 /\ act.used0 = 0 /\ act.pc = "body"
        /\ tree[act.id].op = "tern" /\ Operands(tree, act.id) = {1, 2, 3} /\ used = InUse(tree, s, act)
        /\ StartStored(tree, v, act.id, 1) = v.before[act.id]
    BY <1>1, TernPoint
  <2>2. /\ Frames(nf, b) /\ nf \in Seq(Nameframe) /\ Len(nf) = act.frames0
        /\ Grown(nf, b, nf, b, act.frames0) /\ Apart(nf) /\ Tidy(nf, m) /\ act.ok
        /\ HasStored(nf, m, StoredAt(tree, v, act))
    <3>1. AllBooks(s, q, b, v) /\ PlainAt("tern", "body") BY <1>1, <1>a DEF AllBooks, Books, PlainAt
    <3>. QED BY <3>1, PlainValuesAt
  <2>3. /\ a \in Activation /\ a.id = act.id /\ a.pc = "test" /\ a.ok
        /\ a.used0 = act.used0 /\ a.depth0 = act.depth0 /\ a.frames0 = act.frames0
    BY <1>a, <2>1, <2>2, ResumedAs
  <2>4. Gen(Kid(1), a, used, nf, m) BY <1>1
  <2>. HIDE DEF a
  <2>5. HeldIn(tree, a) = {} BY <2>3 DEF HeldIn
  <2>6. Operand(tree, a) = 1 BY <2>3, OperandAt
  <2>7. Restores(tree, q, v, nf, a, m) BY <2>1, <2>3 DEF Restores, Reopens
  <2>8. used = 0 BY <2>1 DEF InUse
  <2>9. HasStored(nf, m, StartStored(tree, v, act.id, 1)) BY <2>1, <2>2 DEF StoredAt
  <2>10. used \in Nat /\ act.used0 <= used BY <2>1, <2>8
  <2>11. /\ <<"tern", a.pc>> \notin FrameOpen /\ <<"tern", a.pc>> # <<"logic", "right">>
         /\ \A r \in HeldIn(tree, a) : m.reg[r] = Val(Kid(1)) /\ r < used
         /\ 1 = Operand(tree, a) /\ 1 \in Operands(tree, act.id)
    BY <1>a, <2>1, <2>3, <2>5, <2>6
  <2>. QED BY <1>1, <1>a, <2>2, <2>3, <2>4, <2>7, <2>9, <2>10, <2>11, PlainGenWorth
\* An arm is started, at frames f that are those of the node.
<1>2. ASSUME NEW p \in {"test", "then"}, At({"tern"}, p), NEW x \in {"then", "else"},
             NEW k, k = IF x = "then" THEN 2 ELSE 3, NEW mT \in Machine,
             NEW f \in Seq(Nameframe), NEW c, Frames(f, c), Len(f) = act.frames0,
             Alike(nf, b, f, c, act.frames0), SameFrames(Cut(nf, act.frames0), f), Apart(f),
             NEW mm \in Machine, Fits(f, c, mm, act.depth0), Counts(f, c, act.depth0), Tidy(f, mm),
             Suits(tree, q, v, nf, acts, Len(acts) - 1, mm), HasStored(f, mm, v.after[act.id]),
             Suits(tree, q, v, nf, acts, Len(acts) - 1, mT), HasStored(f, mT, v.after[act.id]),
             Tidy(f, mT), Fits(f, c, mT, act.depth0), x = "else" => mT.reg[r1] = Val(act.id),
             GenInFrame(Kid(k), 0, Kid(k), Fork(x, TRUE, mT), 0, f, mm)
      PROVE  Worth(q, v)'
  <2>. DEFINE a == Fork(x, TRUE, mT)
  <2>1. /\ status = "run" /\ act.id # 0 /\ act.used0 = 0 /\ tree[act.id].op = "tern"
        /\ k \in {2, 3} /\ k \in {1, 2, 3} /\ Kid(k) \in 1 .. Len(tree)
        /\ StartStored(tree, v, act.id, k) = v.after[act.id]
        /\ Kid(k) # 0 => v.before[Kid(k)] = StartStored(tree, v, act.id, k)
    BY <1>2, TernPoint
  <2>2. act.ok /\ x \in PCs BY <1>a, <1>2, <2>1, WorthFacts
  <2>3. /\ a \in Activation /\ a.id = act.id /\ a.pc = x /\ a.r1 = r1 /\ a.ok
        /\ a.used0 = act.used0 /\ a.depth0 = act.depth0
        /\ a.frames0 = act.frames0 /\ a.save = mT
    BY <1>2, <2>1, <2>2, ResumedAs
  <2>4. GenInFrame(Kid(k), 0, Kid(k), a, 0, f, mm) BY <1>2
  <2>. HIDE DEF a
  <2>5. Operand(tree, a) = k BY <1>2, <2>3, OperandAt
  <2>6. /\ tree[a.id].op \in {"tern", "while"} /\ a.pc # "right" /\ a.id # 0
        /\ HasStored(f, mm, StartStored(tree, v, a.id, Operand(tree, a)))
        /\ HasStored(f, mm, v.after[a.id])
        /\ Kid(k) # 0 => v.before[Kid(k)] = StartStored(tree, v, a.id, Operand(tree, a))
    BY <1>2, <2>1, <2>3, <2>5
  <2>7. /\ Suits(tree, q, v, nf, acts, Len(acts) - 1, a.save)
        /\ HasStored(f, a.save, v.after[a.id])
        /\ Tidy(f, a.save) /\ Fits(f, c, a.save, act.depth0)
        /\ <<tree[a.id].op, a.pc>> = <<"tern", "else">> => a.save.reg[a.r1] = Val(a.id)
    BY <1>2, <2>3
  <2>8. 0 \in Nat /\ act.used0 <= 0 BY <2>1
  <2>. QED BY <1>2, <2>1, <2>3, <2>4, <2>6, <2>7, <2>8, InFrameWorth
<1>3. ASSUME At({"tern"}, "test"),
             GenInFrame(Kid(2), 0, Kid(2), Fork("then", Holds(m, r1, Kid(1)), m), Less(used, 1), nf, m)
      PROVE  Worth(q, v)'
  <2>1. /\ status = "run" /\ act.pc = "test" /\ act.id # 0 /\ act.used0 = 0 /\ r1 = act.used0
        /\ node = tree[act.id] /\ tree[act.id].op = "tern" /\ 1 \in Operands(tree, act.id)
        /\ v.after[act.id] = EndStored(tree, v, act.id, 1)
    BY <1>3, TernPoint
  <2>2. Operand(tree, act) = 1 BY <2>1, OperandAt
  <2>3. used = Start(node.op, act.used0, 1) + 1
    <3>1. <<node.op, 1>> \notin Uncounted BY <2>1 DEF Uncounted
    <3>2. "test" \in Waiting /\ 1 \in Nat BY DEF Waiting
    <3>. QED BY <1>3, <2>1, <2>2, <3>1, <3>2, Counted
  <2>4. Start("tern", act.used0, 1) = 0 BY <2>1, Starts
  <2>5. Less(used, 1) = 0 BY <2>1, <2>3, <2>4 DEF Less
  <2>6. /\ Frames(nf, b) /\ nf \in Seq(Nameframe) /\ Len(nf) = act.frames0
        /\ Cut(nf, act.frames0) = nf /\ Apart(nf) /\ Tidy(nf, m) /\ act.ok /\ m \in Machine
        /\ HasStored(nf, m, StoredAt(tree, v, act)) /\ Outcome(tree, act, m)
        /\ Suits(tree, q, v, nf, acts, Len(acts) - 1, m)
    <3>1. AllBooks(s, q, b, v) /\ PlainAt("tern", "test") BY <1>3, <1>a DEF AllBooks, Books, PlainAt
    <3>. QED BY <3>1, PlainValuesAt
  <2>7. /\ Fits(nf, b, m, act.depth0) /\ Counts(nf, b, act.depth0)
        /\ Alike(nf, b, nf, b, act.frames0)
    <3>1. Books(s, q, b) /\ PlainAt("tern", "test") BY <1>3, <1>a DEF Books, PlainAt
    <3>. QED BY <3>1, PlainPointAt
  <2>8. Holds(m, r1, Kid(1))
    <3>1. "test" \in Waiting BY DEF Waiting
    <3>. QED BY <2>1, <2>2, <2>4, <2>6, <3>1 DEF Outcome, Holds, Kid, KidOf
  <2>9. GenInFrame(Kid(2), 0, Kid(2), Fork("then", TRUE, m), 0, nf, m)
    <3>1. Fork("then", Holds(m, r1, Kid(1)), m) = Fork("then", TRUE, m) BY <2>8 DEF Holds
    <3>. QED BY <1>3, <2>5, <3>1
  <2>10. HasStored(nf, m, v.after[act.id]) BY <2>1, <2>2, <2>6 DEF StoredAt
  <2>11. SameFrames(Cut(nf, act.frames0), nf) BY <2>6 DEF SameFrames
  <2>12. 2 = (IF "then" = "then" THEN 2 ELSE 3) /\ "then" # "else" OBVIOUS
  <2>. QED BY <1>2, <1>3, <2>6, <2>7, <2>9, <2>10, <2>11, <2>12
\* What the places in an arm know of its end.
<1>c. ASSUME NEW p \in {"then", "else"}, At({"tern"}, p)
      PROVE  LET g == CloseFrame(nf)
                 c == Cut(b, act.frames0)
             IN  /\ status = "run" /\ act.id # 0 /\ g \in Seq(Nameframe) /\ Len(g) = act.frames0
                 /\ Frames(g, c) /\ Counts(g, c, act.depth0) /\ Alike(nf, b, g, c, act.frames0)
                 /\ SameFrames(Cut(nf, act.frames0), g) /\ Apart(g)
                 /\ Grown(nf, b, g, c, act.frames0) /\ ClosedUsed(nf) = 0
                 /\ act.ok /\ act.save \in Machine /\ Fits(g, c, act.save, act.depth0)
                 /\ Tidy(g, act.save) /\ Suits(tree, q, v, nf, acts, Len(acts) - 1, act.save)
                 /\ HasStored(g, act.save, v.after[act.id])
                 /\ r1 = act.used0
                 /\ p = "else" => act.save.reg[r1] = Val(act.id)
  <2>1. /\ status = "run" /\ act.pc = p /\ act.id # 0 /\ tree[act.id].op = "tern"
        /\ r1 = act.used0 /\ node = tree[act.id] /\ act.frames0 \in Nat
    BY <1>c, TernPoint
  <2>2. /\ opened(tree, act) = 1 /\ Saving(tree, act) /\ <<tree[act.id].op, act.pc>> \in Reopens
        /\ LevelOf(tree, act) = act.frames0 /\ act \in Activation
    BY <1>a, <1>c, <2>1, InvFacts DEF opened, Saving, Reopens, LevelOf
  <2>. DEFINE g == CloseFrame(nf)  c == Cut(b, act.frames0)
  <2>3. /\ g \in Seq(Nameframe) /\ Len(g) = act.frames0 /\ Frames(g, c) /\ Counts(g, c, act.depth0)
        /\ Alike(nf, b, g, c, act.frames0) /\ ClosedUsed(nf) = 0
        /\ \A mn : Fits(Cut(nf, act.frames0), c, mn, act.depth0) => Fits(g, c, mn, act.depth0)
    BY <2>1, <2>2, ClosePoint
  <2>4. /\ Grown(nf, b, g, c, act.frames0) /\ Apart(g) /\ SameFrames(Cut(nf, act.frames0), g)
        /\ \A x, S : HasStored(Cut(nf, act.frames0), x, S) <=> HasStored(g, x, S)
        /\ \A x : x.bp = c[act.frames0] /\ Tidy(Cut(nf, act.frames0), x) => Tidy(g, x)
    BY <2>1, <2>2, CloseWorth
  <2>5. Fits(Cut(nf, act.frames0), c, act.save, act.depth0)
    <3>1. SavedFits(tree, nf, b, act) BY <2>1, StandsFacts DEF ActStack
    <3>2. <<tree[act.id].op, act.pc>> \in SavedBefore BY <1>a, <1>c, <2>1
    <3>. QED BY <2>1, <3>1, <3>2 DEF SavedFits
  <2>. HIDE DEF g, c
  <2>6. /\ act.ok /\ Suits(tree, q, v, nf, acts, Len(acts) - 1, act.save)
        /\ Restores(tree, q, v, nf, act, act.save)
        /\ Tidy(Cut(nf, act.frames0), act.save)
        /\ <<node.op, act.pc>> = <<"tern", "else">> => act.save.reg[act.r1] = Val(act.id)
    BY <2>1, <2>2, WorthFacts
  <2>7. HasStored(g, act.save, v.after[act.id]) BY <2>2, <2>4, <2>6 DEF Restores
  <2>8. Fits(g, c, act.save, act.depth0) BY <2>3, <2>5
  <2>9. Tidy(g, act.save)
    <3>1. act.save.bp = c[act.frames0] BY <2>3, <2>8 DEF Fits
    <3>. QED BY <2>4, <2>6, <3>1
  <2>10. act.save \in Machine BY <2>2 DEF Activation
  <2>11. p = "else" => act.save.reg[r1] = Val(act.id) BY <2>1, <2>6 DEF r1
  <2>. QED BY <2>1, <2>3, <2>4, <2>6, <2>7, <2>8, <2>9, <2>10, <2>11 DEF g, c
<1>4. ASSUME At({"tern"}, "then"),
             GenInFrame(Kid(3), 0, Kid(3), Fork("else", act.ok, ArmResult(Kid(2), act.ok)),
                        ClosedUsed(nf), CloseFrame(nf), act.save)
      PROVE  Worth(q, v)'
  <2>. DEFINE g == CloseFrame(nf)  c == Cut(b, act.frames0)  y == ArmResult(Kid(2), act.ok)
  <2>1. /\ g \in Seq(Nameframe) /\ Len(g) = act.frames0
        /\ Frames(g, c) /\ Counts(g, c, act.depth0) /\ Alike(nf, b, g, c, act.frames0)
        /\ SameFrames(Cut(nf, act.frames0), g) /\ Apart(g) /\ ClosedUsed(nf) = 0
        /\ act.ok /\ act.save \in Machine /\ Fits(g, c, act.save, act.depth0)
        /\ Tidy(g, act.save) /\ Suits(tree, q, v, nf, acts, Len(acts) - 1, act.save)
        /\ HasStored(g, act.save, v.after[act.id])
    BY <1>4, <1>c
  <2>2. /\ y \in Machine /\ Fits(g, c, y, act.depth0) /\ Tidy(g, y)
        /\ Suits(tree, q, v, nf, acts, Len(acts) - 1, y)
        /\ HasStored(g, y, v.after[act.id]) /\ y.reg[r1] = Val(act.id)
    <3>1. 2 = (IF "then" = "then" THEN 2 ELSE 3) /\ "then" \in {"then", "else"} OBVIOUS
    <3>. QED BY <1>4, <3>1, ArmWorth
  <2>3. GenInFrame(Kid(3), 0, Kid(3), Fork("else", TRUE, y), 0, g, act.save)
    <3>1. act.ok = TRUE
      <4>1. act.ok \in BOOLEAN
        <5>1. status = "run" BY <1>4 DEF At
        <5>2. act \in Activation BY <5>1, InvFacts
        <5>. QED BY <5>2 DEF Activation
      <4>. QED BY <2>1, <4>1
    <3>2. Fork("else", act.ok, y) = Fork("else", TRUE, y) BY <3>1
    <3>. QED BY <1>4, <2>1, <3>2
  <2>4. 3 = (IF "else" = "then" THEN 2 ELSE 3) /\ "then" \in {"test", "then"} OBVIOUS
  <2>. HIDE DEF g, c, y
  <2>. QED BY <1>2, <1>4, <2>1, <2>2, <2>3, <2>4
<1>5. ASSUME At({"tern"}, "else"), NEW mm \in {act.save, ArmResult(Kid(3), act.ok)},
             NEW u, Finish(u, CloseFrame(nf), mm)
      PROVE  Worth(q, v)'
  <2>. DEFINE g == CloseFrame(nf)  c == Cut(b, act.frames0)
  <2>1. /\ status = "run" /\ act.id # 0 /\ g \in Seq(Nameframe)
        /\ Frames(g, c) /\ Apart(g) /\ Grown(nf, b, g, c, act.frames0)
        /\ Tidy(g, act.save) /\ Suits(tree, q, v, nf, acts, Len(acts) - 1, act.save)
        /\ HasStored(g, act.save, v.after[act.id])
        /\ r1 = act.used0 /\ act.save.reg[r1] = Val(act.id)
    BY <1>5, <1>c
  <2>2. LET y == ArmResult(Kid(3), act.ok)
        IN  /\ Tidy(g, y) /\ Suits(tree, q, v, nf, acts, Len(acts) - 1, y)
            /\ HasStored(g, y, v.after[act.id]) /\ y.reg[r1] = Val(act.id)
    <3>1. 3 = (IF "else" = "then" THEN 2 ELSE 3) /\ "else" \in {"then", "else"} OBVIOUS
    <3>. QED BY <1>5, <3>1, ArmWorth
  <2>. HIDE DEF g, c
  <2>3. /\ Tidy(g, mm) /\ Suits(tree, q, v, nf, acts, Len(acts) - 1, mm)
        /\ HasStored(g, mm, v.after[act.id]) /\ mm.reg[act.used0] = Val(act.id)
    BY <1>5, <2>1, <2>2
  <2>4. Finish(u, g, mm) BY <1>5 DEF g
  <2>. QED BY <2>1, <2>3, <2>4, DoneWorth
<1>. QED BY <1>1, <1>3, <1>4, <1>5 DEF Tern

LEMMA WhilePoint ==
    ASSUME Inv, NEW s, Shaped(tree, s), Book(s), NEW q, Scoped(tree, s, q), NEW v,
           Stored(tree, s, q, v), NEW p \in {"body", "test", "right"}, At({"while"}, p)
    PROVE  /\ status = "run" /\ act.pc = p /\ act.id # 0 /\ act.used0 = 0 /\ r1 = act.used0
           /\ node = tree[act.id] /\ tree[act.id].op = "while" /\ act.frames0 \in Nat
           /\ act.id \in 1 .. Len(tree) /\ act \in Activation
           /\ used = InUse(tree, s, act) /\ used \in 0 .. Word - 1
           /\ v.after[act.id] = v.before[act.id]
           /\ StartStored(tree, v, act.id, 1) = v.before[act.id]
           /\ StartStored(tree, v, act.id, 2) = EndStored(tree, v, act.id, 1)
           /\ \A k \in {1, 2} : Kid(k) # 0 => v.before[Kid(k)] = StartStored(tree, v, act.id, k)
<1>1. p # "enter" OBVIOUS
<1>2. /\ status = "run" /\ act.pc = p /\ act.id # 0 /\ act.id \in 1 .. Len(tree)
      /\ node = tree[act.id] /\ node.op = "while"
      /\ act.used0 = s.dep[act.id] /\ r1 = act.used0 /\ used = InUse(tree, s, act)
  BY <1>1, SingleOp
<1>3. act.used0 = 0
  <2>1. NodeScoped(tree, s, q, act.id) BY AtScope
  <2>. QED BY <1>2, <2>1 DEF NodeScoped
<1>4. Operands(tree, act.id) = {1, 2} BY <1>2, OperandSets
<1>5. /\ v.after[act.id] = Left(tree, q, v, act.id)
      /\ \A k \in Operands(tree, act.id) : Kid(k) # 0 => v.before[Kid(k)] = StartStored(tree, v, act.id, k)
  BY AtStored
<1>6. v.after[act.id] = v.before[act.id]
  <2>1. tree[act.id].op \in Leaves \union {"while", "func"} BY <1>2
  <2>. QED BY <1>5, <2>1, StoredPath
<1>7. /\ StartStored(tree, v, act.id, 1) = v.before[act.id]
      /\ StartStored(tree, v, act.id, 2) = EndStored(tree, v, act.id, 1)
  <2>1. tree[act.id].op \notin {"call", "var", "func"} /\ tree[act.id].op # "call" /\ 2 # 1 BY <1>2
  <2>. QED BY <2>1, StoredStart
<1>8. act.frames0 \in Nat /\ act \in Activation /\ used \in 0 .. Word - 1 BY <1>2, InvFacts DEF Types
<1>. QED BY <1>2, <1>3, <1>4, <1>5, <1>6, <1>7, <1>8

\* At the places in the frame of the loop.
LEMMA LoopPoint ==
    ASSUME Inv, NEW s, Shaped(tree, s), Book(s), NEW q, Scoped(tree, s, q), NEW b, Stands(q, b),
           NEW v, Stored(tree, s, q, v), Worth(q, v), NEW p \in {"test", "right"}, At({"while"}, p)
    PROVE  /\ opened(tree, act) = 1 /\ m \in Machine /\ nf \in Seq(Nameframe) /\ Frames(nf, b)
           /\ Len(nf) = act.frames0 + 1 /\ act.frames0 \in 1 .. Len(nf)
           /\ Cut(nf, act.frames0 + 1) = nf /\ Cut(b, act.frames0 + 1) = b
           /\ Fits(nf, b, m, Depth(tree, nf, b, act)) /\ ActStack(tree, q, nf, b, act)
           /\ act.depth0 \in Nat /\ Len(m.stk) \in Nat /\ act.depth0 <= Len(m.stk)
           /\ Grown(nf, b, nf, b, act.frames0) /\ Apart(nf) /\ Tidy(nf, m) /\ act.ok
           /\ HasStored(nf, m, StoredAt(tree, v, act)) /\ Outcome(tree, act, m)
           /\ Suits(tree, q, v, nf, acts, Len(acts) - 1, m) /\ ~ FuncBody(tree, act)
           /\ HasStored(Cut(nf, act.frames0), m, v.after[act.id])
<1>1. /\ status = "run" /\ act.pc = p /\ act.id # 0 /\ node = tree[act.id]
      /\ tree[act.id].op = "while" /\ act.frames0 \in Nat
  BY WhilePoint
<1>2. opened(tree, act) = 1
  <2>1. <<"while", p>> \in FrameOpen BY Openings
  <2>. QED BY <1>1, <2>1 DEF opened
<1>3. /\ Len(nf) = act.frames0 + 1 /\ m \in Machine /\ nf \in Seq(Nameframe) /\ act.frames0 \in Nat \ {0}
  BY <1>1, <1>2, InvFacts DEF Types
<1>4. /\ Frames(nf, b) /\ Fits(nf, b, m, Depth(tree, nf, b, act)) /\ ActStack(tree, q, nf, b, act)
      /\ act.depth0 \in Nat
  BY <1>1, StandsFacts
<1>5. Cut(nf, act.frames0 + 1) = nf /\ Cut(b, act.frames0 + 1) = b BY <1>3, <1>4, CutHere
<1>6. act.frames0 \in 1 .. Len(nf) BY <1>3
<1>7. Grown(nf, b, nf, b, act.frames0) BY <1>3, <1>4, <1>6, GrownSelf
<1>8. ~ FuncBody(tree, act) BY <1>1 DEF FuncBody
<1>9. /\ act.ok /\ Apart(nf) /\ Tidy(nf, m) /\ Outcome(tree, act, m)
      /\ HasStored(nf, m, StoredAt(tree, v, act)) /\ Needs(tree, q, v, nf, act, m)
      /\ Suits(tree, q, v, nf, acts, Len(acts) - 1, m)
  BY <1>1, <1>8, WorthFacts
<1>10. HasStored(Cut(nf, act.frames0), m, v.after[act.id])
  <2>1. <<tree[act.id].op, act.pc>> \in Reopens BY <1>1 DEF Reopens
  <2>. QED BY <1>1, <1>8, <1>9, <2>1 DEF Needs, Restores
<1>11. Len(m.stk) \in Nat /\ act.depth0 <= Len(m.stk)
  <2>1. tree[act.id].op # "func" BY <1>1
  <2>2. Fits(CloseFrame(nf), Cut(b, act.frames0), Unwind(m), act.depth0)
    BY <1>1, <1>2, <1>3, <1>4, <2>1, ClosePoint
  <2>3. m.bp = b[Len(nf)] /\ b[Len(nf)] <= Len(m.stk) BY <1>4 DEF Fits
  <2>4. b[Len(nf)] \in Nat /\ b[Len(nf)] >= 1
    <3>1. nf \in Seq(Nameframe) /\ Frames(nf, b) BY <1>3, <1>4
    <3>. QED BY <3>1, FramesParts
  <2>5. Len(m.stk) \in Nat BY <1>3, RegistersOnly
  <2>6. Len(Unwind(m).stk) = m.bp - 1
    <3>1. m.bp >= 1 /\ m.bp <= Len(m.stk) BY <2>3, <2>4
    <3>. QED BY <1>3, <3>1, UnwindBelow
  <2>7. Len(Unwind(m).stk) = act.depth0 BY <2>2 DEF Fits
  <2>8. act.depth0 = b[Len(nf)] - 1 BY <2>3, <2>6, <2>7
  <2>. QED BY <2>3, <2>4, <2>5, <2>8
<1>. QED BY <1>2, <1>3, <1>4, <1>5, <1>6, <1>7, <1>8, <1>9, <1>10, <1>11

LEMMA WhileWorth ==
    ASSUME Inv, NEW s, Shaped(tree, s), Book(s), NEW q, Scoped(tree, s, q), NEW b, Stands(q, b),
           NEW v, Stored(tree, s, q, v), Worth(q, v), While
    PROVE  Worth(q, v)'
<1>a. /\ <<"while", "body">> \notin FrameOpen /\ "body" # "enter" /\ "while" # "call"
      /\ "test" \in PCs /\ "right" \in PCs
  BY Openings
<1>1. ASSUME At({"while"}, "body"), GenInFrame(Kid(1), 1, act.id, Resume("test"), used, nf, m)
      PROVE  Worth(q, v)'
  <2>. DEFINE a == Resume("test")
  <2>1. /\ status = "run" /\ act.id # 0 /\ act.used0 = 0 /\ act.pc = "body"
        /\ tree[act.id].op = "while" /\ used = InUse(tree, s, act) /\ act.id \in 1 .. Len(tree)
        /\ v.after[act.id] = v.before[act.id]
        /\ StartStored(tree, v, act.id, 1) = v.before[act.id]
        /\ Kid(1) # 0 => v.before[Kid(1)] = StartStored(tree, v, act.id, 1)
    BY <1>1, WhilePoint
  <2>2. /\ Frames(nf, b) /\ nf \in Seq(Nameframe) /\ Len(nf) = act.frames0
        /\ Cut(nf, act.frames0) = nf /\ Apart(nf) /\ Tidy(nf, m) /\ act.ok /\ m \in Machine
        /\ HasStored(nf, m, StoredAt(tree, v, act))
        /\ Suits(tree, q, v, nf, acts, Len(acts) - 1, m)
    <3>1. AllBooks(s, q, b, v) /\ PlainAt("while", "body") BY <1>1, <1>a DEF AllBooks, Books, PlainAt
    <3>. QED BY <3>1, PlainValuesAt
  <2>3. /\ Fits(nf, b, m, act.depth0) /\ Counts(nf, b, act.depth0)
        /\ Alike(nf, b, nf, b, act.frames0)
    <3>1. Books(s, q, b) /\ PlainAt("while", "body") BY <1>1, <1>a DEF Books, PlainAt
    <3>. QED BY <3>1, PlainPointAt
  <2>4. /\ a \in Activation /\ a.id = act.id /\ a.pc = "test" /\ a.ok
        /\ a.used0 = act.used0 /\ a.depth0 = act.depth0 /\ a.frames0 = act.frames0
    BY <1>a, <2>1, <2>2, ResumedAs
  <2>5. used = 0 BY <2>1 DEF InUse
  <2>6. GenInFrame(Kid(1), 1, act.id, a, 0, nf, m) BY <1>1, <2>5
  <2>. HIDE DEF a
  <2>7. Operand(tree, a) = 1 BY <2>4, OperandAt
  <2>8. HasStored(nf, m, v.before[act.id]) BY <2>1, <2>2 DEF StoredAt
  <2>9. /\ HasStored(nf, m, StartStored(tree, v, a.id, Operand(tree, a)))
        /\ HasStored(nf, m, v.after[a.id])
        /\ Kid(1) # 0 => v.before[Kid(1)] = StartStored(tree, v, a.id, Operand(tree, a))
        /\ tree[a.id].op \in {"tern", "while"} /\ a.pc # "right" /\ a.id # 0
    BY <2>1, <2>4, <2>7, <2>8
  <2>10. ~ Saving(tree, a) BY <2>1, <2>4 DEF Saving, SavedBefore
  <2>11. SameFrames(Cut(nf, act.frames0), nf) BY <2>2 DEF SameFrames
  <2>12. 1 \in Nat /\ act.used0 <= 1 BY <2>1
  <2>. QED BY <2>1, <2>2, <2>3, <2>4, <2>6, <2>9, <2>10, <2>11, <2>12, InFrameWorth
<1>2. ASSUME At({"while"}, "test"),
             Gen(Kid(2), Fork("right", Holds(m, RDI, Kid(1)), m), Less(used, 2), nf, m)
      PROVE  Worth(q, v)'
  <2>. DEFINE a == Fork("right", TRUE, m)  u == Less(used, 2)
  <2>1. /\ status = "run" /\ act.id # 0 /\ act.used0 = 0 /\ act.pc = "test"
        /\ tree[act.id].op = "while" /\ used \in 0 .. Word - 1 /\ act.frames0 \in Nat
        /\ StartStored(tree, v, act.id, 2) = EndStored(tree, v, act.id, 1)
        /\ Kid(2) # 0 => v.before[Kid(2)] = StartStored(tree, v, act.id, 2)
    BY <1>2, WhilePoint
  <2>2. /\ m \in Machine /\ nf \in Seq(Nameframe) /\ Frames(nf, b)
        /\ Cut(nf, act.frames0 + 1) = nf
        /\ act.depth0 \in Nat /\ Len(m.stk) \in Nat /\ act.depth0 <= Len(m.stk)
        /\ Grown(nf, b, nf, b, act.frames0) /\ Apart(nf) /\ Tidy(nf, m) /\ act.ok
        /\ HasStored(nf, m, StoredAt(tree, v, act)) /\ Outcome(tree, act, m)
        /\ Suits(tree, q, v, nf, acts, Len(acts) - 1, m)
        /\ HasStored(Cut(nf, act.frames0), m, v.after[act.id])
    BY <1>2, LoopPoint
  <2>3. Operand(tree, act) = 1 BY <2>1, OperandAt
  <2>4. Holds(m, RDI, Kid(1))
    <3>1. Start("while", act.used0, 1) = 1 /\ act.used0 \in Nat BY <2>1, Starts
    <3>2. "test" \in Waiting /\ RDI = 1 BY DEF Waiting, RDI
    <3>. QED BY <2>1, <2>2, <2>3, <3>1, <3>2 DEF Outcome, Holds, Kid, KidOf
  <2>5. Gen(Kid(2), a, u, nf, m)
    <3>1. Fork("right", Holds(m, RDI, Kid(1)), m) = a BY <2>4 DEF Holds
    <3>. QED BY <1>2, <3>1
  <2>6. /\ a \in Activation /\ a.id = act.id /\ a.pc = "right" /\ a.ok
        /\ a.used0 = act.used0 /\ a.depth0 = act.depth0 /\ a.frames0 = act.frames0 /\ a.save = m
    <3>1. status = "run" /\ act.ok /\ "right" \in PCs /\ m \in Machine BY <1>a, <2>1, <2>2
    <3>. QED BY <3>1, ResumedAs
  <2>7. u \in Nat /\ act.used0 <= u
    <3>1. u \in 0 .. Word - 1
      <4>1. 2 \in 0 .. 2 OBVIOUS
      <4>. QED BY <2>1, <4>1, LessType
    <3>. HIDE DEF u
    <3>. QED BY <2>1, <3>1
  <2>. HIDE DEF a, u
  <2>8. HeldIn(tree, a) = {} /\ ~ InCall(tree, a) /\ ~ FuncBody(tree, a)
    BY <2>1, <2>6 DEF HeldIn, InCall, FuncBody, TwoOperand
  <2>9. Restores(tree, q, v, nf, a, m) BY <2>1, <2>2, <2>6 DEF Restores
  <2>10. Needs(tree, q, v, nf, a, m) BY <2>8, <2>9 DEF Needs
  <2>11. /\ LevelOf(tree, a) = act.frames0 + 1
         /\ <<tree[a.id].op, a.pc>> # <<"tern", "else">>
    BY <2>1, <2>6 DEF LevelOf
  <2>12. Ground(q, v, Replaced(a), nf, m)
    <3>1. /\ Suits(tree, q, v, nf, acts, Len(acts) - 1, a.save)
          /\ Restores(tree, q, v, nf, a, a.save)
          /\ Tidy(Cut(nf, LevelOf(tree, a)), a.save)
      BY <2>2, <2>6, <2>9, <2>11
    <3>. QED BY <2>1, <2>2, <2>6, <2>10, <2>11, <3>1, TopGround
  <2>13. Operand(tree, a) = 2
    <3>1. tree[a.id].op \notin OneOperand \union {"func"} BY <2>1, <2>6 DEF OneOperand
    <3>. QED BY <2>6, <3>1, OperandAt
  <2>14. Within(tree, a, NewAct(Kid(2), u, m, nf)) BY <2>2, <2>6, <2>8 DEF Within, NewAct
  <2>15. HasStored(nf, m, EndStored(tree, v, act.id, 1)) BY <2>1, <2>2, <2>3 DEF StoredAt
  <2>16. /\ HasStored(nf, m, StartStored(tree, v, a.id, Operand(tree, a))) /\ a.id # 0
         /\ Kid(2) # 0 => v.before[Kid(2)] = StartStored(tree, v, a.id, Operand(tree, a))
    BY <2>1, <2>6, <2>13, <2>15
  <2>. QED BY <2>1, <2>2, <2>5, <2>6, <2>7, <2>12, <2>14, <2>16, GenWorth
<1>3. ASSUME At({"while"}, "right"), NEW mm \in {act.save, Mov(m, RDI, Junk)},
             Finish(ClosedUsed(nf), CloseFrame(nf), Result(LeaveFrame(nf, mm), r1, act.id, act.ok))
      PROVE  Worth(q, v)'
  <2>1. /\ status = "run" /\ act.id # 0 /\ act.used0 = 0 /\ act.pc = "right" /\ r1 = act.used0
        /\ tree[act.id].op = "while" /\ act \in Activation /\ act.frames0 \in Nat
    BY <1>3, WhilePoint
  <2>2. /\ opened(tree, act) = 1 /\ m \in Machine /\ Frames(nf, b) /\ nf \in Seq(Nameframe)
        /\ Cut(nf, act.frames0 + 1) = nf /\ Cut(b, act.frames0 + 1) = b
        /\ Fits(nf, b, m, Depth(tree, nf, b, act)) /\ ActStack(tree, q, nf, b, act)
        /\ Tidy(nf, m) /\ act.ok /\ ~ FuncBody(tree, act)
        /\ Suits(tree, q, v, nf, acts, Len(acts) - 1, m)
        /\ HasStored(Cut(nf, act.frames0), m, v.after[act.id])
    BY <1>3, LoopPoint
  <2>. DEFINE d == Depth(tree, nf, b, act)
  <2>3. /\ mm \in Machine /\ Fits(nf, b, mm, d) /\ Tidy(nf, mm)
        /\ Suits(tree, q, v, nf, acts, Len(acts) - 1, mm)
        /\ HasStored(Cut(nf, act.frames0), mm, v.after[act.id])
    <3>1. CASE mm = act.save
      <4>1. Saving(tree, act) /\ LevelOf(tree, act) = act.frames0 + 1
            /\ <<tree[act.id].op, act.pc>> \in Reopens
        BY <2>1 DEF Saving, LevelOf, Reopens
      <4>2. /\ Suits(tree, q, v, nf, acts, Len(acts) - 1, act.save)
            /\ Restores(tree, q, v, nf, act, act.save)
            /\ Tidy(Cut(nf, LevelOf(tree, act)), act.save)
        BY <2>1, <4>1, WorthFacts
      <4>3. HasStored(Cut(nf, act.frames0), act.save, v.after[act.id]) BY <4>1, <4>2 DEF Restores
      <4>4. Fits(nf, b, act.save, d)
        <5>1. SavedFits(tree, nf, b, act) BY <2>2 DEF ActStack
        <5>. QED BY <2>1, <2>2, <5>1 DEF SavedFits
      <4>5. act.save \in Machine BY <2>1 DEF Activation
      <4>. QED BY <2>2, <3>1, <4>1, <4>2, <4>3, <4>4, <4>5
    <3>2. CASE mm = Mov(m, RDI, Junk)
      <4>1. mm \in Machine BY <2>2, <3>2, NamedRegs, Tokens, MovType
      <4>2. SameStack(m, mm) BY <2>2, <3>2, RegistersOnly
      <4>3. \A r \in Regs : r < act.used0 => mm.reg[r] = m.reg[r] BY <2>1 DEF Regs, regStackSz
      <4>4. /\ Tidy(nf, mm) /\ Suits(tree, q, v, nf, acts, Len(acts) - 1, mm)
            /\ \A f, S : HasStored(f, m, S) => HasStored(f, mm, S)
            /\ \A h : Fits(nf, b, m, h) => Fits(nf, b, mm, h)
        BY <2>1, <2>2, <4>2, <4>3, OtherRegs
      <4>. QED BY <2>2, <4>1, <4>4
    <3>. QED BY <1>3, <3>1, <3>2
  <2>. HIDE DEF d
  <2>4. tree[act.id].op # "func" BY <2>1
  <2>5. LET y == LeaveFrame(nf, mm)
        IN  /\ y \in Machine /\ Tidy(CloseFrame(nf), y)
            /\ Suits(tree, q, v, nf, acts, Len(acts) - 1, y)
            /\ HasStored(CloseFrame(nf), y, v.after[act.id])
    BY <2>1, <2>2, <2>3, <2>4, LeaveWorth
  <2>. DEFINE y == LeaveFrame(nf, mm)
  <2>6. Finish(ClosedUsed(nf), CloseFrame(nf), Result(y, r1, act.id, TRUE))
    <3>1. act.ok = TRUE BY <2>1, <2>2 DEF Activation
    <3>. QED BY <1>3, <3>1
  <2>7. /\ y \in Machine /\ Tidy(CloseFrame(nf), y)
        /\ Suits(tree, q, v, nf, acts, Len(acts) - 1, y)
        /\ HasStored(CloseFrame(nf), y, v.after[act.id])
    BY <2>5
  <2>. HIDE DEF y
  <2>. QED BY <2>1, <2>2, <2>6, <2>7, ClosedDone
<1>. QED BY <1>1, <1>2, <1>3 DEF While

LEMMA FuncPoint ==
    ASSUME Inv, NEW s, Shaped(tree, s), Book(s), NEW q, NEW v,
           Stored(tree, s, q, v), NEW p \in {"body", "right"}, At({"func"}, p)
    PROVE  /\ status = "run" /\ act.pc = p /\ act.id # 0 /\ act.used0 = 0 /\ r1 = act.used0
           /\ node = tree[act.id] /\ tree[act.id].op = "func" /\ act.frames0 \in Nat
           /\ act \in Activation
           /\ v.after[act.id] = v.before[act.id]
           /\ StartStored(tree, v, act.id, 1) = {params[k] : k \in DOMAIN params}
           /\ Kid(1) # 0 => v.before[Kid(1)] = StartStored(tree, v, act.id, 1)
<1>1. p # "enter" OBVIOUS
<1>2. /\ status = "run" /\ act.pc = p /\ act.id # 0 /\ NodeShaped(tree, s, act.id)
      /\ node = tree[act.id] /\ node.op = "func"
      /\ act.used0 = s.dep[act.id] /\ r1 = act.used0
  BY <1>1, SingleOp
<1>3. act.used0 = 0 BY <1>2 DEF NodeShaped
<1>4. 1 \in Operands(tree, act.id) BY <1>2, OperandSets
<1>5. /\ v.after[act.id] = Left(tree, q, v, act.id)
      /\ \A k \in Operands(tree, act.id) : Kid(k) # 0 => v.before[Kid(k)] = StartStored(tree, v, act.id, k)
  BY AtStored
<1>6. v.after[act.id] = v.before[act.id]
  <2>1. tree[act.id].op \in Leaves \union {"while", "func"} BY <1>2
  <2>. QED BY <1>5, <2>1, StoredPath
<1>7. StartStored(tree, v, act.id, 1) = {params[k] : k \in DOMAIN params}
  BY <1>2, StoredStart DEF params
<1>8. act.frames0 \in Nat /\ act \in Activation BY <1>2, InvFacts
<1>. QED BY <1>2, <1>3, <1>4, <1>5, <1>6, <1>7, <1>8

\* A function returns to where it was called: the word that Unwind comes to
\* lies behind the arguments it was passed.
LEMMA ReturnsThere ==
    ASSUME Inv, NEW s, Shaped(tree, s), Book(s), NEW q, NEW b, Stands(q, b), NEW v,
           Stored(tree, s, q, v), Worth(q, v), At({"func"}, "right")
    PROVE  Top(Unwind(m)) = Ret
<1>1. /\ status = "run" /\ act.pc = "right" /\ act.id # 0 /\ tree[act.id].op = "func"
      /\ node = tree[act.id] /\ act.frames0 \in Nat
  BY FuncPoint
<1>2. opened(tree, act) = 1 /\ FuncBody(tree, act)
  <2>1. <<"func", "right">> \in FrameOpen BY Openings
  <2>. QED BY <1>1, <2>1 DEF opened, FuncBody
<1>3. /\ Frames(nf, b) /\ nf \in Seq(Nameframe) /\ ActStack(tree, q, nf, b, act)
      /\ Fits(nf, b, m, Depth(tree, nf, b, act))
  BY <1>1, StandsFacts
<1>4. Len(nf) = act.frames0 + 1 /\ m \in Machine BY <1>1, <1>2, InvFacts DEF Types
<1>. DEFINE n == PassedTo(tree, act.id)
<1>5. n \in Nat
  <2>1. node \in Node BY AtFacts
  <2>2. Len(node.names) \in Nat BY <2>1, NodeFields
  <2>. QED BY <1>1, <2>2 DEF PassedTo
<1>6. m.bp = n + 2 /\ n + 2 <= Len(m.stk)
  <2>1. b[act.frames0 + 1] = n + 2
    <3>1. OpenedAt(tree, q, nf, b, act) BY <1>3 DEF ActStack
    <3>. QED BY <1>1, <1>2, <3>1 DEF OpenedAt
  <2>. HIDE DEF n
  <2>2. m.bp = b[Len(nf)] /\ b[Len(nf)] <= Len(m.stk) BY <1>3 DEF Fits
  <2>. QED BY <1>4, <2>1, <2>2
<1>7. m.stk[n + 1] = Ret
  <2>1. Needs(tree, q, v, nf, act, m) BY <1>1, WorthFacts
  <2>. QED BY <1>1, <1>2, <2>1 DEF Needs
<1>. HIDE DEF n
<1>8. m.bp >= 1 /\ m.bp <= Len(m.stk) /\ m.bp - 1 = n + 1 /\ n + 1 \in 1 .. n + 1
  BY <1>5, <1>6
<1>9. Len(Unwind(m).stk) = n + 1 /\ Unwind(m).stk[n + 1] = Ret
  BY <1>4, <1>7, <1>8, UnwindBelow
<1>10. Unwind(m).stk # <<>>
  <2>1. SUFFICES ASSUME Unwind(m).stk = <<>> PROVE FALSE OBVIOUS
  <2>2. Len(Unwind(m).stk) = 0 BY <2>1
  <2>. QED BY <1>5, <1>9, <2>2
<1>. QED BY <1>9, <1>10 DEF Top

LEMMA FuncWorth ==
    ASSUME Inv, NEW s, Shaped(tree, s), Book(s), NEW q, Scoped(tree, s, q), NEW b, Stands(q, b),
           NEW v, Stored(tree, s, q, v), Worth(q, v), Func
    PROVE  Worth(q, v)'
<1>a. /\ <<"func", "body">> \notin FrameOpen /\ "body" # "enter" /\ "func" # "call"
      /\ "right" \in PCs /\ <<"func", "right">> \in FrameOpen
      /\ <<"func", "right">> \in SavedBefore /\ <<"func", "right">> \in Reopens
  BY Openings DEF SavedBefore, Reopens
<1>1. ASSUME At({"func"}, "body"), NEW u,
             Gen(Kid(1), Fork("right", TRUE, m), u, FunctionFrame, FunctionEntry(FunctionFrame))
      PROVE  Worth(q, v)'
  <2>. DEFINE a == Fork("right", TRUE, m)  F == FunctionFrame  e == FunctionEntry(F)
              n == Len(nf)  c == Append(b, Passed + 2)  P == Pushed(nf, 1)
  <2>1. /\ status = "run" /\ act.pc = "body" /\ act.id # 0 /\ tree[act.id].op = "func"
        /\ node = tree[act.id] /\ v.after[act.id] = v.before[act.id]
        /\ StartStored(tree, v, act.id, 1) = {params[k] : k \in DOMAIN params}
        /\ Kid(1) # 0 => v.before[Kid(1)] = StartStored(tree, v, act.id, 1)
    BY <1>1, FuncPoint
  <2>2. /\ Frames(nf, b) /\ nf \in Seq(Nameframe) /\ n = act.frames0
        /\ Cut(nf, act.frames0) = nf /\ Apart(nf) /\ Tidy(nf, m) /\ act.ok /\ m \in Machine
        /\ HasStored(nf, m, StoredAt(tree, v, act))
        /\ Suits(tree, q, v, nf, acts, Len(acts) - 1, m)
    <3>1. AllBooks(s, q, b, v) /\ PlainAt("func", "body") BY <1>1, <1>a DEF AllBooks, Books, PlainAt
    <3>. QED BY <3>1, PlainValuesAt
  <2>3. Fits(nf, b, m, act.depth0) /\ Counts(nf, b, act.depth0) /\ act.depth0 \in Nat
    <3>1. Books(s, q, b) /\ PlainAt("func", "body") BY <1>1, <1>a DEF Books, PlainAt
    <3>. QED BY <3>1, PlainPointAt
  <2>4. /\ a \in Activation /\ a.id = act.id /\ a.pc = "right" /\ a.ok
        /\ a.used0 = act.used0 /\ a.depth0 = act.depth0 /\ a.frames0 = act.frames0 /\ a.save = m
    <3>1. status = "run" /\ act.ok /\ "right" \in PCs /\ m \in Machine BY <1>a, <2>1, <2>2
    <3>. QED BY <3>1, ResumedAs
  <2>5. Gen(Kid(1), a, u, F, e) BY <1>1
  <2>. HIDE DEF a, F, e, n, c, P
  <2>6. /\ F \in Seq(Nameframe) /\ Len(F) = n + 1 /\ Frames(F, c) /\ e.bp = c[Len(F)]
        /\ Alike(nf, b, F, c, n) /\ Cut(F, n) = P
    <3>1. /\ F \in Seq(Nameframe) /\ Len(F) = n + 1 /\ Frames(F, c)
          /\ Fits(F, c, e, Passed + 2 + F[n + 1].nSub)
          /\ Alike(nf, b, F, c, n) /\ Cut(F, n) = P
      BY <1>1, <2>2, <2>3, FunctionKeeps DEF F, c, n, P, e
    <3>. QED BY <3>1 DEF Fits
  <2>7. /\ Apart(F) /\ TidyAt(F, c, e.stk)
        /\ HasStored(F, e, {params[k] : k \in DOMAIN params}) /\ e.stk[Passed + 1] = Ret
    BY <1>1, <2>2, <2>3, FunctionTidy DEF F, c, e
  <2>8. Tidy(F, e) BY <2>6, <2>7, TidyIs
  <2>9. P \in Seq(Nameframe) /\ Frames(P, b) /\ SameFrames(nf, P) /\ Len(P) = n
    <3>1. 1 \in Int /\ nf # <<>> BY <2>2, FramesParts
    <3>. QED BY <2>2, <3>1, PushedKeeps, SamePushed DEF P, n
  <2>10. Grown(nf, b, F, c, act.frames0)
    <3>1. act.frames0 \in Nat /\ act.frames0 # 0 BY <2>1, InvFacts
    <3>2. Alike(nf, b, F, c, act.frames0) /\ SameFrames(Cut(nf, act.frames0), Cut(F, act.frames0))
      BY <2>2, <2>6, <2>9
    <3>. QED BY <2>2, <2>6, <3>1, <3>2, GrownSame
  <2>11. FuncBody(tree, a) /\ HeldIn(tree, a) = {} /\ ~ InCall(tree, a)
    BY <2>1, <2>4 DEF FuncBody, HeldIn, InCall, TwoOperand
  <2>12. PassedTo(tree, a.id) = Passed BY <2>1, <2>4 DEF PassedTo, Passed, params
  <2>13. Needs(tree, q, v, F, a, e) BY <2>7, <2>11, <2>12 DEF Needs
  <2>14. HasStored(P, m, v.after[act.id])
    <3>1. HasStored(nf, m, v.after[act.id]) BY <2>1, <2>2 DEF StoredAt
    <3>. QED BY <2>2, <2>9, <3>1, SameFramesKeep
  <2>15. /\ Restores(tree, q, v, F, a, m) /\ LevelOf(tree, a) = n
         /\ <<tree[a.id].op, a.pc>> # <<"tern", "else">>
    <3>1. LevelOf(tree, a) = n
      <4>1. n \in Nat BY <2>2, FramesParts DEF n
      <4>. QED BY <2>1, <2>2, <2>4, <4>1 DEF LevelOf
    <3>. QED BY <2>1, <2>2, <2>4, <2>6, <2>14, <3>1 DEF Restores
  <2>16. Tidy(P, m)
    <3>1. m.bp = b[Len(nf)] BY <2>3 DEF Fits
    <3>. QED BY <2>2, <2>9, <3>1, SameTidy
  <2>17. Ground(q, v, Replaced(a), F, e)
    <3>1. /\ Suits(tree, q, v, nf, acts, Len(acts) - 1, a.save)
          /\ Restores(tree, q, v, F, a, a.save)
          /\ Tidy(Cut(F, LevelOf(tree, a)), a.save)
      BY <2>2, <2>4, <2>6, <2>15, <2>16
    <3>. QED BY <2>1, <2>4, <2>6, <2>7, <2>8, <2>10, <2>11, <2>13, <2>15, <3>1, TopGround
  <2>18. Passed + 1 <= Len(e.stk) /\ Len(e.stk) \in Nat
    <3>1. F # <<>> BY <2>6, FramesParts
    <3>2. Passed \in Nat /\ Len(e.stk) = Passed + 2 + F[Len(F)].nSub
      BY <1>1, <2>6, <3>1, FunctionEntryParts DEF e
    <3>3. F[Len(F)].nSub \in Nat BY <2>6, FramesParts
    <3>. QED BY <3>2, <3>3
  <2>19. Within(tree, a, NewAct(Kid(1), u, e, F)) BY <2>11, <2>12, <2>18 DEF Within, NewAct
  <2>20. Operand(tree, a) = 1
    <3>1. tree[a.id].op \in OneOperand \union {"func"} BY <2>1, <2>4
    <3>. QED BY <2>4, <3>1, OperandAt
  <2>21. /\ HasStored(F, e, StartStored(tree, v, a.id, Operand(tree, a))) /\ a.id # 0
         /\ Kid(1) # 0 => v.before[Kid(1)] = StartStored(tree, v, a.id, Operand(tree, a))
    BY <2>1, <2>4, <2>7, <2>20
  <2>. QED BY <2>1, <2>4, <2>5, <2>11, <2>17, <2>18, <2>19, <2>21, GenWorth
<1>2. ASSUME At({"func"}, "right"), NEW u,
             Finish(u, CloseFrame(nf),
                    Result(act.save, r1, act.id, Top(Unwind(m)) = Ret /\ Holds(m, RAX, Kid(1))))
      PROVE  Worth(q, v)'
  <2>1. /\ status = "run" /\ act.pc = "right" /\ act.id # 0 /\ tree[act.id].op = "func"
        /\ node = tree[act.id] /\ act.used0 = 0 /\ r1 = act.used0 /\ act.frames0 \in Nat
        /\ act \in Activation
    BY <1>2, FuncPoint
  <2>2. Top(Unwind(m)) = Ret BY <1>2, ReturnsThere
  <2>3. Holds(m, RAX, Kid(1))
    <3>1. Outcome(tree, act, m) BY <2>1, WorthFacts
    <3>2. Start("func", act.used0, 1) = 0 /\ RAX = 0 BY <2>1, Starts DEF RAX
    <3>3. Operand(tree, act) = 1
      <4>1. tree[act.id].op \in OneOperand \union {"func"} BY <2>1
      <4>. QED BY <2>1, <4>1, OperandAt
    <3>4. "right" \in Waiting BY DEF Waiting
    <3>. QED BY <2>1, <3>1, <3>2, <3>3, <3>4 DEF Outcome, Holds, Kid, KidOf
  <2>4. Finish(u, CloseFrame(nf), Result(act.save, r1, act.id, TRUE))
    <3>1. Result(act.save, r1, act.id, Top(Unwind(m)) = Ret /\ Holds(m, RAX, Kid(1))) =
          Result(act.save, r1, act.id, TRUE)
      BY <2>2, <2>3 DEF Result
    <3>. QED BY <1>2, <3>1
  <2>5. opened(tree, act) = 1 /\ Saving(tree, act) /\ LevelOf(tree, act) = act.frames0
    BY <1>a, <2>1 DEF opened, Saving, LevelOf
  <2>6. /\ Suits(tree, q, v, nf, acts, Len(acts) - 1, act.save)
        /\ Restores(tree, q, v, nf, act, act.save)
        /\ Tidy(Cut(nf, act.frames0), act.save)
    BY <2>1, <2>5, WorthFacts
  <2>7. act.save \in Machine BY <2>1 DEF Activation
  <2>8. act.save.bp = Cut(b, act.frames0)[act.frames0]
    <3>1. SavedFits(tree, nf, b, act) BY <2>1, StandsFacts DEF ActStack
    <3>2. Fits(Cut(nf, act.frames0), Cut(b, act.frames0), act.save, act.depth0)
      BY <1>a, <2>1, <3>1 DEF SavedFits
    <3>3. Fits(CloseFrame(nf), Cut(b, act.frames0), act.save, act.depth0)
          /\ Len(CloseFrame(nf)) = act.frames0
      BY <2>1, <2>5, <3>2, ClosePoint
    <3>. QED BY <3>3 DEF Fits
  <2>9. HasStored(Cut(nf, act.frames0), act.save, v.after[act.id]) BY <1>a, <2>1, <2>6 DEF Restores
  <2>10. Tidy(CloseFrame(nf), act.save) /\ HasStored(CloseFrame(nf), act.save, v.after[act.id])
    BY <2>1, <2>5, <2>6, <2>8, <2>9, CloseWorth
  <2>. QED BY <2>1, <2>4, <2>5, <2>6, <2>7, <2>10, ClosedDone
<1>. QED BY <1>1, <1>2 DEF Func

-----------------------------------------------------------------------------
(* Calls.                                                                   *)

LEMMA CallValues ==
    ASSUME Inv, NEW s, Shaped(tree, s), Book(s), NEW q, Scoped(tree, s, q), NEW b, Stands(q, b),
           NEW v, Stored(tree, s, q, v), Worth(q, v),
           NEW p, p \in {"body", "args", "push"}, At({"call"}, p)
    PROVE  LET n == Len(tree[act.id].kids)
           IN  /\ status = "run" /\ act.pc = p /\ act.id # 0 /\ node = tree[act.id]
               /\ tree[act.id].op = "call" /\ act.used0 = 0 /\ r1 = 0 /\ act \in Activation /\ act.ok
               /\ nf \in Seq(Nameframe) /\ Frames(nf, b) /\ m \in Machine
               /\ act.frames0 \in 1 .. Len(nf) /\ Len(nf) = act.frames0
               /\ Apart(nf) /\ Tidy(nf, m) /\ HasStored(nf, m, StoredAt(tree, v, act))
               /\ Outcome(tree, act, m) /\ Needs(tree, q, v, nf, act, m)
               /\ Suits(tree, q, v, nf, acts, Len(acts) - 1, m) /\ ~ FuncBody(tree, act)
               /\ n \in 0 .. 6 /\ act.argsLeft \in 0 .. n
               /\ p = "push" => act.argsLeft + 1 \in 1 .. n
               /\ act.depth0 \in Nat /\ b[Len(nf)] + nf[Len(nf)].nSub <= act.depth0
               /\ Len(m.stk) = act.depth0 + Own(tree, act) /\ Own(tree, act) \in Nat
               /\ m.bp = b[Len(nf)]
               /\ \A k \in 1 .. n : /\ Child(tree, act.id, k) = tree[act.id].kids[k]
                                    /\ tree[act.id].kids[k] # 0
                                    /\ v.before[tree[act.id].kids[k]] = StartStored(tree, v, act.id, k)
               /\ v.after[act.id] = IF tree[act.id].kids # <<>> THEN EndStored(tree, v, act.id, 1)
                                                                ELSE v.before[act.id]
<1>1. p # "enter" OBVIOUS
<1>2. /\ status = "run" /\ act.pc = p /\ act.id # 0 /\ node = tree[act.id] /\ node.op = "call"
      /\ act.used0 = s.dep[act.id] /\ r1 = act.used0
  BY <1>1, SingleOp
<1>3. act.used0 = 0
  <2>1. NodeStored(tree, s, q, v, act.id) BY AtStored
  <2>. QED BY <1>2, <2>1 DEF NodeStored
<1>4. /\ Len(node.kids) \in 0 .. 6 /\ act.argsLeft \in Nat /\ act.argsLeft <= Len(node.kids)
      /\ p = "push" => act.argsLeft + 1 <= Len(node.kids)
      /\ \A k \in 1 .. Len(node.kids) : Kid(k) = node.kids[k] /\ Kid(k) # 0
      /\ nf \in Seq(Nameframe) /\ m \in Machine /\ Frames(nf, b) /\ Len(nf) = act.frames0
      /\ act.depth0 \in Nat /\ act.depth0 >= b[Len(nf)] + nf[Len(nf)].nSub
      /\ Own(tree, act) \in Nat /\ Fits(nf, b, m, act.depth0 + Own(tree, act))
      /\ Len(m.stk) = act.depth0 + Own(tree, act) /\ DOMAIN node.kids = 1 .. Len(node.kids)
  BY CallPoint
<1>5. /\ v.after[act.id] = Left(tree, q, v, act.id)
      /\ \A k \in Operands(tree, act.id) : Kid(k) # 0 => v.before[Kid(k)] = StartStored(tree, v, act.id, k)
  BY AtStored
<1>6. Operands(tree, act.id) = 1 .. Len(node.kids) BY <1>2, <1>4, OperandSets
<1>7. ~ FuncBody(tree, act) BY <1>2 DEF FuncBody
<1>8. /\ act.ok /\ Apart(nf) /\ Tidy(nf, m) /\ Outcome(tree, act, m)
      /\ HasStored(nf, m, StoredAt(tree, v, act)) /\ Needs(tree, q, v, nf, act, m)
      /\ Suits(tree, q, v, nf, acts, Len(acts) - 1, m)
  BY <1>2, <1>7, WorthFacts
<1>9. v.after[act.id] = IF tree[act.id].kids # <<>> THEN EndStored(tree, v, act.id, 1)
                                                    ELSE v.before[act.id]
  BY <1>2, <1>5, StoredPath
<1>10. act \in Activation /\ act.frames0 \in 1 .. Len(nf)
  <2>1. act \in Activation /\ act.frames0 \in Nat \ {0} BY <1>2, InvFacts
  <2>. QED BY <1>4, <2>1
<1>11. \A k \in 1 .. Len(node.kids) : /\ Child(tree, act.id, k) = node.kids[k] /\ node.kids[k] # 0
                                      /\ v.before[node.kids[k]] = StartStored(tree, v, act.id, k)
  BY <1>4, <1>5, <1>6 DEF Kid, KidOf
<1>12. /\ act.argsLeft \in 0 .. Len(node.kids)
       /\ p = "push" => act.argsLeft + 1 \in 1 .. Len(node.kids)
  BY <1>4
<1>13. m.bp = b[Len(nf)] /\ b[Len(nf)] + nf[Len(nf)].nSub <= act.depth0
  <2>1. b[Len(nf)] \in Nat /\ nf[Len(nf)].nSub \in Nat
    <3>1. nf \in Seq(Nameframe) /\ Frames(nf, b) BY <1>4
    <3>. QED BY <3>1, FramesParts
  <2>2. m.bp = b[Len(nf)] BY <1>4 DEF Fits
  <2>. QED BY <1>4, <2>1, <2>2
<1>. QED BY <1>2, <1>3, <1>4, <1>7, <1>8, <1>9, <1>10, <1>11, <1>12, <1>13

\* Pushing and popping above the node keeps what lies below; a call has all
\* registers to itself.
LEMMA CallGround ==
    ASSUME Inv, NEW s, Shaped(tree, s), Book(s), NEW q, Scoped(tree, s, q), NEW b, Stands(q, b),
           NEW v, Stored(tree, s, q, v), Worth(q, v),
           NEW p, p \in {"body", "args", "push"}, At({"call"}, p),
           NEW k \in Int, NEW mm, Bottom(m, mm, act.depth0)
    PROVE  LET f == Pushed(nf, k)
           IN  /\ f \in Seq(Nameframe) /\ Frames(f, b) /\ Len(f) = act.frames0
               /\ Grown(nf, b, f, b, act.frames0) /\ Apart(f) /\ Tidy(f, mm)
               /\ Suits(tree, q, v, nf, acts, Len(acts) - 1, mm)
               /\ \A S : HasStored(nf, m, S) => HasStored(f, mm, S)
<1>. DEFINE f == Pushed(nf, k)
<1>1. /\ status = "run" /\ act.used0 = 0 /\ nf \in Seq(Nameframe) /\ Frames(nf, b) /\ m \in Machine
      /\ act.frames0 \in 1 .. Len(nf) /\ Len(nf) = act.frames0 /\ Apart(nf) /\ Tidy(nf, m)
      /\ Suits(tree, q, v, nf, acts, Len(acts) - 1, m) /\ ~ FuncBody(tree, act)
      /\ act.depth0 \in Nat /\ b[Len(nf)] + nf[Len(nf)].nSub <= act.depth0
      /\ m.bp = b[Len(nf)]
  BY CallValues
<1>2. nf # <<>> BY <1>1, FramesParts
<1>3. f \in Seq(Nameframe) /\ Frames(f, b) /\ SameFrames(nf, f) /\ Len(f) = Len(nf)
  BY <1>1, <1>2, PushedKeeps, SamePushed
<1>. HIDE DEF f
<1>4. Cut(nf, act.frames0) = nf /\ Cut(f, act.frames0) = f BY <1>1, <1>3, CutAll
<1>5. Alike(nf, b, f, b, act.frames0) BY <1>1, <1>2, PushedAlike DEF f
<1>6. Grown(nf, b, f, b, act.frames0)
  <2>1. SameFrames(Cut(nf, act.frames0), Cut(f, act.frames0)) BY <1>3, <1>4
  <2>2. act.frames0 \in Nat /\ act.frames0 # 0 BY <1>1
  <2>. QED BY <1>1, <1>3, <1>5, <2>1, <2>2, GrownSame
<1>7. mm.bp = m.bp /\ \A i \in 1 .. act.depth0 : mm.stk[i] = m.stk[i] BY DEF Bottom
<1>8. Tidy(nf, mm)
  <2>1. TidyAt(nf, b, m.stk) BY <1>1, TidyIs
  <2>2. \A d \in 1 .. b[Len(nf)] + nf[Len(nf)].nSub : mm.stk[d] = m.stk[d]
    <3>1. b[Len(nf)] \in Nat /\ nf[Len(nf)].nSub \in Nat BY <1>1, FramesParts
    <3>. QED BY <1>1, <1>7, <3>1
  <2>3. TidyAt(nf, b, mm.stk) BY <1>1, <2>1, <2>2, TidyWords
  <2>. QED BY <1>1, <1>7, <2>3, TidyIs
<1>9. Tidy(f, mm)
  <2>1. mm.bp = b[Len(nf)] BY <1>1, <1>7
  <2>. QED BY <1>1, <1>3, <1>8, <2>1, SameTidy
<1>10. Apart(f) /\ \A x, S : HasStored(nf, x, S) <=> HasStored(f, x, S)
  BY <1>1, <1>3, SameFramesKeep
<1>11. KeepsWords(m, mm, act.depth0) BY <1>7 DEF KeepsWords
<1>12. Suits(tree, q, v, nf, acts, Len(acts) - 1, mm)
  <2>1. Keeps(m, mm, act.used0, act.depth0) BY <1>1, <1>11 DEF Keeps, Regs, regStackSz
  <2>2. Nested(tree, acts, Len(acts)) BY <1>1, WorthFacts
  <2>. QED BY <1>1, <2>1, <2>2, LowerKept
<1>13. ASSUME NEW S, HasStored(nf, m, S) PROVE HasStored(f, mm, S)
  <2>1. HasStored(nf, mm, S) BY <1>1, <1>11, <1>13, StoredStill
  <2>. QED BY <1>10, <2>1
<1>. QED BY <1>1, <1>3, <1>6, <1>9, <1>10, <1>12, <1>13 DEF f

LEMMA CallStayWorth ==
    ASSUME Inv, NEW s, Shaped(tree, s), Book(s), NEW q, Scoped(tree, s, q), NEW b, Stands(q, b),
           NEW v, Stored(tree, s, q, v), Worth(q, v),
           NEW p, p \in {"body", "args", "push"}, At({"call"}, p),
           NEW k \in Int, NEW mm, Bottom(m, mm, act.depth0),
           NEW a, a.id = act.id, a.pc = "args", a.used0 = act.used0, a.depth0 = act.depth0, a.ok,
           \A i \in Evaluated(tree, a) : mm.stk[PlaceOf(tree, a, i)] = Val(tree[a.id].kids[i]),
           StoredAt(tree, v, a) = StoredAt(tree, v, act),
           NEW u, Live(Replaced(a), u, Pushed(nf, k), mm)
    PROVE  Worth(q, v)'
<1>. DEFINE f == Pushed(nf, k)
<1>1. /\ status = "run" /\ act.id # 0 /\ tree[act.id].op = "call"
      /\ HasStored(nf, m, StoredAt(tree, v, act))
  BY CallValues
<1>2. /\ f \in Seq(Nameframe) /\ Frames(f, b)
      /\ Grown(nf, b, f, b, act.frames0) /\ Apart(f) /\ Tidy(f, mm)
      /\ Suits(tree, q, v, nf, acts, Len(acts) - 1, mm)
      /\ \A S : HasStored(nf, m, S) => HasStored(f, mm, S)
  BY CallGround
<1>3. Live(Replaced(a), u, f, mm) OBVIOUS
<1>. HIDE DEF f
<1>4. /\ HeldIn(tree, a) = {} /\ ~ FuncBody(tree, a) /\ ~ Saving(tree, a)
      /\ Restores(tree, q, v, f, a, mm) /\ a.pc \notin Waiting /\ a.pc # "done"
  BY <1>1 DEF HeldIn, FuncBody, Saving, SavedBefore, Restores, Reopens, Waiting
<1>5. Needs(tree, q, v, f, a, mm) BY <1>4 DEF Needs
<1>6. Ground(q, v, Replaced(a), f, mm) BY <1>1, <1>2, <1>4, <1>5, TopGround
<1>7. Outcome(tree, a, mm) BY <1>4 DEF Outcome
<1>8. StoredNow(tree, v, Replaced(a)) = StoredAt(tree, v, act)
  <2>1. StoredNow(tree, v, Replaced(a)) = StoredAt(tree, v, a) BY <1>1, StoredTop
  <2>. QED BY <2>1
<1>. QED BY <1>1, <1>2, <1>3, <1>6, <1>7, <1>8, StayWorth

\* A call starts: its arguments are still to come.
LEMMA CallBodyWorth ==
    ASSUME Inv, NEW s, Shaped(tree, s), Book(s), NEW q, Scoped(tree, s, q), NEW b, Stands(q, b),
           NEW v, Stored(tree, s, q, v), Worth(q, v), At({"call"}, "body"),
           NEW u, Live([acts EXCEPT ![Len(acts)] =
                           [Resume("args") EXCEPT !.argsLeft = Len(Args)]],
                       u, Pushed(nf, r1), PushRange(m, 0, r1 - 1))
    PROVE  Worth(q, v)'
<1>. DEFINE a0 == Resume("args")  a == [a0 EXCEPT !.argsLeft = Len(Args)]
            mm == PushRange(m, 0, r1 - 1)  n == Len(tree[act.id].kids)
<1>a. "args" \in PCs BY Openings
<1>1. /\ status = "run" /\ act.pc = "body" /\ act.id # 0 /\ node = tree[act.id]
      /\ tree[act.id].op = "call" /\ r1 = 0 /\ act.ok /\ m \in Machine /\ n \in 0 .. 6
      /\ act.depth0 \in Nat /\ Len(m.stk) = act.depth0 + Own(tree, act)
      /\ \A k \in 1 .. n : v.before[tree[act.id].kids[k]] = StartStored(tree, v, act.id, k)
      /\ v.after[act.id] = IF tree[act.id].kids # <<>> THEN EndStored(tree, v, act.id, 1)
                                                       ELSE v.before[act.id]
  <2>1. "body" \in {"body", "args", "push"} OBVIOUS
  <2>. QED BY <2>1, CallValues
<1>2. /\ a0 \in Activation /\ a0.id = act.id /\ a0.pc = "args" /\ a0.ok
      /\ a0.used0 = act.used0 /\ a0.depth0 = act.depth0
  BY <1>a, <1>1, ResumedAs
<1>3. Len(Args) = n BY <1>1 DEF Args
<1>4. Live(Replaced(a), u, Pushed(nf, r1), mm) BY DEF Replaced
<1>. HIDE DEF a0
<1>5. /\ a.id = act.id /\ a.pc = "args" /\ a.ok /\ a.used0 = act.used0 /\ a.depth0 = act.depth0
      /\ a.argsLeft = n
  BY <1>2, <1>3 DEF Activation
<1>. HIDE DEF a
<1>6. Own(tree, act) = 0 BY <1>1 DEF Own
<1>7. Bottom(m, mm, act.depth0)
  <2>1. Bottom(m, PushRange(m, 0, 0 - 1), Len(m.stk)) BY <1>1, PushRangeParts
  <2>2. Len(m.stk) = act.depth0 BY <1>1, <1>6
  <2>. QED BY <1>1, <2>1, <2>2
<1>8. Evaluated(tree, a) = {}
  <2>1. Evaluated(tree, a) = n + 1 .. n BY <1>5 DEF Evaluated
  <2>. HIDE DEF n
  <2>. QED BY <1>1, <2>1
<1>9. StoredAt(tree, v, a) = StoredAt(tree, v, act)
  <2>1. StoredAt(tree, v, act) = v.before[act.id] BY <1>1 DEF StoredAt
  <2>2. CASE n = 0
    <3>1. StoredAt(tree, v, a) = v.after[act.id] BY <1>5, <2>2 DEF StoredAt
    <3>2. tree[act.id].kids = <<>>
      <4>1. node.kids \in Seq(Nat) BY AtFacts, NodeFields
      <4>. QED BY <1>1, <2>2, <4>1
    <3>. QED BY <1>1, <2>1, <3>1, <3>2
  <2>3. CASE n # 0
    <3>1. StoredAt(tree, v, a) = StartStored(tree, v, act.id, n) BY <1>5, <2>3 DEF StoredAt
    <3>2. StartStored(tree, v, act.id, n) = v.before[act.id] BY <1>1 DEF StartStored
    <3>. QED BY <2>1, <3>1, <3>2
  <2>. QED BY <2>2, <2>3
<1>10. r1 \in Int /\ "body" \in {"body", "args", "push"} BY <1>1
<1>11. \A i \in Evaluated(tree, a) : mm.stk[PlaceOf(tree, a, i)] = Val(tree[a.id].kids[i]) BY <1>8
<1>. HIDE DEF mm, n
<1>. QED BY <1>4, <1>5, <1>7, <1>9, <1>10, <1>11, CallStayWorth

\* An argument is generated: those that have been pushed stay where they are.
LEMMA CallArgWorth ==
    ASSUME Inv, NEW s, Shaped(tree, s), Book(s), NEW q, Scoped(tree, s, q), NEW b, Stands(q, b),
           NEW v, Stored(tree, s, q, v), Worth(q, v), At({"call"}, "args"), act.argsLeft > 0,
           Gen(Args[act.argsLeft], [Resume("push") EXCEPT !.argsLeft = @ - 1], used, nf, m)
    PROVE  Worth(q, v)'
<1>. DEFINE a0 == Resume("push")  a == [a0 EXCEPT !.argsLeft = @ - 1]  k == act.argsLeft
            n == Len(tree[act.id].kids)  d == act.depth0
<1>a. "push" \in PCs /\ "args" \in {"body", "args", "push"} BY Openings
<1>1. /\ status = "run" /\ act.pc = "args" /\ act.id # 0 /\ node = tree[act.id]
      /\ tree[act.id].op = "call" /\ r1 = 0 /\ act.used0 = 0 /\ act.ok /\ m \in Machine
      /\ n \in 0 .. 6 /\ k \in 0 .. n /\ d \in Nat /\ Len(m.stk) = d + Own(tree, act)
      /\ act.frames0 \in 1 .. Len(nf) /\ nf \in Seq(Nameframe) /\ Frames(nf, b)
      /\ Apart(nf) /\ Tidy(nf, m) /\ HasStored(nf, m, StoredAt(tree, v, act))
      /\ Needs(tree, q, v, nf, act, m)
      /\ Suits(tree, q, v, nf, acts, Len(acts) - 1, m)
  BY <1>a, CallValues
<1>2. \A i \in 1 .. n : /\ Child(tree, act.id, i) = tree[act.id].kids[i]
                        /\ v.before[tree[act.id].kids[i]] = StartStored(tree, v, act.id, i)
  BY <1>a, CallValues
<1>3. act.r1 = 0
  <2>1. r1 = act.r1 BY <1>a, CallPoint
  <2>. QED BY <1>1, <2>1
<1>4. k \in 1 .. n /\ k \in Nat /\ n \in Nat /\ k - 1 \in Nat /\ k - 1 <= n
  <2>1. n \in 0 .. 6 /\ k \in 0 .. n /\ k > 0 BY <1>1
  <2>. HIDE DEF n, k
  <2>. QED BY <2>1
<1>5. /\ a0 \in Activation /\ a0.id = act.id /\ a0.pc = "push" /\ a0.ok /\ a0.argsLeft = k
      /\ a0.used0 = act.used0 /\ a0.depth0 = act.depth0
  BY <1>a, <1>1, ResumedAs
<1>6. a = [Resume("push") EXCEPT !.argsLeft = k - 1] BY <1>5
<1>7. a \in Activation
  <2>1. "push" \in {"args", "push"} OBVIOUS
  <2>2. k - 1 \in Nat /\ k - 1 <= Len(node.kids) /\ node.op = "call" /\ act.id # 0 /\ status = "run"
    BY <1>1, <1>4
  <2>. HIDE DEF a, k
  <2>. QED BY <1>6, <2>1, <2>2, Counting
<1>8. Gen(tree[act.id].kids[k], a, used, nf, m) BY <1>1 DEF Args
<1>. HIDE DEF a0
<1>9. /\ a.id = act.id /\ a.pc = "push" /\ a.ok /\ a.used0 = act.used0 /\ a.depth0 = d
      /\ a.argsLeft = k - 1
  BY <1>5 DEF Activation
<1>. HIDE DEF a, k, n, d
<1>10. Operand(tree, a) = k
  <2>1. Operand(tree, a) = a.argsLeft + 1 BY <1>9, OperandAt
  <2>2. k - 1 + 1 = k BY <1>4
  <2>. QED BY <1>9, <2>1, <2>2
<1>11. Evaluated(tree, a) = Evaluated(tree, act) /\ Evaluated(tree, act) = k + 1 .. n
  <2>1. Evaluated(tree, a) = k - 1 + 2 .. n BY <1>9 DEF Evaluated, n
  <2>2. Evaluated(tree, act) = k + 1 .. n BY <1>1 DEF Evaluated, n, k
  <2>3. k - 1 + 2 = k + 1 BY <1>4
  <2>. QED BY <2>1, <2>2, <2>3
<1>12. \A i : PlaceOf(tree, a, i) = PlaceOf(tree, act, i) /\ PlaceOf(tree, a, i) = d + n + 1 - i
  BY <1>9 DEF PlaceOf, d, n
<1>13. Len(m.stk) = d + n - k
  <2>1. Own(tree, act) = 0 + n - k - 0 BY <1>1, <1>3 DEF Own, n, k
  <2>2. d + (0 + n - k - 0) = d + n - k BY <1>1, <1>4
  <2>. QED BY <1>1, <2>1, <2>2
<1>14. /\ \A i \in Evaluated(tree, a) : PlaceOf(tree, a, i) <= Len(m.stk)
       /\ d <= Len(m.stk) /\ Len(m.stk) \in Nat
  <2>1. \A i \in k + 1 .. n : d + n + 1 - i <= d + n - k BY <1>1, <1>4
  <2>2. d <= d + n - k /\ d + n - k \in Nat BY <1>1, <1>4
  <2>. QED BY <1>11, <1>12, <1>13, <2>1, <2>2
<1>15. /\ HeldIn(tree, a) = {} /\ ~ FuncBody(tree, a) /\ ~ Saving(tree, a) /\ InCall(tree, a)
       /\ Restores(tree, q, v, nf, a, m) /\ InCall(tree, act)
  BY <1>1, <1>9 DEF HeldIn, FuncBody, Saving, SavedBefore, Restores, Reopens, InCall
<1>16. Needs(tree, q, v, nf, a, m)
  <2>1. \A i \in Evaluated(tree, act) : m.stk[PlaceOf(tree, act, i)] = Val(tree[act.id].kids[i])
    BY <1>1, <1>15 DEF Needs
  <2>2. \A i \in Evaluated(tree, a) : m.stk[PlaceOf(tree, a, i)] = Val(tree[a.id].kids[i])
    BY <1>9, <1>11, <1>12, <2>1
  <2>. QED BY <1>15, <2>2 DEF Needs
<1>17. Ground(q, v, Replaced(a), nf, m)
  <2>1. Grown(nf, b, nf, b, act.frames0) BY <1>1, GrownSelf
  <2>2. a.depth0 = act.depth0 BY <1>9 DEF d
  <2>. QED BY <1>1, <1>9, <1>15, <1>16, <2>1, <2>2, TopGround
<1>18. /\ HasStored(nf, m, StartStored(tree, v, a.id, Operand(tree, a)))
       /\ v.before[tree[act.id].kids[k]] = StartStored(tree, v, a.id, Operand(tree, a))
  <2>1. StoredAt(tree, v, act) = StartStored(tree, v, act.id, k)
    <3>1. act.argsLeft # 0 BY <1>4 DEF k
    <3>. QED BY <1>1, <3>1 DEF StoredAt, k
  <2>2. v.before[tree[act.id].kids[k]] = StartStored(tree, v, act.id, k) BY <1>2, <1>4 DEF n
  <2>. QED BY <1>1, <1>9, <1>10, <2>1, <2>2
<1>19. used \in Nat BY <1>1, InvFacts DEF Types
<1>20. Within(tree, a, NewAct(tree[act.id].kids[k], used, m, nf))
  <2>1. ASSUME NEW c, c.depth0 = Len(m.stk) PROVE Within(tree, a, c)
    BY <1>9, <1>14, <1>15, <2>1 DEF Within
  <2>2. NewAct(tree[act.id].kids[k], used, m, nf).depth0 = Len(m.stk) BY DEF NewAct
  <2>. QED BY <2>1, <2>2
<1>21. used \in Nat /\ act.used0 <= used /\ act.depth0 <= Len(m.stk) BY <1>1, <1>14, <1>19 DEF d
<1>22. a.id # 0 BY <1>1, <1>9
<1>. QED BY <1>1, <1>7, <1>8, <1>9, <1>14, <1>17, <1>18, <1>20, <1>21, <1>22, GenWorth

\* The register of an argument is pushed: RAX, where its value has been left.
LEMMA CallPushWorth ==
    ASSUME Inv, NEW s, Shaped(tree, s), Book(s), NEW q, Scoped(tree, s, q), NEW b, Stands(q, b),
           NEW v, Stored(tree, s, q, v), Worth(q, v), At({"call"}, "push"), NEW u,
           Live([acts EXCEPT ![Len(acts)] = Resume("args")], u,
                Pushed(nf, 1), Push(m, Less(used, 1)))
    PROVE  Worth(q, v)'
<1>. DEFINE a == Resume("args")  k == act.argsLeft  n == Len(tree[act.id].kids)  d == act.depth0
            mm == Push(m, 0)
<1>a. /\ "args" \in PCs /\ "push" \in Waiting /\ "push" \in {"body", "args", "push"}
      /\ 0 \in Regs /\ 1 \in Int
  BY Openings DEF Waiting, Regs, regStackSz
<1>1. /\ status = "run" /\ act.pc = "push" /\ act.id # 0 /\ node = tree[act.id]
      /\ tree[act.id].op = "call" /\ r1 = 0 /\ act.used0 = 0 /\ act.ok /\ m \in Machine
      /\ n \in 0 .. 6 /\ k \in 0 .. n /\ d \in Nat /\ Len(m.stk) = d + Own(tree, act)
      /\ k + 1 \in 1 .. n
      /\ Outcome(tree, act, m) /\ Needs(tree, q, v, nf, act, m)
  BY <1>a, CallValues
<1>2. \A i \in 1 .. n : /\ Child(tree, act.id, i) = tree[act.id].kids[i]
                        /\ tree[act.id].kids[i] # 0
  BY <1>a, CallValues
<1>3. v.after[act.id] = IF tree[act.id].kids # <<>> THEN EndStored(tree, v, act.id, 1)
                                                    ELSE v.before[act.id]
  BY <1>a, CallValues
<1>4. act.r1 = 0
  <2>1. r1 = act.r1 BY <1>a, CallPoint
  <2>. QED BY <1>1, <2>1
<1>5. /\ a.id = act.id /\ a.pc = "args" /\ a.ok /\ a.used0 = act.used0 /\ a.depth0 = act.depth0
      /\ a.argsLeft = k
  BY <1>a, <1>1, ResumedAs
<1>6. Operand(tree, act) = k + 1 BY <1>1, OperandAt
<1>7. Less(used, 1) = 0
  <2>1. Start("call", act.used0, k + 1) = 0 BY <1>1, Starts
  <2>2. k + 1 \in Nat /\ k + 1 \in Operands(tree, act.id)
    <3>1. node.op = "call" /\ node.kids \in Seq(Nat) BY <1>1, AtFacts, NodeFields
    <3>2. Operands(tree, act.id) = 1 .. n BY <1>1, <3>1, OperandSets
    <3>. HIDE DEF k
    <3>. QED BY <1>1, <3>2
  <2>3. <<node.op, k + 1>> \notin Uncounted BY <1>1 DEF Uncounted
  <2>4. used = Start(node.op, act.used0, k + 1) + 1
    <3>. HIDE DEF k
    <3>. QED BY <1>a, <1>6, <2>2, <2>3, Counted
  <2>5. used = 1 BY <1>1, <2>1, <2>4
  <2>. QED BY <2>5 DEF Less
<1>8. Live(Replaced(a), u, Pushed(nf, 1), mm) BY <1>7 DEF Replaced
<1>. HIDE DEF a
<1>9. m.reg[0] = Val(tree[act.id].kids[k + 1])
  <2>1. Start("call", act.used0, k + 1) = 0 BY <1>1, Starts
  <2>2. Child(tree, act.id, k + 1) = tree[act.id].kids[k + 1] BY <1>1, <1>2
  <2>. HIDE DEF k
  <2>. QED BY <1>a, <1>1, <1>6, <2>1, <2>2 DEF Outcome
<1>. DEFINE L == Len(m.stk)
<1>10. /\ Bottom(m, mm, L) /\ mm.stk[L + 1] = m.reg[0]
  <2>1. Bottom(m, mm, L) BY <1>a, <1>1, PushParts
  <2>2. mm.stk = Append(m.stk, m.reg[0]) /\ m.stk \in Seq(Token) /\ m.reg[0] \in Token
    BY <1>a, <1>1 DEF Push, Machine
  <2>. QED BY <2>1, <2>2, AppendParts
<1>. HIDE DEF mm, k, n, d, L
<1>11. k \in Nat /\ n \in Nat /\ k + 1 <= n
  <2>1. n \in 0 .. 6 /\ k \in 0 .. n /\ k + 1 \in 1 .. n BY <1>1
  <2>. QED BY <2>1
<1>12. L = d + n - k - 1 /\ L \in Nat /\ d <= L
  <2>1. Own(tree, act) = 0 + n - k - 1 BY <1>1, <1>4 DEF Own, n, k
  <2>2. L = d + (0 + n - k - 1) BY <1>1, <2>1 DEF L
  <2>. QED BY <1>1, <1>11, <2>2
<1>13. Evaluated(tree, a) = k + 1 .. n /\ Evaluated(tree, act) = k + 2 .. n
  BY <1>1, <1>5 DEF Evaluated, n, k
<1>14. \A i : PlaceOf(tree, a, i) = d + n + 1 - i /\ PlaceOf(tree, act, i) = d + n + 1 - i
  BY <1>5 DEF PlaceOf, d, n
<1>15. ASSUME NEW i \in k + 1 .. n PROVE mm.stk[PlaceOf(tree, a, i)] = Val(tree[a.id].kids[i])
  <2>1. CASE i = k + 1
    <3>1. d + n + 1 - i = L + 1 BY <1>1, <1>11, <1>12, <2>1
    <3>. QED BY <1>5, <1>9, <1>10, <1>14, <2>1, <3>1
  <2>2. CASE i # k + 1
    <3>1. i \in k + 2 .. n /\ d + n + 1 - i \in 1 .. L BY <1>1, <1>11, <1>12, <2>2
    <3>2. m.stk[PlaceOf(tree, act, i)] = Val(tree[act.id].kids[i])
      <4>1. InCall(tree, act) BY <1>1 DEF InCall
      <4>. QED BY <1>1, <1>13, <3>1, <4>1 DEF Needs
    <3>3. mm.stk[d + n + 1 - i] = m.stk[d + n + 1 - i] BY <1>10, <3>1 DEF Bottom
    <3>. QED BY <1>5, <1>14, <3>2, <3>3
  <2>. QED BY <2>1, <2>2
<1>16. Bottom(m, mm, act.depth0)
  <2>1. \A i \in 1 .. d : i \in 1 .. L BY <1>1, <1>12
  <2>. QED BY <1>10, <2>1 DEF Bottom, d
<1>17. StoredAt(tree, v, a) = StoredAt(tree, v, act)
  <2>1. StoredAt(tree, v, act) = EndStored(tree, v, act.id, k + 1) BY <1>1, <1>6 DEF StoredAt
  <2>2. k + 1 \in 1 .. n BY <1>1
  <2>3. EndStored(tree, v, act.id, k + 1) = v.after[tree[act.id].kids[k + 1]]
    BY <1>2, <2>2 DEF EndStored
  <2>4. CASE k = 0
    <3>1. StoredAt(tree, v, a) = v.after[act.id] BY <1>5, <2>4 DEF StoredAt
    <3>2. tree[act.id].kids # <<>>
      <4>1. n # 0 BY <1>11
      <4>. QED BY <4>1 DEF n
    <3>3. k + 1 = 1 BY <2>4
    <3>. QED BY <1>3, <2>1, <3>1, <3>2, <3>3
  <2>5. CASE k # 0
    <3>1. StoredAt(tree, v, a) = StartStored(tree, v, act.id, k) BY <1>5, <2>5 DEF StoredAt
    <3>2. k # n BY <1>11
    <3>3. StartStored(tree, v, act.id, k) = v.after[tree[act.id].kids[k + 1]]
      BY <1>1, <3>2 DEF StartStored, n
    <3>. QED BY <2>1, <2>3, <3>1, <3>3
  <2>. QED BY <2>4, <2>5
<1>18. \A i \in Evaluated(tree, a) : mm.stk[PlaceOf(tree, a, i)] = Val(tree[a.id].kids[i])
  BY <1>13, <1>15
<1>. QED BY <1>a, <1>5, <1>8, <1>16, <1>17, <1>18, CallStayWorth

\* The arguments come into their registers and the call is made.
LEMMA CallDoneWorth ==
    ASSUME Inv, NEW s, Shaped(tree, s), Book(s), NEW q, Scoped(tree, s, q), NEW b, Stands(q, b),
           NEW v, Stored(tree, s, q, v), Worth(q, v), At({"call"}, "args"), act.argsLeft = 0,
           NEW u, Finish(u, Pushed(nf, -(InRegs + r1)), CallCode)
    PROVE  Worth(q, v)'
<1>. DEFINE n == Len(tree[act.id].kids)  d == act.depth0  k == -(InRegs + r1)  f == Pushed(nf, k)
            L == Len(m.stk)
<1>a. "args" \in {"body", "args", "push"} OBVIOUS
<1>1. /\ status = "run" /\ act.pc = "args" /\ act.id # 0 /\ node = tree[act.id]
      /\ tree[act.id].op = "call" /\ r1 = 0 /\ act.used0 = 0 /\ m \in Machine
      /\ n \in 0 .. 6 /\ d \in Nat /\ Len(m.stk) = d + Own(tree, act)
      /\ HasStored(nf, m, StoredAt(tree, v, act)) /\ Needs(tree, q, v, nf, act, m)
  BY <1>a, CallValues
<1>2. act.r1 = 0
  <2>1. r1 = act.r1 BY <1>a, CallPoint
  <2>. QED BY <1>1, <2>1
<1>3. Len(Args) = n /\ Args = tree[act.id].kids BY <1>1 DEF Args
<1>. HIDE DEF n, d, L
<1>4. n \in Nat /\ n <= 6 /\ L = d + n /\ L \in Nat /\ L - n = d /\ n <= L
  <2>1. Own(tree, act) = 0 + n - 0 - 0 BY <1>1, <1>2 DEF Own, n
  <2>2. L = d + (0 + n - 0 - 0) BY <1>1, <2>1 DEF L
  <2>. QED BY <1>1, <2>2
<1>5. InRegs = n /\ Bottom(m, CallCode, d)
  <2>1. n + r1 = n /\ Len(Args) <= 6 /\ Len(Args) + r1 <= Len(m.stk) BY <1>1, <1>3, <1>4 DEF L
  <2>2. InRegs = Len(Args) /\ Bottom(m, CallCode, Len(m.stk) - (Len(Args) + r1)) BY <2>1, CallKeeps
  <2>. QED BY <1>3, <1>4, <2>1, <2>2 DEF L
<1>6. k \in Int BY <1>1, <1>4, <1>5
<1>7. Yields(CallCode)
  <2>1. ASSUME NEW i \in 1 .. n PROVE Under(m, i - 1) = Val(tree[act.id].kids[i])
    <3>1. InCall(tree, act) BY <1>1 DEF InCall
    <3>2. Evaluated(tree, act) = 1 .. n BY <1>1 DEF Evaluated, n
    <3>3. m.stk[PlaceOf(tree, act, i)] = Val(tree[act.id].kids[i]) BY <1>1, <3>1, <3>2 DEF Needs
    <3>4. PlaceOf(tree, act, i) = d + n + 1 - i BY DEF PlaceOf, d, n
    <3>5. i - 1 < L /\ L - (i - 1) = d + n + 1 - i BY <1>1, <1>4
    <3>6. Under(m, i - 1) = m.stk[L - (i - 1)] BY <3>5 DEF Under, L
    <3>. QED BY <3>3, <3>4, <3>5, <3>6
  <2>2. Len(Args) <= 6 /\ Len(Args) <= Len(m.stk) BY <1>3, <1>4 DEF L
  <2>3. \A i \in 1 .. Len(Args) : Under(m, i - 1) = Val(Args[i]) BY <1>3, <2>1
  <2>. QED BY <1>1, <2>2, <2>3, CallYields
<1>8. CallCode.reg[act.used0] = Val(act.id) BY <1>1, <1>7 DEF Yields
<1>9. StoredAt(tree, v, act) = v.after[act.id] BY <1>1 DEF StoredAt
<1>10. Finish(u, f, CallCode) OBVIOUS
<1>11. /\ f \in Seq(Nameframe) /\ Frames(f, b)
       /\ Grown(nf, b, f, b, act.frames0) /\ Apart(f) /\ Tidy(f, CallCode)
       /\ Suits(tree, q, v, nf, acts, Len(acts) - 1, CallCode)
       /\ \A S : HasStored(nf, m, S) => HasStored(f, CallCode, S)
  <2>1. Bottom(m, CallCode, act.depth0) BY <1>5 DEF d
  <2>. HIDE DEF k
  <2>. QED BY <1>a, <1>6, <2>1, CallGround
<1>. HIDE DEF f, k
<1>12. HasStored(f, CallCode, v.after[act.id]) BY <1>1, <1>9, <1>11
<1>. QED BY <1>1, <1>8, <1>10, <1>11, <1>12, DoneWorth

LEMMA CallWorth ==
    ASSUME Inv, NEW s, Shaped(tree, s), Book(s), NEW q, Scoped(tree, s, q), NEW b, Stands(q, b),
           NEW v, Stored(tree, s, q, v), Worth(q, v), Call
    PROVE  Worth(q, v)'
<1>1. ASSUME Stop("crash") PROVE Worth(q, v)' BY <1>1, StopWorth
<1>. QED BY <1>1, CallBodyWorth, CallArgWorth, CallPushWorth, CallDoneWorth DEF Call

-----------------------------------------------------------------------------
(* The values are right at the start and every step keeps them so.          *)

LEMMA NextWorth ==
    ASSUME Inv, NEW s, Shaped(tree, s), Book(s), NEW q, Scoped(tree, s, q), StackBook(q),
           NEW v, Stored(tree, s, q, v), Worth(q, v), [Next]_vars
    PROVE  Stored(tree, s, q, v)' /\ Worth(q, v)'
<1>1. Stored(tree, s, q, v)'
  <2>1. tree' = tree BY TreeKept
  <2>. QED BY <2>1
<1>2. CASE UNCHANGED vars BY <1>2 DEF vars, Worth, Ground, act
<1>3. CASE Stopped BY <1>3 DEF Stopped, vars, Worth
<1>4. ASSUME Step PROVE Worth(q, v)'
  <2>1. status = "run"
    BY <1>4 DEF Step, GenNull, Begin, Spill, Return, Exit, EvalLeft, EvalRight, CaseBinary,
       CaseCompare, CaseShift, CaseDivMod, CaseSetMem, EvalOperand, CaseUnary, CaseStore,
       CaseOut, CaseIn, CaseNumberAddr, CaseIdent, CaseIncDec, CaseUnsupported, Endl, Tern,
       Qq, Logic, While, Func, Call, At
  <2>2. PICK b \in Seq(Nat) : Stands(q, b) BY <2>1 DEF StackBook
  <2>3. CASE GenNull \/ Begin \/ Spill \/ Return \/ Exit
    BY <2>2, <2>3, GenNullWorth, BeginWorth, NeverSpills, ReturnWorth, ExitWorth
  <2>4. CASE EvalLeft \/ EvalRight BY <2>2, <2>4, EvalLeftWorth, EvalRightWorth
  <2>5. CASE CaseBinary \/ CaseCompare \/ CaseShift \/ CaseDivMod \/ CaseSetMem
    BY <2>2, <2>5, TwoOperandsDoneWorth
  <2>6. CASE EvalOperand BY <2>2, <2>6, EvalOperandWorth
  <2>7. CASE CaseUnary \/ CaseStore \/ CaseOut BY <2>2, <2>7, OneOperandDoneWorth
  <2>8. CASE CaseIn \/ CaseNumberAddr \/ CaseIdent \/ CaseIncDec BY <2>2, <2>8, LeafWorth
  <2>9. CASE CaseUnsupported BY <2>9, NothingUnsupported
  <2>10. CASE Endl \/ Tern \/ Qq BY <2>2, <2>10, EndlWorth, TernWorth, NoQq
  <2>11. CASE Logic \/ While \/ Func \/ Call
    BY <2>2, <2>11, LogicWorth, WhileWorth, FuncWorth, CallWorth
  <2>. QED BY <1>4, <2>3, <2>4, <2>5, <2>6, <2>7, <2>8, <2>9, <2>10, <2>11 DEF Step
<1>. QED BY <1>1, <1>2, <1>3, <1>4 DEF Next

ValueInv ==
    /\ Inv
    /\ \E s \in Annotations(tree), q \in Scopings(tree), v \in Storings(tree) :
          /\ Shaped(tree, s) /\ Book(s) /\ Scoped(tree, s, q) /\ StackBook(q)
          /\ Stored(tree, s, q, v) /\ Worth(q, v)

LEMMA SpecValues == Spec /\ WellStored(tree) => []ValueInv
<1>1. Init /\ WellStored(tree) => ValueInv
  <2>. SUFFICES ASSUME Init, WellStored(tree) PROVE ValueInv OBVIOUS
  <2>1. PICK s \in Annotations(tree), q \in Scopings(tree), v \in Storings(tree) :
           Shaped(tree, s) /\ Scoped(tree, s, q) /\ Stored(tree, s, q, v)
    BY DEF WellStored
  <2>2. Inv /\ Book(s) /\ StackBook(q) /\ Worth(q, v) BY <2>1, InitInv, InitBook, InitOn, InitWorth
  <2>. QED BY <2>1, <2>2 DEF ValueInv
<1>2. ValueInv /\ [Next]_vars => ValueInv'
  <2>. SUFFICES ASSUME ValueInv, [Next]_vars PROVE ValueInv' OBVIOUS
  <2>1. PICK s \in Annotations(tree), q \in Scopings(tree), v \in Storings(tree) :
           /\ Shaped(tree, s) /\ Book(s) /\ Scoped(tree, s, q) /\ StackBook(q)
           /\ Stored(tree, s, q, v) /\ Worth(q, v)
    BY DEF ValueInv
  <2>2. Inv' BY NextInv DEF ValueInv
  <2>3. Shaped(tree, s)' /\ Book(s)' BY <2>1, NextBook DEF ValueInv
  <2>4. Scoped(tree, s, q)' /\ StackBook(q)' BY <2>1, NextOn DEF ValueInv
  <2>5. Stored(tree, s, q, v)' /\ Worth(q, v)' BY <2>1, NextWorth DEF ValueInv
  <2>6. (s \in Annotations(tree))' /\ (q \in Scopings(tree))' /\ (v \in Storings(tree))'
    BY <2>3, <2>4, <2>5 DEF Shaped, Scoped, Stored
  <2>. QED BY <2>2, <2>3, <2>4, <2>5, <2>6 DEF ValueInv
<1>. QED BY <1>1, <1>2, PTL DEF Spec

LEMMA ValuesInPlace == ValueInv => ResultInPlace
<1>. SUFFICES ASSUME ValueInv, Returning PROVE Holds(m, act.used0, act.id) BY DEF ResultInPlace
<1>1. Inv /\ status = "run" /\ act.pc = "done" BY DEF ValueInv, Returning, pc
<1>2. PICK s \in Annotations(tree), q \in Scopings(tree), v \in Storings(tree) : Worth(q, v)
  BY DEF ValueInv
<1>3. Outcome(tree, act, m) BY <1>1, <1>2 DEF Worth
<1>. QED BY <1>1, <1>3 DEF Outcome, Holds

\* In a program that reads only what it has stored, the code of every node
\* leaves the node's own value in the register its caller counts on
\* (Backend.cpp:99-592): operands survive what is generated after them, through
\* branches, loops, functions and calls, and the case of an operator finds the
\* values of its operands, variables and arguments where it takes them from.
THEOREM StoredResultInPlace == Spec /\ WellStored(tree) => []ResultInPlace
BY SpecValues, ValuesInPlace, PTL
=============================================================================
