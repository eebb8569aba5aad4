---------------------------- MODULE LabelsProofs ----------------------------
(***************************************************************************)
(* Jumps and calls land, for every program and every nesting.              *)
(*                                                                         *)
(* The buffers are sound up to a set P of jumps that are still to be       *)
(* patched (Sound), and every operation on them keeps labels, places and   *)
(* the jumps outside P (Extends).  The open constructs hold disjoint       *)
(* ranges of labels; a construct knows which of its labels are placed and  *)
(* which label its pending jump names (Held), so that a label that is      *)
(* registered is new, and the jump that is patched is the one that names   *)
(* it.                                                                     *)
(*                                                                         *)
(* No jump crosses the ends of a function: as long as a function is open,  *)
(* its entry separates the code and the labels that were there before from *)
(* those that came since (OpenAt); at its end this becomes a statement     *)
(* about the closed code (ClosedAt), which everything emitted later keeps, *)
(* because it lies above and is about other labels (Grows).                *)
(***************************************************************************)
EXTENDS Labels, WellOrder

Fields == {"size", "labels", "room", "place", "jumps", "calls", "funcs"}

Lands(c, e) ==
    /\ c.jumps[e].label \in DOMAIN c.place
    /\ e + c.jumps[e].disp = c.place[c.jumps[e].label]

CallLands(c, e) ==
    \/ c.calls[e].label = 0 /\ e + c.calls[e].disp = 0
    \/ /\ \E i \in DOMAIN c.funcs :
              c.funcs[i] = [id |-> c.calls[e].id, label |-> c.calls[e].label]
       /\ c.calls[e].label \in DOMAIN c.place
       /\ e + c.calls[e].disp = c.place[c.calls[e].label]

Jumps == [label : Nat, disp : Int]
Calls == [id : FuncIds, label : Nat, disp : Int]

(* The buffers, with the jumps in P still to be patched.                   *)
Sound(c, P) ==
    /\ DOMAIN c = Fields
    /\ c.size \in Nat \ {0} /\ c.labels \in Nat \ {0} /\ c.room \in Nat
    /\ c.room >= 2 /\ c.labels <= c.room
    /\ DOMAIN c.place \subseteq Nat
    /\ \A l \in DOMAIN c.place : 0 < l /\ l < c.labels /\ c.place[l] \in 1 .. c.size
    /\ DOMAIN c.jumps \subseteq 1 .. c.size
    /\ \A e \in DOMAIN c.jumps : /\ c.jumps[e] \in Jumps /\ c.jumps[e].label < c.labels
                                 /\ e \in P \/ Lands(c, e)
    /\ DOMAIN c.calls \subseteq 1 .. c.size
    /\ \A e \in DOMAIN c.calls : c.calls[e] \in Calls /\ CallLands(c, e)
    /\ c.funcs \in Seq([id : FuncIds, label : Nat])

(* d comes after c: it places the labels in L, and keeps what c has placed *)
(* and the jumps that are not in P.                                        *)
Extends(c, d, L, P) ==
    /\ c.labels <= d.labels
    /\ DOMAIN d.place = DOMAIN c.place \union L
    /\ \A l \in DOMAIN c.place : d.place[l] = c.place[l]
    /\ DOMAIN c.jumps \subseteq DOMAIN d.jumps
    /\ \A e \in DOMAIN c.jumps : /\ d.jumps[e].label = c.jumps[e].label
                                 /\ e \notin P => d.jumps[e] = c.jumps[e]

(* The jump that ends at e names the label l.                              *)
Names(c, e, l) == e \in DOMAIN c.jumps /\ c.jumps[e].label = l

LEMMA SeqElement ==
    ASSUME NEW S, NEW s \in Seq(S), NEW i \in DOMAIN s
    PROVE  s[i] \in S
OBVIOUS

LEMMA CallsKept ==
    ASSUME NEW c, NEW d, d.calls = c.calls, d.funcs = c.funcs,
           DOMAIN c.place \subseteq DOMAIN d.place,
           \A l \in DOMAIN c.place : d.place[l] = c.place[l],
           NEW e, CallLands(c, e)
    PROVE  CallLands(d, e)
<1>1. CASE c.calls[e].label = 0 /\ e + c.calls[e].disp = 0
  BY <1>1 DEF CallLands
<1>2. CASE ~ (c.calls[e].label = 0 /\ e + c.calls[e].disp = 0)
  <2>1. /\ \E i \in DOMAIN c.funcs :
               c.funcs[i] = [id |-> c.calls[e].id, label |-> c.calls[e].label]
        /\ c.calls[e].label \in DOMAIN c.place
        /\ e + c.calls[e].disp = c.place[c.calls[e].label]
    BY <1>2 DEF CallLands
  <2> QED  BY <2>1 DEF CallLands
<1> QED  BY <1>1, <1>2

LEMMA EmitSound ==
    ASSUME NEW c, NEW P, Sound(c, P), NEW n \in Nat
    PROVE  /\ Sound(Emit(c, n), P) /\ Extends(c, Emit(c, n), {}, {})
           /\ Emit(c, n).size = c.size + n /\ Emit(c, n).labels = c.labels
           /\ Emit(c, n).jumps = c.jumps /\ Emit(c, n).place = c.place
           /\ Emit(c, n).funcs = c.funcs
<1> DEFINE d == Emit(c, n)
<1>1. /\ DOMAIN d = Fields /\ d.size = c.size + n /\ d.labels = c.labels
      /\ d.room = c.room /\ d.place = c.place /\ d.jumps = c.jumps
      /\ d.calls = c.calls /\ d.funcs = c.funcs
  BY DEF Emit, Sound, Fields
<1> HIDE DEF d
<1>2. Sound(d, P)
  <2>1. /\ d.size \in Nat \ {0} /\ 1 .. c.size \subseteq 1 .. d.size  BY <1>1 DEF Sound
  <2> QED  BY <1>1, <2>1 DEF Sound, Lands, CallLands
<1>3. Extends(c, d, {}, {})  BY <1>1 DEF Extends, Sound
<1> QED  BY <1>1, <1>2, <1>3 DEF d

LEMMA ReserveSound ==
    ASSUME NEW c, NEW P, Sound(c, P), NEW n \in {1, 2}
    PROVE  /\ Sound(Reserve(c, n), P) /\ Extends(c, Reserve(c, n), {}, {})
           /\ Reserve(c, n).size = c.size /\ Reserve(c, n).labels = c.labels + n
           /\ Reserve(c, n).place = c.place /\ Reserve(c, n).funcs = c.funcs
<1> DEFINE d == Reserve(c, n)
<1>1. /\ DOMAIN d = Fields /\ d.size = c.size /\ d.labels = c.labels + n
      /\ d.room = (IF c.labels + n > c.room THEN 2 * c.room ELSE c.room)
      /\ d.place = c.place /\ d.jumps = c.jumps
      /\ d.calls = c.calls /\ d.funcs = c.funcs
  BY DEF Reserve, Sound, Fields
<1> HIDE DEF d
<1>2. Sound(d, P)
  <2>1. /\ d.labels \in Nat \ {0} /\ d.room \in Nat /\ d.room >= 2
        /\ d.labels <= d.room /\ c.labels <= d.labels
    BY <1>1 DEF Sound
  <2>2. \A l \in DOMAIN d.place : 0 < l /\ l < d.labels /\ d.place[l] \in 1 .. d.size
    BY <1>1, <2>1 DEF Sound
  <2>3. \A e \in DOMAIN d.jumps : /\ d.jumps[e] \in Jumps /\ d.jumps[e].label < d.labels
                                  /\ e \in P \/ Lands(d, e)
    BY <1>1, <2>1 DEF Sound, Lands, Jumps
  <2>4. \A e \in DOMAIN d.calls : d.calls[e] \in Calls /\ CallLands(d, e)
    <3>1. \A y \in DOMAIN c.calls : c.calls[y] \in Calls /\ CallLands(c, y)  BY DEF Sound
    <3>2. d.calls = c.calls /\ d.funcs = c.funcs /\ d.place = c.place  BY <1>1
    <3> QED  BY <3>1, <3>2, CallsKept
  <2> QED  BY <1>1, <2>1, <2>2, <2>3, <2>4 DEF Sound
<1>3. Extends(c, d, {}, {})  BY <1>1 DEF Extends, Sound
<1> QED  BY <1>1, <1>2, <1>3 DEF d

(* A jump to a label that is placed lands there; another one is pending.   *)
LEMMA JumpSound ==
    ASSUME NEW c, NEW P, Sound(c, P), NEW len \in {5, 6}, NEW l \in Nat, l < c.labels
    PROVE  LET d == Jump(c, len, l)
           IN  /\ Sound(d, P \union {d.size})
               /\ l \in DOMAIN c.place => Sound(d, P)
               /\ Extends(c, d, {}, {})
               /\ d.size = c.size + len /\ d.size \notin DOMAIN c.jumps /\ d.labels = c.labels
               /\ Names(d, d.size, l) /\ d.place = c.place /\ d.funcs = c.funcs
<1> DEFINE d == Jump(c, len, l)
           e == c.size + len
           new == [label |-> l, disp |-> GetOffs(c, l) - e]
<1>1. /\ DOMAIN d = Fields /\ d.size = e /\ d.labels = c.labels
      /\ d.room = c.room /\ d.place = c.place /\ d.jumps = Bind(c.jumps, e, new)
      /\ d.calls = c.calls /\ d.funcs = c.funcs
  BY DEF Jump, Sound, Fields
<1> HIDE DEF d
<1>2. GetOffs(c, l) \in Int  BY DEF GetOffs, Sound
<1>3. e \in Nat \ {0} /\ 1 .. c.size \subseteq 1 .. e /\ e \in 1 .. e /\ e \notin 1 .. c.size
  BY DEF Sound
<1>4. new \in Jumps  BY <1>2, <1>3 DEF Jumps
<1>5. /\ DOMAIN d.jumps = DOMAIN c.jumps \union {e} /\ d.jumps[e] = new
      /\ \A y \in DOMAIN c.jumps : y # e => d.jumps[y] = c.jumps[y]
  BY <1>1 DEF Bind
<1>6. \A y \in DOMAIN c.jumps : y # e /\ d.jumps[y] = c.jumps[y]
  BY <1>3, <1>5 DEF Sound
<1>7. l \in DOMAIN c.place => Lands(d, e)
  BY <1>1, <1>2, <1>3, <1>5 DEF Lands, GetOffs, Sound
<1> HIDE DEF new, e
<1>8. \A y \in DOMAIN d.jumps : d.jumps[y] \in Jumps /\ d.jumps[y].label < d.labels
  BY <1>1, <1>4, <1>5, <1>6 DEF Sound, new
<1>9. \A y \in DOMAIN c.jumps : y \in P \/ Lands(d, y)
  BY <1>1, <1>6 DEF Sound, Lands
<1>10. \A y \in DOMAIN d.calls : d.calls[y] \in Calls /\ CallLands(d, y)
  <2>1. \A y \in DOMAIN c.calls : c.calls[y] \in Calls /\ CallLands(c, y)  BY DEF Sound
  <2>2. d.calls = c.calls /\ d.funcs = c.funcs /\ d.place = c.place  BY <1>1
  <2> QED  BY <2>1, <2>2, CallsKept
<1>11. \A k \in DOMAIN d.place : 0 < k /\ k < d.labels /\ d.place[k] \in 1 .. d.size
  BY <1>1, <1>3 DEF Sound
<1>12. Sound(d, P \union {e})
  BY <1>1, <1>3, <1>5, <1>8, <1>9, <1>10, <1>11 DEF Sound
<1>13. l \in DOMAIN c.place => Sound(d, P)
  BY <1>1, <1>3, <1>5, <1>7, <1>8, <1>9, <1>10, <1>11 DEF Sound
<1>14. Extends(c, d, {}, {})  BY <1>1, <1>5, <1>6 DEF Extends, Sound
<1>15. /\ d.jumps[e].label = l /\ e \in DOMAIN d.jumps
       /\ e = c.size + len /\ e \notin DOMAIN c.jumps
  BY <1>5, <1>6 DEF new, e
<1> QED  BY <1>1, <1>12, <1>13, <1>14, <1>15 DEF d, Names

(* A label registered for the first time moves nothing.                    *)
LEMMA RegisterSound ==
    ASSUME NEW c, NEW P, Sound(c, P), NEW l \in Nat \ {0}, l < c.labels, l \notin DOMAIN c.place
    PROVE  /\ Sound(Register(c, l), P) /\ Extends(c, Register(c, l), {l}, {})
           /\ Register(c, l).size = c.size /\ Register(c, l).labels = c.labels
           /\ Register(c, l).place[l] = c.size
           /\ Register(c, l).jumps = c.jumps /\ Register(c, l).funcs = c.funcs
<1> DEFINE d == Register(c, l)
<1>1. /\ DOMAIN d = Fields /\ d.size = c.size /\ d.labels = c.labels
      /\ d.room = c.room /\ d.place = Bind(c.place, l, c.size) /\ d.jumps = c.jumps
      /\ d.calls = c.calls /\ d.funcs = c.funcs
  BY DEF Register, Sound, Fields
<1> HIDE DEF d
<1>2. /\ DOMAIN d.place = DOMAIN c.place \union {l} /\ d.place[l] = c.size
      /\ \A k \in DOMAIN c.place : d.place[k] = c.place[k]
  BY <1>1 DEF Bind
<1>3. \A e \in DOMAIN d.jumps : e \in P \/ Lands(d, e)
  BY <1>1, <1>2 DEF Sound, Lands
<1>4. \A e \in DOMAIN d.calls : CallLands(d, e)
  <2>1. \A y \in DOMAIN c.calls : CallLands(c, y)  BY DEF Sound
  <2>2. d.calls = c.calls /\ d.funcs = c.funcs  BY <1>1
  <2> QED  BY <1>2, <2>1, <2>2, CallsKept
<1>5. \A k \in DOMAIN d.place : 0 < k /\ k < d.labels /\ d.place[k] \in 1 .. d.size
  BY <1>1, <1>2 DEF Sound
<1>6. Sound(d, P)  BY <1>1, <1>2, <1>3, <1>4, <1>5 DEF Sound
<1>7. Extends(c, d, {l}, {})  BY <1>1, <1>2 DEF Extends, Sound
<1> QED  BY <1>1, <1>2, <1>6, <1>7 DEF d

(* The jump patched is no longer pending if its label is placed here.      *)
LEMMA UpdateSound ==
    ASSUME NEW c, NEW P, Sound(c, P), NEW of, NEW l, Names(c, of, l),
           l \in DOMAIN c.place, c.place[l] = c.size
    PROVE  /\ Sound(Update(c, of), P \ {of}) /\ Extends(c, Update(c, of), {}, {of})
           /\ Update(c, of).size = c.size /\ Update(c, of).labels = c.labels
           /\ Update(c, of).place = c.place /\ Update(c, of).funcs = c.funcs
<1> DEFINE d == Update(c, of)
<1>0. /\ of \in DOMAIN c.jumps /\ c.jumps[of].label \in DOMAIN c.place
      /\ c.place[c.jumps[of].label] = c.size
  BY DEF Names
<1>1. of \in Nat /\ c.jumps[of] \in Jumps /\ c.size \in Nat  BY <1>0 DEF Sound
<1>2. /\ DOMAIN d = Fields /\ d.size = c.size /\ d.labels = c.labels
      /\ d.room = c.room /\ d.place = c.place
      /\ d.jumps = [c.jumps EXCEPT ![of].disp = c.size - of]
      /\ d.calls = c.calls /\ d.funcs = c.funcs
  BY DEF Update, Sound, Fields
<1> HIDE DEF d
<1>3. /\ DOMAIN d.jumps = DOMAIN c.jumps
      /\ \A e \in DOMAIN c.jumps : e # of => d.jumps[e] = c.jumps[e]
      /\ d.jumps[of] = [c.jumps[of] EXCEPT !.disp = c.size - of]
  BY <1>0, <1>2
<1>4. d.jumps[of] \in Jumps /\ d.jumps[of].label = c.jumps[of].label
      /\ d.jumps[of].disp = c.size - of
  BY <1>1, <1>3 DEF Jumps
<1>5. Lands(d, of)  BY <1>0, <1>1, <1>2, <1>4 DEF Lands
<1>6. \A e \in DOMAIN d.jumps : /\ d.jumps[e] \in Jumps /\ d.jumps[e].label < d.labels
                                /\ e \in P \ {of} \/ Lands(d, e)
  <2> SUFFICES ASSUME NEW e \in DOMAIN d.jumps
               PROVE  /\ d.jumps[e] \in Jumps /\ d.jumps[e].label < d.labels
                      /\ e \in P \ {of} \/ Lands(d, e)
    OBVIOUS
  <2>1. CASE e = of  BY <1>0, <1>2, <1>4, <1>5, <2>1 DEF Sound
  <2>2. CASE e # of  BY <1>2, <1>3, <2>2 DEF Sound, Lands
  <2> QED  BY <2>1, <2>2
<1>7. \A e \in DOMAIN d.calls : d.calls[e] \in Calls /\ CallLands(d, e)
  <2>1. \A y \in DOMAIN c.calls : c.calls[y] \in Calls /\ CallLands(c, y)  BY DEF Sound
  <2>2. d.calls = c.calls /\ d.funcs = c.funcs /\ d.place = c.place  BY <1>2
  <2> QED  BY <2>1, <2>2, CallsKept
<1>8. Sound(d, P \ {of})  BY <1>2, <1>3, <1>6, <1>7 DEF Sound
<1>9. Extends(c, d, {}, {of})  BY <1>2, <1>3, <1>4 DEF Extends, Sound
<1> QED  BY <1>2, <1>8, <1>9 DEF d

(* functionRegister disturbs nothing but the table.                        *)
LEMMA FunctionSound ==
    ASSUME NEW c, NEW P, Sound(c, P), NEW id \in FuncIds, NEW l \in Nat
    PROVE  /\ Sound(functionRegister(c, id, l), P)
           /\ Extends(c, functionRegister(c, id, l), {}, {})
           /\ functionRegister(c, id, l).size = c.size
           /\ functionRegister(c, id, l).labels = c.labels
           /\ functionRegister(c, id, l).place = c.place
           /\ functionRegister(c, id, l).funcs = Append(c.funcs, [id |-> id, label |-> l])
<1> DEFINE d == functionRegister(c, id, l)
<1>1. /\ DOMAIN d = Fields /\ d.size = c.size /\ d.labels = c.labels
      /\ d.room = c.room /\ d.place = c.place /\ d.jumps = c.jumps
      /\ d.calls = c.calls /\ d.funcs = Append(c.funcs, [id |-> id, label |-> l])
  BY DEF functionRegister, Sound, Fields
<1> HIDE DEF d
<1>2. /\ d.funcs \in Seq([id : FuncIds, label : Nat])
      /\ DOMAIN c.funcs \subseteq DOMAIN d.funcs
      /\ \A i \in DOMAIN c.funcs : d.funcs[i] = c.funcs[i]
  BY <1>1 DEF Sound
<1>3. \A e \in DOMAIN d.calls : d.calls[e] \in Calls /\ CallLands(d, e)
  <2> SUFFICES ASSUME NEW e \in DOMAIN c.calls
               PROVE  c.calls[e] \in Calls /\ CallLands(d, e)
    BY <1>1
  <2>1. c.calls[e] \in Calls /\ CallLands(c, e)  BY DEF Sound
  <2>2. CASE c.calls[e].label = 0 /\ e + c.calls[e].disp = 0
    BY <1>1, <2>1, <2>2 DEF CallLands
  <2>3. CASE ~ (c.calls[e].label = 0 /\ e + c.calls[e].disp = 0)
    <3>1. PICK i \in DOMAIN c.funcs :
              c.funcs[i] = [id |-> c.calls[e].id, label |-> c.calls[e].label]
      BY <2>1, <2>3 DEF CallLands
    <3>2. /\ c.calls[e].label \in DOMAIN c.place
          /\ e + c.calls[e].disp = c.place[c.calls[e].label]
      BY <2>1, <2>3 DEF CallLands
    <3>3. d.funcs[i] = [id |-> d.calls[e].id, label |-> d.calls[e].label] /\ i \in DOMAIN d.funcs
      BY <1>1, <1>2, <3>1
    <3>4. d.calls[e].label \in DOMAIN d.place /\ e + d.calls[e].disp = d.place[d.calls[e].label]
      BY <1>1, <3>2
    <3> QED  BY <2>1, <3>3, <3>4 DEF CallLands
  <2> QED  BY <2>2, <2>3
<1>4. Sound(d, P)  BY <1>1, <1>2, <1>3 DEF Sound, Lands
<1>5. Extends(c, d, {}, {})  BY <1>1 DEF Extends, Sound
<1> QED  BY <1>1, <1>4, <1>5 DEF d

(* Every function of the table has an entry.                               *)
FunctionsPlaced(c) == \A i \in DOMAIN c.funcs : c.funcs[i].label \in DOMAIN c.place

(* functionGetL finds a function of that name, or 0.                       *)
LEMMA FunctionFound ==
    ASSUME NEW c, NEW P, Sound(c, P), NEW id
    PROVE  \/ functionGetL(c, id) = 0 /\ Entries(c, id) = {}
           \/ \E i \in DOMAIN c.funcs :
                 c.funcs[i] = [id |-> id, label |-> functionGetL(c, id)]
<1>1. CASE Entries(c, id) = {}  BY <1>1 DEF functionGetL
<1>2. CASE Entries(c, id) # {}
  <2> DEFINE T == Entries(c, id)
             Entry == [id : FuncIds, label : Nat]
             first == CHOOSE i \in T : \A j \in T : i <= j
  <2>1. c.funcs \in Seq(Entry)  BY DEF Sound
  <2>2. T \subseteq Nat /\ T # {}  BY <1>2, <2>1 DEF Entries
  <2>3. \E i \in T : \A j \in T : i <= j  BY <2>2, Least
  <2>4. first \in T  BY <2>3
  <2>5. functionGetL(c, id) = c.funcs[first].label  BY <1>2 DEF functionGetL
  <2>6. first \in DOMAIN c.funcs /\ c.funcs[first].id = id  BY <2>4 DEF Entries
  <2> HIDE DEF T, first
  <2>7. c.funcs[first] \in Entry
    <3> HIDE DEF Entry
    <3> QED  BY <2>1, <2>6, SeqElement
  <2>8. c.funcs[first] = [id |-> id, label |-> c.funcs[first].label]  BY <2>6, <2>7
  <2> QED  BY <2>5, <2>6, <2>8
<1> QED  BY <1>1, <1>2

LEMMA CallSound ==
    ASSUME NEW c, NEW P, Sound(c, P), FunctionsPlaced(c), NEW id \in FuncIds
    PROVE  /\ Sound(CallTo(c, id), P) /\ Extends(c, CallTo(c, id), {}, {})
           /\ CallTo(c, id).place = c.place /\ CallTo(c, id).funcs = c.funcs
<1> DEFINE d == CallTo(c, id)
           e == c.size + 5
           l == functionGetL(c, id)
           new == [id |-> id, label |-> l, disp |-> GetOffs(c, l) - e]
<1>1. /\ DOMAIN d = Fields /\ d.size = e /\ d.labels = c.labels
      /\ d.room = c.room /\ d.place = c.place /\ d.jumps = c.jumps
      /\ d.calls = Bind(c.calls, e, new) /\ d.funcs = c.funcs
  BY DEF CallTo, Sound, Fields
<1>2. e \in Nat \ {0} /\ 1 .. c.size \subseteq 1 .. e /\ e \in 1 .. e /\ e \notin 1 .. c.size
  BY DEF Sound
<1>3. \/ l = 0
      \/ \E i \in DOMAIN c.funcs : c.funcs[i] = [id |-> id, label |-> l]
  BY FunctionFound
<1> HIDE DEF d, l
<1>4. l \in Nat /\ (l = 0 \/ l \in DOMAIN c.place)
  BY <1>3 DEF FunctionsPlaced, Sound
<1>5. GetOffs(c, l) \in Int /\ (l = 0 => GetOffs(c, l) = 0)
      /\ (l \in DOMAIN c.place => GetOffs(c, l) = c.place[l])
  BY <1>4 DEF GetOffs, Sound
<1>6. new \in Calls  BY <1>2, <1>4, <1>5 DEF Calls
<1>7. /\ DOMAIN d.calls = DOMAIN c.calls \union {e} /\ d.calls[e] = new
      /\ \A y \in DOMAIN c.calls : y # e => d.calls[y] = c.calls[y]
  BY <1>1 DEF Bind
<1>8. \A y \in DOMAIN c.calls : y # e /\ d.calls[y] = c.calls[y]
  BY <1>2, <1>7 DEF Sound
<1>9. d.calls[e].id = id /\ d.calls[e].label = l /\ d.calls[e].disp = GetOffs(c, l) - e
  BY <1>7
<1>10. CallLands(d, e)
  <2>1. CASE l = 0
    BY <1>2, <1>5, <1>9, <2>1 DEF CallLands
  <2>2. CASE l # 0
    <3>1. l \in DOMAIN c.place  BY <1>4, <2>2
    <3>2. e + (GetOffs(c, l) - e) = c.place[l]  BY <1>2, <1>5, <3>1 DEF Sound
    <3>3. \E i \in DOMAIN c.funcs : c.funcs[i] = [id |-> id, label |-> l]  BY <1>3, <2>2
    <3>4. \E i \in DOMAIN d.funcs :
              d.funcs[i] = [id |-> d.calls[e].id, label |-> d.calls[e].label]
      <4> HIDE DEF new, e
      <4> QED  BY <1>1, <1>9, <3>3
    <3>5. /\ d.calls[e].label \in DOMAIN d.place
          /\ e + d.calls[e].disp = d.place[d.calls[e].label]
      <4> HIDE DEF new, e
      <4> QED  BY <1>1, <1>9, <3>1, <3>2
    <3> QED  BY <3>4, <3>5 DEF CallLands
  <2> QED  BY <2>1, <2>2
<1> HIDE DEF new, e
<1>11. \A y \in DOMAIN d.calls : d.calls[y] \in Calls /\ CallLands(d, y)
  <2> SUFFICES ASSUME NEW y \in DOMAIN c.calls
               PROVE  d.calls[y] \in Calls /\ CallLands(d, y)
    BY <1>6, <1>7, <1>10
  <2>1. c.calls[y] \in Calls /\ CallLands(c, y)  BY DEF Sound
  <2>2. d.calls[y] = c.calls[y] /\ d.place = c.place /\ d.funcs = c.funcs
    BY <1>1, <1>8
  <2> QED  BY <2>1, <2>2 DEF CallLands
<1>12. \A k \in DOMAIN d.place : 0 < k /\ k < d.labels /\ d.place[k] \in 1 .. d.size
  BY <1>1, <1>2 DEF Sound
<1>13. DOMAIN d.calls \subseteq 1 .. d.size  BY <1>1, <1>2, <1>7 DEF Sound
<1>14. \A y \in DOMAIN d.jumps : /\ d.jumps[y] \in Jumps /\ d.jumps[y].label < d.labels
                                 /\ y \in P \/ Lands(d, y)
  BY <1>1 DEF Sound, Lands
<1>15. DOMAIN d.jumps \subseteq 1 .. d.size  BY <1>1, <1>2 DEF Sound
<1>16. Sound(d, P)  BY <1>1, <1>2, <1>11, <1>12, <1>13, <1>14, <1>15 DEF Sound
<1>17. Extends(c, d, {}, {})  BY <1>1 DEF Extends, Sound
<1> QED  BY <1>1, <1>16, <1>17 DEF d

-----------------------------------------------------------------------------
(* The open constructs.                                                    *)

Width(op) == IF op = "qq" THEN 1 ELSE 2

Target(s) ==
    IF s.op \in {"qq", "logic"} \/ s.stage = "then" THEN s.lbl ELSE s.lbl + 1

(* The labels of a construct that it has not registered yet.               *)
Free(s) ==
    IF s.op = "logic" \/ s.stage = "then" THEN {s.lbl, s.lbl + 1}
    ELSE IF s.op = "qq" THEN {s.lbl} ELSE {s.lbl + 1}

Held(c, s) ==
    /\ s \in Construct
    /\ 0 < s.lbl /\ s.lbl + Width(s.op) <= c.labels
    /\ s.stage = "then" => s.op = "tern"
    /\ Free(s) \intersect DOMAIN c.place = {}
    /\ s.op = "while" => s.lbl \in DOMAIN c.place
    /\ IF s.stage = "left" THEN s.of = 0 ELSE Names(c, s.of, Target(s))

Pend(st) == {st[i].of : i \in DOMAIN st}

(* Every construct lies below the label l.                                 *)
Below(st, l) == \A i \in DOMAIN st : st[i].lbl + Width(st[i].op) <= l

StackInv(c, st) ==
    /\ st \in Seq(Construct)
    /\ \A i \in DOMAIN st : Held(c, st[i])
    /\ \A i, j \in DOMAIN st : i < j => st[i].lbl + Width(st[i].op) <= st[j].lbl

IInv ==
    /\ pc \in {"gen", "done", "assert"}
    /\ Sound(out, Pend(stack))
    /\ StackInv(out, stack)
    /\ pc # "assert" => FunctionsPlaced(out)

(* What every step of codeGen leaves alone.                                *)
Kept == \E L : Extends(out, out', L, Pend(stack))

LEMMA ExtendsTransitive ==
    ASSUME NEW c, NEW d, NEW e, NEW L, NEW M, NEW P, NEW Q,
           c.labels \in Nat, d.labels \in Nat, e.labels \in Nat,
           Extends(c, d, L, P), Extends(d, e, M, Q)
    PROVE  Extends(c, e, L \union M, P \union Q)
<1>1. c.labels <= e.labels  BY DEF Extends
<1>2. DOMAIN e.place = DOMAIN c.place \union (L \union M)  BY DEF Extends
<1>3. \A l \in DOMAIN c.place : e.place[l] = c.place[l]  BY DEF Extends
<1>4. DOMAIN c.jumps \subseteq DOMAIN e.jumps  BY DEF Extends
<1>5. \A y \in DOMAIN c.jumps : /\ e.jumps[y].label = c.jumps[y].label
                                /\ y \notin P \union Q => e.jumps[y] = c.jumps[y]
  BY DEF Extends
<1> QED  BY <1>1, <1>2, <1>3, <1>4, <1>5 DEF Extends

LEMMA SoundGrows ==
    ASSUME NEW c, NEW P, NEW Q, P \subseteq Q, Sound(c, P)
    PROVE  Sound(c, Q)
BY DEF Sound

LEMMA ExtendsGrows ==
    ASSUME NEW c, NEW d, NEW L, NEW P, NEW Q, P \intersect DOMAIN c.jumps \subseteq Q,
           Extends(c, d, L, P)
    PROVE  Extends(c, d, L, Q)
BY DEF Extends

LEMMA FreeSound ==
    ASSUME NEW c, NEW s, Held(c, s), NEW l \in Free(s)
    PROVE  l \in Nat \ {0} /\ s.lbl <= l /\ l < s.lbl + Width(s.op) /\ l \notin DOMAIN c.place
<1>1. l \notin DOMAIN c.place  BY DEF Held
<1>2. s \in Construct /\ 0 < s.lbl /\ (s.stage = "then" => s.op = "tern")  BY DEF Held
<1>3. s.lbl \in Nat  BY <1>2 DEF Construct
<1> QED  BY <1>1, <1>2, <1>3 DEF Free, Width

LEMMA NamesKept ==
    ASSUME NEW c, NEW d, NEW L, NEW P, Extends(c, d, L, P), NEW e, NEW l, Names(c, e, l)
    PROVE  Names(d, e, l)
BY DEF Names, Extends

LEMMA HeldKept ==
    ASSUME NEW c, NEW d, NEW L, NEW P, NEW s, Held(c, s), Extends(c, d, L, P),
           c.labels \in Nat, d.labels \in Nat, L \intersect Free(s) = {}
    PROVE  Held(d, s)
<1>1. s \in Construct /\ s.lbl \in Nat /\ Width(s.op) \in Nat  BY DEF Held, Construct, Width
<1>2. s.lbl + Width(s.op) <= d.labels  BY <1>1 DEF Held, Extends
<1>3. Free(s) \intersect DOMAIN d.place = {}  BY DEF Held, Extends
<1>4. s.op = "while" => s.lbl \in DOMAIN d.place  BY DEF Held, Extends
<1>5. IF s.stage = "left" THEN s.of = 0 ELSE Names(d, s.of, Target(s))
  BY NamesKept DEF Held
<1> QED  BY <1>1, <1>2, <1>3, <1>4, <1>5 DEF Held

(* A step that places no label reserved before keeps what is open.         *)
LEMMA StackKept ==
    ASSUME NEW c, NEW d, NEW L, NEW P, NEW st, StackInv(c, st), Extends(c, d, L, P),
           c.labels \in Nat, d.labels \in Nat, \A l \in L : l \in Nat /\ c.labels <= l
    PROVE  StackInv(d, st) /\ Below(st, c.labels)
<1>1. Below(st, c.labels)  BY DEF Below, StackInv, Held
<1>2. ASSUME NEW i \in DOMAIN st PROVE Held(d, st[i])
  <2>1. Held(c, st[i])  BY DEF StackInv
  <2>2. ASSUME NEW l \in Free(st[i]) PROVE l \notin L
    <3>1. l \in Nat /\ l < st[i].lbl + Width(st[i].op)  BY <2>1, FreeSound
    <3>2. st[i].lbl + Width(st[i].op) <= c.labels  BY <2>1 DEF Held
    <3>3. st[i].lbl + Width(st[i].op) \in Nat  BY <2>1 DEF Held, Construct, Width
    <3> QED  BY <3>1, <3>2, <3>3
  <2> QED  BY <2>1, <2>2, HeldKept
<1> QED  BY <1>1, <1>2 DEF StackInv

LEMMA StackOrder ==
    ASSUME NEW c, NEW st, StackInv(c, st), NEW i \in DOMAIN st, NEW j \in DOMAIN st, i < j
    PROVE  st[i].lbl + Width(st[i].op) <= st[j].lbl
BY DEF StackInv

(* The innermost construct may place its own labels.                       *)
LEMMA FrontKept ==
    ASSUME NEW c, NEW d, NEW L, NEW P, NEW st, StackInv(c, st), st # <<>>,
           Extends(c, d, L, P), c.labels \in Nat, d.labels \in Nat,
           \A l \in L : l \in Nat /\ st[Len(st)].lbl <= l
    PROVE  LET front == SubSeq(st, 1, Len(st) - 1)
               top == st[Len(st)]
           IN  /\ Held(c, top)
               /\ StackInv(d, front) /\ Below(front, top.lbl)
               /\ Pend(st) = Pend(front) \union {top.of}
<1> DEFINE n == Len(st)
           front == SubSeq(st, 1, n - 1)
           top == st[n]
<1>1. st \in Seq(Construct) /\ n \in Nat \ {0} /\ DOMAIN st = 1 .. n  BY DEF StackInv
<1>2. /\ front \in Seq(Construct) /\ DOMAIN front = 1 .. n - 1
      /\ \A i \in 1 .. n - 1 : front[i] = st[i]
  BY <1>1
<1> HIDE DEF front
<1>3. n \in DOMAIN st /\ DOMAIN front \subseteq DOMAIN st /\ \A i \in DOMAIN front : i < n
  BY <1>1, <1>2
<1>4. Held(c, top)  BY <1>3 DEF StackInv
<1>5. Below(front, top.lbl)  BY <1>2, <1>3 DEF Below, StackInv
<1>6. ASSUME NEW i \in DOMAIN front PROVE Held(d, front[i])
  <2>1. Held(c, st[i]) /\ front[i] = st[i]  BY <1>2, <1>3 DEF StackInv
  <2>2. ASSUME NEW l \in Free(st[i]) PROVE l \notin L
    <3>1. l \in Nat /\ l < st[i].lbl + Width(st[i].op)  BY <2>1, FreeSound
    <3>2. st[i].lbl + Width(st[i].op) <= top.lbl  BY <1>5, <2>1 DEF Below
    <3>3. st[i].lbl + Width(st[i].op) \in Nat  BY <2>1 DEF Held, Construct, Width
    <3>4. top.lbl \in Nat  BY <1>4 DEF Held, Construct
    <3> QED  BY <3>1, <3>2, <3>3, <3>4
  <2> QED  BY <2>1, <2>2, HeldKept
<1>7. \A i, j \in DOMAIN front : i < j => front[i].lbl + Width(front[i].op) <= front[j].lbl
  <2>1. ASSUME NEW i \in DOMAIN front, NEW j \in DOMAIN front, i < j
        PROVE  front[i].lbl + Width(front[i].op) <= front[j].lbl
    <3>1. front[i] = st[i] /\ front[j] = st[j]
      <4>1. i \in 1 .. n - 1 /\ j \in 1 .. n - 1  BY <1>2, <2>1
      <4> HIDE DEF n
      <4> QED  BY <1>2, <4>1
    <3>2. i \in DOMAIN st /\ j \in DOMAIN st  BY <1>3
    <3>3. st[i].lbl + Width(st[i].op) <= st[j].lbl  BY <2>1, <3>2, StackOrder
    <3> QED  BY <3>1, <3>3
  <2> QED  BY <2>1
<1>8. Pend(st) = Pend(front) \union {top.of}
  <2>1. DOMAIN st = DOMAIN front \union {n}  BY <1>1, <1>2
  <2>2. \A i \in DOMAIN front : front[i] = st[i]  BY <1>2
  <2> QED  BY <2>1, <2>2 DEF Pend
<1>9. StackInv(d, front)  BY <1>2, <1>6, <1>7 DEF StackInv
<1> QED  BY <1>4, <1>5, <1>8, <1>9 DEF front

LEMMA Pushed ==
    ASSUME NEW d, NEW st, StackInv(d, st), NEW s, Held(d, s), Below(st, s.lbl)
    PROVE  StackInv(d, Append(st, s)) /\ Pend(Append(st, s)) = Pend(st) \union {s.of}
<1> DEFINE new == Append(st, s)
           n == Len(st) + 1
<1>1. st \in Seq(Construct) /\ DOMAIN st = 1 .. Len(st) /\ Len(st) \in Nat  BY DEF StackInv
<1>2. s \in Construct  BY DEF Held
<1>3. /\ new \in Seq(Construct) /\ DOMAIN new = DOMAIN st \union {n} /\ new[n] = s
      /\ \A i \in DOMAIN st : new[i] = st[i] /\ i < n
  BY <1>1, <1>2
<1>4. \A i \in DOMAIN new : i \in DOMAIN st \/ i = n  BY <1>3
<1>5. n \in DOMAIN new  BY <1>3
<1>6. DOMAIN new \subseteq Nat /\ n \in Nat  BY <1>1, <1>3
<1> HIDE DEF new, n
<1>7. \A i \in DOMAIN new : Held(d, new[i])  BY <1>3, <1>4 DEF StackInv
<1>8. ASSUME NEW i \in DOMAIN new, NEW j \in DOMAIN new, i < j
      PROVE  new[i].lbl + Width(new[i].op) <= new[j].lbl
  <2>1. i \in DOMAIN st  BY <1>3, <1>4, <1>6, <1>8
  <2>2. CASE j \in DOMAIN st  BY <1>3, <1>8, <2>1, <2>2 DEF StackInv
  <2>3. CASE j = n  BY <1>3, <2>1, <2>3 DEF Below
  <2> QED  BY <1>4, <2>2, <2>3
<1>9. Pend(new) = Pend(st) \union {s.of}  BY <1>3 DEF Pend
<1> QED  BY <1>3, <1>7, <1>8, <1>9 DEF new, StackInv

LEMMA PlacedKept ==
    ASSUME NEW c, NEW d, NEW L, NEW P, FunctionsPlaced(c), Extends(c, d, L, P), d.funcs = c.funcs
    PROVE  FunctionsPlaced(d)
BY DEF FunctionsPlaced, Extends

-----------------------------------------------------------------------------
(* A chain of operations on the buffers, from c to d: it places L, patches  *)
(* Q and leaves P to be patched.                                           *)
Reach(c, d, L, Q, P) ==
    /\ c.labels \in Nat
    /\ Sound(d, P) /\ Extends(c, d, L, Q)
    /\ d.funcs = c.funcs

(* Patching a jump changes nothing else.                                   *)
SamePlaces(d, e) == e.size = d.size /\ e.labels = d.labels /\ e.place = d.place

LEMMA ThenEmit ==
    ASSUME NEW c, NEW d, NEW L, NEW Q, NEW P, Reach(c, d, L, Q, P), NEW n \in Nat
    PROVE  LET e == Emit(d, n)
           IN  /\ Reach(c, e, L, Q, P) /\ e.size = d.size + n /\ e.labels = d.labels
               /\ e.place = d.place /\ e.jumps = d.jumps
<1> DEFINE e == Emit(d, n)
<1>1. /\ Sound(e, P) /\ Extends(d, e, {}, {}) /\ e.size = d.size + n
      /\ e.labels = d.labels /\ e.place = d.place /\ e.jumps = d.jumps /\ e.funcs = d.funcs
  BY EmitSound DEF Reach
<1> HIDE DEF e
<1>2. e.labels \in Nat /\ d.labels \in Nat /\ c.labels \in Nat /\ Extends(c, d, L, Q)
  BY <1>1 DEF Reach, Sound
<1>3. Extends(c, e, L \union {}, Q \union {})  BY <1>1, <1>2, ExtendsTransitive
<1>4. Extends(c, e, L, Q)  BY <1>3
<1>5. Reach(c, e, L, Q, P)  BY <1>1, <1>4 DEF Reach
<1> QED  BY <1>1, <1>5 DEF e

LEMMA ThenReserve ==
    ASSUME NEW c, NEW P, Sound(c, P), NEW n \in {1, 2}
    PROVE  LET e == Reserve(c, n)
           IN  /\ Reach(c, e, {}, {}, P) /\ e.size = c.size
               /\ e.labels = c.labels + n /\ e.place = c.place
<1> DEFINE e == Reserve(c, n)
<1>1. /\ Sound(e, P) /\ Extends(c, e, {}, {}) /\ e.size = c.size
      /\ e.labels = c.labels + n /\ e.place = c.place /\ e.funcs = c.funcs
  BY ReserveSound
<1>2. c.labels \in Nat  BY DEF Sound
<1> HIDE DEF e
<1>3. Reach(c, e, {}, {}, P)  BY <1>1, <1>2 DEF Reach
<1> QED  BY <1>1, <1>3 DEF e

(* A jump to l may be emitted from d, and what is then known.               *)
Jumping(c, d, L, Q, P, len, l) ==
    Reach(c, d, L, Q, P) /\ len \in {5, 6} /\ l \in Nat /\ l < d.labels

Jumped(c, d, L, Q, P, len, l) ==
    LET e == Jump(d, len, l)
    IN  /\ Reach(c, e, L, Q, P \union {e.size})
        /\ l \in DOMAIN d.place => Reach(c, e, L, Q, P)
        /\ e.size = d.size + len /\ e.size \notin DOMAIN c.jumps
        /\ e.labels = d.labels /\ e.place = d.place /\ Names(e, e.size, l)
        /\ \A y, k : Names(d, y, k) => Names(e, y, k) /\ y # e.size

LEMMA JumpsReach ==
    ASSUME NEW c, NEW d, NEW L, NEW Q, NEW P, NEW len, NEW l, Jumping(c, d, L, Q, P, len, l)
    PROVE  Jumped(c, d, L, Q, P, len, l)
<1> DEFINE e == Jump(d, len, l)
<1>1. /\ Sound(e, P \union {e.size}) /\ (l \in DOMAIN d.place => Sound(e, P))
      /\ Extends(d, e, {}, {}) /\ e.size = d.size + len /\ e.size \notin DOMAIN d.jumps
      /\ e.labels = d.labels /\ e.place = d.place /\ Names(e, e.size, l) /\ e.funcs = d.funcs
  <2>1. Sound(d, P) /\ len \in {5, 6} /\ l \in Nat /\ l < d.labels /\ d.funcs = c.funcs
    BY DEF Jumping, Reach
  <2> QED  BY <2>1, JumpSound
<1> HIDE DEF e
<1>2. e.labels \in Nat /\ d.labels \in Nat /\ c.labels \in Nat /\ Extends(c, d, L, Q)
  BY <1>1 DEF Jumping, Reach, Sound
<1>3. Extends(c, e, L \union {}, Q \union {})  BY <1>1, <1>2, ExtendsTransitive
<1>4. Extends(c, e, L, Q)  BY <1>3
<1>5. /\ Reach(c, e, L, Q, P \union {e.size})
      /\ l \in DOMAIN d.place => Reach(c, e, L, Q, P)
  BY <1>1, <1>4 DEF Jumping, Reach
<1>6. e.size \notin DOMAIN c.jumps  BY <1>1, <1>2 DEF Extends
<1>7. \A y, k : Names(d, y, k) => Names(e, y, k) /\ y # e.size
  <2>1. \A y, k : Names(d, y, k) => y # e.size  BY <1>1 DEF Names
  <2> QED  BY <1>1, <2>1, NamesKept
<1>8. Jumped(c, d, L, Q, P, len, l) <=>
         /\ Reach(c, e, L, Q, P \union {e.size})
         /\ l \in DOMAIN d.place => Reach(c, e, L, Q, P)
         /\ e.size = d.size + len /\ e.size \notin DOMAIN c.jumps
         /\ e.labels = d.labels /\ e.place = d.place /\ Names(e, e.size, l)
         /\ \A y, k : Names(d, y, k) => Names(e, y, k) /\ y # e.size
  BY DEF Jumped, e
<1> QED  BY <1>1, <1>5, <1>6, <1>7, <1>8

LEMMA ThenJump ==
    ASSUME NEW c, NEW d, NEW L, NEW Q, NEW P, Reach(c, d, L, Q, P),
           NEW len \in {5, 6}, NEW l \in Nat, l < d.labels
    PROVE  LET e == Jump(d, len, l)
           IN  /\ Reach(c, e, L, Q, P \union {e.size})
               /\ l \in DOMAIN d.place => Reach(c, e, L, Q, P)
               /\ e.size = d.size + len /\ e.size \notin DOMAIN c.jumps
               /\ e.labels = d.labels /\ e.place = d.place /\ Names(e, e.size, l)
               /\ \A y, k : Names(d, y, k) => Names(e, y, k) /\ y # e.size
<1>1. Jumping(c, d, L, Q, P, len, l)  BY DEF Jumping
<1>2. Jumped(c, d, L, Q, P, len, l)  BY <1>1, JumpsReach
<1> QED  BY <1>2 DEF Jumped

(* The part of it that says which labels are placed.                       *)
LEMMA JumpPlacesNothing ==
    ASSUME NEW c, NEW d, NEW L, NEW Q, NEW P, Reach(c, d, L, Q, P),
           NEW len \in {5, 6}, NEW l \in Nat, l < d.labels
    PROVE  Jump(d, len, l).labels = d.labels /\ Jump(d, len, l).place = d.place
<1>1. Sound(d, P)  BY DEF Reach
<1> QED  BY <1>1, JumpSound

LEMMA ThenRegister ==
    ASSUME NEW c, NEW d, NEW L, NEW Q, NEW P, Reach(c, d, L, Q, P),
           NEW l \in Nat \ {0}, l < d.labels, l \notin DOMAIN d.place
    PROVE  LET e == Register(d, l)
           IN  /\ Reach(c, e, L \union {l}, Q, P) /\ e.size = d.size /\ e.labels = d.labels
               /\ DOMAIN e.place = DOMAIN d.place \union {l} /\ e.place[l] = e.size
               /\ \A y, k : Names(d, y, k) => Names(e, y, k)
<1> DEFINE e == Register(d, l)
<1>1. /\ Sound(e, P) /\ Extends(d, e, {l}, {}) /\ e.size = d.size /\ e.labels = d.labels
      /\ e.place[l] = d.size /\ e.jumps = d.jumps /\ e.funcs = d.funcs
  BY RegisterSound DEF Reach
<1> HIDE DEF e
<1>2. e.labels \in Nat /\ d.labels \in Nat /\ c.labels \in Nat /\ Extends(c, d, L, Q)
  BY <1>1 DEF Reach, Sound
<1>3. Extends(c, e, L \union {l}, Q \union {})  BY <1>1, <1>2, ExtendsTransitive
<1>4. Extends(c, e, L \union {l}, Q)  BY <1>3
<1>5. Reach(c, e, L \union {l}, Q, P)  BY <1>1, <1>4 DEF Reach
<1>6. DOMAIN e.place = DOMAIN d.place \union {l}  BY <1>1 DEF Extends
<1> QED  BY <1>1, <1>5, <1>6 DEF e, Names

LEMMA ThenUpdate ==
    ASSUME NEW c, NEW d, NEW L, NEW Q, NEW P, Reach(c, d, L, Q, P),
           NEW of, NEW l, Names(d, of, l), l \in DOMAIN d.place, d.place[l] = d.size
    PROVE  LET e == Update(d, of)
           IN  /\ Reach(c, e, L, Q \union {of}, P \ {of})
               /\ SamePlaces(d, e)
               /\ \A y, k : Names(d, y, k) => Names(e, y, k)
<1> DEFINE e == Update(d, of)
<1>1. /\ Sound(e, P \ {of}) /\ Extends(d, e, {}, {of}) /\ e.size = d.size
      /\ e.labels = d.labels /\ e.place = d.place /\ e.funcs = d.funcs
  BY UpdateSound DEF Reach
<1> HIDE DEF e
<1>2. e.labels \in Nat /\ d.labels \in Nat /\ c.labels \in Nat /\ Extends(c, d, L, Q)
  BY <1>1 DEF Reach, Sound
<1>3. Extends(c, e, L \union {}, Q \union {of})  BY <1>1, <1>2, ExtendsTransitive
<1>4. Extends(c, e, L, Q \union {of})  BY <1>3
<1>5. Reach(c, e, L, Q \union {of}, P \ {of})  BY <1>1, <1>4 DEF Reach
<1> QED  BY <1>1, <1>5, NamesKept DEF e, SamePlaces

-----------------------------------------------------------------------------
(* What is left to show of a step once its buffers are known.              *)

LEMMA StepTyped ==
    ASSUME IInv
    PROVE  out.labels \in Nat /\ stack \in Seq(Construct)
BY DEF IInv, Sound, StackInv

LEMMA OpenedWith ==
    ASSUME IInv, pc = "gen", NEW d, NEW L, NEW s, Sound(d, Pend(stack) \union {s.of}),
           Extends(out, d, L, {}), FunctionsPlaced(d),
           \A l \in L : l \in Nat /\ out.labels <= l,
           Held(d, s), s.lbl = out.labels, Step(d, Append(stack, s))
    PROVE  IInv' /\ Kept
<1>1. d.labels \in Nat /\ out.labels \in Nat  BY StepTyped DEF Sound
<1>2. StackInv(out, stack)  BY DEF IInv
<1>3. StackInv(d, stack) /\ Below(stack, s.lbl)  BY <1>1, <1>2, StackKept
<1>4. StackInv(d, Append(stack, s)) /\ Pend(Append(stack, s)) = Pend(stack) \union {s.of}
  BY <1>3, Pushed
<1>5. out' = d /\ stack' = Append(stack, s) /\ pc' = "gen"  BY DEF Step
<1>6. Extends(out, d, L, Pend(stack))  BY ExtendsGrows
<1> QED  BY <1>4, <1>5, <1>6 DEF IInv, Kept

LEMMA Opened ==
    ASSUME IInv, pc = "gen", NEW d, NEW L, NEW s, Reach(out, d, L, {}, Pend(stack) \union {s.of}),
           \A l \in L : l \in Nat /\ out.labels <= l,
           Held(d, s), s.lbl = out.labels, Step(d, Append(stack, s))
    PROVE  IInv' /\ Kept
<1>1. Sound(d, Pend(stack) \union {s.of}) /\ Extends(out, d, L, {}) /\ d.funcs = out.funcs
  BY DEF Reach
<1>2. FunctionsPlaced(d)  BY <1>1, PlacedKept DEF IInv
<1> QED  BY <1>1, <1>2, OpenedWith

LEMMA Moved ==
    ASSUME IInv, pc = "gen", stack # <<>>, NEW d, NEW L, NEW Q, NEW stage, NEW of,
           Reach(out, d, L, Q, (Pend(stack) \ {Top.of}) \union {of}),
           Q \intersect DOMAIN out.jumps \subseteq {Top.of},
           \A l \in L : l \in Nat /\ Top.lbl <= l,
           Held(d, [Top EXCEPT !.stage = stage, !.of = of]), Step(d, Go(stage, of))
    PROVE  IInv' /\ Kept
<1> DEFINE s == [Top EXCEPT !.stage = stage, !.of = of]
<1>1. /\ d.labels \in Nat /\ out.labels \in Nat /\ Extends(out, d, L, Q)
      /\ Sound(d, (Pend(stack) \ {Top.of}) \union {of}) /\ d.funcs = out.funcs
  BY DEF Reach, Sound
<1>2. StackInv(out, stack)  BY DEF IInv
<1>3. /\ Held(out, Top) /\ StackInv(d, Close) /\ Below(Close, Top.lbl)
      /\ Pend(stack) = Pend(Close) \union {Top.of}
  BY <1>1, <1>2, FrontKept DEF Top, Close
<1>4. Top \in Construct  BY <1>3 DEF Held
<1>5. s.lbl = Top.lbl /\ s.of = of /\ Held(d, s)  BY <1>4 DEF Construct
<1> HIDE DEF s
<1>6. StackInv(d, Append(Close, s)) /\ Pend(Append(Close, s)) = Pend(Close) \union {of}
  BY <1>3, <1>5, Pushed
<1>7. Sound(d, Pend(Append(Close, s)))  BY <1>1, <1>3, <1>6, SoundGrows
<1>8. FunctionsPlaced(d)  BY <1>1, PlacedKept DEF IInv
<1>9. out' = d /\ stack' = Append(Close, s) /\ pc' = "gen"  BY DEF Step, Go, s
<1>10. Extends(out, d, L, Pend(stack))  BY <1>1, <1>3, ExtendsGrows
<1> QED  BY <1>6, <1>7, <1>8, <1>9, <1>10 DEF IInv, Kept

LEMMA Closed ==
    ASSUME IInv, pc = "gen", stack # <<>>, NEW d, NEW L, NEW Q, NEW P, Reach(out, d, L, Q, P),
           P \subseteq Pend(stack) \ {Top.of}, Q \intersect DOMAIN out.jumps \subseteq {Top.of},
           \A l \in L : l \in Nat /\ Top.lbl <= l, Step(d, Close)
    PROVE  IInv' /\ Kept
<1>1. /\ d.labels \in Nat /\ out.labels \in Nat /\ Extends(out, d, L, Q)
      /\ Sound(d, P) /\ d.funcs = out.funcs
  BY DEF Reach, Sound
<1>2. StackInv(out, stack)  BY DEF IInv
<1>3. StackInv(d, Close) /\ Pend(stack) = Pend(Close) \union {Top.of}
  BY <1>1, <1>2, FrontKept DEF Top, Close
<1>4. Sound(d, Pend(Close))  BY <1>1, <1>3, SoundGrows
<1>5. FunctionsPlaced(d)  BY <1>1, PlacedKept DEF IInv
<1>6. out' = d /\ stack' = Close /\ pc' = "gen"  BY DEF Step
<1>7. Extends(out, d, L, Pend(stack))  BY <1>1, <1>3, ExtendsGrows
<1> QED  BY <1>3, <1>4, <1>5, <1>6, <1>7 DEF IInv, Kept

LEMMA Stayed ==
    ASSUME IInv, pc = "gen", NEW d, Sound(d, Pend(stack)), Extends(out, d, {}, {}),
           d.funcs = out.funcs, out' = d, stack' = stack, pc' \in {"gen", "done"}
    PROVE  IInv' /\ Kept
<1>1. d.labels \in Nat /\ out.labels \in Nat  BY StepTyped DEF Sound
<1>2. StackInv(d, stack)  BY <1>1, StackKept DEF IInv
<1>3. Extends(out, d, {}, Pend(stack))  BY ExtendsGrows
<1>4. FunctionsPlaced(d)  BY <1>3, PlacedKept DEF IInv
<1> QED  BY <1>2, <1>3, <1>4 DEF IInv, Kept

LEMMA TopHeld ==
    ASSUME IInv, stack # <<>>
    PROVE  /\ Held(out, Top) /\ Top \in Construct /\ Top.lbl \in Nat \ {0}
           /\ Top.of \in Pend(stack)
<1>1. Len(stack) \in DOMAIN stack  BY StepTyped
<1>2. Held(out, Top)  BY <1>1 DEF IInv, StackInv, Top
<1>3. Top.of \in Pend(stack)  BY <1>1 DEF Pend, Top
<1>4. Top \in Construct /\ 0 < Top.lbl  BY <1>2 DEF Held
<1>5. Top.lbl \in Nat \ {0}  BY <1>4 DEF Construct
<1> QED  BY <1>2, <1>3, <1>4, <1>5

-----------------------------------------------------------------------------
(* The cases of codeGen.                                                   *)

LEMMA PlainStep ==
    ASSUME IInv, Plain
    PROVE  IInv' /\ Kept
<1>1. pc = "gen"  BY DEF Plain
<1>2. PICK n \in InstrSizes : Step(Emit(out, n), stack)  BY DEF Plain
<1>3. n \in Nat  BY LabelsAssumption
<1>4. Sound(out, Pend(stack))  BY DEF IInv
<1>5. /\ Sound(Emit(out, n), Pend(stack)) /\ Extends(out, Emit(out, n), {}, {})
      /\ Emit(out, n).funcs = out.funcs
  BY <1>3, <1>4, EmitSound
<1>6. out' = Emit(out, n) /\ stack' = stack /\ pc' = "gen"  BY <1>1, <1>2 DEF Step
<1> QED  BY <1>1, <1>5, <1>6, Stayed

LEMMA CallStep ==
    ASSUME IInv, CaseCall
    PROVE  IInv' /\ Kept
<1>1. pc = "gen"  BY DEF CaseCall
<1>2. PICK id \in FuncIds : Step(CallTo(out, id), stack)  BY DEF CaseCall
<1>3. Sound(out, Pend(stack)) /\ FunctionsPlaced(out)  BY <1>1 DEF IInv
<1>4. /\ Sound(CallTo(out, id), Pend(stack)) /\ Extends(out, CallTo(out, id), {}, {})
      /\ CallTo(out, id).funcs = out.funcs
  BY <1>3, CallSound
<1>5. out' = CallTo(out, id) /\ stack' = stack /\ pc' = "gen"  BY <1>1, <1>2 DEF Step
<1> QED  BY <1>1, <1>4, <1>5, Stayed

LEMMA FinishStep ==
    ASSUME IInv, Finish
    PROVE  IInv' /\ Kept
<1>1. Sound(out, Pend(stack))  BY DEF IInv
<1>2. CloseCode + 12 \in Nat  BY DEF CloseCode
<1> DEFINE d == Emit(out, CloseCode + 12)
<1>3. Sound(d, Pend(stack)) /\ Extends(out, d, {}, {}) /\ d.funcs = out.funcs
  BY <1>1, <1>2, EmitSound
<1>4. pc = "gen" /\ out' = d /\ stack' = stack /\ pc' = "done"  BY DEF Finish
<1> HIDE DEF d
<1> QED  BY <1>3, <1>4, Stayed

LEMMA TernTestStep ==
    ASSUME IInv, TernTest
    PROVE  IInv' /\ Kept
<1> DEFINE P == Pend(stack)
           l == out.labels
           a == Reserve(out, 2)
           c == Jump(a, 6, l)
           d == Emit(c, OpenCode)
           s == [op |-> "tern", stage |-> "then", lbl |-> l, of |-> c.size]
<1>1. pc = "gen" /\ Step(d, Append(stack, s))  BY DEF TernTest, CanOpen, Open
<1>2. l \in Nat \ {0} /\ Sound(out, P)  BY <1>1 DEF IInv, Sound
<1>3. l \notin DOMAIN out.place /\ l + 1 \notin DOMAIN out.place  BY <1>2 DEF Sound
<1>4. /\ Reach(out, a, {}, {}, P) /\ a.labels = l + 2 /\ a.place = out.place
  BY <1>2, ThenReserve
<1>5. l \in Nat /\ l < a.labels  BY <1>2, <1>4
<1> HIDE DEF a
<1>6. /\ Reach(out, c, {}, {}, P \union {c.size}) /\ c.labels = l + 2
      /\ c.place = out.place /\ Names(c, c.size, l) /\ c.size \in Nat
  <2>1. /\ Reach(out, c, {}, {}, P \union {c.size}) /\ c.labels = l + 2
        /\ c.place = out.place /\ Names(c, c.size, l)
    BY <1>4, <1>5, ThenJump
  <2> HIDE DEF c
  <2> QED  BY <2>1 DEF Reach, Sound
<1> HIDE DEF c
<1>7. /\ Reach(out, d, {}, {}, P \union {c.size}) /\ d.labels = l + 2
      /\ d.place = out.place /\ d.jumps = c.jumps
  BY <1>6, ThenEmit DEF OpenCode
<1>8. Names(d, c.size, l)  BY <1>6, <1>7 DEF Names
<1> HIDE DEF d
<1>9. s \in Construct /\ s.lbl = l /\ s.of = c.size /\ s.op = "tern" /\ s.stage = "then"
  BY <1>2, <1>6 DEF Construct
<1> HIDE DEF s
<1>10. Held(d, s)
  BY <1>2, <1>3, <1>7, <1>8, <1>9 DEF Held, Width, Free, Target
<1> QED  BY <1>1, <1>7, <1>9, <1>10, Opened DEF Reach

LEMMA TernElseStep ==
    ASSUME IInv, TernElse
    PROVE  IInv' /\ Kept
<1> DEFINE P == Pend(stack)
           l == Top.lbl
           of == Top.of
           a == Emit(out, CloseCode)
           b == Jump(a, 5, l + 1)
           c == Register(b, l)
           d == Update(c, of)
           e == Emit(d, OpenCode)
           s == [Top EXCEPT !.stage = "right", !.of = d.size]
<1>1. /\ pc = "gen" /\ stack # <<>> /\ Top.op = "tern" /\ Top.stage = "then"
      /\ Step(e, Go("right", d.size))
  BY DEF TernElse, InnerMost
<1>2. /\ Held(out, Top) /\ Top \in Construct /\ l \in Nat \ {0} /\ of \in P
      /\ Sound(out, P) /\ out.labels \in Nat
  BY <1>1, TopHeld DEF IInv, Sound
<1>3. /\ Names(out, of, l) /\ l + 2 <= out.labels
      /\ l \notin DOMAIN out.place /\ l + 1 \notin DOMAIN out.place
  BY <1>1, <1>2 DEF Held, Width, Free, Target
<1>4. Reach(out, out, {}, {}, P)  BY <1>2 DEF Reach, Extends
<1> HIDE DEF P, of, l
<1>5. /\ Reach(out, a, {}, {}, P) /\ a.labels = out.labels
      /\ a.place = out.place /\ Names(a, of, l)
  BY <1>3, <1>4, ThenEmit DEF CloseCode, Names
<1> HIDE DEF a
<1>6. l + 1 \in Nat /\ l + 1 < a.labels /\ l < out.labels  BY <1>2, <1>3, <1>5
<1>7. /\ Reach(out, b, {}, {}, P \union {b.size}) /\ b.labels = out.labels
      /\ b.place = out.place /\ Names(b, of, l) /\ Names(b, b.size, l + 1) /\ of # b.size
  BY <1>5, <1>6, ThenJump
<1> HIDE DEF b
<1>8. /\ Reach(out, c, {l}, {}, P \union {b.size}) /\ c.labels = out.labels
      /\ DOMAIN c.place = DOMAIN out.place \union {l} /\ c.place[l] = c.size
      /\ c.size = b.size /\ Names(c, of, l) /\ Names(c, b.size, l + 1)
  <2>1. Reach(out, c, {} \union {l}, {}, P \union {b.size})
    BY <1>2, <1>3, <1>6, <1>7, ThenRegister
  <2>2. Reach(out, c, {l}, {}, P \union {b.size})  BY <2>1
  <2> QED  BY <1>2, <1>3, <1>6, <1>7, <2>2, ThenRegister
<1> HIDE DEF c
<1>9. l \in DOMAIN c.place  BY <1>8
<1>10. /\ Reach(out, d, {l}, {of}, (P \ {of}) \union {d.size}) /\ d.labels = out.labels
       /\ d.place = c.place /\ d.size = b.size /\ Names(d, d.size, l + 1)
  <2> DEFINE PP == P \union {b.size}
             LL == {l}
             QQ == {}
  <2>1. Reach(out, c, LL, QQ, PP) /\ Names(c, of, l) /\ c.place[l] = c.size  BY <1>8
  <2>2. (PP \ {of}) = (P \ {of}) \union {b.size} /\ QQ \union {of} = {of}  BY <1>7
  <2> HIDE DEF PP, LL, QQ
  <2>3. Reach(out, d, LL, QQ \union {of}, PP \ {of}) /\ SamePlaces(c, d)
    BY <1>9, <2>1, ThenUpdate
  <2>4. Names(c, b.size, l + 1) => Names(d, b.size, l + 1)  BY <1>9, <2>1, ThenUpdate
  <2> HIDE DEF d
  <2>5. Reach(out, d, LL, {of}, (P \ {of}) \union {d.size})  BY <1>8, <2>2, <2>3 DEF SamePlaces
  <2> QED  BY <1>8, <2>3, <2>4, <2>5 DEF LL, SamePlaces
<1>11. d.size \in Nat  BY <1>10 DEF Reach, Sound
<1> HIDE DEF d
<1>12. /\ Reach(out, e, {l}, {of}, (P \ {of}) \union {d.size}) /\ e.labels = out.labels
       /\ e.place = d.place /\ Names(e, d.size, l + 1)
  BY <1>10, ThenEmit DEF OpenCode, Names
<1> HIDE DEF e
<1>13. /\ s \in Construct /\ s.lbl = l /\ s.of = d.size
       /\ s.op = "tern" /\ s.stage = "right"
  BY <1>1, <1>2, <1>11 DEF Construct, l
<1>14. l + 1 \notin DOMAIN e.place
  BY <1>2, <1>3, <1>8, <1>10, <1>12
<1>15. l + 2 <= e.labels  BY <1>3, <1>12
<1> HIDE DEF s
<1>16. Held(e, s)
  BY <1>2, <1>12, <1>13, <1>14, <1>15 DEF Held, Width, Free, Target
<1>17. Held(e, [Top EXCEPT !.stage = "right", !.of = d.size])  BY <1>16 DEF s
<1>18. /\ Reach(out, e, {l}, {of}, (Pend(stack) \ {Top.of}) \union {d.size})
       /\ {of} \intersect DOMAIN out.jumps \subseteq {Top.of}
       /\ \A k \in {l} : k \in Nat /\ Top.lbl <= k
  BY <1>2, <1>12 DEF l, of, P
<1> DEFINE LL == {l}
           QQ == {of}
<1>19. Reach(out, e, LL, QQ, (Pend(stack) \ {Top.of}) \union {d.size})  BY <1>18
<1>20. \A k \in LL : k \in Nat /\ Top.lbl <= k  BY <1>18
<1>21. QQ \intersect DOMAIN out.jumps \subseteq {Top.of}  BY <1>18
<1> HIDE DEF LL, QQ
<1> QED  BY <1>1, <1>17, <1>19, <1>20, <1>21, Moved

LEMMA TernEndStep ==
    ASSUME IInv, TernEnd
    PROVE  IInv' /\ Kept
<1> DEFINE P == Pend(stack)
           l == Top.lbl
           m == l + 1
           of == Top.of
           a == Emit(out, CloseCode)
           b == Register(a, m)
           c == Update(b, of)
<1>1. /\ pc = "gen" /\ stack # <<>> /\ Top.op = "tern" /\ Top.stage = "right"
      /\ Step(c, Close)
  BY DEF TernEnd, InnerMost
<1>2. /\ Held(out, Top) /\ Top \in Construct /\ l \in Nat \ {0} /\ of \in P
      /\ Sound(out, P) /\ out.labels \in Nat
  BY <1>1, TopHeld DEF IInv, Sound
<1>3. Names(out, of, m) /\ l + 2 <= out.labels /\ m \notin DOMAIN out.place
  BY <1>1, <1>2 DEF Held, Width, Free, Target
<1>4. Reach(out, out, {}, {}, P)  BY <1>2 DEF Reach, Extends
<1>5. m \in Nat \ {0} /\ m < out.labels /\ l <= m  BY <1>2, <1>3
<1> HIDE DEF P, of, m, l
<1>6. /\ Reach(out, a, {}, {}, P) /\ a.labels = out.labels
      /\ a.place = out.place /\ Names(a, of, m)
  BY <1>3, <1>4, ThenEmit DEF CloseCode, Names
<1> HIDE DEF a
<1>7. /\ Reach(out, b, {} \union {m}, {}, P) /\ m \in DOMAIN b.place
      /\ b.place[m] = b.size /\ Names(b, of, m)
  BY <1>3, <1>5, <1>6, ThenRegister
<1> HIDE DEF b
<1>8. Reach(out, c, {} \union {m}, {} \union {of}, P \ {of})  BY <1>7, ThenUpdate
<1> HIDE DEF c
<1> QED  BY <1>1, <1>5, <1>8, Closed DEF P, of, l

LEMMA QqTestStep ==
    ASSUME IInv, QqTest
    PROVE  IInv' /\ Kept
<1> DEFINE P == Pend(stack)
           l == out.labels
           a == Reserve(out, 1)
           c == Jump(a, 6, l)
           d == Emit(c, OpenCode)
           s == [op |-> "qq", stage |-> "right", lbl |-> l, of |-> c.size]
<1>1. pc = "gen" /\ Step(d, Append(stack, s))  BY DEF QqTest, CanOpen, Open
<1>2. l \in Nat \ {0} /\ Sound(out, P)  BY <1>1 DEF IInv, Sound
<1>3. l \notin DOMAIN out.place  BY <1>2 DEF Sound
<1>4. /\ Reach(out, a, {}, {}, P) /\ a.labels = l + 1 /\ a.place = out.place
  BY <1>2, ThenReserve
<1>5. l \in Nat /\ l < a.labels  BY <1>2, <1>4
<1> HIDE DEF a
<1>6. /\ Reach(out, c, {}, {}, P \union {c.size}) /\ c.labels = l + 1
      /\ c.place = out.place /\ Names(c, c.size, l) /\ c.size \in Nat
  <2>1. /\ Reach(out, c, {}, {}, P \union {c.size}) /\ c.labels = l + 1
        /\ c.place = out.place /\ Names(c, c.size, l)
    <3>1. Jumping(out, a, {}, {}, P, 6, l)  BY <1>4, <1>5 DEF Jumping
    <3>2. Jumped(out, a, {}, {}, P, 6, l)  BY <3>1, JumpsReach
    <3> QED  BY <1>4, <3>2 DEF Jumped
  <2> HIDE DEF c
  <2> QED  BY <2>1 DEF Reach, Sound
<1> HIDE DEF c
<1>7. /\ Reach(out, d, {}, {}, P \union {c.size}) /\ d.labels = l + 1
      /\ d.place = out.place /\ d.jumps = c.jumps
  <2> DEFINE Q == P \union {c.size}
  <2>1. Reach(out, c, {}, {}, Q) /\ c.labels = l + 1 /\ c.place = out.place  BY <1>6
  <2>2. OpenCode \in Nat  BY DEF OpenCode
  <2>3. /\ Reach(out, Emit(c, OpenCode), {}, {}, Q) /\ Emit(c, OpenCode).labels = c.labels
        /\ Emit(c, OpenCode).place = c.place /\ Emit(c, OpenCode).jumps = c.jumps
    <3> HIDE DEF Q, l
    <3> QED  BY <2>1, <2>2, ThenEmit
  <2> HIDE DEF l
  <2> QED  BY <2>1, <2>3
<1>8. Names(d, c.size, l)  BY <1>6, <1>7 DEF Names
<1> HIDE DEF d
<1>9. s \in Construct /\ s.lbl = l /\ s.of = c.size /\ s.op = "qq" /\ s.stage = "right"
  BY <1>2, <1>6 DEF Construct
<1> HIDE DEF s
<1>10. Held(d, s)
  BY <1>2, <1>3, <1>7, <1>8, <1>9 DEF Held, Width, Free, Target
<1> QED  BY <1>1, <1>7, <1>9, <1>10, Opened

LEMMA QqEndStep ==
    ASSUME IInv, QqEnd
    PROVE  IInv' /\ Kept
<1> DEFINE P == Pend(stack)
           l == Top.lbl
           of == Top.of
           a == Emit(out, CloseCode)
           b == Register(a, l)
           c == Update(b, of)
<1>1. /\ pc = "gen" /\ stack # <<>> /\ Top.op = "qq" /\ Top.stage = "right"
      /\ Step(c, Close)
  BY DEF QqEnd, InnerMost
<1>2. /\ Held(out, Top) /\ Top \in Construct /\ l \in Nat \ {0} /\ of \in P
      /\ Sound(out, P) /\ out.labels \in Nat
  BY <1>1, TopHeld DEF IInv, Sound
<1>3. Names(out, of, l) /\ l + 1 <= out.labels /\ l \notin DOMAIN out.place
  BY <1>1, <1>2 DEF Held, Width, Free, Target
<1>4. Reach(out, out, {}, {}, P)  BY <1>2 DEF Reach, Extends
<1>5. l < out.labels /\ l <= l  BY <1>2, <1>3
<1> HIDE DEF P, of, l
<1>6. /\ Reach(out, a, {}, {}, P) /\ a.labels = out.labels
      /\ a.place = out.place /\ Names(a, of, l)
  BY <1>3, <1>4, ThenEmit DEF CloseCode, Names
<1> HIDE DEF a
<1>7. /\ Reach(out, b, {} \union {l}, {}, P) /\ l \in DOMAIN b.place
      /\ b.place[l] = b.size /\ Names(b, of, l)
  BY <1>2, <1>3, <1>5, <1>6, ThenRegister
<1> HIDE DEF b
<1>8. Reach(out, c, {} \union {l}, {} \union {of}, P \ {of})  BY <1>7, ThenUpdate
<1> HIDE DEF c
<1> QED  BY <1>1, <1>2, <1>5, <1>8, Closed DEF P, of, l

LEMMA FuncEndStep ==
    ASSUME IInv, FuncEnd
    PROVE  IInv' /\ Kept
<1> DEFINE P == Pend(stack)
           l == Top.lbl
           m == l + 1
           of == Top.of
           a == Emit(out, CloseCode + 1)
           b == Register(a, m)
           c == Update(b, of)
<1>1. /\ pc = "gen" /\ stack # <<>> /\ Top.op = "func" /\ Top.stage = "body"
      /\ Step(c, Close)
  BY DEF FuncEnd, InnerMost
<1>2. /\ Held(out, Top) /\ Top \in Construct /\ l \in Nat \ {0} /\ of \in P
      /\ Sound(out, P) /\ out.labels \in Nat
  BY <1>1, TopHeld DEF IInv, Sound
<1>3. Names(out, of, m) /\ l + 2 <= out.labels /\ m \notin DOMAIN out.place
  BY <1>1, <1>2 DEF Held, Width, Free, Target
<1>4. Reach(out, out, {}, {}, P)  BY <1>2 DEF Reach, Extends
<1>5. m \in Nat \ {0} /\ m < out.labels /\ l <= m  BY <1>2, <1>3
<1> HIDE DEF P, of, m, l
<1>6. /\ Reach(out, a, {}, {}, P) /\ a.labels = out.labels
      /\ a.place = out.place /\ Names(a, of, m)
  BY <1>3, <1>4, ThenEmit DEF CloseCode, Names
<1> HIDE DEF a
<1>7. /\ Reach(out, b, {} \union {m}, {}, P) /\ m \in DOMAIN b.place
      /\ b.place[m] = b.size /\ Names(b, of, m)
  BY <1>3, <1>5, <1>6, ThenRegister
<1> HIDE DEF b
<1>8. Reach(out, c, {} \union {m}, {} \union {of}, P \ {of})  BY <1>7, ThenUpdate
<1> HIDE DEF c
<1> QED  BY <1>1, <1>5, <1>8, Closed DEF P, of, l

(* A name that is registered again is not found with its new label: the    *)
(* program stops at the assertion, and nothing is generated after it.      *)
LEMMA FuncBeginStep ==
    ASSUME IInv, FuncBegin
    PROVE  IInv' /\ Kept
<1> DEFINE P == Pend(stack)
           l == out.labels
           a == Reserve(out, 2)
           c(id) == functionRegister(a, id, l)
           d(id) == Register(Jump(c(id), 5, l + 1), l)
           s(id) == [op |-> "func", stage |-> "body", lbl |-> l, of |-> d(id).size]
<1>1. PICK id \in FuncIds :
          IF functionGetL(c(id), id) # l
            THEN pc' = "assert" /\ out' = c(id) /\ UNCHANGED stack
            ELSE Step(Emit(d(id), OpenCode), Append(stack, s(id)))
  BY DEF FuncBegin, Open
<1>2. pc = "gen"  BY DEF FuncBegin, CanOpen
<1>3. l \in Nat \ {0} /\ Sound(out, P) /\ FunctionsPlaced(out)  BY <1>2 DEF IInv, Sound
<1>4. l \notin DOMAIN out.place /\ l + 1 \notin DOMAIN out.place  BY <1>3 DEF Sound
<1>5. Sound(a, P) /\ Extends(out, a, {}, {}) /\ a.labels = l + 2 /\ a.place = out.place
      /\ a.funcs = out.funcs
  BY <1>3, ReserveSound
<1> HIDE DEF a
<1> DEFINE r == c(id)
<1>6. /\ Sound(r, P) /\ Extends(a, r, {}, {}) /\ r.labels = l + 2 /\ r.place = out.place
      /\ r.funcs = Append(out.funcs, [id |-> id, label |-> l])
  BY SMTT(30), <1>3, <1>5, FunctionSound
<1> HIDE DEF c
<1>7. Extends(out, r, {} \union {}, {} \union {})
  <2>1. out.labels \in Nat /\ a.labels \in Nat /\ r.labels \in Nat  BY <1>3, <1>5, <1>6
  <2> QED  BY <1>5, <1>6, <2>1, ExtendsTransitive
<1>8. Extends(out, r, {}, {})  BY <1>7
<1>9. CASE functionGetL(r, id) # l
  <2>1. pc' = "assert" /\ out' = r /\ stack' = stack  BY <1>1, <1>9
  <2>2. StackInv(r, stack)
    <3>1. StackInv(out, stack) /\ out.labels \in Nat /\ r.labels \in Nat  BY <1>3, <1>6 DEF IInv
    <3> QED  BY <1>8, <3>1, StackKept
  <2>3. Extends(out, r, {}, P)  BY <1>8, ExtendsGrows
  <2> QED  BY <1>6, <2>1, <2>2, <2>3 DEF IInv, Kept
<1>10. CASE functionGetL(r, id) = l
  <2> DEFINE j == Jump(r, 5, l + 1)
             g == Register(j, l)
             e == Emit(g, OpenCode)
             t == [op |-> "func", stage |-> "body", lbl |-> l, of |-> g.size]
  <2>1. Step(e, Append(stack, t))  BY <1>1, <1>10 DEF s, d
  <2> HIDE DEF r
  <2>2. Reach(r, r, {}, {}, P)  BY <1>3, <1>6 DEF Reach, Extends
  <2>3. l + 1 \in Nat /\ l + 1 < r.labels /\ l < r.labels  BY <1>3, <1>6
  <2>4. /\ Reach(r, j, {}, {}, P \union {j.size}) /\ j.labels = l + 2
        /\ j.place = out.place /\ Names(j, j.size, l + 1)
    <3> HIDE DEF l, P
    <3>1. Reach(r, j, {}, {}, P \union {j.size}) /\ Names(j, j.size, l + 1)
      BY <2>2, <2>3, ThenJump
    <3>2. j.labels = r.labels /\ j.place = r.place  BY <2>2, <2>3, ThenJump
    <3> HIDE DEF j
    <3> QED  BY <1>6, <3>1, <3>2
  <2> HIDE DEF j
  <2>5. l < j.labels /\ l \notin DOMAIN j.place  BY <1>4, <2>4, <1>3
  <2>6. /\ Reach(r, g, {} \union {l}, {}, P \union {j.size}) /\ g.size = j.size
        /\ g.labels = l + 2 /\ DOMAIN g.place = DOMAIN out.place \union {l}
        /\ Names(g, g.size, l + 1)
    BY <1>3, <2>4, <2>5, ThenRegister
  <2>7. g.size \in Nat  BY <2>6 DEF Reach, Sound
  <2> HIDE DEF g
  <2>8. /\ Reach(r, e, {} \union {l}, {}, P \union {j.size}) /\ e.labels = l + 2
        /\ e.place = g.place /\ Names(e, g.size, l + 1)
    BY <2>6, ThenEmit DEF OpenCode, Names
  <2> HIDE DEF e
  <2>9. /\ t \in Construct /\ t.op = "func" /\ t.stage = "body" /\ t.lbl = l
        /\ t.of = g.size
    BY <1>3, <2>7 DEF Construct
  <2> HIDE DEF t
  <2>10. Held(e, t)
    <3>1. l + 1 \notin DOMAIN e.place  BY <1>3, <1>4, <2>6, <2>8
    <3> QED  BY <1>3, <2>8, <2>9, <3>1 DEF Held, Width, Free, Target
  <2>11. Sound(e, P \union {t.of}) /\ e.funcs = r.funcs /\ Extends(r, e, {l}, {})
    BY <2>6, <2>8, <2>9 DEF Reach
  <2>12. Extends(out, e, {l}, {})
    <3>1. out.labels \in Nat /\ r.labels \in Nat /\ e.labels \in Nat  BY <1>3, <1>6, <2>8
    <3>2. Extends(out, e, {} \union {l}, {} \union {})
      BY <1>8, <2>11, <3>1, ExtendsTransitive
    <3> QED  BY <3>2
  <2>13. FunctionsPlaced(e)
    <3>1. out.funcs \in Seq([id : FuncIds, label : Nat])  BY <1>3 DEF Sound
    <3>2. \A i \in DOMAIN r.funcs : \/ i \in DOMAIN out.funcs /\ r.funcs[i] = out.funcs[i]
                                    \/ r.funcs[i].label = l
      BY <1>6, <3>1
    <3>3. DOMAIN e.place = DOMAIN out.place \union {l}  BY <2>6, <2>8
    <3> QED  BY <1>3, <2>11, <3>2, <3>3 DEF FunctionsPlaced
  <2>14. \A k \in {l} : k \in Nat /\ out.labels <= k  BY <1>3
  <2> DEFINE LL == {l}
  <2>15. Extends(out, e, LL, {}) /\ \A k \in LL : k \in Nat /\ out.labels <= k
    BY <2>12, <2>14
  <2> HIDE DEF LL
  <2> QED  BY <1>2, <2>1, <2>9, <2>10, <2>11, <2>13, <2>15, OpenedWith
<1> QED  BY <1>9, <1>10

LEMMA WhileBeginStep ==
    ASSUME IInv, WhileBegin
    PROVE  IInv' /\ Kept
<1> DEFINE P == Pend(stack)
           l == out.labels
           a == Reserve(out, 2)
           b == Emit(a, OpenCode)
           c == Register(b, l)
           s == [op |-> "while", stage |-> "left", lbl |-> l, of |-> 0]
<1>1. pc = "gen" /\ Step(c, Append(stack, s))  BY DEF WhileBegin, CanOpen, Open
<1>2. l \in Nat \ {0} /\ Sound(out, P)  BY <1>1 DEF IInv, Sound
<1>3. l \notin DOMAIN out.place /\ l + 1 \notin DOMAIN out.place  BY <1>2 DEF Sound
<1>4. Reach(out, a, {}, {}, P) /\ a.labels = l + 2 /\ a.place = out.place
  BY <1>2, ThenReserve
<1> HIDE DEF a
<1>5. Reach(out, b, {}, {}, P) /\ b.labels = l + 2 /\ b.place = out.place
  BY <1>4, ThenEmit DEF OpenCode
<1> HIDE DEF b
<1>6. l < b.labels /\ l \notin DOMAIN b.place  BY <1>2, <1>3, <1>5
<1>7. /\ Reach(out, c, {} \union {l}, {}, P) /\ c.labels = l + 2
      /\ DOMAIN c.place = DOMAIN out.place \union {l}
  <2> HIDE DEF l, P
  <2>1. Reach(out, c, {} \union {l}, {}, P)  BY <1>2, <1>5, <1>6, ThenRegister
  <2>2. c.labels = b.labels  BY <1>2, <1>5, <1>6, ThenRegister
  <2> HIDE DEF c
  <2>3. DOMAIN c.place = DOMAIN out.place \union {l}  BY <2>1 DEF Reach, Extends
  <2> QED  BY <1>5, <2>1, <2>2, <2>3
<1> HIDE DEF c
<1> DEFINE LL == {} \union {l}
<1>8. /\ s \in Construct /\ s.lbl = l /\ s.of = 0 /\ s.op = "while" /\ s.stage = "left"
      /\ \A k \in LL : k \in Nat /\ out.labels <= k
  BY <1>2 DEF Construct
<1>9. l \in DOMAIN c.place /\ l + 1 \notin DOMAIN c.place  BY <1>2, <1>3, <1>7
<1> HIDE DEF s
<1>10. Held(c, s)  BY <1>2, <1>7, <1>8, <1>9 DEF Held, Width, Free
<1>11. Reach(out, c, LL, {}, P \union {s.of})
  <2>1. Sound(c, P \union {s.of})  BY <1>7, SoundGrows DEF Reach
  <2> QED  BY <1>7, <2>1 DEF Reach
<1> HIDE DEF LL
<1> QED  BY <1>1, <1>8, <1>10, <1>11, Opened

LEMMA WhileTestStep ==
    ASSUME IInv, WhileTest
    PROVE  IInv' /\ Kept
<1> DEFINE P == Pend(stack)
           l == Top.lbl
           c == Jump(out, 6, l + 1)
           s == [Top EXCEPT !.stage = "body", !.of = c.size]
<1>1. /\ pc = "gen" /\ stack # <<>> /\ Top.op = "while" /\ Top.stage = "left"
      /\ Step(c, Go("body", c.size))
  BY DEF WhileTest, InnerMost
<1>2. /\ Held(out, Top) /\ Top \in Construct /\ l \in Nat \ {0}
      /\ Sound(out, P) /\ out.labels \in Nat
  BY <1>1, TopHeld DEF IInv, Sound
<1>3. /\ Top.of = 0 /\ l + 2 <= out.labels
      /\ l \in DOMAIN out.place /\ l + 1 \notin DOMAIN out.place
  BY <1>1, <1>2 DEF Held, Width, Free
<1>4. Reach(out, out, {}, {}, P)  BY <1>2 DEF Reach, Extends
<1>5. l + 1 \in Nat /\ l + 1 < out.labels  BY <1>2, <1>3
<1> HIDE DEF P, l
<1>6. /\ Reach(out, c, {}, {}, P \union {c.size}) /\ c.labels = out.labels
      /\ c.place = out.place /\ Names(c, c.size, l + 1)
  BY <1>4, <1>5, ThenJump
<1> HIDE DEF c
<1>7. Reach(out, c, {}, {}, (Pend(stack) \ {Top.of}) \union {c.size}) /\ c.size \in Nat
  <2>1. Sound(c, P \union {c.size}) /\ c.size \in Nat \ {0}  BY <1>6 DEF Reach, Sound
  <2>2. Sound(c, (P \ {0}) \union {c.size})  BY <2>1 DEF Sound
  <2> QED  BY <1>3, <1>6, <2>1, <2>2 DEF Reach, P
<1>8. s \in Construct /\ s.lbl = l /\ s.of = c.size /\ s.op = "while" /\ s.stage = "body"
  BY <1>1, <1>2, <1>7 DEF Construct, l
<1> HIDE DEF s
<1>9. Held(c, s)
  BY <1>2, <1>3, <1>6, <1>8 DEF Held, Width, Free, Target
<1>10. Held(c, [Top EXCEPT !.stage = "body", !.of = c.size])  BY <1>9 DEF s
<1> DEFINE LL == {}
<1>11. /\ Reach(out, c, LL, LL, (Pend(stack) \ {Top.of}) \union {c.size})
       /\ LL \intersect DOMAIN out.jumps \subseteq {Top.of}
       /\ \A k \in LL : k \in Nat /\ Top.lbl <= k
  BY <1>7
<1> HIDE DEF LL
<1> QED  BY <1>1, <1>10, <1>11, Moved

LEMMA WhileEndStep ==
    ASSUME IInv, WhileEnd
    PROVE  IInv' /\ Kept
<1> DEFINE P == Pend(stack)
           l == Top.lbl
           m == l + 1
           of == Top.of
           a == Jump(out, 5, l)
           b == Register(a, m)
           c == Update(b, of)
           d == Emit(c, CloseCode)
<1>1. /\ pc = "gen" /\ stack # <<>> /\ Top.op = "while" /\ Top.stage = "body"
      /\ Step(d, Close)
  BY DEF WhileEnd, InnerMost
<1>2. /\ Held(out, Top) /\ Top \in Construct /\ l \in Nat \ {0} /\ of \in P
      /\ Sound(out, P) /\ out.labels \in Nat
  BY <1>1, TopHeld DEF IInv, Sound
<1>3. /\ Names(out, of, m) /\ l + 2 <= out.labels
      /\ l \in DOMAIN out.place /\ m \notin DOMAIN out.place
  BY <1>1, <1>2 DEF Held, Width, Free, Target
<1>4. Reach(out, out, {}, {}, P)  BY <1>2 DEF Reach, Extends
<1>5. m \in Nat \ {0} /\ m < out.labels /\ l <= m /\ l < out.labels /\ l \in Nat
  BY <1>2, <1>3
<1> HIDE DEF P, of, m, l
<1>6. /\ Reach(out, a, {}, {}, P) /\ a.labels = out.labels
      /\ a.place = out.place /\ Names(a, of, m)
  <2>1. Jumping(out, out, {}, {}, P, 5, l)  BY <1>4, <1>5 DEF Jumping
  <2>2. Jumped(out, out, {}, {}, P, 5, l)  BY <2>1, JumpsReach
  <2>3. l \in DOMAIN out.place  BY <1>3
  <2> QED  BY <1>3, <2>2, <2>3 DEF Jumped
<1> HIDE DEF a
<1>7. /\ Reach(out, b, {} \union {m}, {}, P) /\ m \in DOMAIN b.place
      /\ b.place[m] = b.size /\ Names(b, of, m)
  BY <1>3, <1>5, <1>6, ThenRegister
<1> HIDE DEF b
<1>8. Reach(out, c, {} \union {m}, {} \union {of}, P \ {of})  BY <1>7, ThenUpdate
<1> HIDE DEF c
<1>9. Reach(out, d, {} \union {m}, {} \union {of}, P \ {of})
  BY <1>8, ThenEmit DEF CloseCode
<1> HIDE DEF d
<1> QED  BY <1>1, <1>5, <1>9, Closed DEF P, of, l

LEMMA LogicBeginStep ==
    ASSUME IInv, LogicBegin
    PROVE  IInv' /\ Kept
<1> DEFINE P == Pend(stack)
           l == out.labels
           a == Reserve(out, 2)
           s == [op |-> "logic", stage |-> "left", lbl |-> l, of |-> 0]
<1>1. pc = "gen" /\ Step(a, Append(stack, s))  BY DEF LogicBegin, CanOpen, Open
<1>2. l \in Nat \ {0} /\ Sound(out, P)  BY <1>1 DEF IInv, Sound
<1>3. l \notin DOMAIN out.place /\ l + 1 \notin DOMAIN out.place  BY <1>2 DEF Sound
<1>4. Reach(out, a, {}, {}, P) /\ a.labels = l + 2 /\ a.place = out.place
  BY <1>2, ThenReserve
<1> HIDE DEF a
<1>5. s \in Construct /\ s.lbl = l /\ s.of = 0 /\ s.op = "logic" /\ s.stage = "left"
  BY <1>2 DEF Construct
<1> HIDE DEF s
<1>6. Held(a, s)  BY <1>2, <1>3, <1>4, <1>5 DEF Held, Width, Free
<1>7. Reach(out, a, {}, {}, P \union {s.of})
  <2>1. Sound(a, P \union {s.of})  BY <1>4, SoundGrows DEF Reach
  <2> QED  BY <1>4, <2>1 DEF Reach
<1> QED  BY <1>1, <1>5, <1>6, <1>7, Opened

LEMMA LogicTestStep ==
    ASSUME IInv, LogicTest
    PROVE  IInv' /\ Kept
<1> DEFINE P == Pend(stack)
           l == Top.lbl
           c == Jump(out, 6, l)
           s == [Top EXCEPT !.stage = "right", !.of = c.size]
<1>1. /\ pc = "gen" /\ stack # <<>> /\ Top.op = "logic" /\ Top.stage = "left"
      /\ Step(c, Go("right", c.size))
  BY DEF LogicTest, InnerMost
<1>2. /\ Held(out, Top) /\ Top \in Construct /\ l \in Nat \ {0}
      /\ Sound(out, P) /\ out.labels \in Nat
  BY <1>1, TopHeld DEF IInv, Sound
<1>3. /\ Top.of = 0 /\ l + 2 <= out.labels
      /\ l \notin DOMAIN out.place /\ l + 1 \notin DOMAIN out.place
  BY <1>1, <1>2 DEF Held, Width, Free
<1>4. Reach(out, out, {}, {}, P)  BY <1>2 DEF Reach, Extends
<1>5. l \in Nat /\ l < out.labels  BY <1>2, <1>3
<1> HIDE DEF P, l
<1>6. /\ Reach(out, c, {}, {}, P \union {c.size}) /\ c.labels = out.labels
      /\ c.place = out.place /\ Names(c, c.size, l)
  BY <1>4, <1>5, ThenJump
<1> HIDE DEF c
<1>7. Reach(out, c, {}, {}, (Pend(stack) \ {Top.of}) \union {c.size}) /\ c.size \in Nat
  <2>1. Sound(c, P \union {c.size}) /\ c.size \in Nat \ {0}  BY <1>6 DEF Reach, Sound
  <2>2. Sound(c, (P \ {0}) \union {c.size})  BY <2>1 DEF Sound
  <2> QED  BY <1>3, <1>6, <2>1, <2>2 DEF Reach, P
<1>8. s \in Construct /\ s.lbl = l /\ s.of = c.size /\ s.op = "logic" /\ s.stage = "right"
  BY <1>1, <1>2, <1>7 DEF Construct, l
<1> HIDE DEF s
<1>9. Held(c, s)
  BY <1>2, <1>3, <1>6, <1>8 DEF Held, Width, Free, Target
<1>10. Held(c, [Top EXCEPT !.stage = "right", !.of = c.size])  BY <1>9 DEF s
<1> DEFINE LL == {}
<1>11. /\ Reach(out, c, LL, LL, (Pend(stack) \ {Top.of}) \union {c.size})
       /\ LL \intersect DOMAIN out.jumps \subseteq {Top.of}
       /\ \A k \in LL : k \in Nat /\ Top.lbl <= k
  BY <1>7
<1> HIDE DEF LL
<1> QED  BY <1>1, <1>10, <1>11, Moved

(* Both tests jump to the first label, the end of the code to the second.  *)
LEMMA LogicEndStep ==
    ASSUME IInv, LogicEnd
    PROVE  IInv' /\ Kept
<1>0. PICK n \in LastMove :
         LET c == Jump(out, 6, Top.lbl)
             d == Jump(Emit(c, 7), 5, Top.lbl + 1)
             e == Update(Update(Register(d, Top.lbl), Top.of), c.size)
         IN  Step(Update(Register(Emit(e, n), Top.lbl + 1), d.size), Close)
  BY DEF LogicEnd
<1>size. n \in Nat  BY DEF LastMove
<1> DEFINE P == Pend(stack)
           l == Top.lbl
           m == l + 1
           of == Top.of
           a == Jump(out, 6, l)
           b == Emit(a, 7)
           c == Jump(b, 5, m)
           d == Register(c, l)
           e == Update(d, of)
           f == Update(e, a.size)
           g == Emit(f, n)
           h == Register(g, m)
           i == Update(h, c.size)
<1>1. /\ pc = "gen" /\ stack # <<>> /\ Top.op = "logic" /\ Top.stage = "right"
      /\ Step(i, Close)
  BY <1>0 DEF LogicEnd, InnerMost
<1>2. /\ Held(out, Top) /\ Top \in Construct /\ l \in Nat \ {0} /\ of \in P
      /\ Sound(out, P) /\ out.labels \in Nat
  BY <1>1, TopHeld DEF IInv, Sound
<1>3. /\ Names(out, of, l) /\ l + 2 <= out.labels
      /\ l \notin DOMAIN out.place /\ m \notin DOMAIN out.place
  BY <1>1, <1>2 DEF Held, Width, Free, Target
<1>4. Reach(out, out, {}, {}, P)  BY <1>2 DEF Reach, Extends
<1>5. /\ m \in Nat \ {0} /\ m < out.labels /\ l <= m /\ l < out.labels
      /\ l \in Nat /\ m \in Nat /\ l # m
  BY <1>2, <1>3
<1> HIDE DEF P, of, m, l
<1> DEFINE P1 == P \union {a.size}
           P2 == P1 \union {c.size}
           P3 == P2 \ {of}
           P4 == P3 \ {a.size}
           P5 == P4 \ {c.size}
           L1 == {} \union {l}
           L2 == L1 \union {m}
           Q1 == {} \union {of}
           Q2 == Q1 \union {a.size}
           Q3 == Q2 \union {c.size}
<1>6. Reach(out, a, {}, {}, P1) /\ Names(a, of, l) /\ Names(a, a.size, l)
      /\ a.size \notin DOMAIN out.jumps
  BY <1>3, <1>4, <1>5, ThenJump
<1>7. a.labels = out.labels /\ a.place = out.place  BY <1>4, <1>5, JumpPlacesNothing
<1> HIDE DEF P1
<1>8. Reach(out, b, {}, {}, P1) /\ Names(b, of, l) /\ Names(b, a.size, l)
  <2> HIDE DEF a
  <2> QED  BY <1>6, ThenEmit DEF Names
<1>9. b.labels = out.labels /\ b.place = out.place
  <2> HIDE DEF a
  <2> QED  BY <1>6, <1>7, ThenEmit
<1> HIDE DEF b, a
<1>10. m < b.labels  BY <1>5, <1>9
<1>11. /\ Reach(out, c, {}, {}, P2) /\ Names(c, of, l) /\ Names(c, a.size, l)
       /\ Names(c, c.size, m) /\ c.size \notin DOMAIN out.jumps
  BY <1>5, <1>8, <1>10, ThenJump
<1>12. c.labels = b.labels /\ c.place = b.place
  BY <1>5, <1>8, <1>10, JumpPlacesNothing
<1> HIDE DEF P2, c
<1>13. l < c.labels /\ l \notin DOMAIN c.place /\ m < c.labels /\ m \notin DOMAIN c.place
  BY <1>3, <1>5, <1>9, <1>12
<1>14. /\ Reach(out, d, L1, {}, P2) /\ Names(d, of, l) /\ Names(d, a.size, l)
       /\ Names(d, c.size, m) /\ d.place[l] = d.size
  BY <1>2, <1>11, <1>13, ThenRegister
<1>15. d.labels = c.labels  BY <1>2, <1>11, <1>13, ThenRegister
<1> HIDE DEF d
<1>16. DOMAIN d.place = DOMAIN out.place \union {l}  BY <1>14 DEF Reach, Extends, L1
<1> HIDE DEF L1
<1>17. l \in DOMAIN d.place /\ m \notin DOMAIN d.place  BY <1>3, <1>5, <1>16
<1>18. /\ Reach(out, e, L1, Q1, P3) /\ Names(e, of, l) /\ Names(e, a.size, l)
       /\ Names(e, c.size, m) /\ SamePlaces(d, e)
  BY <1>14, <1>17, ThenUpdate
<1> HIDE DEF e, Q1, P3
<1>19. l \in DOMAIN e.place /\ e.place[l] = e.size  BY <1>14, <1>17, <1>18 DEF SamePlaces
<1>20. /\ Reach(out, f, L1, Q2, P4) /\ Names(f, c.size, m) /\ SamePlaces(e, f)
  BY <1>18, <1>19, ThenUpdate
<1> HIDE DEF f, Q2, P4
<1>21. f.place = d.place /\ f.labels = c.labels  BY <1>15, <1>18, <1>20 DEF SamePlaces
<1>22. Reach(out, g, L1, Q2, P4) /\ Names(g, c.size, m)  BY <1>20, <1>size, ThenEmit DEF Names
<1>23. g.labels = f.labels /\ g.place = f.place  BY <1>20, <1>size, ThenEmit
<1> HIDE DEF g
<1>24. m < g.labels /\ m \notin DOMAIN g.place  BY <1>13, <1>17, <1>21, <1>23
<1>25. /\ Reach(out, h, L2, Q2, P4) /\ Names(h, c.size, m) /\ h.place[m] = h.size
       /\ m \in DOMAIN h.place
  BY <1>5, <1>22, <1>24, ThenRegister
<1> HIDE DEF h, L2
<1>26. Reach(out, i, L2, Q3, P5)  BY <1>25, ThenUpdate
<1> HIDE DEF i, Q3, P5
<1>27. P5 \subseteq Pend(stack) \ {Top.of}
  BY DEF P5, P4, P3, P2, P1, P, of
<1>28. Q3 \intersect DOMAIN out.jumps \subseteq {Top.of}
  BY <1>6, <1>11 DEF Q3, Q2, Q1, of
<1>29. \A k \in L2 : k \in Nat /\ Top.lbl <= k
  BY <1>2, <1>5 DEF L2, L1, l
<1> QED  BY <1>1, <1>26, <1>27, <1>28, <1>29, Closed

-----------------------------------------------------------------------------

LEMMA InitIInv == Init => IInv
<1> SUFFICES ASSUME Init PROVE IInv  OBVIOUS
<1>1. /\ DOMAIN out = Fields /\ out.size = 11 /\ out.labels = 1 /\ out.room = InitRoom
      /\ out.place = <<>> /\ out.jumps = <<>> /\ out.calls = <<>> /\ out.funcs = <<>>
      /\ pc = "gen" /\ stack = <<>>
  BY DEF Init, EmptyContext, OpenCode, Fields
<1>2. /\ DOMAIN out.place = {} /\ DOMAIN out.jumps = {} /\ DOMAIN out.calls = {}
      /\ DOMAIN out.funcs = {} /\ DOMAIN stack = {}
  BY <1>1
<1>3. out.funcs \in Seq([id : FuncIds, label : Nat]) /\ stack \in Seq(Construct)  BY <1>1
<1>4. Sound(out, Pend(stack))
  <2>1. /\ out.size \in Nat \ {0} /\ out.labels \in Nat \ {0} /\ out.room \in Nat
        /\ out.room >= 2 /\ out.labels <= out.room
    BY <1>1, LabelsAssumption
  <2> QED  BY <1>1, <1>2, <1>3, <2>1 DEF Sound
<1> QED  BY <1>1, <1>2, <1>3, <1>4 DEF IInv, StackInv, FunctionsPlaced

LEMMA NextIInv ==
    ASSUME IInv, [Next]_vars
    PROVE  IInv' /\ (UNCHANGED vars \/ Kept)
<1>1. CASE UNCHANGED vars
  BY <1>1 DEF vars, IInv, Sound, Lands, CallLands, StackInv, Held, Names, Pend, FunctionsPlaced
<1>2. CASE Plain  BY <1>2, PlainStep
<1>3. CASE CaseCall  BY <1>3, CallStep
<1>4. CASE TernTest  BY <1>4, TernTestStep
<1>5. CASE TernElse  BY <1>5, TernElseStep
<1>6. CASE TernEnd  BY <1>6, TernEndStep
<1>7. CASE QqTest  BY <1>7, QqTestStep
<1>8. CASE QqEnd  BY <1>8, QqEndStep
<1>9. CASE FuncBegin  BY <1>9, FuncBeginStep
<1>10. CASE FuncEnd  BY <1>10, FuncEndStep
<1>11. CASE WhileBegin  BY <1>11, WhileBeginStep
<1>12. CASE WhileTest  BY <1>12, WhileTestStep
<1>13. CASE WhileEnd  BY <1>13, WhileEndStep
<1>14. CASE LogicBegin  BY <1>14, LogicBeginStep
<1>15. CASE LogicTest  BY <1>15, LogicTestStep
<1>16. CASE LogicEnd  BY <1>16, LogicEndStep
<1>17. CASE Finish  BY <1>17, FinishStep
<1> QED
  BY <1>1, <1>2, <1>3, <1>4, <1>5, <1>6, <1>7, <1>8, <1>9, <1>10, <1>11, <1>12, <1>13,
     <1>14, <1>15, <1>16, <1>17 DEF Next

THEOREM LabelsInvariant == Spec => []IInv
<1>1. IInv /\ [Next]_vars => IInv'  BY NextIInv
<1> QED  BY InitIInv, <1>1, PTL DEF Spec

(* Type correctness of the buffers, the function table and the open        *)
(* constructs.                                                             *)
THEOREM LabelsTyped == Spec => []TypeOK
<1>1. IInv => TypeOK
  <2> SUFFICES ASSUME IInv PROVE TypeOK  OBVIOUS
  <2>1. Sound(out, Pend(stack)) /\ stack \in Seq(Construct)  BY DEF IInv, StackInv
  <2>2. \A l \in DOMAIN out.place : out.place[l] \in 1 .. out.size  BY <2>1 DEF Sound
  <2>3. \A e \in DOMAIN out.jumps : out.jumps[e].label \in Nat /\ out.jumps[e].disp \in Int
    BY <2>1 DEF Sound, Jumps
  <2>4. \A e \in DOMAIN out.calls : out.calls[e].label \in Nat /\ out.calls[e].disp \in Int
    BY <2>1 DEF Sound, Calls
  <2> QED  BY <2>1, <2>2, <2>3, <2>4 DEF TypeOK, IInv, Sound
<1> QED  BY LabelsInvariant, <1>1, PTL

(* The assertions of LabelRegister and LabelGetOffs hold, and the label    *)
(* buffer has room for every reserved label.                               *)
THEOREM LabelsAreReserved == Spec => []LabelsReserved
<1>1. IInv => LabelsReserved  BY DEF IInv, Sound, LabelsReserved
<1> QED  BY LabelsInvariant, <1>1, PTL

(* Every jump that no open construct has still to patch leads to the place *)
(* of its label.                                                           *)
THEOREM PatchedJumpsLand == Spec => []JumpsLand
<1>1. IInv => JumpsLand  BY DEF IInv, Sound, Lands, JumpsLand, Pending, Pend
<1> QED  BY LabelsInvariant, <1>1, PTL

(* Every call enters a function of its name, or has label 0 and enters the *)
(* program at its start.                                                   *)
THEOREM CallsEnterFunctions == Spec => []CallsLand
<1>1. IInv => CallsLand
  <2> SUFFICES ASSUME IInv, NEW e \in DOMAIN out.calls
               PROVE  LET c == out.calls[e]
                      IN  \/ c.label = 0 /\ e + c.disp = 0
                          \/ /\ \E i \in DOMAIN out.funcs :
                                    out.funcs[i] = [id |-> c.id, label |-> c.label]
                             /\ c.label \in DOMAIN out.place
                             /\ e + c.disp = out.place[c.label]
    BY DEF CallsLand
  <2>1. CallLands(out, e)  BY DEF IInv, Sound
  <2> QED  BY <2>1 DEF CallLands
<1> QED  BY LabelsInvariant, <1>1, PTL

(* A placed label never moves and a jump that is not pending is never      *)
(* written again.                                                          *)
THEOREM PlacedCodeIsFixed == Spec => CodeFixed
<1> DEFINE Fixed ==
       /\ \A l \in DOMAIN out.place :
             l \in DOMAIN out'.place /\ out'.place[l] = out.place[l]
       /\ \A e \in DOMAIN out.jumps :
             ~ Pending(e) => e \in DOMAIN out'.jumps /\ out'.jumps[e] = out.jumps[e]
<1>1. IInv /\ [Next]_vars => [Fixed]_vars
  <2> SUFFICES ASSUME IInv, [Next]_vars, Kept PROVE Fixed
    BY NextIInv DEF vars
  <2>1. PICK L : Extends(out, out', L, Pend(stack))  BY DEF Kept
  <2> QED  BY <2>1 DEF Extends, Pend, Pending
<1> QED  BY LabelsInvariant, <1>1, PTL DEF Spec, CodeFixed

-----------------------------------------------------------------------------
(* What is known of the code while the function whose construct is the i-th *)
(* is open: what was emitted before it lies below its entry and names       *)
(* labels below its own, what was emitted since lies above and names labels *)
(* above its own.                                                           *)
OpenAt(c, st, i) ==
    LET l == st[i].lbl
        a == c.place[l]
    IN  /\ l \in DOMAIN c.place
        /\ \A e \in DOMAIN c.jumps : /\ e < a => c.jumps[e].label < l
                                     /\ e > a => c.jumps[e].label > l + 1
        /\ \A k \in DOMAIN c.place : /\ k < l => c.place[k] < a
                                     /\ k > l => c.place[k] >= a
        /\ \A j \in DOMAIN st : j < i => st[j].of < a

FunctionsOpen(c, st) == \A i \in DOMAIN st : st[i].op = "func" => OpenAt(c, st, i)

(* The code between the labels l and l + 1 is complete and no jump that is  *)
(* or can still be made crosses its ends.                                   *)
ClosedAt(c, st, l) ==
    LET a == c.place[l]
        b == c.place[l + 1]
    IN  /\ l \in DOMAIN c.place
        /\ \A e \in DOMAIN c.jumps : e \in a + 1 .. b =>
              /\ e \notin Pend(st) /\ c.jumps[e].label \in DOMAIN c.place
              /\ c.place[c.jumps[e].label] \in a .. b - 1
        /\ \A e \in DOMAIN c.jumps :
              e \notin a .. b /\ c.jumps[e].label \in DOMAIN c.place =>
                  c.place[c.jumps[e].label] \notin a .. b - 1
        /\ \A j \in DOMAIN st :
              st[j].lbl \in DOMAIN c.place => c.place[st[j].lbl] \notin a .. b - 1

Ended(c, k) == c.funcs[k].label + 1 \in DOMAIN c.place

FunctionsShut(c, st) == \A k \in DOMAIN c.funcs : Ended(c, k) => ClosedAt(c, st, c.funcs[k].label)

(* A function of the table is complete or being generated.                  *)
FunctionsKnown(c, st) ==
    \A k \in DOMAIN c.funcs :
        Ended(c, k) \/ \E i \in DOMAIN st : st[i].op = "func" /\ st[i].lbl = c.funcs[k].label

FInv ==
    /\ FunctionsOpen(out, stack)
    /\ FunctionsShut(out, stack)
    /\ pc # "assert" => FunctionsKnown(out, stack)

-----------------------------------------------------------------------------
(* Codes grow: what is placed and jumped from stays, what is new lies at or *)
(* above the old end and is about the labels in N.                          *)
Grows(c, d, N) ==
    /\ DOMAIN d = Fields /\ d.funcs = c.funcs
    /\ c.size \in Nat /\ d.size \in Nat /\ c.size <= d.size
    /\ DOMAIN c.jumps \subseteq DOMAIN d.jumps
    /\ \A e \in DOMAIN d.jumps :
          /\ d.jumps[e] \in Jumps /\ e \in Nat
          /\ e \in DOMAIN c.jumps => e <= c.size /\ d.jumps[e].label = c.jumps[e].label
          /\ e \notin DOMAIN c.jumps => e > c.size /\ d.jumps[e].label \in N
    /\ DOMAIN c.place \subseteq DOMAIN d.place
    /\ \A k \in DOMAIN d.place :
          /\ d.place[k] \in Nat
          /\ k \in DOMAIN c.place => d.place[k] = c.place[k]
          /\ k \notin DOMAIN c.place => k \in N /\ d.place[k] >= c.size

LEMMA GrowsNot ==
    ASSUME NEW c, NEW P, Sound(c, P), NEW N
    PROVE  Grows(c, c, N)
BY DEF Grows, Sound

LEMMA GrowsEmit ==
    ASSUME NEW c, NEW d, NEW N, Grows(c, d, N), NEW n \in Nat
    PROVE  Grows(c, Emit(d, n), N)
<1> DEFINE e == Emit(d, n)
<1>1. /\ DOMAIN e = Fields /\ e.size = d.size + n /\ e.place = d.place
      /\ e.jumps = d.jumps /\ e.funcs = d.funcs
  BY DEF Emit, Grows, Fields
<1> HIDE DEF e
<1>2. e.size \in Nat /\ c.size <= e.size  BY <1>1 DEF Grows
<1>3. Grows(c, e, N)  BY <1>1, <1>2 DEF Grows
<1> QED  BY <1>3 DEF e

LEMMA GrowsCall ==
    ASSUME NEW c, NEW d, NEW N, Grows(c, d, N), NEW id
    PROVE  Grows(c, CallTo(d, id), N)
<1> DEFINE e == CallTo(d, id)
<1>1. /\ DOMAIN e = Fields /\ e.size = d.size + 5 /\ e.place = d.place
      /\ e.jumps = d.jumps /\ e.funcs = d.funcs
  BY DEF CallTo, Grows, Fields
<1> HIDE DEF e
<1>2. e.size \in Nat /\ c.size <= e.size  BY <1>1 DEF Grows
<1>3. Grows(c, e, N)  BY <1>1, <1>2 DEF Grows
<1> QED  BY <1>3 DEF e

LEMMA GrowsReserve ==
    ASSUME NEW c, NEW d, NEW N, Grows(c, d, N), NEW n
    PROVE  Grows(c, Reserve(d, n), N) /\ Reserve(d, n).size = d.size
<1> DEFINE e == Reserve(d, n)
<1>1. /\ DOMAIN e = Fields /\ e.size = d.size /\ e.place = d.place
      /\ e.jumps = d.jumps /\ e.funcs = d.funcs
  BY DEF Reserve, Grows, Fields
<1> HIDE DEF e
<1>2. Grows(c, e, N)  BY <1>1 DEF Grows
<1> QED  BY <1>1, <1>2 DEF e

LEMMA GrowsJump ==
    ASSUME NEW c, NEW d, NEW N, Grows(c, d, N), NEW len \in {5, 6}, NEW l \in N, l \in Nat
    PROVE  /\ Grows(c, Jump(d, len, l), N) /\ Jump(d, len, l).size = d.size + len
           /\ Jump(d, len, l).size > c.size
<1> DEFINE e == Jump(d, len, l)
           z == d.size + len
           new == [label |-> l, disp |-> GetOffs(d, l) - z]
<1>1. /\ DOMAIN e = Fields /\ e.size = z /\ e.place = d.place
      /\ e.jumps = Bind(d.jumps, z, new) /\ e.funcs = d.funcs
  BY DEF Jump, Grows, Fields
<1>2. z \in Nat /\ c.size < z  BY DEF Grows
<1>3. GetOffs(d, l) \in Int  BY DEF GetOffs, Grows
<1>4. new \in Jumps /\ new.label = l  BY <1>2, <1>3 DEF Jumps
<1> HIDE DEF e, new
<1>5. /\ DOMAIN e.jumps = DOMAIN d.jumps \union {z} /\ e.jumps[z] = new
      /\ \A y \in DOMAIN d.jumps : y # z => e.jumps[y] = d.jumps[y]
  BY <1>1 DEF Bind
<1>6. z \notin DOMAIN c.jumps  BY <1>2 DEF Grows
<1>7. ASSUME NEW y \in DOMAIN e.jumps
      PROVE  /\ e.jumps[y] \in Jumps /\ y \in Nat
             /\ y \in DOMAIN c.jumps => y <= c.size /\ e.jumps[y].label = c.jumps[y].label
             /\ y \notin DOMAIN c.jumps => y > c.size /\ e.jumps[y].label \in N
  <2>1. CASE y = z  BY <1>2, <1>4, <1>5, <1>6, <2>1
  <2>2. CASE y # z  BY <1>5, <2>2 DEF Grows
  <2> QED  BY <2>1, <2>2
<1>8. DOMAIN c.jumps \subseteq DOMAIN e.jumps  BY <1>5 DEF Grows
<1>9. Grows(c, e, N)
  <2> HIDE DEF z
  <2>1. e.size \in Nat /\ c.size <= e.size /\ c.size \in Nat  BY <1>1, <1>2 DEF Grows
  <2> QED  BY <1>1, <1>7, <1>8, <2>1 DEF Grows
<1> QED  BY <1>1, <1>2, <1>9 DEF e

LEMMA GrowsRegister ==
    ASSUME NEW c, NEW d, NEW N, Grows(c, d, N), NEW l \in N, l \notin DOMAIN c.place
    PROVE  Grows(c, Register(d, l), N)
<1> DEFINE e == Register(d, l)
<1>1. /\ DOMAIN e = Fields /\ e.size = d.size /\ e.place = Bind(d.place, l, d.size)
      /\ e.jumps = d.jumps /\ e.funcs = d.funcs
  BY DEF Register, Grows, Fields
<1> HIDE DEF e
<1>2. /\ DOMAIN e.place = DOMAIN d.place \union {l} /\ e.place[l] = d.size
      /\ \A k \in DOMAIN d.place : k # l => e.place[k] = d.place[k]
  BY <1>1 DEF Bind
<1>3. \A k \in DOMAIN e.place :
          /\ e.place[k] \in Nat
          /\ k \in DOMAIN c.place => e.place[k] = c.place[k]
          /\ k \notin DOMAIN c.place => k \in N /\ e.place[k] >= c.size
  BY <1>2 DEF Grows
<1>4. DOMAIN c.place \subseteq DOMAIN e.place  BY <1>2 DEF Grows
<1>5. Grows(c, e, N)  BY <1>1, <1>3, <1>4 DEF Grows
<1> QED  BY <1>5 DEF e

LEMMA GrowsUpdate ==
    ASSUME NEW c, NEW d, NEW N, Grows(c, d, N), NEW of \in Nat
    PROVE  Grows(c, Update(d, of), N) /\ Update(d, of).size = d.size
<1> DEFINE e == Update(d, of)
<1>1. /\ DOMAIN e = Fields /\ e.size = d.size /\ e.place = d.place
      /\ e.jumps = [d.jumps EXCEPT ![of].disp = d.size - of] /\ e.funcs = d.funcs
  BY DEF Update, Grows, Fields
<1> HIDE DEF e
<1>2. d.size - of \in Int  BY DEF Grows
<1>3. /\ DOMAIN e.jumps = DOMAIN d.jumps
      /\ \A y \in DOMAIN d.jumps : e.jumps[y] \in Jumps /\ e.jumps[y].label = d.jumps[y].label
  <2>1. \A y \in DOMAIN d.jumps : d.jumps[y] \in Jumps  BY DEF Grows
  <2> QED  BY <1>1, <1>2, <2>1 DEF Jumps
<1>4. Grows(c, e, N)  BY <1>1, <1>3 DEF Grows
<1> QED  BY <1>1, <1>4 DEF e

-----------------------------------------------------------------------------
(* Functions stay as they are while the code grows.                         *)

(* st2 follows st: constructs are opened above and closed at the top, the   *)
(* labels and jumps they get are new.                                       *)
Follows(c, st, st2) ==
    /\ \A j \in DOMAIN st2 :
          \/ \E i \in DOMAIN st : st2[j].lbl = st[i].lbl
          \/ st2[j].lbl \notin DOMAIN c.place
    /\ \A e \in Pend(st2) : e \in Pend(st) \/ e = 0 \/ e > c.size

(* The labels N are not those of an open function.                          *)
Beside(N, st) ==
    /\ N \subseteq Nat
    /\ \A i \in DOMAIN st : st[i].op = "func" => \A k \in N : k > st[i].lbl + 1

LEMMA OpenKept ==
    ASSUME NEW c, NEW P, Sound(c, P), NEW d, NEW N, Grows(c, d, N),
           NEW st, NEW st2, NEW i \in DOMAIN st, OpenAt(c, st, i),
           \A k \in N : k \in Nat /\ k > st[i].lbl + 1, st[i].lbl \in Nat, i \in Nat,
           i \in DOMAIN st2, \A j \in DOMAIN st2 : j <= i => j \in DOMAIN st /\ st2[j] = st[j],
           DOMAIN st2 \subseteq Nat
    PROVE  OpenAt(d, st2, i)
<1> DEFINE l == st[i].lbl
           a == c.place[l]
<1>1. st2[i] = st[i]  OBVIOUS
<1>2. l \in DOMAIN c.place /\ l \in DOMAIN d.place /\ d.place[l] = a /\ a \in Nat /\ a <= c.size
      /\ c.size \in Nat
  BY DEF OpenAt, Grows, Sound
<1>3. ASSUME NEW e \in DOMAIN d.jumps
      PROVE  (e < a => d.jumps[e].label < l) /\ (e > a => d.jumps[e].label > l + 1)
  <2>1. CASE e \in DOMAIN c.jumps  BY <2>1 DEF OpenAt, Grows
  <2>2. CASE e \notin DOMAIN c.jumps
    <3>1. e \in Nat /\ e > c.size /\ d.jumps[e].label \in N  BY <2>2 DEF Grows
    <3>2. d.jumps[e].label > l + 1  BY <3>1
    <3> HIDE DEF l, a
    <3>3. ~ (e < a)  BY <1>2, <3>1
    <3> QED  BY <3>2, <3>3
  <2> QED  BY <2>1, <2>2
<1>4. ASSUME NEW k \in DOMAIN d.place
      PROVE  (k < l => d.place[k] < a) /\ (k > l => d.place[k] >= a)
  <2>1. CASE k \in DOMAIN c.place  BY <2>1 DEF OpenAt, Grows
  <2>2. CASE k \notin DOMAIN c.place
    <3>1. k \in N /\ d.place[k] \in Nat /\ d.place[k] >= c.size  BY <2>2 DEF Grows
    <3>2. k \in Nat /\ k > l + 1 /\ l \in Nat  BY <3>1
    <3> HIDE DEF l, a
    <3>3. ~ (k < l) /\ d.place[k] >= a  BY <1>2, <3>1, <3>2
    <3> QED  BY <3>3
  <2> QED  BY <2>1, <2>2
<1>5. \A j \in DOMAIN st2 : j < i => st2[j].of < a
  <2> SUFFICES ASSUME NEW j \in DOMAIN st2, j < i PROVE st2[j].of < a  OBVIOUS
  <2>1. j \in Nat /\ j <= i  OBVIOUS
  <2>2. j \in DOMAIN st /\ st2[j] = st[j]  BY <2>1
  <2> QED  BY <2>2 DEF OpenAt
<1> HIDE DEF a
<1> QED  BY <1>1, <1>2, <1>3, <1>4, <1>5 DEF OpenAt

LEMMA ShutKept ==
    ASSUME NEW c, NEW P, Sound(c, P), NEW d, NEW N, Grows(c, d, N),
           NEW st, NEW st2, Follows(c, st, st2),
           \A k \in N : k \in DOMAIN c.place => \E j \in DOMAIN st : st[j].lbl = k,
           NEW l, l \in DOMAIN c.place, l + 1 \in DOMAIN c.place, ClosedAt(c, st, l)
    PROVE  ClosedAt(d, st2, l)
<1> DEFINE a == c.place[l]
           b == c.place[l + 1]
<1>1. /\ a \in Nat \ {0} /\ b \in Nat /\ b <= c.size /\ c.size \in Nat
      /\ d.place[l] = a /\ d.place[l + 1] = b
  BY DEF Sound, Grows
<1> HIDE DEF a, b
<1>2. ASSUME NEW e \in DOMAIN d.jumps, e \in a + 1 .. b
      PROVE  /\ e \notin Pend(st2) /\ d.jumps[e].label \in DOMAIN d.place
             /\ d.place[d.jumps[e].label] \in a .. b - 1
  <2>1. e \in Nat /\ e # 0 /\ ~ (e > c.size)  BY <1>1, <1>2
  <2>2. e \in DOMAIN c.jumps  BY <2>1 DEF Grows
  <2>3. /\ e \notin Pend(st) /\ c.jumps[e].label \in DOMAIN c.place
        /\ c.place[c.jumps[e].label] \in a .. b - 1
    BY <1>2, <2>2 DEF ClosedAt, a, b
  <2>4. e \notin Pend(st2)  BY <2>1, <2>3 DEF Follows
  <2> QED  BY <2>2, <2>3, <2>4 DEF Grows
<1>3. ASSUME NEW k \in DOMAIN d.place, k \notin DOMAIN c.place
      PROVE  d.place[k] \notin a .. b - 1
  <2>1. d.place[k] \in Nat /\ d.place[k] >= c.size  BY <1>3 DEF Grows
  <2> QED  BY <1>1, <2>1
<1>4. \A j \in DOMAIN st : st[j].lbl \in DOMAIN c.place => c.place[st[j].lbl] \notin a .. b - 1
  BY DEF ClosedAt, a, b
<1>5. ASSUME NEW e \in DOMAIN d.jumps, e \notin a .. b, d.jumps[e].label \in DOMAIN d.place
      PROVE  d.place[d.jumps[e].label] \notin a .. b - 1
  <2> DEFINE k == d.jumps[e].label
  <2>1. CASE k \notin DOMAIN c.place  BY <1>3, <1>5, <2>1
  <2>2. CASE k \in DOMAIN c.place /\ e \in DOMAIN c.jumps
    <3>1. c.jumps[e].label = k /\ d.place[k] = c.place[k]  BY <1>5, <2>2 DEF Grows
    <3>2. c.place[c.jumps[e].label] \notin a .. b - 1
      BY <1>5, <2>2, <3>1 DEF ClosedAt, a, b
    <3> QED  BY <3>1, <3>2
  <2>3. CASE k \in DOMAIN c.place /\ e \notin DOMAIN c.jumps
    <3>1. k \in N /\ d.place[k] = c.place[k]  BY <1>5, <2>3 DEF Grows
    <3> HIDE DEF k
    <3>2. PICK j \in DOMAIN st : st[j].lbl = k  BY <2>3, <3>1
    <3>3. c.place[k] \notin a .. b - 1  BY <1>4, <2>3, <3>2
    <3> QED  BY <3>1, <3>3 DEF k
  <2> QED  BY <2>1, <2>2, <2>3
<1>6. ASSUME NEW j \in DOMAIN st2, st2[j].lbl \in DOMAIN d.place
      PROVE  d.place[st2[j].lbl] \notin a .. b - 1
  <2>1. CASE st2[j].lbl \notin DOMAIN c.place  BY <1>3, <1>6, <2>1
  <2>2. CASE st2[j].lbl \in DOMAIN c.place
    <3>1. PICK i \in DOMAIN st : st2[j].lbl = st[i].lbl  BY <2>2 DEF Follows
    <3>2. d.place[st2[j].lbl] = c.place[st2[j].lbl]  BY <1>6, <2>2 DEF Grows
    <3> QED  BY <1>4, <2>2, <3>1, <3>2
  <2> QED  BY <2>1, <2>2
<1>7. l \in DOMAIN d.place  BY DEF Grows
<1> QED  BY <1>1, <1>2, <1>5, <1>6, <1>7 DEF ClosedAt

(* The constructs of functions, and what is below them, stay.               *)
FuncsStay(st, st2) ==
    /\ DOMAIN st2 \subseteq Nat
    /\ \A i \in DOMAIN st : st[i].op = "func" => i \in DOMAIN st2 /\ st2[i] = st[i]
    /\ \A i \in DOMAIN st2 : st2[i].op = "func" =>
          i \in DOMAIN st /\ \A j \in DOMAIN st2 : j <= i => j \in DOMAIN st /\ st2[j] = st[j]

(* The labels of N that are placed belong to open constructs.               *)
Owned(c, st, N) == \A k \in N : k \in DOMAIN c.place => \E j \in DOMAIN st : st[j].lbl = k

LEMMA Quiet ==
    ASSUME IInv, FInv, pc = "gen", NEW N, Beside(N, stack), Owned(out, stack, N),
           NEW d, NEW st2, Grows(out, d, N), Follows(out, stack, st2), FuncsStay(stack, st2),
           Step(d, st2)
    PROVE  FInv'
<1>1. /\ Sound(out, Pend(stack)) /\ FunctionsPlaced(out) /\ FunctionsKnown(out, stack)
      /\ FunctionsOpen(out, stack) /\ FunctionsShut(out, stack) /\ StackInv(out, stack)
  BY DEF IInv, FInv
<1>2. FunctionsOpen(d, st2)
  <2> SUFFICES ASSUME NEW i \in DOMAIN st2, st2[i].op = "func" PROVE OpenAt(d, st2, i)
    BY DEF FunctionsOpen
  <2>1. /\ i \in DOMAIN stack /\ i \in Nat /\ DOMAIN st2 \subseteq Nat
        /\ \A j \in DOMAIN st2 : j <= i => j \in DOMAIN stack /\ st2[j] = stack[j]
    BY DEF FuncsStay
  <2>2. stack[i] = st2[i]  BY <2>1
  <2>3. stack[i].lbl \in Nat  BY <1>1, <2>1 DEF StackInv, Held, Construct
  <2>4. \A k \in N : k \in Nat /\ k > stack[i].lbl + 1  BY <2>1, <2>2 DEF Beside
  <2>5. OpenAt(out, stack, i)  BY <1>1, <2>1, <2>2 DEF FunctionsOpen
  <2> QED  BY <1>1, <2>1, <2>3, <2>4, <2>5, OpenKept
<1>3. d.funcs = out.funcs  BY DEF Grows
<1>4. ASSUME NEW k \in DOMAIN out.funcs, Ended(d, k)
      PROVE  Ended(out, k)
  <2> DEFINE l == out.funcs[k].label
  <2>1. l + 1 \in DOMAIN d.place  BY <1>3, <1>4 DEF Ended
  <2>2. CASE l + 1 \in DOMAIN out.place  BY <2>2 DEF Ended
  <2>3. CASE l + 1 \notin DOMAIN out.place
    <3>1. l + 1 \in N  BY <2>1, <2>3 DEF Grows
    <3>2. PICK i \in DOMAIN stack : stack[i].op = "func" /\ stack[i].lbl = l
      BY <1>1, <2>3 DEF FunctionsKnown, Ended
    <3>3. l + 1 \in Nat /\ l + 1 > l + 1  BY <3>1, <3>2 DEF Beside
    <3> QED  BY <3>3
  <2> QED  BY <2>2, <2>3
<1>5. FunctionsShut(d, st2)
  <2> SUFFICES ASSUME NEW k \in DOMAIN out.funcs, Ended(d, k)
               PROVE  ClosedAt(d, st2, out.funcs[k].label)
    BY <1>3 DEF FunctionsShut
  <2> DEFINE l == out.funcs[k].label
  <2>1. Ended(out, k)  BY <1>4
  <2>2. l \in DOMAIN out.place /\ l + 1 \in DOMAIN out.place /\ ClosedAt(out, stack, l)
    BY <1>1, <2>1 DEF FunctionsPlaced, FunctionsShut, Ended
  <2> HIDE DEF l
  <2>3. ClosedAt(d, st2, l)  BY <1>1, <2>2, ShutKept DEF Owned
  <2> QED  BY <2>3 DEF l
<1>6. FunctionsKnown(d, st2)
  <2> SUFFICES ASSUME NEW k \in DOMAIN out.funcs
               PROVE  \/ Ended(d, k)
                      \/ \E i \in DOMAIN st2 : /\ st2[i].op = "func"
                                               /\ st2[i].lbl = out.funcs[k].label
    BY <1>3 DEF FunctionsKnown
  <2>1. CASE Ended(out, k)  BY <1>3, <2>1 DEF Ended, Grows
  <2>2. CASE ~ Ended(out, k)
    <3>1. PICK i \in DOMAIN stack : stack[i].op = "func" /\ stack[i].lbl = out.funcs[k].label
      BY <1>1, <2>2 DEF FunctionsKnown
    <3>2. i \in DOMAIN st2 /\ st2[i] = stack[i]  BY <3>1 DEF FuncsStay
    <3> QED  BY <3>1, <3>2
  <2> QED  BY <2>1, <2>2
<1> QED  BY <1>2, <1>5, <1>6 DEF FInv, Step

LEMMA SameStack ==
    ASSUME NEW c, NEW st \in Seq(Construct)
    PROVE  Follows(c, st, st) /\ FuncsStay(st, st)
BY DEF Follows, FuncsStay

LEMMA PushedStack ==
    ASSUME NEW c, NEW st \in Seq(Construct), NEW s, s.op # "func", s.lbl \notin DOMAIN c.place,
           s.of = 0 \/ s.of > c.size
    PROVE  Follows(c, st, Append(st, s)) /\ FuncsStay(st, Append(st, s))
<1> DEFINE new == Append(st, s)
           n == Len(st) + 1
<1>1. /\ DOMAIN new = DOMAIN st \union {n} /\ new[n] = s /\ n \notin DOMAIN st
      /\ DOMAIN st \subseteq Nat /\ n \in Nat
      /\ \A i \in DOMAIN st : new[i] = st[i] /\ i < n
  OBVIOUS
<1> HIDE DEF new, n
<1>2. Follows(c, st, new)  BY <1>1 DEF Follows, Pend
<1>3. FuncsStay(st, new)
  <2>1. DOMAIN new \subseteq Nat  BY <1>1
  <2>2. ASSUME NEW i \in DOMAIN new, new[i].op = "func", NEW j \in DOMAIN new, j <= i
        PROVE  i \in DOMAIN st /\ j \in DOMAIN st /\ new[j] = st[j]
    <3>1. i \in DOMAIN st /\ i < n  BY <1>1, <2>2
    <3>2. j # n  BY <1>1, <2>2, <3>1
    <3> QED  BY <1>1, <3>1, <3>2
  <2>3. ASSUME NEW i \in DOMAIN new, new[i].op = "func" PROVE i \in DOMAIN st
    BY <1>1, <2>3
  <2> QED  BY <1>1, <2>1, <2>2, <2>3 DEF FuncsStay
<1> QED  BY <1>2, <1>3 DEF new

LEMMA ClosedStack ==
    ASSUME NEW c, NEW st \in Seq(Construct), st # <<>>, st[Len(st)].op # "func"
    PROVE  LET front == SubSeq(st, 1, Len(st) - 1)
           IN  Follows(c, st, front) /\ FuncsStay(st, front)
<1> DEFINE n == Len(st)
           front == SubSeq(st, 1, n - 1)
<1>1. /\ n \in Nat \ {0} /\ DOMAIN st = 1 .. n /\ DOMAIN front = 1 .. n - 1
      /\ \A i \in 1 .. n - 1 : front[i] = st[i]
  OBVIOUS
<1> HIDE DEF front
<1>2. DOMAIN front \subseteq DOMAIN st /\ DOMAIN st = DOMAIN front \union {n}
      /\ DOMAIN front \subseteq Nat /\ \A i \in DOMAIN front : front[i] = st[i]
  BY <1>1
<1>3. st[n].op # "func"  OBVIOUS
<1> HIDE DEF n
<1>4. Follows(c, st, front)  BY <1>2 DEF Follows, Pend
<1>5. FuncsStay(st, front)  BY <1>2, <1>3 DEF FuncsStay
<1> QED  BY <1>4, <1>5 DEF front, n

LEMMA FrontOf ==
    ASSUME NEW S, NEW st \in Seq(S), st # <<>>
    PROVE  LET front == SubSeq(st, 1, Len(st) - 1)
           IN  /\ front \in Seq(S) /\ Len(front) = Len(st) - 1
               /\ \A i \in 1 .. Len(st) - 1 : front[i] = st[i]
<1>1. Len(st) \in Nat \ {0} /\ DOMAIN st = 1 .. Len(st)  OBVIOUS
<1> DEFINE n == Len(st)
           front == SubSeq(st, 1, n - 1)
<1>2. /\ front \in Seq(S) /\ DOMAIN front = 1 .. n - 1
      /\ \A i \in 1 .. n - 1 : front[i] = st[i]
  BY <1>1
<1> HIDE DEF front, n
<1>3. n - 1 \in Nat /\ Len(front) \in Nat /\ 1 .. Len(front) = 1 .. n - 1
  <2>1. n - 1 \in Nat  BY <1>1 DEF n
  <2>2. Len(front) \in Nat /\ DOMAIN front = 1 .. Len(front)  BY <1>2
  <2> QED  BY <1>2, <2>1, <2>2
<1>4. Len(front) = n - 1
  <2>1. CASE Len(front) < n - 1  BY <1>3, <2>1
  <2>2. CASE n - 1 < Len(front)  BY <1>3, <2>2
  <2> QED  BY <1>3, <2>1, <2>2
<1> QED  BY <1>2, <1>4 DEF front, n

LEMMA MovedStack ==
    ASSUME NEW c, NEW st \in Seq(Construct), st # <<>>, st[Len(st)].op # "func",
           NEW stage, NEW of, of > c.size
    PROVE  LET s == [st[Len(st)] EXCEPT !.stage = stage, !.of = of]
               st2 == Append(SubSeq(st, 1, Len(st) - 1), s)
           IN  Follows(c, st, st2) /\ FuncsStay(st, st2)
<1> DEFINE n == Len(st)
           s == [st[n] EXCEPT !.stage = stage, !.of = of]
           front == SubSeq(st, 1, n - 1)
           st2 == Append(front, s)
<1>1. /\ n \in Nat \ {0} /\ DOMAIN st = 1 .. n /\ DOMAIN st2 = 1 .. n
      /\ st2[n] = s /\ \A i \in 1 .. n - 1 : st2[i] = st[i]
  <2>1. n \in Nat \ {0} /\ DOMAIN st = 1 .. n  OBVIOUS
  <2>2. /\ front \in Seq(Construct) /\ Len(front) = n - 1
        /\ \A i \in 1 .. n - 1 : front[i] = st[i]
    BY FrontOf
  <2> HIDE DEF front, s, n
  <2> QED  BY <2>1, <2>2
<1>2. st[n] \in Construct  BY <1>1
<1>3. s.lbl = st[n].lbl /\ s.op = st[n].op /\ s.of = of  BY <1>2 DEF Construct
<1>4. st[n].op # "func"  OBVIOUS
<1> HIDE DEF st2, s
<1>5. /\ DOMAIN st2 = DOMAIN st /\ DOMAIN st \subseteq Nat /\ n \in DOMAIN st
      /\ \A i \in DOMAIN st : i <= n /\ (i # n => st2[i] = st[i])
  BY <1>1
<1> HIDE DEF n
<1>6. Follows(c, st, st2)
  <2>1. \A j \in DOMAIN st2 : st2[j].lbl = st[j].lbl  BY <1>1, <1>3, <1>5
  <2>2. \A j \in DOMAIN st2 : st2[j].of = st[j].of \/ st2[j].of > c.size  BY <1>1, <1>3, <1>5
  <2> QED  BY <1>5, <2>1, <2>2 DEF Follows, Pend
<1>7. FuncsStay(st, st2)
  <2>1. \A i \in DOMAIN st : st[i].op = "func" => st2[i] = st[i]  BY <1>4, <1>5
  <2>2. ASSUME NEW i \in DOMAIN st2, st2[i].op = "func", NEW j \in DOMAIN st2, j <= i
        PROVE  st2[j] = st[j]
    <3>1. i # n  BY <1>1, <1>3, <1>4, <2>2
    <3>2. i \in Nat /\ j \in Nat /\ n \in Nat /\ i <= n  BY <1>5, <2>2
    <3>3. j # n  BY <2>2, <3>1, <3>2
    <3> QED  BY <1>5, <2>2, <3>3
  <2> QED  BY <1>5, <2>1, <2>2 DEF FuncsStay
<1> QED  BY <1>6, <1>7 DEF st2, s, front, n

LEMMA FreshLabels ==
    ASSUME IInv, NEW N, N \subseteq {out.labels, out.labels + 1}
    PROVE  Beside(N, stack) /\ Owned(out, stack, N)
<1>1. Sound(out, Pend(stack)) /\ StackInv(out, stack) /\ out.labels \in Nat
  BY DEF IInv, Sound
<1>2. ASSUME NEW i \in DOMAIN stack, stack[i].op = "func", NEW k \in N
      PROVE  k > stack[i].lbl + 1
  <2>1. stack[i].lbl \in Nat /\ stack[i].lbl + 2 <= out.labels
    BY <1>1, <1>2 DEF StackInv, Held, Construct, Width
  <2>2. k \in Nat /\ k >= out.labels  BY <1>1
  <2> QED  BY <1>1, <2>1, <2>2
<1>3. \A k \in N : k \in Nat /\ k \notin DOMAIN out.place  BY <1>1 DEF Sound
<1> QED  BY <1>2, <1>3 DEF Beside, Owned

LEMMA OwnLabels ==
    ASSUME IInv, stack # <<>>, Top.op # "func", NEW N, N \subseteq {Top.lbl, Top.lbl + 1},
           Top.op = "qq" => N \subseteq {Top.lbl}
    PROVE  Beside(N, stack) /\ Owned(out, stack, N)
<1> DEFINE n == Len(stack)
<1>1. /\ stack \in Seq(Construct) /\ DOMAIN stack = 1 .. n /\ n \in DOMAIN stack
      /\ StackInv(out, stack) /\ n \in Nat /\ Held(out, Top) /\ Top = stack[n]
      /\ Top.lbl \in Nat /\ Top \in Construct
  BY TopHeld DEF IInv, StackInv, Top
<1> HIDE DEF n
<1>2. ASSUME NEW i \in DOMAIN stack, stack[i].op = "func", NEW k \in N
      PROVE  k > stack[i].lbl + 1
  <2>1. i < n  BY <1>1, <1>2
  <2>2. stack[i].lbl \in Nat /\ stack[i].lbl + 2 <= Top.lbl
    BY <1>1, <1>2, <2>1 DEF StackInv, Held, Construct, Width
  <2>3. k \in Nat /\ k >= Top.lbl  BY <1>1
  <2> QED  BY <1>1, <2>2, <2>3
<1>3. ASSUME NEW k \in N, k \in DOMAIN out.place PROVE k = Top.lbl
  <2>1. CASE Top.op = "qq"  BY <2>1
  <2>2. CASE Top.op # "qq"
    <3>1. Top.lbl + 1 \in Free(Top)  BY <2>2 DEF Free
    <3>2. Top.lbl + 1 \notin DOMAIN out.place  BY <1>1, <3>1 DEF Held
    <3> QED  BY <1>3, <3>2
  <2> QED  BY <2>1, <2>2
<1> QED  BY <1>1, <1>2, <1>3 DEF Beside, Owned

LEMMA QuietStayed ==
    ASSUME IInv, FInv, NEW d, pc = "gen", Grows(out, d, {}), Step(d, stack)
    PROVE  FInv'
<1> DEFINE N == {}
<1>1. stack \in Seq(Construct) /\ Beside(N, stack) /\ Owned(out, stack, N)
  BY DEF IInv, StackInv, Beside, Owned
<1>2. Grows(out, d, N)  OBVIOUS
<1> HIDE DEF N
<1> QED  BY <1>1, <1>2, SameStack, Quiet

LEMMA QuietOpened ==
    ASSUME IInv, FInv, pc = "gen", NEW N, N \subseteq {out.labels, out.labels + 1},
           NEW d, Grows(out, d, N), NEW s, s.op # "func", s.lbl = out.labels,
           s.of = 0 \/ s.of > out.size, Step(d, Append(stack, s))
    PROVE  FInv'
<1>1. stack \in Seq(Construct) /\ s.lbl \notin DOMAIN out.place
  BY DEF IInv, StackInv, Sound
<1>2. Beside(N, stack) /\ Owned(out, stack, N)  BY FreshLabels
<1>3. Follows(out, stack, Append(stack, s)) /\ FuncsStay(stack, Append(stack, s))
  BY <1>1, PushedStack
<1> QED  BY <1>2, <1>3, Quiet

LEMMA QuietMoved ==
    ASSUME IInv, FInv, pc = "gen", stack # <<>>, Top.op # "func",
           NEW N, N \subseteq {Top.lbl, Top.lbl + 1}, Top.op # "qq",
           NEW d, Grows(out, d, N), NEW stage, NEW of, of > out.size, Step(d, Go(stage, of))
    PROVE  FInv'
<1>1. stack \in Seq(Construct)  BY DEF IInv, StackInv
<1>2. Beside(N, stack) /\ Owned(out, stack, N)  BY OwnLabels
<1>3. Follows(out, stack, Go(stage, of)) /\ FuncsStay(stack, Go(stage, of))
  BY <1>1, MovedStack DEF Go, Close, Top
<1> QED  BY <1>2, <1>3, Quiet

LEMMA QuietClosed ==
    ASSUME IInv, FInv, pc = "gen", stack # <<>>, Top.op # "func",
           NEW N, N \subseteq {Top.lbl, Top.lbl + 1}, Top.op = "qq" => N \subseteq {Top.lbl},
           NEW d, Grows(out, d, N), Step(d, Close)
    PROVE  FInv'
<1>1. stack \in Seq(Construct)  BY DEF IInv, StackInv
<1>2. Beside(N, stack) /\ Owned(out, stack, N)  BY OwnLabels
<1>3. Follows(out, stack, Close) /\ FuncsStay(stack, Close)
  BY <1>1, ClosedStack DEF Close, Top
<1> QED  BY <1>2, <1>3, Quiet

-----------------------------------------------------------------------------
(* The steps.                                                               *)

LEMMA StartGrows ==
    ASSUME IInv, NEW N
    PROVE  Grows(out, out, N) /\ out.size \in Nat /\ out.labels \in Nat
BY GrowsNot DEF IInv, Sound

LEMMA PlainCloses ==
    ASSUME IInv, FInv, Plain \/ CaseCall
    PROVE  FInv'
<1>1. PICK d : pc = "gen" /\ Step(d, stack) /\ Grows(out, d, {})
  <2>1. Grows(out, out, {})  BY StartGrows
  <2>2. CASE Plain
    <3>1. PICK n \in InstrSizes : pc = "gen" /\ Step(Emit(out, n), stack)  BY <2>2 DEF Plain
    <3>2. n \in Nat  BY LabelsAssumption
    <3> QED  BY <2>1, <3>1, <3>2, GrowsEmit
  <2>3. CASE CaseCall
    <3>1. PICK id \in FuncIds : pc = "gen" /\ Step(CallTo(out, id), stack)
      BY <2>3 DEF CaseCall
    <3> QED  BY <2>1, <3>1, GrowsCall
  <2> QED  BY <2>2, <2>3
<1> QED  BY <1>1, QuietStayed

(* An opening that reserves n labels, jumps to the first and emits a frame. *)
LEMMA TestCloses ==
    ASSUME IInv, FInv, TernTest \/ QqTest
    PROVE  FInv'
<1>1. PICK n \in {1, 2} :
          /\ pc = "gen"
          /\ \E op \in {"tern", "qq"}, stage \in {"then", "right"} :
                LET c == Jump(Reserve(out, n), 6, out.labels)
                IN  Step(Emit(c, OpenCode), Open(op, stage, out.labels, c.size))
  <2>1. CASE TernTest  BY <2>1 DEF TernTest, CanOpen
  <2>2. CASE QqTest  BY <2>2 DEF QqTest, CanOpen
  <2> QED  BY <2>1, <2>2
<1> DEFINE N == {out.labels}
           a == Reserve(out, n)
           c == Jump(a, 6, out.labels)
           d == Emit(c, OpenCode)
<1>2. PICK op \in {"tern", "qq"}, stage \in {"then", "right"} : Step(d, Open(op, stage, out.labels, c.size))
  BY <1>1
<1>3. Grows(out, out, N) /\ out.labels \in Nat /\ out.labels \in N  BY StartGrows
<1>4. Grows(out, a, N)
  <2> HIDE DEF N
  <2> QED  BY <1>3, GrowsReserve
<1>5. Grows(out, c, N) /\ c.size > out.size
  <2> HIDE DEF N, a
  <2> QED  BY <1>3, <1>4, GrowsJump
<1>6. Grows(out, d, N)
  <2> HIDE DEF N, c
  <2> QED  BY <1>5, GrowsEmit DEF OpenCode
<1>7. N \subseteq {out.labels, out.labels + 1}  OBVIOUS
<1> DEFINE s == [op |-> op, stage |-> stage, lbl |-> out.labels, of |-> c.size]
<1> HIDE DEF c, d, N
<1>8. s.op # "func" /\ s.lbl = out.labels /\ s.of > out.size  BY <1>5
<1>9. Step(d, Append(stack, s))  BY <1>2 DEF Open
<1> HIDE DEF s
<1> QED  BY <1>1, <1>6, <1>7, <1>8, <1>9, QuietOpened

LEMMA OpenCloses ==
    ASSUME IInv, FInv, WhileBegin \/ LogicBegin
    PROVE  FInv'
<1> DEFINE N == {out.labels, out.labels + 1}
           a == Reserve(out, 2)
           b == Emit(a, OpenCode)
           c == Register(b, out.labels)
           s(op) == [op |-> op, stage |-> "left", lbl |-> out.labels, of |-> 0]
<1>1. Grows(out, out, N) /\ out.labels \in N /\ out.labels \notin DOMAIN out.place
  BY StartGrows DEF IInv, Sound
<1>2. N \subseteq {out.labels, out.labels + 1}  OBVIOUS
<1> HIDE DEF N
<1>3. Grows(out, a, N)  BY <1>1, GrowsReserve
<1> HIDE DEF a
<1>4. Grows(out, b, N)  BY <1>3, GrowsEmit DEF OpenCode
<1> HIDE DEF b
<1>5. Grows(out, c, N)  BY <1>1, <1>4, GrowsRegister
<1> HIDE DEF c
<1>6. PICK d \in {a, c}, op \in {"while", "logic"} :
          pc = "gen" /\ Step(d, Append(stack, s(op)))
  <2>1. CASE WhileBegin  BY <2>1 DEF WhileBegin, CanOpen, Open, a, b, c
  <2>2. CASE LogicBegin  BY <2>2 DEF LogicBegin, CanOpen, Open, a
  <2> QED  BY <2>1, <2>2
<1>7. Grows(out, d, N)  BY <1>3, <1>5, <1>6
<1> DEFINE t == s(op)
<1>8. t.op # "func" /\ t.lbl = out.labels /\ t.of = 0  OBVIOUS
<1>9. Step(d, Append(stack, t))  BY <1>6
<1> HIDE DEF t, s
<1> QED  BY <1>2, <1>6, <1>7, <1>8, <1>9, QuietOpened

LEMMA NextCloses ==
    ASSUME IInv, FInv, WhileTest \/ LogicTest
    PROVE  FInv'
<1> DEFINE N == {Top.lbl, Top.lbl + 1}
<1>1. PICK l \in N, stage \in {"body", "right"} :
          /\ pc = "gen" /\ stack # <<>> /\ Top.op \in {"while", "logic"}
          /\ Step(Jump(out, 6, l), Go(stage, Jump(out, 6, l).size))
  <2>1. CASE WhileTest  BY <2>1 DEF WhileTest, InnerMost
  <2>2. CASE LogicTest  BY <2>2 DEF LogicTest, InnerMost
  <2> QED  BY <2>1, <2>2
<1>2. Grows(out, out, N) /\ l \in Nat  BY <1>1, StartGrows, TopHeld
<1>3. N \subseteq {Top.lbl, Top.lbl + 1}  OBVIOUS
<1> HIDE DEF N
<1> DEFINE c == Jump(out, 6, l)
<1>4. Grows(out, c, N) /\ c.size > out.size  BY <1>2, GrowsJump
<1>5. Step(c, Go(stage, c.size))  BY <1>1
<1> HIDE DEF c
<1> QED  BY <1>1, <1>3, <1>4, <1>5, QuietMoved

LEMMA TernElseCloses ==
    ASSUME IInv, FInv, TernElse
    PROVE  FInv'
<1> DEFINE l == Top.lbl
           N == {l, l + 1}
           a == Emit(out, CloseCode)
           b == Jump(a, 5, l + 1)
           c == Register(b, l)
           d == Update(c, Top.of)
           e == Emit(d, OpenCode)
<1>1. /\ pc = "gen" /\ stack # <<>> /\ Top.op = "tern" /\ Top.stage = "then"
      /\ Step(e, Go("right", d.size))
  BY DEF TernElse, InnerMost
<1>2. /\ Held(out, Top) /\ l \in Nat /\ Top.of \in Nat
  BY <1>1, TopHeld DEF Construct
<1>3. Grows(out, out, N) /\ l \in N /\ l + 1 \in N /\ l + 1 \in Nat /\ l \notin DOMAIN out.place
  BY <1>1, <1>2, StartGrows DEF Held, Free
<1>4. N \subseteq {Top.lbl, Top.lbl + 1}  OBVIOUS
<1> HIDE DEF N, l
<1>5. Grows(out, a, N)  BY <1>3, GrowsEmit DEF CloseCode
<1> HIDE DEF a
<1>6. Grows(out, b, N) /\ b.size > out.size  BY <1>3, <1>5, GrowsJump
<1> HIDE DEF b
<1>7. Grows(out, c, N) /\ c.size = b.size
  <2>1. c.size = b.size  BY <1>6 DEF Register, Grows, Fields
  <2> HIDE DEF c
  <2>2. Grows(out, Register(b, l), N)  BY <1>3, <1>6, GrowsRegister
  <2> QED  BY <2>1, <2>2 DEF c
<1> HIDE DEF c
<1>8. Grows(out, d, N) /\ d.size = c.size  BY <1>2, <1>7, GrowsUpdate
<1> HIDE DEF d
<1>9. Grows(out, e, N)  BY <1>8, GrowsEmit DEF OpenCode
<1> HIDE DEF e
<1>10. d.size > out.size  BY <1>6, <1>7, <1>8
<1> QED  BY <1>1, <1>4, <1>9, <1>10, QuietMoved

LEMMA EndCloses ==
    ASSUME IInv, FInv, TernEnd \/ QqEnd
    PROVE  FInv'
<1> DEFINE l == IF Top.op = "qq" THEN Top.lbl ELSE Top.lbl + 1
           N == {l}
           a == Emit(out, CloseCode)
           b == Register(a, l)
           c == Update(b, Top.of)
<1>1. /\ pc = "gen" /\ stack # <<>> /\ Top.op \in {"tern", "qq"} /\ Top.stage = "right"
      /\ Step(c, Close)
  <2>1. CASE TernEnd  BY <2>1 DEF TernEnd, InnerMost
  <2>2. CASE QqEnd  BY <2>2 DEF QqEnd, InnerMost
  <2> QED  BY <2>1, <2>2
<1>2. Held(out, Top) /\ Top.of \in Nat  BY <1>1, TopHeld DEF Construct
<1>3. Grows(out, out, N) /\ l \in N /\ l \notin DOMAIN out.place
  BY <1>1, <1>2, StartGrows DEF Held, Free
<1>4. N \subseteq {Top.lbl, Top.lbl + 1} /\ (Top.op = "qq" => N \subseteq {Top.lbl})  OBVIOUS
<1> HIDE DEF N, l
<1>5. Grows(out, a, N)  BY <1>3, GrowsEmit DEF CloseCode
<1> HIDE DEF a
<1>6. Grows(out, b, N)  BY <1>3, <1>5, GrowsRegister
<1> HIDE DEF b
<1>7. Grows(out, c, N)  BY <1>2, <1>6, GrowsUpdate
<1> HIDE DEF c
<1>8. Top.op # "func"  BY <1>1
<1> QED  BY <1>1, <1>4, <1>7, <1>8, QuietClosed

LEMMA WhileEndCloses ==
    ASSUME IInv, FInv, WhileEnd
    PROVE  FInv'
<1> DEFINE l == Top.lbl
           N == {l, l + 1}
           a == Jump(out, 5, l)
           b == Register(a, l + 1)
           c == Update(b, Top.of)
           d == Emit(c, CloseCode)
<1>1. /\ pc = "gen" /\ stack # <<>> /\ Top.op = "while" /\ Top.stage = "body"
      /\ Step(d, Close)
  BY DEF WhileEnd, InnerMost
<1>2. Held(out, Top) /\ l \in Nat /\ Top.of \in Nat  BY <1>1, TopHeld DEF Construct
<1>3. Grows(out, out, N) /\ l \in N /\ l + 1 \in N /\ l + 1 \notin DOMAIN out.place
  BY <1>1, <1>2, StartGrows DEF Held, Free
<1>4. N \subseteq {Top.lbl, Top.lbl + 1}  OBVIOUS
<1> HIDE DEF N, l
<1>5. Grows(out, a, N)  BY <1>2, <1>3, GrowsJump
<1> HIDE DEF a
<1>6. Grows(out, b, N)  BY <1>3, <1>5, GrowsRegister
<1> HIDE DEF b
<1>7. Grows(out, c, N)  BY <1>2, <1>6, GrowsUpdate
<1> HIDE DEF c
<1>8. Grows(out, d, N)  BY <1>7, GrowsEmit DEF CloseCode
<1> HIDE DEF d
<1>9. Top.op # "func" /\ Top.op # "qq"  BY <1>1
<1> QED  BY <1>1, <1>4, <1>8, <1>9, QuietClosed

LEMMA LogicEndCloses ==
    ASSUME IInv, FInv, LogicEnd
    PROVE  FInv'
<1>0. PICK n \in LastMove :
         LET c == Jump(out, 6, Top.lbl)
             d == Jump(Emit(c, 7), 5, Top.lbl + 1)
             e == Update(Update(Register(d, Top.lbl), Top.of), c.size)
         IN  Step(Update(Register(Emit(e, n), Top.lbl + 1), d.size), Close)
  BY DEF LogicEnd
<1>size. n \in Nat  BY DEF LastMove
<1> DEFINE l == Top.lbl
           N == {l, l + 1}
           a == Jump(out, 6, l)
           b == Emit(a, 7)
           c == Jump(b, 5, l + 1)
           d == Register(c, l)
           e == Update(d, Top.of)
           f == Update(e, a.size)
           g == Emit(f, n)
           h == Register(g, l + 1)
           i == Update(h, c.size)
<1>1. /\ pc = "gen" /\ stack # <<>> /\ Top.op = "logic" /\ Top.stage = "right"
      /\ Step(i, Close)
  BY <1>0 DEF LogicEnd, InnerMost
<1>2. Held(out, Top) /\ l \in Nat /\ Top.of \in Nat  BY <1>1, TopHeld DEF Construct
<1>3. /\ Grows(out, out, N) /\ l \in N /\ l + 1 \in N /\ l + 1 \in Nat
      /\ l \notin DOMAIN out.place /\ l + 1 \notin DOMAIN out.place
  BY <1>1, <1>2, StartGrows DEF Held, Free
<1>4. N \subseteq {Top.lbl, Top.lbl + 1}  OBVIOUS
<1> HIDE DEF N, l
<1>5. Grows(out, a, N)  BY <1>2, <1>3, GrowsJump
<1>6. Grows(out, b, N)
  <2> HIDE DEF a
  <2> QED  BY <1>5, GrowsEmit
<1> HIDE DEF b
<1>7. Grows(out, c, N)  BY <1>3, <1>6, GrowsJump
<1>8. Grows(out, d, N)
  <2> HIDE DEF c
  <2> QED  BY <1>3, <1>7, GrowsRegister
<1>9. a.size \in Nat /\ c.size \in Nat
  <2> HIDE DEF a, c
  <2> QED  BY <1>5, <1>7 DEF Grows
<1> HIDE DEF a, c, d
<1>10. Grows(out, e, N)  BY <1>2, <1>8, GrowsUpdate
<1> HIDE DEF e
<1>11. Grows(out, f, N)  BY <1>9, <1>10, GrowsUpdate
<1> HIDE DEF f
<1>12. Grows(out, g, N)  BY <1>11, <1>size, GrowsEmit
<1> HIDE DEF g
<1>13. Grows(out, h, N)  BY <1>3, <1>12, GrowsRegister
<1> HIDE DEF h
<1>14. Grows(out, i, N)  BY <1>9, <1>13, GrowsUpdate
<1> HIDE DEF i
<1>15. Top.op # "func" /\ Top.op # "qq"  BY <1>1
<1> QED  BY <1>1, <1>4, <1>14, <1>15, QuietClosed

(* A function that is opened begins where everything generated so far ends. *)
LEMMA FuncBeginCloses ==
    ASSUME IInv, FInv, FuncBegin
    PROVE  FInv'
<1> DEFINE l == out.labels
           P == Pend(stack)
           a == Reserve(out, 2)
           r(id) == functionRegister(a, id, l)
<1>1. /\ pc = "gen" /\ Sound(out, P) /\ FunctionsOpen(out, stack) /\ FunctionsShut(out, stack)
      /\ FunctionsKnown(out, stack) /\ FunctionsPlaced(out) /\ StackInv(out, stack)
      /\ l \in Nat /\ l \notin DOMAIN out.place /\ l + 1 \notin DOMAIN out.place
  BY DEF FuncBegin, CanOpen, IInv, FInv, Sound
<1>2. PICK id \in FuncIds :
          LET d == Register(Jump(r(id), 5, l + 1), l)
          IN  IF functionGetL(r(id), id) # l
                THEN pc' = "assert" /\ out' = r(id) /\ UNCHANGED stack
                ELSE Step(Emit(d, OpenCode), Open("func", "body", l, d.size))
  BY DEF FuncBegin
<1> DEFINE c == r(id)
<1>3. /\ Sound(a, P) /\ a.size = out.size /\ a.place = out.place /\ a.jumps = out.jumps
      /\ a.funcs = out.funcs
  <2>1. Sound(a, P) /\ a.size = out.size /\ a.place = out.place /\ a.funcs = out.funcs
    BY <1>1, ReserveSound
  <2>2. a.jumps = out.jumps  BY <1>1 DEF Reserve, Sound, Fields
  <2> QED  BY <2>1, <2>2
<1> HIDE DEF a
<1>4. /\ Sound(c, P) /\ c.size = out.size /\ c.place = out.place /\ c.jumps = out.jumps
      /\ c.funcs = Append(out.funcs, [id |-> id, label |-> l])
  <2>1. /\ Sound(c, P) /\ c.size = a.size /\ c.place = a.place
        /\ c.funcs = Append(a.funcs, [id |-> id, label |-> l])
    BY <1>1, <1>3, FunctionSound
  <2>2. c.jumps = a.jumps  BY <1>3 DEF functionRegister, Sound, Fields
  <2> QED  BY <1>3, <2>1, <2>2
<1> DEFINE n == Len(out.funcs) + 1
<1>5. /\ DOMAIN c.funcs = DOMAIN out.funcs \union {n} /\ c.funcs[n].label = l
      /\ \A k \in DOMAIN out.funcs : c.funcs[k] = out.funcs[k]
  <2>1. out.funcs \in Seq([id : FuncIds, label : Nat])  BY <1>1 DEF Sound
  <2> QED  BY <1>4, <2>1
<1> HIDE DEF n, r
<1>6. FunctionsOpen(c, stack)
  BY <1>1, <1>4 DEF FunctionsOpen, OpenAt
<1>7. \A k \in DOMAIN c.funcs : Ended(c, k) => k \in DOMAIN out.funcs /\ Ended(out, k)
  <2>1. ASSUME NEW k \in DOMAIN c.funcs, Ended(c, k)
        PROVE  k \in DOMAIN out.funcs /\ Ended(out, k)
    <3>1. c.funcs[k].label + 1 \in DOMAIN out.place  BY <1>4, <2>1 DEF Ended
    <3>2. k # n  BY <1>1, <1>5, <3>1
    <3>3. k \in DOMAIN out.funcs
      <4>1. DOMAIN c.funcs = DOMAIN out.funcs \union {n}  BY <1>5
      <4> HIDE DEF c
      <4> QED  BY <2>1, <3>2, <4>1
    <3>4. c.funcs[k] = out.funcs[k]
      <4>1. \A x \in DOMAIN out.funcs : c.funcs[x] = out.funcs[x]  BY <1>5
      <4> HIDE DEF c
      <4> QED  BY <3>3, <4>1
    <3> QED  BY <3>1, <3>3, <3>4 DEF Ended
  <2> QED  BY <2>1
<1>8. FunctionsShut(c, stack)
  <2> SUFFICES ASSUME NEW k \in DOMAIN c.funcs, Ended(c, k)
               PROVE  ClosedAt(c, stack, c.funcs[k].label)
    BY DEF FunctionsShut
  <2>1. k \in DOMAIN out.funcs /\ Ended(out, k) /\ c.funcs[k] = out.funcs[k]  BY <1>5, <1>7
  <2>2. ClosedAt(out, stack, c.funcs[k].label)  BY <1>1, <2>1 DEF FunctionsShut
  <2> HIDE DEF c
  <2> QED  BY <1>4, <2>2 DEF ClosedAt
<1>9. CASE functionGetL(c, id) # l
  <2>1. pc' = "assert" /\ out' = c /\ stack' = stack  BY <1>2, <1>9
  <2> HIDE DEF c
  <2> QED  BY <1>6, <1>8, <2>1 DEF FInv
<1>10. CASE functionGetL(c, id) = l
  <2> DEFINE N == {l, l + 1}
             b == Jump(c, 5, l + 1)
             d == Register(b, l)
             e == Emit(d, OpenCode)
             s == [op |-> "func", stage |-> "body", lbl |-> l, of |-> d.size]
             st2 == Append(stack, s)
             m == Len(stack) + 1
  <2>1. Step(e, st2)  BY <1>2, <1>10 DEF Open
  <2> HIDE DEF c
  <2>2. Grows(c, c, N) /\ l \in N /\ l + 1 \in N /\ l + 1 \in Nat /\ l \notin DOMAIN c.place
        /\ \A k \in N : k \in Nat /\ k >= l /\ k \notin DOMAIN c.place
    BY <1>1, <1>4, GrowsNot
  <2> DEFINE z == c.size + 5
  <2>3. /\ DOMAIN b = Fields /\ b.size = z /\ b.place = c.place /\ DOMAIN b.jumps = DOMAIN c.jumps \union {z}
        /\ b.jumps[z].label = l + 1
        /\ \A y \in DOMAIN c.jumps : y # z => b.jumps[y] = c.jumps[y]
    BY <1>4 DEF Jump, Sound, Fields, Bind
  <2> HIDE DEF N, l
  <2>4. Grows(c, b, N)  BY <2>2, GrowsJump
  <2> HIDE DEF b
  <2>5. /\ DOMAIN d = Fields /\ d.size = z /\ d.jumps = b.jumps
        /\ DOMAIN d.place = DOMAIN b.place \union {l} /\ d.place[l] = z
        /\ \A k \in DOMAIN b.place : k # l => d.place[k] = b.place[k]
    BY <2>3 DEF Register, Bind, Fields
  <2>6. Grows(c, d, N)  BY <2>2, <2>4, GrowsRegister
  <2> HIDE DEF d
  <2>7. e.place = d.place /\ e.jumps = d.jumps  BY <2>5 DEF Emit, Fields
  <2>8. Grows(c, e, N)  BY <2>6, GrowsEmit DEF OpenCode
  <2> HIDE DEF e
  <2>9. c.size \in Nat /\ z \in Nat /\ c.size < z  BY <1>4 DEF Sound
  <2>10. s.op = "func" /\ s.lbl = l /\ s.of = z  BY <2>5
  <2> HIDE DEF s, z
  <2>11. /\ DOMAIN stack \subseteq Nat /\ m \in Nat /\ DOMAIN st2 = DOMAIN stack \union {m}
         /\ st2[m] = s /\ m \notin DOMAIN stack
         /\ \A i \in DOMAIN stack : st2[i] = stack[i] /\ i < m
    BY <1>1 DEF StackInv
  <2> HIDE DEF st2, m
  <2>12. \A i \in DOMAIN stack :
            stack[i].lbl \in Nat /\ (stack[i].op = "func" => stack[i].lbl + 2 <= l)
    BY <1>1 DEF StackInv, Held, Construct, Width, l
  <2>13. FunctionsOpen(e, st2)
    <3>1. ASSUME NEW i \in DOMAIN stack, st2[i].op = "func" PROVE OpenAt(e, st2, i)
      <4>1. /\ stack[i].op = "func" /\ OpenAt(c, stack, i) /\ i \in DOMAIN st2 /\ i \in Nat
        BY <1>6, <2>11, <3>1 DEF FunctionsOpen
      <4>2. \A k \in N : k \in Nat /\ k > stack[i].lbl + 1  BY <1>1, <2>2, <2>12, <4>1
      <4>3. \A j \in DOMAIN st2 : j <= i => j \in DOMAIN stack /\ st2[j] = stack[j]
        <5>1. i < m /\ m \in Nat  BY <2>11
        <5> QED  BY <2>11, <4>1, <5>1
      <4>4. stack[i].lbl \in Nat /\ DOMAIN st2 \subseteq Nat  BY <2>11, <2>12
      <4> QED  BY <1>4, <2>8, <4>1, <4>2, <4>3, <4>4, OpenKept
    <3>2. OpenAt(e, st2, m)
      <4>1. l \in DOMAIN e.place /\ e.place[l] = z  BY <2>5, <2>7
      <4>2. ASSUME NEW y \in DOMAIN e.jumps
            PROVE  (y < z => e.jumps[y].label < l) /\ (y > z => e.jumps[y].label > l + 1)
        <5>1. CASE y = z  BY <2>9, <5>1
        <5>2. CASE y # z
          <6>1. y \in DOMAIN out.jumps /\ e.jumps[y] = out.jumps[y]
            BY <1>4, <2>3, <2>5, <2>7, <5>2
          <6>2. y \in 1 .. out.size /\ out.jumps[y].label < l  BY <1>1, <6>1 DEF Sound, l
          <6> QED  BY <1>4, <2>9, <6>1, <6>2
        <5> QED  BY <5>1, <5>2
      <4>3. ASSUME NEW k \in DOMAIN e.place
            PROVE  (k < l => e.place[k] < z) /\ (k > l => e.place[k] >= z)
        <5>1. CASE k = l  BY <1>1, <5>1
        <5>2. CASE k # l
          <6>1. k \in DOMAIN out.place /\ e.place[k] = out.place[k]
            BY <1>4, <2>3, <2>5, <2>7, <5>2
          <6>2. k \in Nat /\ k < l /\ out.place[k] \in 1 .. out.size
            BY <1>1, <6>1 DEF Sound, l
          <6> QED  BY <1>1, <1>4, <2>9, <6>1, <6>2
        <5> QED  BY <5>1, <5>2
      <4>4. ASSUME NEW j \in DOMAIN st2, j < m PROVE st2[j].of < z
        <5>1. j \in DOMAIN stack /\ st2[j] = stack[j]  BY <2>11, <4>4
        <5>2. Held(out, stack[j])  BY <1>1, <5>1 DEF StackInv
        <5>3. stack[j].of = 0 \/ stack[j].of \in DOMAIN out.jumps  BY <5>2 DEF Held, Names
        <5>4. stack[j].of \in 0 .. out.size  BY <1>1, <5>3 DEF Sound
        <5> QED  BY <1>4, <2>9, <5>1, <5>4
      <4>5. st2[m].lbl = l  BY <2>10, <2>11
      <4> QED  BY <4>1, <4>2, <4>3, <4>4, <4>5 DEF OpenAt
    <3> QED  BY <2>11, <3>1, <3>2 DEF FunctionsOpen
  <2>14. Follows(c, stack, st2)
    <3>1. \A j \in DOMAIN st2 :
             \/ \E i \in DOMAIN stack : st2[j].lbl = stack[i].lbl
             \/ st2[j].lbl \notin DOMAIN c.place
      BY <2>2, <2>10, <2>11
    <3>2. \A y \in Pend(st2) : y \in Pend(stack) \/ y = 0 \/ y > c.size
      BY <2>9, <2>10, <2>11 DEF Pend
    <3> QED  BY <3>1, <3>2 DEF Follows
  <2>15. e.funcs = c.funcs /\ DOMAIN e.place = DOMAIN c.place \union {l}
    BY <2>3, <2>5, <2>7, <2>8 DEF Grows
  <2>16. ASSUME NEW k \in DOMAIN c.funcs, Ended(e, k) PROVE Ended(c, k)
    <3>1. c.funcs[k].label + 1 \in DOMAIN c.place \union {l}  BY <2>15, <2>16 DEF Ended
    <3>2. CASE k = n  BY <1>1, <1>5, <3>1, <3>2 DEF Ended, l
    <3>3. CASE k # n
      <4>1. k \in DOMAIN out.funcs /\ c.funcs[k] = out.funcs[k]  BY <1>5, <3>3
      <4>2. CASE Ended(out, k)  BY <1>4, <4>1, <4>2 DEF Ended
      <4>3. CASE ~ Ended(out, k)
        <5>1. PICK i \in DOMAIN stack : stack[i].op = "func" /\ stack[i].lbl = out.funcs[k].label
          BY <1>1, <4>1, <4>3 DEF FunctionsKnown
        <5>2. c.funcs[k].label \in Nat /\ c.funcs[k].label + 2 <= l  BY <2>12, <4>1, <5>1
        <5>3. c.funcs[k].label + 1 # l  BY <1>1, <5>2
        <5> QED  BY <3>1, <5>3 DEF Ended
      <4> QED  BY <4>2, <4>3
    <3> QED  BY <3>2, <3>3
  <2>17. FunctionsShut(e, st2)
    <3> SUFFICES ASSUME NEW k \in DOMAIN c.funcs, Ended(e, k)
                 PROVE  ClosedAt(e, st2, c.funcs[k].label)
      BY <2>15 DEF FunctionsShut
    <3> DEFINE q == c.funcs[k].label
    <3>1. Ended(c, k)  BY <2>16
    <3>2. ClosedAt(c, stack, q) /\ q + 1 \in DOMAIN c.place  BY <1>8, <3>1 DEF FunctionsShut, Ended
    <3>3. k \in DOMAIN out.funcs /\ q = out.funcs[k].label  BY <1>5, <1>7, <3>1
    <3>4. q \in DOMAIN c.place  BY <1>1, <1>4, <3>3 DEF FunctionsPlaced
    <3> HIDE DEF q
    <3>5. \A j \in N : j \in DOMAIN c.place => \E i \in DOMAIN stack : stack[i].lbl = j  BY <2>2
    <3>6. ClosedAt(e, st2, q)  BY <1>4, <2>8, <2>14, <3>2, <3>4, <3>5, ShutKept
    <3> QED  BY <3>6 DEF q
  <2>18. FunctionsKnown(e, st2)
    <3> SUFFICES ASSUME NEW k \in DOMAIN c.funcs
                 PROVE  \/ Ended(e, k)
                        \/ \E i \in DOMAIN st2 : st2[i].op = "func" /\ st2[i].lbl = c.funcs[k].label
      BY <2>15 DEF FunctionsKnown
    <3>1. CASE k = n
      BY <1>5, <2>10, <2>11, <3>1
    <3>2. CASE k # n
      <4>1. k \in DOMAIN out.funcs /\ c.funcs[k] = out.funcs[k]  BY <1>5, <3>2
      <4>2. CASE Ended(out, k)  BY <1>4, <2>15, <4>1, <4>2 DEF Ended
      <4>3. CASE ~ Ended(out, k)
        <5>1. PICK i \in DOMAIN stack : stack[i].op = "func" /\ stack[i].lbl = out.funcs[k].label
          BY <1>1, <4>1, <4>3 DEF FunctionsKnown
        <5>2. i \in DOMAIN st2 /\ st2[i] = stack[i]  BY <2>11
        <5> QED  BY <4>1, <5>1, <5>2
      <4> QED  BY <4>2, <4>3
    <3> QED  BY <3>1, <3>2
  <2> QED  BY <2>1, <2>13, <2>17, <2>18 DEF FInv, Step
<1> QED  BY <1>9, <1>10

(* A function that is closed lies between its labels: what was generated    *)
(* since its entry is done.                                                 *)
LEMMA FuncEndCloses ==
    ASSUME IInv, FInv, FuncEnd
    PROVE  FInv'
<1> DEFINE l == Top.lbl
           n == Len(stack)
           N == {l + 1}
           a == Emit(out, CloseCode + 1)
           b == Register(a, l + 1)
           c == Update(b, Top.of)
           front == SubSeq(stack, 1, n - 1)
<1>1. /\ pc = "gen" /\ stack # <<>> /\ Top.op = "func" /\ Top.stage = "body"
      /\ Step(c, front)
  BY DEF FuncEnd, InnerMost, Close
<1>2. /\ Sound(out, Pend(stack)) /\ FunctionsOpen(out, stack) /\ FunctionsShut(out, stack)
      /\ FunctionsKnown(out, stack) /\ FunctionsPlaced(out) /\ StackInv(out, stack)
      /\ Held(out, Top) /\ l \in Nat /\ Top.of \in Nat /\ stack \in Seq(Construct)
  BY <1>1, TopHeld DEF IInv, FInv, StackInv, Construct
<1>3. l + 1 \in N /\ l + 1 \in Nat /\ l + 1 \notin DOMAIN out.place /\ Names(out, Top.of, l + 1)
      /\ \A k \in N : k = l + 1
  BY <1>1, <1>2 DEF Held, Free, Target
<1>4. Grows(out, out, N)  BY StartGrows
<1> HIDE DEF N
<1>5. Grows(out, a, N)  BY <1>4, GrowsEmit DEF CloseCode
<1>6. a.size = out.size + 5 /\ a.jumps = out.jumps /\ a.place = out.place /\ DOMAIN a = Fields
  BY <1>2 DEF Emit, CloseCode, Sound, Fields
<1> HIDE DEF a
<1>7. Grows(out, b, N)  BY <1>3, <1>5, GrowsRegister
<1>8. /\ DOMAIN b = Fields /\ b.jumps = out.jumps /\ b.place[l + 1] = out.size + 5
      /\ DOMAIN b.place = DOMAIN out.place \union {l + 1}
  BY <1>6 DEF Register, Bind, Fields
<1> HIDE DEF b
<1>9. Grows(out, c, N)  BY <1>2, <1>7, GrowsUpdate
<1>10. c.place = b.place /\ DOMAIN c.jumps = DOMAIN out.jumps
  BY <1>8 DEF Update, Fields
<1> HIDE DEF c
<1>11. /\ n \in Nat \ {0} /\ n \in DOMAIN stack /\ Top = stack[n] /\ DOMAIN stack = 1 .. n
       /\ DOMAIN front = 1 .. n - 1 /\ \A i \in DOMAIN front : front[i] = stack[i]
  <2>1. n \in Nat \ {0} /\ DOMAIN stack = 1 .. n /\ n \in DOMAIN stack  BY <1>1, <1>2
  <2>2. DOMAIN front = 1 .. n - 1 /\ \A i \in 1 .. n - 1 : front[i] = stack[i]
    BY <1>1, <1>2, <2>1
  <2> QED  BY <2>1, <2>2 DEF Top
<1> HIDE DEF front, n
<1>12. \A i \in DOMAIN front : i \in DOMAIN stack /\ i \in Nat /\ i < n /\ front[i] = stack[i]
  BY <1>11
<1>13. \A i \in DOMAIN front : stack[i].lbl \in Nat /\ stack[i].lbl < l
          /\ (stack[i].op = "func" => stack[i].lbl + 2 <= l)
  <2> SUFFICES ASSUME NEW i \in DOMAIN front
               PROVE  /\ stack[i].lbl \in Nat /\ stack[i].lbl < l
                      /\ (stack[i].op = "func" => stack[i].lbl + 2 <= l)
    OBVIOUS
  <2>1. stack[i] \in Construct /\ stack[i].lbl + Width(stack[i].op) <= stack[n].lbl
    BY <1>2, <1>11, <1>12 DEF StackInv, Held
  <2> QED  BY SMTT(30), <1>2, <1>11, <2>1 DEF Construct, Width
<1>14. OpenAt(out, stack, n)  BY <1>1, <1>2, <1>11 DEF FunctionsOpen
<1> DEFINE A == out.place[l]
           B == out.size + 5
<1>15. /\ l \in DOMAIN out.place /\ A \in Nat /\ A <= out.size /\ out.size \in Nat
       /\ B \in Nat /\ out.size < B
  BY SMTT(30), <1>2, <1>11, <1>14 DEF OpenAt, Sound
<1>16. /\ \A e \in DOMAIN out.jumps : /\ e < A => out.jumps[e].label < l
                                      /\ e > A => out.jumps[e].label > l + 1
       /\ \A k \in DOMAIN out.place : /\ k < l => out.place[k] < A
                                      /\ k > l => out.place[k] >= A
       /\ \A j \in DOMAIN front : front[j].of < A
  BY <1>11, <1>12, <1>14 DEF OpenAt
<1> HIDE DEF A, B
<1>17. /\ l \in DOMAIN c.place /\ c.place[l] = A /\ c.place[l + 1] = B
       /\ DOMAIN c.place = DOMAIN out.place \union {l + 1}
       /\ \A k \in DOMAIN out.place : c.place[k] = out.place[k]
       /\ \A e \in DOMAIN out.jumps : c.jumps[e].label = out.jumps[e].label
  BY <1>8, <1>9, <1>10, <1>15 DEF Grows, A, B
<1>18. FunctionsOpen(c, front)
  <2> SUFFICES ASSUME NEW i \in DOMAIN front, front[i].op = "func" PROVE OpenAt(c, front, i)
    BY DEF FunctionsOpen
  <2>1. /\ i \in DOMAIN stack /\ i \in Nat /\ i < n /\ stack[i].op = "func"
        /\ stack[i].lbl \in Nat /\ stack[i].lbl + 2 <= l
    BY <1>12, <1>13
  <2>2. OpenAt(out, stack, i)  BY <1>2, <2>1 DEF FunctionsOpen
  <2>3. \A k \in N : k \in Nat /\ k > stack[i].lbl + 1  BY <1>2, <1>3, <2>1
  <2>4. DOMAIN front \subseteq Nat  BY <1>12
  <2> QED  BY <1>2, <1>9, <1>12, <2>1, <2>2, <2>3, <2>4, OpenKept
<1>19. \A e \in Pend(stack) : e \in Pend(front) \/ e = Top.of
  BY <1>11 DEF Pend
<1>20. ClosedAt(c, front, l)
  <2>1. ASSUME NEW e \in DOMAIN c.jumps, e \in A + 1 .. B
        PROVE  /\ e \notin Pend(front) /\ c.jumps[e].label \in DOMAIN c.place
               /\ c.place[c.jumps[e].label] \in A .. B - 1
    <3> DEFINE k == out.jumps[e].label
    <3>1. e \in DOMAIN out.jumps /\ e > A /\ c.jumps[e].label = k  BY <1>10, <1>15, <1>17, <2>1
    <3>2. k > l + 1  BY <1>16, <3>1
    <3>3. e \notin Pend(front)  BY <1>12, <1>15, <1>16, <2>1 DEF Pend
    <3>4. e # Top.of  BY <1>2, <1>3, <3>2 DEF Names
    <3>5. e \notin Pend(stack)  BY <1>19, <3>3, <3>4
    <3>6. k \in DOMAIN out.place /\ k \in Nat  BY <1>2, <3>1, <3>5 DEF Sound, Lands
    <3> HIDE DEF k
    <3>7. k > l  BY <1>2, <3>2, <3>6
    <3>8. out.place[k] >= A /\ out.place[k] \in 1 .. out.size  BY <1>2, <1>16, <3>6, <3>7 DEF Sound
    <3>9. out.place[k] \in A .. B - 1  BY <1>15, <3>8
    <3> QED  BY <1>17, <3>1, <3>3, <3>6, <3>9
  <2>2. ASSUME NEW e \in DOMAIN c.jumps, e \notin A .. B, c.jumps[e].label \in DOMAIN c.place
        PROVE  c.place[c.jumps[e].label] \notin A .. B - 1
    <3> DEFINE k == out.jumps[e].label
    <3>1. e \in DOMAIN out.jumps /\ c.jumps[e].label = k  BY <1>10, <1>17
    <3>2. e \in 1 .. out.size /\ k \in Nat  BY <1>2, <3>1 DEF Sound, Jumps
    <3>3. e < A  BY <1>15, <2>2, <3>2
    <3>4. k < l  BY <1>16, <3>1, <3>3
    <3>5. k \in DOMAIN out.place  BY <1>2, <1>17, <2>2, <3>1, <3>2, <3>4
    <3> HIDE DEF k
    <3>6. out.place[k] < A /\ out.place[k] \in Nat  BY <1>2, <1>16, <3>4, <3>5 DEF Sound
    <3>7. c.place[k] \notin A .. B - 1  BY <1>15, <1>17, <3>5, <3>6
    <3> QED  BY <3>1, <3>7
  <2>3. ASSUME NEW j \in DOMAIN front, front[j].lbl \in DOMAIN c.place
        PROVE  c.place[front[j].lbl] \notin A .. B - 1
    <3> DEFINE k == front[j].lbl
    <3>1. k \in Nat /\ k < l  BY <1>12, <1>13
    <3>2. k \in DOMAIN out.place  BY <1>2, <1>17, <2>3, <3>1
    <3> HIDE DEF k
    <3>3. out.place[k] < A /\ out.place[k] \in Nat  BY <1>2, <1>16, <3>1, <3>2 DEF Sound
    <3>4. c.place[k] \notin A .. B - 1  BY <1>15, <1>17, <3>2, <3>3
    <3> QED  BY <3>4 DEF k
  <2> QED  BY <1>17, <2>1, <2>2, <2>3 DEF ClosedAt
<1>21. Follows(out, stack, front)
  BY <1>12 DEF Follows, Pend
<1>22. c.funcs = out.funcs /\ \A k \in DOMAIN out.funcs : out.funcs[k].label \in Nat
  <2>1. out.funcs \in Seq([id : FuncIds, label : Nat])  BY <1>2 DEF Sound
  <2>2. \A k \in DOMAIN out.funcs : out.funcs[k] \in [id : FuncIds, label : Nat]
    BY <2>1, SeqElement
  <2> QED  BY <1>9, <2>2 DEF Grows
<1>23. FunctionsShut(c, front)
  <2> SUFFICES ASSUME NEW k \in DOMAIN out.funcs, Ended(c, k)
               PROVE  ClosedAt(c, front, out.funcs[k].label)
    BY <1>22 DEF FunctionsShut
  <2> DEFINE q == out.funcs[k].label
  <2>1. q \in Nat /\ q + 1 \in DOMAIN out.place \union {l + 1} /\ q \in DOMAIN out.place
    BY <1>2, <1>17, <1>22 DEF Ended, FunctionsPlaced
  <2>2. CASE q + 1 \in DOMAIN out.place
    <3>1. ClosedAt(out, stack, q)  BY <1>2, <2>2 DEF FunctionsShut, Ended
    <3> HIDE DEF q
    <3>2. \A j \in N : j \in DOMAIN out.place => \E i \in DOMAIN stack : stack[i].lbl = j
      BY <1>3
    <3>3. ClosedAt(c, front, q)  BY <1>2, <1>9, <1>21, <2>1, <2>2, <3>1, <3>2, ShutKept
    <3> QED  BY <3>3 DEF q
  <2>3. CASE q + 1 = l + 1
    <3>1. q = l  BY <1>2, <2>1, <2>3
    <3> QED  BY <1>20, <3>1
  <2> QED  BY <2>1, <2>2, <2>3
<1>24. FunctionsKnown(c, front)
  <2> SUFFICES ASSUME NEW k \in DOMAIN out.funcs
               PROVE  \/ Ended(c, k)
                      \/ \E i \in DOMAIN front : /\ front[i].op = "func"
                                                 /\ front[i].lbl = out.funcs[k].label
    BY <1>22 DEF FunctionsKnown
  <2>1. CASE Ended(out, k)  BY <1>17, <1>22, <2>1 DEF Ended
  <2>2. CASE ~ Ended(out, k)
    <3>1. PICK i \in DOMAIN stack : stack[i].op = "func" /\ stack[i].lbl = out.funcs[k].label
      BY <1>2, <2>2 DEF FunctionsKnown
    <3>2. CASE i = n
      <4>1. out.funcs[k].label = l  BY <1>11, <3>1, <3>2
      <4> QED  BY <1>17, <1>22, <4>1 DEF Ended
    <3>3. CASE i # n
      <4>1. i \in DOMAIN front /\ front[i] = stack[i]  BY <1>11, <3>3
      <4> QED  BY <3>1, <4>1
    <3> QED  BY <3>2, <3>3
  <2> QED  BY <2>1, <2>2
<1> QED  BY <1>1, <1>18, <1>23, <1>24 DEF FInv, Step

LEMMA InitFInv == Init => FInv
<1> SUFFICES ASSUME Init PROVE FInv  OBVIOUS
<1>1. DOMAIN out.funcs = {} /\ DOMAIN stack = {}  BY DEF Init, EmptyContext
<1> QED  BY <1>1 DEF FInv, FunctionsOpen, FunctionsShut, FunctionsKnown

LEMMA NextFInv ==
    ASSUME IInv, FInv, [Next]_vars
    PROVE  FInv'
<1>1. CASE UNCHANGED vars
  BY <1>1 DEF vars, FInv, FunctionsOpen, OpenAt, FunctionsShut, ClosedAt, Ended, Pend,
              FunctionsKnown
<1>2. CASE Plain \/ CaseCall  BY <1>2, PlainCloses
<1>3. CASE TernTest \/ QqTest  BY <1>3, TestCloses
<1>4. CASE TernElse  BY <1>4, TernElseCloses
<1>5. CASE TernEnd \/ QqEnd  BY <1>5, EndCloses
<1>6. CASE FuncBegin  BY <1>6, FuncBeginCloses
<1>7. CASE FuncEnd  BY <1>7, FuncEndCloses
<1>8. CASE WhileBegin \/ LogicBegin  BY <1>8, OpenCloses
<1>9. CASE WhileTest \/ LogicTest  BY <1>9, NextCloses
<1>10. CASE WhileEnd  BY <1>10, WhileEndCloses
<1>11. CASE LogicEnd  BY <1>11, LogicEndCloses
<1>12. CASE Finish
  <2> DEFINE d == Emit(out, CloseCode + 12)
  <2>1. pc = "gen" /\ out' = d /\ stack' = stack /\ pc' = "done"  BY <1>12 DEF Finish
  <2>2. d.place = out.place /\ d.jumps = out.jumps /\ d.funcs = out.funcs
    BY DEF IInv, Sound, Fields, Emit
  <2> HIDE DEF d
  <2> QED
    BY <2>1, <2>2 DEF FInv, FunctionsOpen, OpenAt, FunctionsShut, ClosedAt, Ended, Pend,
                      FunctionsKnown
<1> QED
  BY <1>1, <1>2, <1>3, <1>4, <1>5, <1>6, <1>7, <1>8, <1>9, <1>10, <1>11, <1>12 DEF Next

(* No jump but the one over it crosses the ends of a complete function: its *)
(* code is entered by calls and left by ret only.                           *)
THEOREM FunctionsStayClosed == Spec => []FunctionsClosed
<1>1. Init => IInv /\ FInv  BY InitIInv, InitFInv
<1>2. IInv /\ FInv /\ [Next]_vars => IInv' /\ FInv'  BY NextIInv, NextFInv
<1>3. IInv /\ FInv => FunctionsClosed
  <2> SUFFICES ASSUME IInv, FInv, NEW i \in DOMAIN out.funcs, NEW e \in DOMAIN out.jumps,
                      out.funcs[i].label + 1 \in DOMAIN out.place, ~ Pending(e),
                      e # out.place[out.funcs[i].label]
               PROVE  LET l == out.funcs[i].label
                          t == e + out.jumps[e].disp
                      IN  e \in out.place[l] .. out.place[l + 1] <=>
                          t \in out.place[l] .. out.place[l + 1] - 1
    BY DEF FunctionsClosed
  <2> DEFINE l == out.funcs[i].label
             a == out.place[l]
             b == out.place[l + 1]
             k == out.jumps[e].label
  <2>1. ClosedAt(out, stack, l)  BY DEF FInv, FunctionsShut, Ended
  <2>2. Sound(out, Pend(stack)) /\ e \notin Pend(stack)  BY DEF IInv, Pending, Pend
  <2>3. k \in DOMAIN out.place /\ e + out.jumps[e].disp = out.place[k]  BY <2>2 DEF Sound, Lands
  <2>4. e \in Nat /\ a \in Nat /\ b \in Nat  BY SMTT(30), <2>1, <2>2 DEF ClosedAt, Sound
  <2>7. e # a  OBVIOUS
  <2>5. CASE e \in a .. b
    <3>1. e \in a + 1 .. b
      <4> HIDE DEF a, b
      <4> QED  BY <2>4, <2>5, <2>7
    <3>2. out.place[k] \in a .. b - 1  BY <2>1, <3>1 DEF ClosedAt
    <3> QED  BY <2>3, <2>5, <3>2
  <2>6. CASE e \notin a .. b
    <3>1. out.place[k] \notin a .. b - 1  BY <2>1, <2>3, <2>6 DEF ClosedAt
    <3> QED  BY <2>3, <2>6, <3>1
  <2> QED  BY <2>5, <2>6
<1> QED  BY <1>1, <1>2, <1>3, PTL DEF Spec
=============================================================================
