-------------------------- MODULE TokenisatorProofs --------------------------
(***************************************************************************)
(* parseText, for every alphabet, dictionary and text: the position stays  *)
(* in the text or is NULL, the token in its array, the identifiers in      *)
(* their table, and no word gets two of them.                              *)
(***************************************************************************)
EXTENDS Tokenisator, WellOrder

USE CharacterAssumption, SizeAssumption, TextAssumption, DictionaryAssumption

\* Min of a set of positions is one of them.
LEMMA MinIn ==
    ASSUME NEW S, S \subseteq Nat, S # {}
    PROVE  Min(S) \in S
  BY Least DEF Min

LEMMA FirstOfType ==
    ASSUME NEW cs, NEW i \in Nat, text \in Seq(Characters)
    PROVE  FirstOf(cs, i) \in 0 .. Len(text)
  <1> DEFINE found == {k \in i .. Len(text) : text[k] \in cs}
  <1>1. found \subseteq Nat /\ found \subseteq 0 .. Len(text)
    OBVIOUS
  <1>2. FirstOf(cs, i) = IF found = {} THEN 0 ELSE Min(found)
    BY DEF FirstOf
  <1> HIDE DEF found
  <1>3. CASE found = {}
    BY <1>2, <1>3
  <1>4. CASE found # {}
    <2>1. Min(found) \in found
      BY <1>1, <1>4, MinIn
    <2> QED BY <1>1, <1>2, <1>4, <2>1
  <1> QED BY <1>3, <1>4

LEMMA ReadsType ==
    ASSUME token \in Seq(Letters), NEW w \in Reads
    PROVE  w \in Seq(Characters)
  <1>1. token \in Seq(Characters)
    BY DEF Characters
  <1>2. ASSUME NEW j \in Junk PROVE token \o j \in Seq(Characters)
    <2>1. j \in Seq(Characters)
      OBVIOUS
    <2> QED BY <1>1, <2>1
  <1> QED BY <1>1, <1>2 DEF Reads

\* The part of TypeOK that is about the tables.
Tables(l, t, cap) ==
    /\ t \in Seq(Seq(Characters)) /\ cap \in Nat /\ l \in Seq(Node)
    /\ Len(t) < cap
    /\ \A k \in DOMAIN l : l[k].kind = "IDENTIFIER" => l[k].val \in DOMAIN t
    /\ IsInjective(t)

LEMMA PushType ==
    ASSUME NEW l, NEW t, NEW cap, Tables(l, t, cap), NEW n \in Node,
           n.kind = "IDENTIFIER" => n.val \in DOMAIN t
    PROVE  Tables(Append(l, n), t, cap)
  BY DEF Tables

LEMMA KeywordType ==
    ASSUME NEW t, NEW cap, NEW l, Tables(l, t, cap), NEW w \in DOMAIN Dictionary
    PROVE  Tables(AddKeyword(l, Dictionary[w]), t, cap)
  <1> DEFINE n == Dictionary[w]
  <1>1. n \in Node /\ n.kind # "IDENTIFIER"
    OBVIOUS
  <1>2. CASE l # <<>> /\ n.kind = "NUMBER" /\ Last(l).kind = "NUMBER"
    <2> DEFINE m == [l[Len(l)] EXCEPT !.val = 10 * @ + n.val]
    <2>1. l \in Seq(Node) /\ Len(l) \in DOMAIN l /\ l[Len(l)] \in Node
      BY <1>2 DEF Tables
    <2>2. m \in Node /\ m.kind = l[Len(l)].kind
      BY <1>1, <2>1 DEF Node
    <2>3. AddKeyword(l, n) = [l EXCEPT ![Len(l)] = m]
      BY <1>2, <2>1 DEF AddKeyword, Digit
    <2>4. m.kind = "NUMBER"
      BY <1>2, <2>2 DEF Last
    <2> HIDE DEF m, n
    <2>5. [l EXCEPT ![Len(l)] = m] \in Seq(Node)
      BY <2>1, <2>2
    <2>6. \A k \in DOMAIN l : [l EXCEPT ![Len(l)] = m][k].kind = "IDENTIFIER"
                                 => [l EXCEPT ![Len(l)] = m][k] = l[k]
      BY <2>1, <2>4
    <2> QED BY <2>1, <2>3, <2>5, <2>6 DEF Tables, n
  <1>3. CASE ~(l # <<>> /\ n.kind = "NUMBER" /\ Last(l).kind = "NUMBER")
    <2>1. AddKeyword(l, n) = Append(l, n)
      BY <1>3 DEF AddKeyword
    <2> QED BY <1>1, <2>1, PushType
  <1> QED BY <1>2, <1>3

LEMMA RecordParts ==
    ASSUME NEW l, NEW t, NEW cap, Tables(l, t, cap), NEW s,
           s = [list |-> l, idTable |-> t, tabCap |-> cap]
    PROVE  Tables(s.list, s.idTable, s.tabCap)
  OBVIOUS

LEMMA RegisterType ==
    ASSUME Tables(list, idTable, tabCap), NEW w \in Seq(Characters)
    PROVE  LET s == Register(w) IN Tables(s.list, s.idTable, s.tabCap)
  <1>1. CASE Known(w) # {}
    <2>1. Known(w) \subseteq DOMAIN idTable /\ DOMAIN idTable \subseteq Nat
      BY DEF Known, Tables
    <2>2. Min(Known(w)) \in DOMAIN idTable /\ Min(Known(w)) \in Nat
      BY <1>1, <2>1, MinIn
    <2>3. Identifier(Min(Known(w))) \in Node
      BY <2>2 DEF Identifier, Node
    <2>4. Tables(Append(list, Identifier(Min(Known(w)))), idTable, tabCap)
      BY <2>2, <2>3, PushType DEF Identifier
    <2>5. Register(w) = [list |-> Append(list, Identifier(Min(Known(w)))),
                         idTable |-> idTable, tabCap |-> tabCap]
      BY <1>1 DEF Register
    <2> QED BY <2>4, <2>5, RecordParts
  <1>2. CASE Known(w) = {}
    <2> DEFINE t == Append(idTable, w)
    <2>1. idTable \in Seq(Seq(Characters)) /\ Len(idTable) < tabCap /\ tabCap \in Nat
      BY DEF Tables
    <2>2. /\ t \in Seq(Seq(Characters)) /\ Len(t) = Len(idTable) + 1
          /\ DOMAIN t = 1 .. Len(t) /\ t[Len(t)] = w
          /\ \A k \in DOMAIN idTable : k \in DOMAIN t /\ t[k] = idTable[k]
          /\ \A k \in DOMAIN t : k = Len(t) \/ k \in DOMAIN idTable
      BY <2>1
    <2>3. Expand \in Nat /\ Len(t) < Expand
      BY <2>1, <2>2 DEF Expand
    <2>4. IsInjective(t)
      <3>1. \A k \in DOMAIN idTable : idTable[k] # w
        BY <1>2 DEF Known
      <3>2. \A j, k \in DOMAIN idTable : idTable[j] = idTable[k] => j = k
        BY DEF Tables, IsInjective
      <3> HIDE DEF t
      <3> QED BY <2>2, <3>1, <3>2 DEF IsInjective
    <2>5. Tables(list, t, Expand)
      <3> HIDE DEF t
      <3> QED BY <2>2, <2>3, <2>4 DEF Tables
    <2>6. Identifier(Len(idTable) + 1) \in Node /\ Len(idTable) + 1 \in DOMAIN t
      BY <2>1, <2>2 DEF Identifier, Node
    <2>7. Tables(Append(list, Identifier(Len(idTable) + 1)), t, Expand)
      <3> HIDE DEF t
      <3> QED BY <2>5, <2>6, PushType DEF Identifier
    <2>8. Register(w) = [list |-> Append(list, Identifier(Len(idTable) + 1)),
                         idTable |-> t, tabCap |-> Expand]
      BY <1>2 DEF Register
    <2> HIDE DEF t
    <2> QED BY <2>7, <2>8, RecordParts
  <1> QED BY <1>1, <1>2

LEMMA WordDoneType ==
    ASSUME Tables(list, idTable, tabCap), token \in Seq(Letters), NEW s \in WordDone
    PROVE  Tables(s.list, s.idTable, s.tabCap)
  <1>1. CASE token = <<>>
    BY <1>1 DEF WordDone
  <1>2. CASE token # <<>> /\ IsKeyword(token)
    BY <1>2, KeywordType DEF WordDone, IsKeyword
  <1>3. CASE token # <<>> /\ ~IsKeyword(token)
    <2>1. PICK w \in Reads : s = Register(w)
      BY <1>3 DEF WordDone
    <2> QED BY <2>1, ReadsType, RegisterType
  <1> QED BY <1>1, <1>2, <1>3

-----------------------------------------------------------------------------
TablesOK == Tables(list, idTable, tabCap)

LEMMA TypeNext ==
    ASSUME TypeOK, [Next]_vars
    PROVE  TypeOK'
  <1> SUFFICES /\ text' \in Seq(Characters) /\ token' \in Seq(Letters)
               /\ at' \in 0 .. NUL' /\ status' \in {"runs", "done", "crash"}
               /\ Len(token') <= MAX_TOKEN_LEN /\ TablesOK'
    BY DEF TypeOK, TablesOK, Tables
  <1>0. /\ text \in Seq(Characters) /\ Len(text) \in Nat /\ at \in Nat
        /\ token \in Seq(Letters) /\ at \in 0 .. NUL /\ status \in {"runs", "done", "crash"}
        /\ Len(token) <= MAX_TOKEN_LEN /\ TablesOK
    BY DEF TypeOK, NUL, TablesOK, Tables
  <1>1. CASE Comment
    <2>1. FirstOf(CommentEnds \union {Quote}, at + 1) \in 0 .. Len(text)
      BY <1>0, FirstOfType
    <2>2. at' \in 0 .. NUL
      BY <1>0, <1>1, <2>1 DEF Comment, NUL
    <2> QED BY <1>0, <1>1, <2>2 DEF Comment, TablesOK, NUL
  <1>2. CASE MeowComment
    <2>1. FirstOf({Newline}, at + 1) \in 0 .. Len(text)
      BY <1>0, FirstOfType
    <2>2. at' \in 0 .. NUL
      BY <1>0, <1>2, <2>1 DEF MeowComment, NUL
    <2> QED BY <1>0, <1>2, <2>2 DEF MeowComment, TablesOK, NUL
  <1>3. CASE Letter
    <2>1. token' \in Seq(Letters) /\ Len(token') <= MAX_TOKEN_LEN
      BY <1>0, <1>3 DEF Letter, Runs
    <2>2. at' \in 0 .. NUL
      BY <1>0, <1>3 DEF Letter, Runs, NUL
    <2> QED BY <1>0, <1>3, <2>1, <2>2 DEF Letter, TablesOK, NUL
  <1>4. CASE Symbol
    <2>1. PICK s \in WordDone :
            /\ list' = IF IsKeyword(<<text[at]>>)
                       THEN Append(s.list, Dictionary[<<text[at]>>]) ELSE s.list
            /\ idTable' = s.idTable /\ tabCap' = s.tabCap
      BY <1>4 DEF Symbol
    <2>2. Tables(s.list, s.idTable, s.tabCap)
      BY <1>0, WordDoneType DEF TablesOK
    <2>3. IsKeyword(<<text[at]>>) =>
            Tables(Append(s.list, Dictionary[<<text[at]>>]), s.idTable, s.tabCap)
      BY <2>2, PushType DEF IsKeyword
    <2>4. TablesOK'
      BY <2>1, <2>2, <2>3 DEF TablesOK
    <2>5. at' \in 0 .. NUL /\ token' = <<>> /\ text' = text /\ status' = status
      BY <1>0, <1>4 DEF Symbol, Runs, NUL
    <2> QED BY <1>0, <2>4, <2>5 DEF NUL
  <1>5. CASE End
    BY <1>0, <1>5 DEF End, TablesOK, NUL
  <1>6. CASE UNCHANGED vars
    BY <1>0, <1>6 DEF vars, TablesOK, NUL
  <1> QED BY <1>1, <1>2, <1>3, <1>4, <1>5, <1>6 DEF Next

\* Whatever the text: *text stays in it or is NULL, the token in its array, and
\* every word has one place in the table of identifiers, which grows in time
\* (TypeOK; Tokenisator.cpp:73-90).
THEOREM TypeCorrect == Spec => []TypeOK
  <1>1. Init => TypeOK
    BY DEF Init, TypeOK, NUL, IsInjective
  <1> QED BY <1>1, TypeNext, PTL DEF Spec
=============================================================================
