-------------------------- MODULE ElfLayoutProofs --------------------------
(***************************************************************************)
(* The file genElf lays out, for every size of the code.                   *)
(*                                                                         *)
(* Below two pages every piece starts behind all those written before it,  *)
(* so nothing is overwritten; from two pages on the dynamic section is     *)
(* written over the code.  A piece that is intact is the one genElf wrote  *)
(* (Image), which is what the statements about its contents follow from.   *)
(***************************************************************************)
EXTENDS ElfLayout, TLAPS

(* The place, the length and the contents of each piece.                   *)
Off(p) ==
    CASE p = "header"  -> 0
      [] p = "phdrs"   -> EhdrSize
      [] p = "interp"  -> 512
      [] p = "symtab"  -> 768
      [] p = "strtab"  -> 1024
      [] p = "rela"    -> 1280
      [] p = "plt"     -> Page
      [] p = "code"    -> CodeStart
      [] p = "dynamic" -> DynStart + extra
      [] p = "got"     -> GotSlots + extra
      [] p = "shdrs"   -> ShStart + extra

Length(p) ==
    CASE p = "header"  -> EhdrSize
      [] p = "phdrs"   -> PhdrSize * PhNum
      [] p = "interp"  -> InterpSize
      [] p = "symtab"  -> SymSize * 3
      [] p = "strtab"  -> StrTabSize
      [] p = "rela"    -> RelaSize * 2
      [] p = "plt"     -> PltSz
      [] p = "code"    -> size
      [] p = "dynamic" -> DynSize * DtNum
      [] p = "got"     -> 16
      [] p = "shdrs"   -> ShdrSize * ShNum

Contents(p) ==
    CASE p = "header"  -> [entry |-> EntryPoint, phoff |-> EhdrSize, shoff |-> ShStart + extra]
      [] p = "phdrs"   -> Segments
      [] p = "interp"  -> <<>>
      [] p = "symtab"  -> <<>>
      [] p = "strtab"  -> <<>>
      [] p = "rela"    -> <<StartOff + GotSlots + extra, StartOff + GotSlots + 8 + extra>>
      [] p = "plt"     -> [link |-> PltTarget(6, 8194), resolve |-> PltTarget(12, 8196),
                           in |-> PltTarget(22, 8194), out |-> PltTarget(38, 8186)]
      [] p = "code"    -> <<>>
      [] p = "dynamic" -> DynTable
      [] p = "got"     -> <<StartOff + Page + 22, StartOff + Page + 38>>
      [] p = "shdrs"   -> SHTable

Image(p) == [off |-> Off(p), len |-> Length(p), val |-> Contents(p)]

(* The stage after a piece.                                                *)
After(p) ==
    CASE p = "header"  -> "phdrs"
      [] p = "phdrs"   -> "interp"
      [] p = "interp"  -> "symtab"
      [] p = "symtab"  -> "strtab"
      [] p = "strtab"  -> "rela"
      [] p = "rela"    -> "plt"
      [] p = "plt"     -> "code"
      [] p = "code"    -> "dynamic"
      [] p = "dynamic" -> "got"
      [] p = "got"     -> "shdrs"
      [] p = "shdrs"   -> "save"

(* The pieces genElf has written when it stands at stage s.                *)
Before(s) ==
    CASE s = "create"  -> {}
      [] s = "header"  -> {}
      [] s = "phdrs"   -> {"header"}
      [] s = "interp"  -> {"header", "phdrs"}
      [] s = "symtab"  -> {"header", "phdrs", "interp"}
      [] s = "strtab"  -> {"header", "phdrs", "interp", "symtab"}
      [] s = "rela"    -> {"header", "phdrs", "interp", "symtab", "strtab"}
      [] s = "plt"     -> {"header", "phdrs", "interp", "symtab", "strtab", "rela"}
      [] s = "code"    -> {"header", "phdrs", "interp", "symtab", "strtab", "rela", "plt"}
      [] s = "dynamic" -> Pieces \ {"dynamic", "got", "shdrs"}
      [] s = "got"     -> Pieces \ {"got", "shdrs"}
      [] s = "shdrs"   -> Pieces \ {"shdrs"}
      [] s = "save"    -> Pieces
      [] s = "saved"   -> Pieces

Stages == Pieces \union {"create", "save", "saved"}

(* What genElf has made of the file when it stands at pc.                  *)
Written ==
    /\ DOMAIN file \subseteq Before(pc)
    /\ \A p \in DOMAIN file : file[p] = Image(p)
    /\ size < 2 * Page => DOMAIN file = Before(pc)
    /\ size >= 2 * Page /\ pc \in {"got", "shdrs", "save", "saved"} => "code" \notin DOMAIN file
    /\ pc \notin {"create", "header", "phdrs"} => "phdrs" \in DOMAIN file

IInv == TypeOK /\ InBuffer /\ Written

-----------------------------------------------------------------------------
(* Everything behind the code moves by nothing or by one page; from two    *)
(* pages on that is not enough.                                            *)
LEMMA Extra ==
    ASSUME size \in Nat
    PROVE  /\ extra \in {0, Page}
           /\ size < Page => extra = 0
           /\ size >= Page /\ size < 2 * Page => extra = Page
           /\ size < 2 * Page => CodeStart + size <= DynStart + extra
           /\ size >= 2 * Page => CodeStart + size > DynStart + extra
<1> DEFINE q == size \div Page
<1>1. q \in Nat /\ 4096 * q <= size /\ size < 4096 * q + 4096  BY DEF Page
<1>2. q % 2 \in {0, 1}  BY <1>1
<1>3. extra = 4096 * (q % 2)  BY DEF extra, extraSize, Page
<1>4. extra \in {0, Page}  BY <1>2, <1>3 DEF Page
<1>5. size < Page => extra = 0
  <2>1. size < 4096 => q = 0  BY <1>1
  <2> QED  BY <2>1, <1>3 DEF Page
<1>8. size >= Page /\ size < 2 * Page => extra = Page
  <2>1. size >= 4096 /\ size < 8192 => q = 1  BY <1>1
  <2>2. q = 1 => extra = 4096  BY <1>3
  <2> HIDE DEF q
  <2> QED  BY <2>1, <2>2 DEF Page
<1>6. size < 2 * Page => CodeStart + size <= DynStart + extra
  <2>1. size < 8192 => q = 0 \/ q = 1  BY <1>1
  <2>2. q = 0 => size < 4096  BY <1>1
  <2>3. q = 1 => extra = 4096  BY <1>3
  <2>4. extra >= 0  BY <1>4 DEF Page
  <2> HIDE DEF q
  <2> QED  BY <2>1, <2>2, <2>3, <2>4, <1>4 DEF Page, CodeStart, PltSz, DynStart
<1>7. size >= 2 * Page => CodeStart + size > DynStart + extra
  <2>1. extra = 4096 => size < 8192 \/ size >= 12288
    <3>1. q = 2 => q % 2 = 0  OBVIOUS
    <3>2. size < 8192 \/ size >= 12288 \/ q = 2  BY <1>1
    <3> QED  BY <3>1, <3>2, <1>3
  <2> HIDE DEF q
  <2> QED  BY <2>1, <1>4 DEF Page, CodeStart, PltSz, DynStart
<1> QED  BY <1>4, <1>5, <1>6, <1>7, <1>8

LEMMA Places ==
    ASSUME size \in Nat, NEW p \in Pieces
    PROVE  Off(p) \in Nat /\ Length(p) \in Nat
<1> USE DEF Page, CodeStart, PltSz, DynStart, GotSlots, GotStart, ShStart, EhdrSize,
    PhdrSize, PhNum, InterpSize, SymSize, StrTabSize, RelaSize, DynSize, DtNum,
    ShdrSize, ShNum
<1>1. extra \in Nat  BY Extra
<1>2. Off(p) \in Nat  BY <1>1 DEF Off, Pieces
<1>3. Length(p) \in Nat  BY DEF Length, Pieces
<1> QED  BY <1>2, <1>3

(* Below two pages a piece starts where all the earlier ones have ended.   *)
LEMMA InOrder ==
    ASSUME size \in Nat, size < 2 * Page,
           NEW p \in Pieces, NEW r \in Before(p)
    PROVE  Off(r) + Length(r) <= Off(p)
<1> USE DEF Page, CodeStart, PltSz, DynStart, GotSlots, GotStart, ShStart, EhdrSize,
    PhdrSize, PhNum, InterpSize, SymSize, StrTabSize, RelaSize, DynSize, DtNum,
    ShdrSize, ShNum
<1>1. extra \in Nat /\ CodeStart + size <= DynStart + extra  BY Extra
<1> HIDE DEF extra
<1>2. CASE p \in {"header", "phdrs", "interp", "symtab", "strtab", "rela"}
  BY <1>2 DEF Before, Off, Length
<1>3. CASE p \in {"plt", "code"}
  BY <1>3 DEF Before, Off, Length
<1>4. CASE p \in {"dynamic", "got", "shdrs"}
  <2>1. r \in Pieces \ {p}  BY <1>4 DEF Before, Pieces
  <2>2. CASE p = "dynamic"  BY <1>1, <2>1, <2>2 DEF Before, Off, Length, Pieces
  <2>3. CASE p = "got"      BY <1>1, <2>1, <2>3 DEF Before, Off, Length, Pieces
  <2>4. CASE p = "shdrs"    BY <1>1, <2>1, <2>4 DEF Before, Off, Length, Pieces
  <2> QED  BY <1>4, <2>2, <2>3, <2>4
<1> QED  BY <1>2, <1>3, <1>4 DEF Pieces
-----------------------------------------------------------------------------
(* writeElfBuffer: the buffer is long enough for the piece and still whole *)
(* pages, other pieces stay as they are or go, and none goes if all of     *)
(* them end before the new one.                                            *)
LEMMA GrownEnough ==
    ASSUME capacity \in Nat, capacity % Page = 0, NEW end \in Nat
    PROVE  /\ Grown(end) \in Nat /\ Grown(end) % Page = 0
           /\ Grown(end) >= end /\ Grown(end) >= capacity
<1> DEFINE q == end \div Page
<1>1. q \in Nat /\ 4096 * q <= end /\ end < 4096 * q + 4096  BY DEF Page
<1>2. (q * 4096 + 4096) % 4096 = 0  BY <1>1
<1>3. CASE end > capacity
  <2>1. Grown(end) = q * 4096 + 4096  BY <1>3 DEF Grown, Page
  <2> HIDE DEF q
  <2> QED  BY <1>1, <1>2, <1>3, <2>1 DEF Page
<1>4. CASE ~(end > capacity)  BY <1>4 DEF Grown
<1> QED  BY <1>3, <1>4

LEMMA WriteStep ==
    ASSUME TypeOK, InBuffer, NEW p \in Pieces, NEW off \in Nat, NEW len \in Nat,
           NEW val, NEW next, Write(p, off, len, val, next)
    PROVE  /\ size' = size /\ pc = p /\ pc' = next
           /\ capacity' \in Nat /\ capacity' % Page = 0
           /\ InBuffer'
           /\ p \in DOMAIN file' /\ DOMAIN file' \subseteq DOMAIN file \union {p}
           /\ file'[p] = [off |-> off, len |-> len, val |-> val]
           /\ \A r \in DOMAIN file' : r # p => r \in DOMAIN file /\ file'[r] = file[r]
           /\ (\A r \in DOMAIN file : PieceEnd(r) <= off) =>
                  DOMAIN file' = DOMAIN file \union {p}
           /\ \A r \in DOMAIN file : PieceEnd(r) <= off => r \in DOMAIN file'
           /\ \A r \in DOMAIN file :
                  r # p /\ off < PieceEnd(r) /\ file[r].off < off + len => r \notin DOMAIN file'
<1> DEFINE kept == {r \in DOMAIN file : PieceEnd(r) <= off \/ off + len <= file[r].off}
           new  == [off |-> off, len |-> len, val |-> val]
<1>1. /\ size' = size /\ pc = p /\ pc' = next /\ capacity' = Grown(off + len)
      /\ file' = [r \in kept \union {p} |-> IF r = p THEN new ELSE file[r]]
  BY DEF Write
<1>2. /\ capacity' \in Nat /\ capacity' % Page = 0
      /\ capacity' >= off + len /\ capacity' >= capacity
  BY <1>1, GrownEnough DEF TypeOK
<1>3. DOMAIN file' = kept \union {p}  BY <1>1
<1>4. file'[p] = new  BY <1>1
<1>5. \A r \in DOMAIN file' : r # p => r \in DOMAIN file /\ file'[r] = file[r]
  BY <1>1, <1>3
<1>6. InBuffer'
  <2> SUFFICES ASSUME NEW r \in DOMAIN file'
               PROVE  file'[r].off + file'[r].len <= capacity'
    BY DEF InBuffer, PieceEnd
  <2>1. CASE r = p  BY <1>2, <1>4, <2>1
  <2>2. CASE r # p
    <3>1. r \in DOMAIN file /\ file'[r] = file[r]  BY <1>5, <2>2
    <3>2. file[r].off + file[r].len <= capacity  BY <3>1 DEF InBuffer, PieceEnd
    <3>3. file[r].off \in Nat /\ file[r].len \in Nat /\ capacity \in Nat
      BY <3>1 DEF TypeOK
    <3> QED  BY <1>2, <3>1, <3>2, <3>3
  <2> QED  BY <2>1, <2>2
<1>7. (\A r \in DOMAIN file : PieceEnd(r) <= off) => DOMAIN file' = DOMAIN file \union {p}
  BY <1>3
<1>9. \A r \in DOMAIN file : PieceEnd(r) <= off => r \in DOMAIN file'
  BY <1>3
<1>8. \A r \in DOMAIN file :
          r # p /\ off < PieceEnd(r) /\ file[r].off < off + len => r \notin DOMAIN file'
  <2> SUFFICES ASSUME NEW r \in DOMAIN file, r # p, off < PieceEnd(r), file[r].off < off + len
               PROVE  r \notin kept
    BY <1>3
  <2>1. file[r].off \in Nat /\ file[r].len \in Nat  BY DEF TypeOK
  <2> QED  BY <2>1 DEF PieceEnd
<1> QED  BY <1>1, <1>2, <1>3, <1>4, <1>5, <1>6, <1>7, <1>8

LEMMA ImageKept ==
    ASSUME size' = size, NEW p \in Pieces
    PROVE  Image(p)' = Image(p)
BY DEF Image, Off, Length, Contents, extra, Segments, PltTarget, DynTable, SHTable

(* A step that writes the piece p as its image preserves the invariant.    *)
LEMMA ImageStep ==
    ASSUME IInv, NEW p \in Pieces,
           Write(p, Off(p), Length(p), Contents(p), After(p))
    PROVE  IInv'
<1>1. /\ size \in Nat /\ size \in CodeSizes /\ TypeOK /\ InBuffer /\ Written
  BY CodeSizeAssumption DEF IInv, TypeOK
<1>2. Off(p) \in Nat /\ Length(p) \in Nat  BY <1>1, Places
<1>3. /\ size' = size /\ pc = p /\ pc' = After(p)
      /\ capacity' \in Nat /\ capacity' % Page = 0
      /\ InBuffer'
      /\ p \in DOMAIN file' /\ DOMAIN file' \subseteq DOMAIN file \union {p}
      /\ file'[p] = Image(p)
      /\ \A r \in DOMAIN file' : r # p => r \in DOMAIN file /\ file'[r] = file[r]
      /\ (\A r \in DOMAIN file : PieceEnd(r) <= Off(p)) => DOMAIN file' = DOMAIN file \union {p}
      /\ \A r \in DOMAIN file : PieceEnd(r) <= Off(p) => r \in DOMAIN file'
      /\ \A r \in DOMAIN file :
             r # p /\ Off(p) < PieceEnd(r) /\ file[r].off < Off(p) + Length(p) => r \notin DOMAIN file'
  BY <1>1, <1>2, WriteStep DEF Image
<1>4. After(p) \in Stages /\ Before(After(p)) = Before(p) \union {p}
  BY DEF After, Before, Pieces, Stages
<1>5. \A r \in Pieces : Image(r)' = Image(r)
  BY <1>3, ImageKept
<1>6. DOMAIN file \subseteq Before(p) /\ Before(p) \subseteq Pieces
  BY <1>1, <1>3 DEF Written, Before, Pieces
<1>7. \A r \in DOMAIN file : file[r].off = Off(r) /\ PieceEnd(r) = Off(r) + Length(r)
  BY <1>1 DEF Written, PieceEnd, Image
<1>8. Written'
  <2>1. (DOMAIN file \subseteq Before(pc))'  BY <1>3, <1>4, <1>6 DEF Before
  <2>2. (\A r \in DOMAIN file : file[r] = Image(r))'
    <3> SUFFICES ASSUME NEW r \in DOMAIN file'  PROVE file'[r] = Image(r)'
      OBVIOUS
    <3>1. r \in Pieces  BY <1>3, <1>6
    <3> QED  BY <1>1, <1>3, <1>5, <3>1 DEF Written
  <2>3. (size < 2 * Page => DOMAIN file = Before(pc))'
    <3> SUFFICES ASSUME size < 2 * Page  PROVE DOMAIN file' = Before(pc')
      BY <1>3 DEF Before
    <3>1. \A r \in DOMAIN file : PieceEnd(r) <= Off(p)
      BY <1>1, <1>6, <1>7, InOrder
    <3>2. DOMAIN file = Before(p)  BY <1>1, <1>3 DEF Written
    <3> QED  BY <1>3, <1>4, <3>1, <3>2
  <2>4. (size >= 2 * Page /\ pc \in {"got", "shdrs", "save", "saved"}
            => "code" \notin DOMAIN file)'
    <3> SUFFICES ASSUME size >= 2 * Page, After(p) \in {"got", "shdrs", "save", "saved"}
                 PROVE  "code" \notin DOMAIN file'
      BY <1>3
    <3>1. p \in {"dynamic", "got", "shdrs"}  BY DEF After, Pieces
    <3>2. CASE p \in {"got", "shdrs"}  BY <1>1, <1>3, <3>2 DEF Written
    <3>3. CASE p = "dynamic"
      <4> SUFFICES ASSUME "code" \in DOMAIN file  PROVE "code" \notin DOMAIN file'
        BY <1>3, <3>3
      <4>1. file["code"].off = CodeStart /\ PieceEnd("code") = CodeStart + size
        BY <1>7 DEF Off, Length
      <4>2. Off(p) = DynStart + extra /\ Length(p) = 160
        BY <3>3 DEF Off, Length, DynSize, DtNum
      <4>3. extra \in {0, Page} /\ CodeStart + size > DynStart + extra  BY <1>1, Extra
      <4>4. CodeStart < DynStart + extra + 160
        BY <4>3 DEF CodeStart, DynStart, Page, PltSz
      <4> QED  BY <1>3, <3>3, <4>1, <4>2, <4>3, <4>4
    <3> QED  BY <3>1, <3>2, <3>3
  <2>5. (pc \notin {"create", "header", "phdrs"} => "phdrs" \in DOMAIN file)'
    <3> SUFFICES ASSUME After(p) \notin {"header", "phdrs"}
                 PROVE  "phdrs" \in DOMAIN file'
      BY <1>3
    <3>1. CASE p = "phdrs"  BY <1>3, <3>1
    <3>2. CASE p \notin {"header", "phdrs"}
      <4>1. "phdrs" \in DOMAIN file  BY <1>1, <1>3, <3>2 DEF Written, Pieces
      <4>2. PieceEnd("phdrs") = 400
        BY <1>7, <4>1 DEF Off, Length, EhdrSize, PhdrSize, PhNum
      <4>3. extra \in Nat  BY <1>1, Extra DEF Page
      <4>4. 400 <= Off(p)
        BY <3>2, <4>3 DEF Off, Pieces, Page, CodeStart, PltSz, DynStart, GotSlots,
           GotStart, ShStart
      <4> QED  BY <1>3, <4>1, <4>2, <4>4
    <3> QED  BY <3>1, <3>2 DEF After
  <2> QED  BY <2>1, <2>2, <2>3, <2>4, <2>5 DEF Written
<1>9. TypeOK'
  <2>1. DOMAIN file' \subseteq Pieces  BY <1>3, <1>6
  <2>2. \A r \in DOMAIN file' : file'[r].off \in Nat /\ file'[r].len \in Nat
    <3> SUFFICES ASSUME NEW r \in DOMAIN file'
                 PROVE  file'[r].off \in Nat /\ file'[r].len \in Nat
      OBVIOUS
    <3>1. CASE r = p  BY <1>2, <1>3, <3>1 DEF Image
    <3>2. CASE r # p  BY <1>1, <1>3, <3>2 DEF TypeOK
    <3> QED  BY <3>1, <3>2
  <2> QED  BY <1>1, <1>3, <1>4, <2>1, <2>2 DEF TypeOK, Stages
<1> QED  BY <1>3, <1>8, <1>9 DEF IInv

LEMMA InitInv == Init => IInv
<1> SUFFICES ASSUME Init  PROVE IInv
  OBVIOUS
<1>1. size \in CodeSizes /\ pc = "create" /\ capacity = 0 /\ DOMAIN file = {}
  BY DEF Init
<1> QED  BY <1>1 DEF IInv, TypeOK, InBuffer, Written, Before, Page

LEMMA NextInv == IInv /\ [Next]_vars => IInv'
<1> SUFFICES ASSUME IInv, [Next]_vars  PROVE IInv'
  OBVIOUS
<1>1. CASE CreateBuffer
  <2>1. size \in Nat  BY CodeSizeAssumption DEF IInv, TypeOK
  <2>2. extra \in {0, Page}  BY <2>1, Extra
  <2>3. DOMAIN file = {}  BY <1>1 DEF IInv, Written, CreateBuffer, Before
  <2>4. capacity' \in Nat /\ capacity' % Page = 0
    BY <1>1, <2>2 DEF CreateBuffer, ElfInitSize, Page
  <2>5. pc = "create" /\ pc' = "header" /\ size' = size /\ file' = file
    BY <1>1 DEF CreateBuffer
  <2>6. TypeOK' /\ InBuffer'  BY <2>3, <2>4, <2>5 DEF IInv, TypeOK, InBuffer, Pieces
  <2>7. Written'  BY <2>3, <2>5 DEF Written, Before
  <2> QED  BY <2>6, <2>7 DEF IInv
<1>2. CASE WriteHeader
  BY <1>2, ImageStep DEF WriteHeader, Off, Length, Contents, After, Pieces
<1>3. CASE WriteSegments
  BY <1>3, ImageStep DEF WriteSegments, Off, Length, Contents, After, Pieces
<1>4. CASE WriteInterp
  BY <1>4, ImageStep DEF WriteInterp, Off, Length, Contents, After, Pieces
<1>5. CASE WriteSymTab
  BY <1>5, ImageStep DEF WriteSymTab, Off, Length, Contents, After, Pieces
<1>6. CASE WriteStrTab
  BY <1>6, ImageStep DEF WriteStrTab, Off, Length, Contents, After, Pieces
<1>7. CASE WriteRela
  BY <1>7, ImageStep DEF WriteRela, Off, Length, Contents, After, Pieces
<1>8. CASE WritePlt
  BY <1>8, ImageStep DEF WritePlt, Off, Length, Contents, After, Pieces
<1>9. CASE WriteCode
  BY <1>9, ImageStep DEF WriteCode, Off, Length, Contents, After, Pieces
<1>10. CASE WriteDynamic
  BY <1>10, ImageStep DEF WriteDynamic, Off, Length, Contents, After, Pieces
<1>11. CASE WriteGot
  BY <1>11, ImageStep DEF WriteGot, Off, Length, Contents, After, Pieces
<1>12. CASE WriteSections
  BY <1>12, ImageStep DEF WriteSections, Off, Length, Contents, After, Pieces
<1>13. CASE Save
  <2>1. pc = "save" /\ pc' = "saved" /\ UNCHANGED <<size, capacity, file>>
    BY <1>13 DEF Save
  <2>2. \A r \in Pieces : Image(r)' = Image(r)
    BY <2>1, ImageKept
  <2>3. Before(pc) = Pieces /\ Before(pc)' = Pieces
    BY <2>1 DEF Before, Pieces
  <2>4. Written'  BY <2>1, <2>2, <2>3 DEF IInv, Written
  <2> QED  BY <2>1, <2>4 DEF IInv, TypeOK, InBuffer, PieceEnd
<1>14. CASE UNCHANGED vars
  <2>1. \A r \in Pieces : Image(r)' = Image(r)
    BY <1>14, ImageKept DEF vars
  <2>2. Before(pc)' = Before(pc)  BY <1>14 DEF vars, Before
  <2>3. Written'  BY <1>14, <2>1, <2>2 DEF vars, IInv, TypeOK, Written
  <2> QED  BY <1>14, <2>3 DEF vars, IInv, TypeOK, InBuffer, PieceEnd
<1> QED  BY <1>1, <1>2, <1>3, <1>4, <1>5, <1>6, <1>7, <1>8, <1>9, <1>10, <1>11,
            <1>12, <1>13, <1>14 DEF Next

(* Places and sizes are numbers and the buffer is whole pages.             *)
THEOREM LayoutTyped == Spec => []TypeOK
<1>1. IInv => TypeOK  BY DEF IInv
<1> QED  BY InitInv, NextInv, <1>1, PTL DEF Spec

(* No memcpy of genElf leaves the buffer, whatever the size of the code.   *)
THEOREM WritesStayInBuffer == Spec => []InBuffer
<1>1. IInv => InBuffer  BY DEF IInv
<1> QED  BY InitInv, NextInv, <1>1, PTL DEF Spec

(* The finished file holds all its pieces exactly when the code is smaller *)
(* than two pages.                                                         *)
THEOREM FileCompleteBelowTwoPages == Spec => []CodeIntact
<1>1. IInv => CodeIntact
  <2> SUFFICES ASSUME IInv, pc = "saved"
               PROVE  DOMAIN file = Pieces <=> size < 2 * Page
    BY DEF CodeIntact
  <2>1. size \in Nat  BY CodeSizeAssumption DEF IInv, TypeOK
  <2>2. CASE size < 2 * Page  BY <2>2 DEF IInv, Written, Before
  <2>3. CASE ~(size < 2 * Page)
    <3>1. size >= 2 * Page  BY <2>1, <2>3 DEF Page
    <3> QED  BY <2>3, <3>1 DEF IInv, Written, Pieces
  <2> QED  BY <2>2, <2>3
<1> QED  BY InitInv, NextInv, <1>1, PTL DEF Spec

(* A complete file is what its headers say, and the loader finds the       *)
(* relocations and the first words of the PLT exactly below one page.      *)
THEOREM HeadersDescribeFile == Spec => []HeadersAgree
<1>1. IInv => HeadersAgree
  <2> SUFFICES ASSUME IInv, Fits  PROVE HeadersAgree
    BY DEF HeadersAgree
  <2>1. /\ size \in Nat /\ size > 0 /\ extra \in {0, 4096}
        /\ extra = 0 <=> size < Page
        /\ CodeStart + size <= DynStart + extra
    BY CodeSizeAssumption, Extra DEF IInv, TypeOK, Page, Fits
  <2>2. DOMAIN file = Pieces  BY DEF IInv, Written, Before, Fits
  <2>3. \A p \in Pieces : file[p] = Image(p)  BY <2>2 DEF IInv, Written
  <2>4. \A p \in Pieces : /\ file[p].off = Off(p) /\ file[p].len = Length(p)
                          /\ file[p].val = Contents(p)
    <3> TAKE p \in Pieces
    <3>1. file[p] = Image(p)  BY <2>3
    <3> QED  BY <3>1 DEF Image
  <2> DEFINE header == file["header"].val
             segs   == file["phdrs"].val
             secs   == file["shdrs"].val
             dyn    == file["dynamic"].val
             plt    == file["plt"].val
  <2>5. /\ header = [entry |-> EntryPoint, phoff |-> EhdrSize, shoff |-> ShStart + extra]
        /\ segs = Segments /\ secs = SHTable /\ dyn = DynTable
        /\ plt = [link |-> PltTarget(6, 8194), resolve |-> PltTarget(12, 8196),
                  in |-> PltTarget(22, 8194), out |-> PltTarget(38, 8186)]
    BY <2>4 DEF Contents, Pieces
  <2>6. /\ header.shoff = file["shdrs"].off /\ header.phoff = file["phdrs"].off
        /\ header.entry = StartOff + file["code"].off
    BY <2>4, <2>5 DEF Off, Pieces, EntryPoint
  <2> HIDE DEF header
  <2>7. \A p \in DOMAIN secs : Inside(p, secs[p])
    <3> SUFFICES ASSUME NEW p \in DOMAIN SHTable  PROVE Inside(p, SHTable[p])
      BY <2>5
    <3>1. p \in Pieces \ {"header", "phdrs", "shdrs"}  BY DEF SHTable, Pieces
    <3>2. /\ SHTable[p].off <= Off(p)
          /\ Off(p) + Length(p) <= SHTable[p].off + SHTable[p].size
      BY <2>1, <3>1
      DEF SHTable, Section, Pieces, Off, Length, CodeStart, DynStart, GotStart,
          GotSlots, Page, PltSz, InterpSize, SymSize, StrTabSize, RelaSize, DynSize, DtNum
    <3> QED  BY <2>4, <3>1, <3>2 DEF Inside, PieceEnd
  <2>8. secs["code"].size = file["code"].len
    BY <2>4, <2>5 DEF SHTable, Section, Length, Pieces
  <2>9. ASSUME NEW p \in Pieces \ {"shdrs"}
        PROVE  \E i \in DOMAIN segs :
                 /\ segs[i].type = "load"
                 /\ segs[i].off <= file[p].off
                 /\ PieceEnd(p) <= segs[i].off + segs[i].filesz
    <3> DEFINE i == IF p \in {"plt", "code"} THEN 4
                    ELSE IF p \in {"dynamic", "got"} THEN 5 ELSE 3
    <3>1. i \in DOMAIN Segments  BY DEF Segments
    <3>2. Segments[i].type = "load"  BY DEF Segments, Segment
    <3>3. /\ Segments[i].off <= Off(p)
          /\ Off(p) + Length(p) <= Segments[i].off + Segments[i].filesz
      BY <2>1
      DEF Segments, Segment, Pieces, Off, Length, CodeStart, DynStart, GotStart,
          GotSlots, Page, PltSz, InterpSize, SymSize, StrTabSize, RelaSize, DynSize, DtNum,
          EhdrSize, PhdrSize, PhNum
    <3> HIDE DEF i
    <3> QED  BY <2>4, <2>5, <3>1, <3>2, <3>3 DEF PieceEnd
  <2>10. \A i \in DOMAIN segs : segs[i].off + segs[i].filesz <= capacity
    <3>1. Off("shdrs") + Length("shdrs") <= capacity
      BY <2>2, <2>4 DEF IInv, InBuffer, PieceEnd, Pieces
    <3>2. 13568 + extra + 576 <= capacity
      BY <3>1 DEF Off, Length, ShStart, ShdrSize, ShNum
    <3>3. capacity \in Nat  BY DEF IInv, TypeOK
    <3>4. DOMAIN Segments = 1 .. 6  BY DEF Segments
    <3>5. \A i \in 1 .. 6 : Segments[i].off + Segments[i].filesz <= 13568 + extra + 576
      BY <2>1
      DEF Segments, Segment, CodeStart, DynStart, Page, PltSz, InterpSize,
          EhdrSize, PhdrSize, PhNum
    <3>6. \A i \in 1 .. 6 : Segments[i].off + Segments[i].filesz \in Int
      BY <2>1
      DEF Segments, Segment, CodeStart, DynStart, Page, PltSz, InterpSize,
          EhdrSize, PhdrSize, PhNum
    <3> QED  BY <2>1, <2>5, <3>2, <3>3, <3>4, <3>5, <3>6
  <2>11. dyn.jmprel = StartOff + file["rela"].off /\ dyn.strsz = file["strtab"].len
    BY <2>4, <2>5 DEF DynTable, Off, Length, Pieces
  <2>12. dyn.pltrelsz = file["rela"].len <=> size < Page
    BY <2>1, <2>4, <2>5 DEF DynTable, Length, Pieces, RelaSize
  <2>13. dyn.pltgot = secs["got"].addr <=> size < Page
    BY <2>1, <2>5 DEF DynTable, SHTable, Section, StartOff, GotStart
  <2>14. plt.link = dyn.pltgot + 8 /\ plt.resolve = dyn.pltgot + 16 <=> size < Page
    BY <2>1, <2>5 DEF DynTable, PltTarget, StartOff, GotStart, Page
  <2> QED
    BY <2>6, <2>7, <2>8, <2>9, <2>10, <2>11, <2>12, <2>13, <2>14
    DEF HeadersAgree, header
<1> QED  BY InitInv, NextInv, <1>1, PTL DEF Spec

(* The PLT, the relocations and the jump slots of a complete file agree.   *)
THEOREM PltAndSlotsAgree == Spec => []PltReachesGot
<1>1. IInv => PltReachesGot
  <2> SUFFICES ASSUME IInv, Fits  PROVE PltReachesGot
    BY DEF PltReachesGot
  <2>1. size \in Nat /\ extra \in Nat  BY CodeSizeAssumption, Extra DEF IInv, TypeOK, Page
  <2>2. DOMAIN file = Pieces  BY DEF IInv, Written, Before, Fits
  <2>3. \A p \in {"plt", "rela", "got"} : file[p] = Image(p)
    BY <2>2 DEF IInv, Written, Pieces
  <2>4. file["plt"].val = [link |-> PltTarget(6, 8194), resolve |-> PltTarget(12, 8196),
                           in |-> PltTarget(22, 8194), out |-> PltTarget(38, 8186)]
    BY <2>3 DEF Image, Contents
  <2>5. file["rela"].val = <<StartOff + GotSlots + extra, StartOff + GotSlots + 8 + extra>>
    BY <2>3 DEF Image, Contents
  <2>6. /\ file["got"].off = GotSlots + extra
        /\ file["got"].val = <<StartOff + Page + 22, StartOff + Page + 38>>
    BY <2>3 DEF Image, Contents, Off
  <2> HIDE DEF extra
  <2> QED  BY <2>1, <2>4, <2>5, <2>6
           DEF PltReachesGot, PltTarget, StartOff, GotSlots, GotStart, Page
<1> QED  BY InitInv, NextInv, <1>1, PTL DEF Spec

(* The loader runs the code to its end exactly when it stops before the    *)
(* page in which the data segment starts.                                  *)
THEOREM CodeExecutableUpToData == Spec => []CodeExecutable
<1>1. IInv => CodeExecutable
  <2> SUFFICES ASSUME IInv, pc = "saved"
               PROVE  (\A page \in CodePages : Executable(page)) <=>
                          size <= Page - PltSz + extra
    BY DEF CodeExecutable
  <2> DEFINE last == (EntryPoint + size - 1) \div 4096
             data == IF extra = 0 THEN 1026 ELSE 1027
  <2>1. size \in Nat /\ size > 0 /\ extra \in {0, 4096}
    BY CodeSizeAssumption, Extra DEF IInv, TypeOK, Page
  <2>2. last \in Nat /\ 4096 * last <= 4198447 + size /\ 4198447 + size < 4096 * last + 4096
    BY <2>1 DEF EntryPoint, StartOff, CodeStart, Page, PltSz
  <2>3. CodePages = 1025 .. last
    BY <2>1 DEF CodePages, EntryPoint, StartOff, CodeStart, Page, PltSz
  <2>4. file["phdrs"].val = Segments
    <3>1. file["phdrs"] = Image("phdrs")  BY DEF IInv, Written
    <3>2. Contents("phdrs") = Segments  BY DEF Contents
    <3> QED  BY <3>1, <3>2 DEF Image
  <2>5. DOMAIN Segments = 1 .. 6
    BY DEF Segments
  <2>6. \A i \in 1 .. 6 : Segments[i].type = "load" <=> i \in 3 .. 5
    BY DEF Segments, Segment
  <2>7. Segments[3].exec = FALSE /\ Segments[4].exec = TRUE /\ Segments[5].exec = FALSE
    BY DEF Segments, Segment
  <2>8. \A page \in 1025 .. last :
            /\ ~ Covers(Segments[3], page)
            /\ Covers(Segments[4], page)
    <3> SUFFICES ASSUME NEW page \in 1025 .. last
                 PROVE  ~ Covers(Segments[3], page) /\ Covers(Segments[4], page)
      OBVIOUS
    <3>1. Segments[3].vaddr = 4194304 /\ Segments[3].memsz = 4096
      BY DEF Segments, Segment, StartOff, Page
    <3>2. Segments[4].vaddr = 4198400 /\ Segments[4].memsz = size + 48
      BY DEF Segments, Segment, StartOff, Page, PltSz
    <3>3. (4194304 + 4096 - 1) \div 4096 = 1024 /\ 4198400 \div 4096 = 1025
      OBVIOUS
    <3>4. (4198400 + (size + 48) - 1) \div 4096 = last
      BY <2>1 DEF EntryPoint, StartOff, CodeStart, Page, PltSz
    <3> QED  BY <2>2, <3>1, <3>2, <3>3, <3>4 DEF Covers, Page
  <2>9. /\ Segments[5].vaddr \div 4096 = data
        /\ data <= (Segments[5].vaddr + Segments[5].memsz - 1) \div 4096
    <3>1. /\ Segments[5].vaddr = 4194304 + 12000 + extra
          /\ Segments[5].memsz = 4608
      BY <2>1 DEF Segments, Segment, StartOff, DynStart, Page
    <3>2. CASE extra = 0     BY <3>1, <3>2
    <3>3. CASE extra = 4096  BY <3>1, <3>3
    <3> QED  BY <2>1, <3>2, <3>3
  <2> HIDE DEF last
  <2>10. last < data <=> size <= Page - PltSz + extra
    BY <2>1, <2>2 DEF Page, PltSz
  <2>11. \A page \in 1025 .. last : Executable(page) <=> ~ Covers(Segments[5], page)
    <3> SUFFICES ASSUME NEW page \in 1025 .. last
                 PROVE  Executable(page) <=> ~ Covers(Segments[5], page)
      OBVIOUS
    <3> DEFINE owner == {i \in 1 .. 6 : Segments[i].type = "load" /\ Covers(Segments[i], page)}
    <3>1. Executable(page) <=> \E i \in owner : Segments[i].exec /\ \A j \in owner : j <= i
      BY <2>4, <2>5 DEF Executable
    <3>2. 4 \in owner /\ 3 \notin owner /\ owner \subseteq {4, 5}
      BY <2>6, <2>8
    <3>3. 5 \in owner <=> Covers(Segments[5], page)
      BY <2>6
    <3> HIDE DEF owner
    <3>4. CASE 5 \in owner      BY <2>7, <3>1, <3>2, <3>3, <3>4
    <3>5. CASE 5 \notin owner   BY <2>7, <3>1, <3>2, <3>3, <3>5
    <3> QED  BY <3>4, <3>5
  <2>12. CASE last < data
    <3>1. \A page \in 1025 .. last : ~ Covers(Segments[5], page)
      BY <2>1, <2>2, <2>9, <2>12 DEF Covers, Page
    <3> QED  BY <2>3, <2>10, <2>11, <2>12, <3>1
  <2>13. CASE ~(last < data)
    <3>1. data \in 1025 .. last  BY <2>1, <2>2, <2>13
    <3>2. Covers(Segments[5], data)  BY <2>9 DEF Covers, Page
    <3> QED  BY <2>3, <2>10, <2>11, <2>13, <3>1, <3>2
  <2> QED  BY <2>12, <2>13
<1> QED  BY InitInv, NextInv, <1>1, PTL DEF Spec

=============================================================================
