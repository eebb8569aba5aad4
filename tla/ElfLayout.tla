----------------------------- MODULE ElfLayout -----------------------------
(***************************************************************************)
(* genElf() (Elfer.cpp): the executable file, laid out around `size` bytes *)
(* of machine code.  Every piece has a fixed place; the code grows between *)
(* the procedure linkage table and the dynamic section, and everything     *)
(* behind it moves up by extraSize.                                        *)
(*                                                                         *)
(* `file` holds the pieces that are intact in the buffer: writing a piece  *)
(* destroys those it overlaps.  The contents of a piece are kept as far as *)
(* they are places and sizes.  genElf adds extraSize to the static tables  *)
(* before it writes them and takes it off again, so they are constants.    *)
(***************************************************************************)
EXTENDS Integers, Sequences

CONSTANT CodeSizes              \* sizes of the code genElf may be called with

ASSUME CodeSizeAssumption == CodeSizes \subseteq Nat \ {0}

Page       == 4096              \* ELF_BUF_ROUND, and the loader's page
PltSz      == 48
CodeStart  == Page + PltSz
StartOff   == 4194304           \* 0x400000
EntryPoint == StartOff + CodeStart
ElfInitSize == 4 * Page         \* ELF_INIT_SIZE
DynStart   == 12000             \* 0x2ee0
GotStart   == 12288             \* 0x3000
GotSlots   == GotStart + 24     \* the words of ncc_in and ncc_out
ShStart    == 13568             \* 0x3500

PhNum == 6
ShNum == 9
DtNum == 10
EhdrSize == 64                  \* sizeof(Elf64_Ehdr), Phdr, Shdr, Sym, Rela, Dyn
PhdrSize == 56
ShdrSize == 64
SymSize  == 24
RelaSize == 24
DynSize  == 16
InterpSize == 28                \* sizeof(Interp), sizeof(StrTab)
StrTabSize == 84

VARIABLES
    size,           \* bufSize
    pc,             \* the piece genElf writes next, "save" or "saved"
    capacity,       \* elf->capacity
    file            \* the intact pieces: name -> place, length, contents

vars == <<size, pc, capacity, file>>

Pieces == {"header", "phdrs", "interp", "symtab", "strtab", "rela", "plt",
           "code", "dynamic", "got", "shdrs"}

\* Mutant of extraSize: nothing moves.
extraSizeNone(n) == 0

\* bufSize & ELF_BUF_ROUND
extraSize(n) == Page * ((n \div Page) % 2)

extra == extraSize(size)

PieceEnd(p) == file[p].off + file[p].len

\* Mutants of Grown: the buffer keeps its size, or ends with the piece.
GrownNever(end)   == capacity
GrownExactly(end) == IF end > capacity THEN end ELSE capacity

\* expandElfBuffer to whole pages
Grown(end) == IF end > capacity THEN (end \div Page) * Page + Page ELSE capacity

\* writeElfBuffer(off, .., len), followed by the piece `next`.
Write(name, off, len, val, next) ==
    /\ pc = name
    /\ pc' = next
    /\ capacity' = Grown(off + len)
    /\ LET kept == {p \in DOMAIN file : PieceEnd(p) <= off \/ off + len <= file[p].off}
       IN  file' = [p \in kept \union {name} |->
                       IF p = name THEN [off |-> off, len |-> len, val |-> val]
                                   ELSE file[p]]
    /\ UNCHANGED size

Init ==
    /\ size \in CodeSizes
    /\ pc = "create"
    /\ capacity = 0
    /\ file = << >>

CreateBuffer ==
    /\ pc = "create"
    /\ pc' = "header"
    /\ capacity' = ElfInitSize + extra
    /\ UNCHANGED <<size, file>>

\* Mutant of WriteHeader: the section table is looked for where it was.
WriteHeaderUnpatched ==
    Write("header", 0, EhdrSize,
          [entry |-> EntryPoint, phoff |-> EhdrSize, shoff |-> ShStart], "phdrs")

\* writeElfHeader
WriteHeader ==
    Write("header", 0, EhdrSize,
          [entry |-> EntryPoint, phoff |-> EhdrSize, shoff |-> ShStart + extra], "phdrs")

Segment(type, off, n, mem, exec) ==
    [type |-> type, off |-> off, vaddr |-> StartOff + off, filesz |-> n,
     memsz |-> mem, exec |-> exec]

\* Mutant of Segments: the data is mapped before the text.
SegmentsDataFirst ==
    <<Segment("phdr",    EhdrSize, PhdrSize * PhNum, PhdrSize * PhNum, FALSE),
      Segment("interp",  512, InterpSize, InterpSize, FALSE),
      Segment("load",    0, Page, Page, FALSE),
      Segment("load",    DynStart + extra, 512, Page + 512, FALSE),
      Segment("load",    Page, size + PltSz, size + PltSz, TRUE),
      Segment("dynamic", DynStart + extra, 288, 288, FALSE)>>

\* writeElfPHTable
Segments ==
    <<Segment("phdr",    EhdrSize, PhdrSize * PhNum, PhdrSize * PhNum, FALSE),
      Segment("interp",  512, InterpSize, InterpSize, FALSE),
      Segment("load",    0, Page, Page, FALSE),
      Segment("load",    Page, size + PltSz, size + PltSz, TRUE),
      Segment("load",    DynStart + extra, 512, Page + 512, FALSE),
      Segment("dynamic", DynStart + extra, 288, 288, FALSE)>>

WriteSegments == Write("phdrs", EhdrSize, PhdrSize * PhNum, Segments, "interp")

WriteInterp == Write("interp", 512, InterpSize, <<>>, "symtab")
WriteSymTab == Write("symtab", 768, SymSize * 3, <<>>, "strtab")
WriteStrTab == Write("strtab", 1024, StrTabSize, <<>>, "rela")

\* Mutant of WriteRela: r_offset is not patched.
WriteRelaUnpatched ==
    Write("rela", 1280, RelaSize * 2, <<StartOff + GotSlots, StartOff + GotSlots + 8>>,
          "plt")

\* r_offset of the jump slots of ncc_in and ncc_out
WriteRela ==
    Write("rela", 1280, RelaSize * 2,
          <<StartOff + GotSlots + extra, StartOff + GotSlots + 8 + extra>>, "plt")

\* An instruction of the PLT that ends at `next` and names the word at
\* rip + disp; genElf adds extraSize to disp.
PltTarget(next, disp) == StartOff + Page + next + disp + extra

WritePlt ==
    Write("plt", Page, PltSz,
          [link |-> PltTarget(6, 8194), resolve |-> PltTarget(12, 8196),
           in |-> PltTarget(22, 8194), out |-> PltTarget(38, 8186)], "code")

WriteCode == Write("code", CodeStart, size, <<>>, "dynamic")

\* DynTable; the entry genElf patches is [6], DT_PLTRELSZ.
DynTable ==
    [strtab |-> StartOff + 1024, symtab |-> StartOff + 768, strsz |-> StrTabSize,
     pltgot |-> StartOff + GotStart, pltrelsz |-> RelaSize * 2 + extra,
     jmprel |-> StartOff + 1280]

WriteDynamic == Write("dynamic", DynStart + extra, DynSize * DtNum, DynTable, "got")

\* Each slot starts at the push that follows its function's jump in the PLT.
WriteGot ==
    Write("got", GotSlots + extra, 16,
          <<StartOff + Page + 22, StartOff + Page + 38>>, "shdrs")

Section(off, n) == [addr |-> StartOff + off, off |-> off, size |-> n]

\* The sections by the piece they describe; [0] is the null section.
SHTable ==
    [interp |-> Section(512, InterpSize), symtab |-> Section(768, SymSize * 3),
     strtab |-> Section(1024, StrTabSize), rela |-> Section(1280, RelaSize * 2),
     plt    |-> Section(Page, PltSz),
     code   |-> Section(CodeStart, size),
     dynamic |-> Section(DynStart + extra, DynSize * DtNum),
     got    |-> Section(GotStart + extra, 128)]

WriteSections == Write("shdrs", ShStart + extra, ShdrSize * ShNum, SHTable, "save")

\* writeToFileElfBuffer: the whole buffer becomes the file.
Save == pc = "save" /\ pc' = "saved" /\ UNCHANGED <<size, capacity, file>>

Next ==
    \/ CreateBuffer  \/ WriteHeader \/ WriteSegments \/ WriteInterp
    \/ WriteSymTab   \/ WriteStrTab \/ WriteRela     \/ WritePlt
    \/ WriteCode     \/ WriteDynamic \/ WriteGot     \/ WriteSections
    \/ Save

Spec == Init /\ [][Next]_vars

-----------------------------------------------------------------------------
(* The loader (external): the kernel maps the LOAD segments in order, in   *)
(* whole pages; a later mapping replaces an earlier one.                   *)

Covers(s, page) ==
    s.vaddr \div Page <= page /\ page <= (s.vaddr + s.memsz - 1) \div Page

Executable(page) ==
    LET segs  == file["phdrs"].val
        owner == {i \in DOMAIN segs : segs[i].type = "load" /\ Covers(segs[i], page)}
    IN  \E i \in owner : segs[i].exec /\ \A j \in owner : j <= i

CodePages == (EntryPoint \div Page) .. ((EntryPoint + size - 1) \div Page)

-----------------------------------------------------------------------------
(* Properties                                                              *)

\* Places and sizes are numbers; the buffer, and so the file, is whole pages.
TypeOK ==
    /\ size \in CodeSizes
    /\ pc \in Pieces \union {"create", "save", "saved"}
    /\ capacity \in Nat /\ capacity % Page = 0
    /\ DOMAIN file \subseteq Pieces
    /\ \A p \in DOMAIN file : file[p].off \in Nat /\ file[p].len \in Nat

\* memcpy in writeElfBuffer stays in the buffer, whatever the size of the
\* code: the buffer grows before a piece that ends beyond it.
InBuffer == \A p \in DOMAIN file : PieceEnd(p) <= capacity

\* The dynamic section behind the code moves by one page at most: the pieces
\* of the file are all there exactly when the code is smaller than two pages.
CodeIntact == pc = "saved" => (DOMAIN file = Pieces <=> size < 2 * Page)

Fits == pc = "saved" /\ size < 2 * Page

Inside(p, s) == s.off <= file[p].off /\ PieceEnd(p) <= s.off + s.size

\* A file whose pieces are intact is described by its headers: the ELF header
\* finds the section table, each section covers its piece, and the segments
\* cover what has to be in memory.  The loader finds the relocations, the
\* strings and the words the first entry of the PLT uses (Elfer.cpp:53-54: 8
\* and 16 bytes into _GLOBAL_OFFSET_TABLE_, which is DT_PLTGOT) for code of
\* less than a page only: from there on DT_PLTRELSZ is what moves
\* (Elfer.cpp:311), and DT_PLTGOT stays behind.
HeadersAgree ==
    Fits =>
    LET header == file["header"].val
        segs   == file["phdrs"].val
        secs   == file["shdrs"].val
        dyn    == file["dynamic"].val
        plt    == file["plt"].val
        Mapped(p) == \E i \in DOMAIN segs :
            /\ segs[i].type = "load"
            /\ segs[i].off <= file[p].off
            /\ PieceEnd(p) <= segs[i].off + segs[i].filesz
    IN  /\ header.shoff = file["shdrs"].off /\ header.phoff = file["phdrs"].off
        /\ header.entry = StartOff + file["code"].off
        /\ \A p \in DOMAIN secs : Inside(p, secs[p])
        /\ secs["code"].size = file["code"].len
        /\ \A p \in Pieces \ {"shdrs"} : Mapped(p)
        /\ \A i \in DOMAIN segs : segs[i].off + segs[i].filesz <= capacity
        /\ dyn.jmprel = StartOff + file["rela"].off
        /\ dyn.strsz = file["strtab"].len
        /\ dyn.pltrelsz = file["rela"].len <=> size < Page
        /\ dyn.pltgot = secs["got"].addr <=> size < Page
        /\ plt.link = dyn.pltgot + 8 /\ plt.resolve = dyn.pltgot + 16 <=> size < Page

\* The jumps of the PLT go through the words the relocations fill, and until
\* they are filled come back to the PLT, behind the jump.
PltReachesGot ==
    Fits =>
    LET plt == file["plt"].val
        got == file["got"]
    IN  /\ plt.in = file["rela"].val[1] /\ plt.out = file["rela"].val[2]
        /\ plt.in = StartOff + got.off  /\ plt.out = StartOff + got.off + 8
        /\ \A i \in 1 .. 2 : got.val[i] = StartOff + Page + 6 + 16 * i

\* The data segment starts in the middle of a page and is mapped last: the
\* code runs to its end exactly when it stops short of that page.
CodeExecutable ==
    pc = "saved" =>
        ((\A page \in CodePages : Executable(page)) <=> size <= Page - PltSz + extra)

=============================================================================
