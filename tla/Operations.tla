----------------------------- MODULE Operations -----------------------------
(***************************************************************************)
(* The instructions of the x86_64 back end (Operations.cpp).  Each function*)
(* writes an instruction twice: as a line of the listing (ASM) and as      *)
(* bytes of the program (BIN).                                             *)
(***************************************************************************)
EXTENDS Decoder

CONSTANTS
    Registers(_),   \* the registers, numbers, places and conditions to try
    Numbers(_),     \* in the instruction behind the given number of others
    Places(_),
    FlagNames(_),
    MaxLines        \* bound on the instructions of a program

VARIABLES
    asmBuf,         \* the listing: lines, and what wrote them
    binBuf          \* the program
vars == <<asmBuf, binBuf>>

\* REGEXTR, REG3BIT, the prefix 0x48 with its R and B bits, and PUT_ARG: an
\* int in memory.  MAX_INT is what fits.
REGEXTR(r) == r \div 8
REG3BIT(r) == r % 8
Rex(reg, rm) == 72 + 4 * REGEXTR(reg) + REGEXTR(rm)
Pair(mod, reg, rm) == 64 * mod + 8 * REG3BIT(reg) + REG3BIT(rm)
PUT_ARG(c) == [k \in 1 .. 4 |-> (c \div 256 ^ (k - 1)) % 256]

(* ASM and BIN of one function. *)
Put(by, lines, bytes) ==
    /\ asmBuf' = asmBuf \o [k \in DOMAIN lines |-> [by |-> by, text |-> lines[k]]]
    /\ binBuf' = binBuf \o bytes
One(by, text, bytes) == Put(by, <<text>>, bytes)

\* getFlagName: the names of the conditions, but for one.
getFlagName(f) == IF f = "ns" THEN "nf" ELSE f
FLAFBIT(f) == Conditions[f]

xCqo == One("xCqo", <<"cqo">>, <<72, 153>>)
Prefix(r) == IF r < 8 THEN <<>> ELSE <<65>>
xPushR(r) == One("xPushR", <<"push", R64(r)>>, Prefix(r) \o <<80 + REG3BIT(r)>>)
xPopR(r) == One("xPopR", <<"pop", R64(r)>>, Prefix(r) \o <<88 + REG3BIT(r)>>)
xPushMRC(r, c) ==
    One("xPushMRC", <<"push", Mem(r, c)>>, Prefix(r) \o <<255, 176 + REG3BIT(r)>> \o PUT_ARG(c))
xPopMRC(r, c) ==
    One("xPopMRC", <<"pop", Mem(r, c)>>, Prefix(r) \o <<143, 128 + REG3BIT(r)>> \o PUT_ARG(c))

(* The instructions with two registers and one byte of opcode. *)
xBinaryRR(name, opcode, r1, r2) ==
    One("xBinaryRR", <<name, R64(r1), R64(r2)>>, <<Rex(r2, r1), opcode, Pair(3, r2, r1)>>)
TwoRegisters(r1, r2) ==
    \/ xBinaryRR("add", 1, r1, r2)
    \/ xBinaryRR("sub", 41, r1, r2)
    \/ xBinaryRR("or", 9, r1, r2)
    \/ xBinaryRR("and", 33, r1, r2)
    \/ xBinaryRR("xor", 49, r1, r2)
    \/ xBinaryRR("mov", 137, r1, r2)
xCmpRR(r1, r2) == xBinaryRR("cmp", 57, r1, r2)
xTestRR(r1, r2) == xBinaryRR("test", 133, r1, r2)
xIMulRR(r1, r2) ==
    One("xIMulRR", <<"imul", R64(r1), R64(r2)>>, <<Rex(r1, r2), 15, 175, Pair(3, r1, r2)>>)

(* The accumulator has forms of its own.  xCmpRC returns behind its short  *)
(* form; the others write seven bytes more from the same buffer, where the *)
(* opcode and the first byte of the number are by then those of the short. *)
Long(ext, r, c) == <<Rex(0, r), 129, Pair(3, ext, r)>> \o PUT_ARG(c)
Accumulator(opcode, c) == <<72, opcode>> \o PUT_ARG(c)
xCmpRC(r, c) ==
    /\ r \notin RSP .. RDI
    /\ One("xCmpRC", <<"cmp", R64(r), Num(c)>>,
           IF r = RAX THEN Accumulator(61, c) ELSE Long(7, r, c))
WithNumber(name, opcode, ext, r, c) ==
    One("WithNumber", <<name, R64(r), Num(c)>>,
        IF r = RAX
        THEN Accumulator(opcode, c) \o <<72, opcode, PUT_ARG(c)[1]>> \o PUT_ARG(c)
        ELSE Long(ext, r, c))
xAddRC(r, c) == WithNumber("add", 5, 0, r, c)
xSubRC(r, c) == WithNumber("sub", 45, 5, r, c)
xAndRC(r, c) == WithNumber("and", 37, 4, r, c)
xOrRC(r, c) == WithNumber("or", 13, 1, r, c)
xXorRC(r, c) == WithNumber("xor", 53, 6, r, c)
xMovRC(r, c) ==
    One("xMovRC", <<"mov", R64(r), Num(c)>>, <<Rex(0, r), 199, Pair(3, 0, r)>> \o PUT_ARG(c))

xExit ==
    Put("xExit",
        <<<<"xor", R64(RDI), R64(RDI)>>, <<"mov", R64(RAX), Num(60)>>, <<"syscall">>>>,
        <<72, 49, 255, 72, 199, 192, 60, 0, 0, 0, 15, 5>>)

(* Calls and jumps: ncc_in and ncc_out are entries of the PLT before the   *)
(* code (Elfer.cpp:58-65), a label is the place LabelGetOffs finds.        *)
afterIp(len) == Len(binBuf) + len
xIn == One("xIn", <<"call", Place(-32)>>, <<232>> \o PUT_ARG(-32 - afterIp(5)))
xOut == One("xOut", <<"call", Place(-16)>>, <<232>> \o PUT_ARG(-16 - afterIp(5)))
xOutC == Put("xOutC", <<<<"mov", R64(RAX), R64(RDI)>>, <<"out">>>>, <<72, 137, 248>>)
xCallC(l) == One("xCallC", <<"call", Place(l)>>, <<232>> \o PUT_ARG(l - afterIp(5)))
Jmp(l) == One("xJmpC", <<"jmp", Place(l)>>, <<233>> \o PUT_ARG(l - afterIp(5)))
xJmpC(f, l) ==
    One("xJmpC", <<"j", On(getFlagName(f)), Place(l)>>,
        <<15, 128 + FLAFBIT(f)>> \o PUT_ARG(l - afterIp(6)))
xRet == One("xRet", <<"ret">>, <<195>>)

xSetRNoPrefix(f, r) ==
    One("xSetR", <<"set", On(getFlagName(f)), R8bit(r)>>,
        (IF r >= 8 THEN <<64 + REGEXTR(r)>> ELSE <<>>)
        \o <<15, 144 + FLAFBIT(f), 192 + REG3BIT(r)>>)
xSetR(f, r) ==
    One("xSetR", <<"set", On(getFlagName(f)), R8bit(r)>>,
        (IF r >= RSP THEN <<64 + REGEXTR(r)>> ELSE <<>>)
        \o <<15, 144 + FLAFBIT(f), 192 + REG3BIT(r)>>)

xIncR(r) == One("xIncR", <<"inc", R64(r)>>, <<Rex(0, r), 255, Pair(3, 0, r)>>)
xDecR(r) == One("xDecR", <<"dec", R64(r)>>, <<Rex(0, r), 255, Pair(3, 1, r)>>)
xIDivR(r) == One("xIDivR", <<"idiv", R64(r)>>, <<Rex(0, r), 247, Pair(3, 7, r)>>)
xShlRR(r) == One("xShlRR", <<"shl", R64(r), R8bit(RCX)>>, <<Rex(0, r), 211, Pair(3, 4, r)>>)
xShrRR(r) == One("xShrRR", <<"shr", R64(r), R8bit(RCX)>>, <<Rex(0, r), 211, Pair(3, 5, r)>>)

(* Memory.  A base RSP needs a byte of its own, RBP a displacement: of the *)
(* registers with the same three bits, R12 and R13, nothing is said.       *)
Based(opcode, reg, base, c) ==
    <<Rex(reg, base), opcode, Pair(2, reg, base)>>
    \o (IF base = RSP THEN <<36>> ELSE <<>>) \o PUT_ARG(c)
Bare(opcode, reg, base) ==
    <<Rex(reg, base), opcode>>
    \o CASE base = RBP -> <<Pair(1, reg, RBP), 0>>
         [] base = RSP -> <<Pair(0, reg, RSP), 36>>
         [] OTHER      -> <<Pair(0, reg, base)>>
xLeaRMRC(r1, r2, c) ==
    One("xLeaRMRC", <<"lea", R64(r1), Mem(r2, c)>>,
        <<Rex(r2, r1)>> \o Tail(Based(141, r1, r2, c)))
xMovRRM(r1, r2) == One("xMovRRM", <<"mov", R64(r1), Mem(r2, 0)>>, Bare(139, r1, r2))
xMovRMR(r1, r2) == One("xMovRMR", <<"mov", Mem(r1, 0), R64(r2)>>, Bare(137, r2, r1))
xMovRRMC(r1, r2, c) == One("xMovRRMC", <<"mov", R64(r1), Mem(r2, c)>>, Based(139, r1, r2, c))
xMovRMCR(r1, c, r2) == One("xMovRMCR", <<"mov", Mem(r1, c), R64(r2)>>, Based(137, r2, r1, c))

Init == asmBuf = <<>> /\ binBuf = <<>>

Next ==
    /\ Len(asmBuf) < MaxLines
    /\ LET n == Len(asmBuf)
       IN  \/ xCqo \/ xExit \/ xIn \/ xOut \/ xOutC \/ xRet
           \/ \E l \in Places(n) : xCallC(l) \/ Jmp(l) \/ \E f \in FlagNames(n) : xJmpC(f, l)
           \/ \E r \in Registers(n) :
                \/ xPushR(r) \/ xPopR(r) \/ xIncR(r) \/ xDecR(r)
                \/ xIDivR(r) \/ xShlRR(r) \/ xShrRR(r)
                \/ \E f \in FlagNames(n) : xSetR(f, r)
                \/ \E c \in Numbers(n) :
                     \/ xPushMRC(r, c) \/ xPopMRC(r, c) \/ xCmpRC(r, c) \/ xMovRC(r, c)
                     \/ xAddRC(r, c) \/ xSubRC(r, c) \/ xAndRC(r, c) \/ xOrRC(r, c)
                     \/ xXorRC(r, c)
                \/ \E r2 \in Registers(n) :
                     \/ TwoRegisters(r, r2) \/ xCmpRR(r, r2) \/ xTestRR(r, r2) \/ xIMulRR(r, r2)
                     \/ xMovRRM(r, r2) \/ xMovRMR(r, r2)
                     \/ \E c \in Numbers(n) :
                          xLeaRMRC(r, r2, c) \/ xMovRRMC(r, r2, c) \/ xMovRMCR(r, c, r2)

Spec == Init /\ [][Next]_vars

-----------------------------------------------------------------------------
(* The lines whose bytes are another instruction: lea with R8-R15 (its R   *)
(* and B bits are exchanged), R12 and R13 as bases where only RSP and RBP  *)
(* are thought of, RSP where not even that is, arithmetic on RAX with a    *)
(* number, and the two lines that are no assembly, "out" and "nf".         *)
Miscoded(line) ==
    LET t == line.text
        Base == LET o == IF t[2][1] = "mem" THEN t[2] ELSE t[3] IN o[2]
    IN  CASE line.by = "xLeaRMRC" -> Base = R12 \/ REGEXTR(Base) # REGEXTR(t[2][2])
          [] line.by \in {"xMovRRM", "xMovRMR"}   -> Base \in {R12, R13}
          [] line.by \in {"xMovRRMC", "xMovRMCR"} -> Base = R12
          [] line.by \in {"xPushMRC", "xPopMRC"}  -> Base \in {RSP, R12}
          [] line.by = "WithNumber" -> t[2] = R64(RAX)
          [] line.by = "xOutC"      -> t = <<"out">>
          [] line.by = "xSetR"      -> t[2] = None
          [] line.by = "xJmpC"      -> t[1] = "j" /\ t[2] = None
          [] OTHER -> FALSE

(* The bytes, read by the processor from the first on, are the listing,    *)
(* line by line, if and only if no line is miscoded: registers by their    *)
(* four bits, addresses by base and displacement, calls and jumps by where *)
(* they arrive, whatever stands before and behind them.                    *)
ListingIsProgram ==
    Disassembly(binBuf) = [k \in DOMAIN asmBuf |-> asmBuf[k].text]
        <=> \A k \in DOMAIN asmBuf : ~ Miscoded(asmBuf[k])
=============================================================================
