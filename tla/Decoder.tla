------------------------------ MODULE Decoder ------------------------------
(***************************************************************************)
(* How an x86-64 processor reads the bytes it is given: the part of the    *)
(* instruction set the compiler uses, in 64-bit mode.  External: what the  *)
(* encoders of Operations.cpp are compared with.                           *)
(***************************************************************************)
EXTENDS Integers, Sequences, TLC

Register == 0 .. 15
None == 16
RAX == 0
RCX == 1
RSP == 4
RBP == 5
RDI == 7
R12 == 12
R13 == 13

Byte == 0 .. 255

\* Operands.
R64(r)     == <<"reg", r>>
R8bit(r)   == <<"byte reg", r>>
HighOf(r)  == <<"bits 8..15 of reg", r>>
Num(c)     == <<"imm", c>>
Place(p)   == <<"offset in the code", p>>
Mem(r, c)  == <<"mem", r, c>>
RipMem(c)  == <<"mem at rip", c>>
Indexed(base, index, c) == <<"mem indexed", base, index, c>>

\* What a condition is called; several names have one code.
Conditions ==
    [o |-> 0, no |-> 1, b |-> 2, c |-> 2, nae |-> 2, nb |-> 3, nc |-> 3, ae |-> 3,
     z |-> 4, e |-> 4, nz |-> 5, ne |-> 5, be |-> 6, na |-> 6, nbe |-> 7, a |-> 7,
     s |-> 8, ns |-> 9, p |-> 10, pe |-> 10, np |-> 11, po |-> 11,
     l |-> 12, nge |-> 12, nl |-> 13, ge |-> 13, le |-> 14, ng |-> 14, nle |-> 15, g |-> 15]

On(name) == IF name \in DOMAIN Conditions THEN Conditions[name] ELSE None

Bad == [text |-> <<"bad">>, len |-> 1]

(* The number in n bytes from byte i on, least significant byte first. *)
Signed8(s, i)  == IF s[i] < 128 THEN s[i] ELSE s[i] - 256
Signed32(s, i) == s[i] + 256 * s[i + 1] + 65536 * s[i + 2] + 16777216 * Signed8(s, i + 3)

Bits(n, low, width) == (n \div 2 ^ low) % 2 ^ width

(* The operand a ModRM byte at i describes, the register it names beside   *)
(* it, and the byte behind them; rex is 0 without a prefix.                *)
ModRM(s, i, rex) ==
    LET mod  == Bits(s[i], 6, 2)
        rm   == Bits(s[i], 0, 3)
        sib  == mod # 3 /\ rm = 4
        x    == 8 * Bits(rex, 1, 1)
        b    == 8 * Bits(rex, 0, 1)
        base == (IF sib THEN Bits(s[i + 1], 0, 3) ELSE rm) + b
        idx  == IF sib THEN Bits(s[i + 1], 3, 3) + x ELSE 4
        at   == IF sib THEN i + 2 ELSE i + 1
        bare == mod = 0 /\ base % 8 = 5
        off  == IF mod = 1 THEN Signed8(s, at)
                ELSE IF mod = 2 \/ bare THEN Signed32(s, at) ELSE 0
        next == at + (IF mod = 1 THEN 1 ELSE IF mod = 2 \/ bare THEN 4 ELSE 0)
    IN  [ext  |-> Bits(s[i], 3, 3),
         reg  |-> Bits(s[i], 3, 3) + 8 * Bits(rex, 2, 1),
         rm   |-> IF mod = 3 THEN R64(base)
                  ELSE IF bare /\ ~sib THEN RipMem(off)
                  ELSE IF idx # 4 THEN Indexed(IF bare THEN None ELSE base, idx, off)
                  ELSE Mem(IF bare THEN None ELSE base, off),
         base |-> base,
         next |-> IF mod = 3 THEN i + 1 ELSE next]

\* op r/m64, r64 and the accumulator and immediate forms of arithmetic.
Binary == [n \in {1, 9, 33, 41, 49, 57, 133, 137} |->
    CASE n = 1 -> "add" [] n = 9 -> "or" [] n = 33 -> "and" [] n = 41 -> "sub"
      [] n = 49 -> "xor" [] n = 57 -> "cmp" [] n = 133 -> "test" [] n = 137 -> "mov"]
Arith == [n \in {0, 1, 4, 5, 6, 7} |->
    CASE n = 0 -> "add" [] n = 1 -> "or" [] n = 4 -> "and"
      [] n = 5 -> "sub" [] n = 6 -> "xor" [] n = 7 -> "cmp"]
OneOperand ==
    (143 :> (0 :> "pop")) @@ (211 :> (4 :> "shl" @@ 5 :> "shr")) @@ (247 :> (7 :> "idiv"))
    @@ (255 :> (0 :> "inc" @@ 1 :> "dec" @@ 6 :> "push"))

(* The instruction of opcode s[i] behind the prefix rex, which starts at   *)
(* byte `from`.  Operands are 64 bits wide, and so must rex say.           *)
Opcode(s, from, i, rex) ==
    LET op   == s[i]
        wide == Bits(rex, 3, 1) = 1
        b    == 8 * Bits(rex, 0, 1)
        mrm  == ModRM(s, i + 1, rex)
        two  == ModRM(s, i + 2, rex)
        Is(text, next) == [text |-> text, len |-> next - from]
        Target(at) == Place(at + 3 + Signed32(s, at))
        BehindShift == IF op = 211 THEN <<R8bit(RCX)>> ELSE <<>>
    IN  CASE op \in 80 .. 87 -> Is(<<"push", R64(op - 80 + b)>>, i + 1)
          [] op \in 88 .. 95 -> Is(<<"pop", R64(op - 88 + b)>>, i + 1)
          [] op = 195 -> Is(<<"ret">>, i + 1)
          [] op = 232 -> Is(<<"call", Target(i + 1)>>, i + 5)
          [] op = 233 -> Is(<<"jmp", Target(i + 1)>>, i + 5)
          [] op = 153 /\ wide -> Is(<<"cqo">>, i + 1)
          [] op \in DOMAIN Binary /\ wide -> Is(<<Binary[op], mrm.rm, R64(mrm.reg)>>, mrm.next)
          [] op = 139 /\ wide -> Is(<<"mov", R64(mrm.reg), mrm.rm>>, mrm.next)
          [] op = 141 /\ wide -> Is(<<"lea", R64(mrm.reg), mrm.rm>>, mrm.next)
          [] op = 199 /\ wide /\ mrm.ext = 0 ->
                Is(<<"mov", mrm.rm, Num(Signed32(s, mrm.next))>>, mrm.next + 4)
          [] op = 129 /\ wide /\ mrm.ext \in DOMAIN Arith ->
                Is(<<Arith[mrm.ext], mrm.rm, Num(Signed32(s, mrm.next))>>, mrm.next + 4)
          [] op % 8 = 5 /\ op \div 8 \in DOMAIN Arith /\ wide ->
                Is(<<Arith[op \div 8], R64(RAX), Num(Signed32(s, i + 1))>>, i + 5)
          [] op \in DOMAIN OneOperand /\ mrm.ext \in DOMAIN OneOperand[op]
             /\ (wide \/ OneOperand[op][mrm.ext] \in {"push", "pop"}) ->
                Is(<<OneOperand[op][mrm.ext], mrm.rm>> \o BehindShift, mrm.next)
          [] op = 15 /\ s[i + 1] = 5 -> Is(<<"syscall">>, i + 2)
          [] op = 15 /\ s[i + 1] = 175 /\ wide -> Is(<<"imul", R64(two.reg), two.rm>>, two.next)
          [] op = 15 /\ s[i + 1] \in 128 .. 143 ->
                Is(<<"j", s[i + 1] - 128, Target(i + 2)>>, i + 6)
          [] op = 15 /\ s[i + 1] \in 144 .. 159 /\ s[i + 2] >= 192 ->
                Is(<<"set", s[i + 1] - 144,
                     IF rex = 0 /\ two.base \in 4 .. 7 THEN HighOf(two.base - 4)
                     ELSE R8bit(two.base)>>, i + 3)
          [] OTHER -> Bad

\* What lies behind the code is not part of it: bytes nothing is encoded by.
Behind == [k \in 1 .. 16 |-> 6]

Decode(s, i) ==
    IF s[i] \in 64 .. 79 THEN Opcode(s, i, i + 1, s[i]) ELSE Opcode(s, i, i, 0)

(* The instructions of the code from its first byte on. *)
Disassembly(code) ==
    LET s == code \o Behind
        From[i \in 1 .. Len(s) + 8] ==
            IF i > Len(code) THEN <<>>
            ELSE LET d == Decode(s, i) IN <<d.text>> \o From[i + d.len]
    IN  From[1]
=============================================================================
