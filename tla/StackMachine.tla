---------------------------- MODULE StackMachine ----------------------------
(***************************************************************************)
(* The stack machine the asm backend writes for.  Its assembler and        *)
(* processor are not part of the repository: this is what the code of      *)
(* asm/Backend.cpp takes for granted of them.  Operands are popped from    *)
(* the stack, a call leaves its return address there, `jb`, `je` ... pop   *)
(* two words and compare the lower with the upper one, and words of memory *)
(* are addressed through a register.                                       *)
(*                                                                         *)
(* An instruction has an opcode, a register or condition, a number and a   *)
(* label.  What the machine cannot do (pop an empty stack, jump to a label *)
(* that is nowhere) stops it where it is.                                  *)
(***************************************************************************)
EXTENDS Integers, Sequences

CONSTANTS
    Base,           \* the address of END_OF_FILE, where the variables begin
    Junk,           \* what a word of memory holds that nobody has written
    Input           \* what the user types, a sequence of words; then zeros

VARIABLES
    code,           \* the program, a sequence of instructions
    m               \* the machine

NoLabel == [kind |-> "none", n |-> 0]
Label(kind, n) == [kind |-> kind, n |-> n]

Ins(op, x, v, l) == [op |-> op, x |-> x, v |-> v, l |-> l]
Push(v)      == Ins("push", "", v, NoLabel)
PushR(r)     == Ins("pushr", r, 0, NoLabel)
PushSum(r, v) == Ins("pushsum", r, v, NoLabel)      \* push r+v
PushM(r, v)  == Ins("pushm", r, v, NoLabel)         \* push [r+v]
PopR(r)      == Ins("popr", r, 0, NoLabel)
PopM(r, v)   == Ins("popm", r, v, NoLabel)          \* pop [r+v]
Alu(o)       == Ins("alu", o, 0, NoLabel)
Jmp(l)       == Ins("jmp", "", 0, l)
Jcc(c, l)    == Ins("jcc", c, 0, l)
Call(l)      == Ins("call", "", 0, l)
Lab(l)       == Ins("label", "", 0, l)
Op(op)       == Ins(op, "", 0, NoLabel)             \* ret, in, out, draw, hlt

(* calls records, for the properties, each call in progress: the return    *)
(* address, the base register and the height of the stack before it.       *)
PowerOn ==
    [pc |-> 1, stk |-> <<>>, reg |-> [ax |-> 0, bx |-> 0, dx |-> 0], ram |-> <<>>,
     read |-> 0, printed |-> <<>>, calls |-> <<>>, halted |-> FALSE]

Sum(o, a, b) ==
    CASE o = "add" -> a + b [] o = "sub" -> a - b [] o = "mul" -> a * b

Cond(c, a, b) ==
    CASE c = "b" -> a < b [] c = "be" -> a <= b [] c = "a" -> a > b
      [] c = "ae" -> a >= b [] c = "e" -> a = b [] c = "ne" -> a # b

ins     == code[m.pc]
At(op)  == ~m.halted /\ m.pc \in DOMAIN code /\ ins.op = op
Deep(k) == Len(m.stk) >= k                     \* k words can be popped
Word(k) == m.stk[Len(m.stk) - k]               \* the word k below the top
Less(k) == SubSeq(m.stk, 1, Len(m.stk) - k)    \* the stack after k pops

Addr    == m.reg[ins.x] + ins.v
Read(a) == IF a \in DOMAIN m.ram THEN m.ram[a] ELSE Junk
Wrote(a, v) == [b \in DOMAIN m.ram \union {a} |-> IF b = a THEN v ELSE m.ram[b]]

Defined(l) == {k \in DOMAIN code : code[k] = Lab(l)}

Goes(stk, pc) == m' = [m EXCEPT !.stk = stk, !.pc = pc]
Next1(stk)    == Goes(stk, m.pc + 1)
-----------------------------------------------------------------------------
DoPush    == At("push")    /\ Next1(Append(m.stk, ins.v))
DoPushR   == At("pushr")   /\ Next1(Append(m.stk, m.reg[ins.x]))
DoPushSum == At("pushsum") /\ Next1(Append(m.stk, Addr))
DoPushM   == At("pushm")   /\ Next1(Append(m.stk, Read(Addr)))
DoPopR == At("popr") /\ Deep(1)
          /\ m' = [m EXCEPT !.reg[ins.x] = Word(0), !.stk = Less(1), !.pc = @ + 1]
DoPopM == At("popm") /\ Deep(1)
          /\ m' = [m EXCEPT !.ram = Wrote(Addr, Word(0)), !.stk = Less(1), !.pc = @ + 1]
DoAlu  == At("alu") /\ Deep(2) /\ Next1(Append(Less(2), Sum(ins.x, Word(1), Word(0))))
DoJmp  == At("jmp") /\ \E k \in Defined(ins.l) : Goes(m.stk, k)
DoJcc  == /\ At("jcc") /\ Deep(2)
          /\ IF Cond(ins.x, Word(1), Word(0))
               THEN \E k \in Defined(ins.l) : Goes(Less(2), k)
               ELSE Next1(Less(2))
DoLabel == At("label") /\ Next1(m.stk)
DoCall == /\ At("call")
          /\ \E k \in Defined(ins.l) :
                m' = [m EXCEPT !.stk = Append(@, m.pc + 1), !.pc = k,
                               !.calls = Append(@, [ret |-> m.pc + 1, bx |-> m.reg.bx,
                                                    depth |-> Len(m.stk), to |-> ins.l])]
DoRet  == /\ At("ret") /\ Deep(1)
          /\ m' = [m EXCEPT !.pc = Word(0), !.stk = Less(1),
                            !.calls = SubSeq(@, 1, Len(@) - 1)]
DoIn   == /\ At("in")
          /\ m' = [m EXCEPT !.read = @ + 1, !.pc = @ + 1,
                            !.stk = Append(@, IF m.read < Len(Input) THEN Input[m.read + 1] ELSE 0)]
DoOut  == At("out") /\ Deep(1)
          /\ m' = [m EXCEPT !.printed = Append(@, Word(0)), !.stk = Less(1), !.pc = @ + 1]
DoDraw == At("draw") /\ Next1(m.stk)
DoHlt  == At("hlt") /\ m' = [m EXCEPT !.halted = TRUE]

Run == \/ DoPush \/ DoPushR \/ DoPushSum \/ DoPushM \/ DoPopR \/ DoPopM
       \/ DoAlu \/ DoJmp \/ DoJcc \/ DoLabel \/ DoCall \/ DoRet
       \/ DoIn \/ DoOut \/ DoDraw \/ DoHlt
=============================================================================
