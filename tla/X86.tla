-------------------------------- MODULE X86 --------------------------------
(***************************************************************************)
(* The part of the x86-64 machine that the code emitted by the x86_64      *)
(* backend works on: the registers of regStack (named by their index in    *)
(* it, Backend.cpp:21), the stack and RBP.  Registers and stack slots hold *)
(* symbolic tokens: a value is named by the tree node that computes it, so *)
(* that "the sum is in RDI" can be told from "something is in RDI".        *)
(*                                                                         *)
(* The stack is the sequence of the words between its bottom and RSP, and  *)
(* RBP is the depth it points at.  A word below RSP is lost: it reads as   *)
(* junk if RSP is moved back over it.                                      *)
(***************************************************************************)
EXTENDS Integers, Sequences

\* Indices into regStack[] of the registers the code generator names.
RAX == 0
RDI == 1
RSI == 2
RDX == 3
RCX == 4
R8  == 5
R9  == 6
R11 == 9
regStackSz == 14
Regs == 0 .. regStackSz - 1

Token == {"val", "var", "bp", "ret", "junk"} \X Nat

Val(i)     == <<"val", i>>      \* the value of node i; Val(0): the NULL tree
Slot(i)    == <<"var", i>>      \* the storage of the variable declared by node i
SavedBp(d) == <<"bp", d>>       \* a pushed RBP that pointed at depth d
Ret        == <<"ret", 0>>      \* the return address of a call
Junk       == <<"junk", 0>>     \* anything else

Machine == [reg : [Regs -> Token], stk : Seq(Token), bp : Nat]

Blank == [reg |-> [r \in Regs |-> Junk], stk |-> <<>>, bp |-> 0]

-----------------------------------------------------------------------------
(* Instructions.                                                           *)

Mov(m, r, t)     == [m EXCEPT !.reg[r] = t]
MovRR(m, r1, r2) == Mov(m, r1, m.reg[r2])

Top(m)     == IF m.stk = <<>> THEN Junk ELSE m.stk[Len(m.stk)]
Drop(m, n) == [m EXCEPT !.stk = SubSeq(@, 1, IF n < Len(@) THEN Len(@) - n ELSE 0)]
Push(m, r) == [m EXCEPT !.stk = Append(@, m.reg[r])]
Pop(m, r)  == Drop(Mov(m, r, Top(m)), 1)

\* The word n places below the top (n = 0: the top).
Under(m, n) == IF n < Len(m.stk) THEN m.stk[Len(m.stk) - n] ELSE Junk

\* push regStack[lo], ..., regStack[hi]
PushRange(m, lo, hi) ==
    [m EXCEPT !.stk = @ \o [i \in 1 .. hi - lo + 1 |-> m.reg[lo + i - 1]]]

\* pop regStack[hi], regStack[hi - 1], ..., regStack[lo]
PopRange(m, lo, hi) ==
    Drop([m EXCEPT !.reg = [r \in Regs |->
             IF r \in lo .. hi THEN Under(m, hi - r) ELSE m.reg[r]]],
         hi - lo + 1)

\* Mutant of PopUp: the registers are popped in the wrong order.
PopUpReversed(m, lo, hi) == PopRange(m, lo, hi)

\* pop regStack[lo], regStack[lo + 1], ..., regStack[hi]
PopUp(m, lo, hi) ==
    Drop([m EXCEPT !.reg = [r \in Regs |->
             IF r \in lo .. hi THEN Under(m, r - lo) ELSE m.reg[r]]],
         hi - lo + 1)

\* A call that may change the registers in S.
Clobber(m, S) ==
    [m EXCEPT !.reg = [r \in Regs |-> IF r \in S THEN Junk ELSE m.reg[r]]]

\* The instructions that leave the value of node i in r, right iff ok.
Result(m, r, i, ok) == Mov(m, r, IF ok THEN Val(i) ELSE Junk)

\* mov [rbp - ...], t for each depth of D that is on the stack
Poke(m, D, t) ==
    [m EXCEPT !.stk = [d \in 1 .. Len(m.stk) |->
                           IF d \in D THEN t ELSE m.stk[d]]]

\* push rbp; mov rbp, rsp
Enter(m) ==
    [m EXCEPT !.stk = Append(@, SavedBp(m.bp)), !.bp = Len(m.stk) + 1]

\* sub rsp, 8 * n
Reserve(m, n) == [m EXCEPT !.stk = @ \o [i \in 1 .. n |-> Junk]]

\* mov rsp, rbp; pop rbp
Unwind(m) ==
    LET saved == IF m.bp \in 1 .. Len(m.stk) THEN m.stk[m.bp] ELSE Junk
    IN  [m EXCEPT !.stk = [d \in 1 .. (IF m.bp > 0 THEN m.bp - 1 ELSE 0) |->
                               IF d <= Len(m.stk) THEN m.stk[d] ELSE Junk],
                  !.bp  = IF saved[1] = "bp" THEN saved[2] ELSE 0]
=============================================================================
