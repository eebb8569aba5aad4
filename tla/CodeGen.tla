------------------------------ MODULE CodeGen ------------------------------
(***************************************************************************)
(* codeGen() of the x86_64 backend (Backend.cpp) together with one run of  *)
(* the code it emits.                                                      *)
(*                                                                         *)
(* The compiler walks a program tree recursively: `acts` is the stack of   *)
(* its activations, `used` is context->regStackUsed and `nf` is            *)
(* context->nf.  The instructions emitted by a step act at once on the     *)
(* machine `m`.  Where the code branches, the machine is saved in the      *)
(* activation and each arm starts from the saved machine; at the join one  *)
(* of the machines that can arrive there is chosen.                        *)
(*                                                                         *)
(* A program is a table of nodes in preorder, the root first.  A node has  *)
(* an operator, its children in source order (0 for a NULL pointer), the   *)
(* names it mentions and the last index of its subtree.  The children of a *)
(* call are the arguments that evaluteArguments generates code for: the    *)
(* leaves of the comma tree, without the NULL ones, which it passes over.  *)
(* Operators whose code differs in the opcode only are one operator here:  *)
(*   binary  ADD SUB MUL AND OR XOR   shift  SHL SHR   logic  LAND LOR     *)
(*   compare LESS .. NON_EQ           unary  NOT VAL                       *)
(*   post, pre  INC, DEC of a variable, postfix or prefix                  *)
(*   set, setmem  SET of a variable, of a memory word                      *)
(*   stray  COMMA F_ARG TERN_C NONE   unsup  BREAK RET OUTC DIFF           *)
(***************************************************************************)
EXTENDS StFrame

CONSTANTS
    Programs,       \* the node tables that may be compiled
    Word            \* 2^32: regStackUsed is an unsigned int

TwoOperand == {"binary", "shift", "div", "mod", "setmem"}
OneOperand == {"unary", "set", "var", "out"}
Leaves     == {"number", "ident", "addr", "in", "post", "pre"}
Ops        == TwoOperand \union OneOperand \union Leaves \union
              {"compare", "tern", "qq", "endl", "func", "call", "while",
               "logic", "unsup", "stray"}

Node == [op : Ops, kids : Seq(Nat), names : Seq(Names), last : Nat]

ASSUME WordAssumption    == Word \in Nat /\ Word > 2 * regStackSz
ASSUME ProgramAssumption ==
    /\ Programs \subseteq Seq(Node)
    /\ \A p \in Programs : p # <<>> /\ \A i \in DOMAIN p :
          /\ \A k \in DOMAIN p[i].kids : p[i].kids[k] \in 0 .. Len(p)
          /\ p[i].op = "var" => p[i].names # <<>>

VARIABLES
    tree,           \* the program being compiled
    status,         \* "run", "done", or how the compiler stopped
    acts,           \* activations of codeGen, innermost last
    used,           \* context->regStackUsed
    nf,             \* context->nf and its parents
    m               \* the machine the emitted code has run on so far

vars == <<tree, status, acts, used, nf, m>>

(* An activation: the node, where it stands, r1 as an index into regStack, *)
(* how many registers it spilled, the arguments a call has still to        *)
(* evaluate, whether the run-time tests made so far read the right value,  *)
(* and a saved machine.  used0, depth0 and frames0 record the entry state  *)
(* for the properties.                                                     *)
PCs == {"enter", "body", "left", "right", "test", "then", "else", "args",
        "push", "done"}

Activation ==
    [id : Nat, pc : PCs, r1 : 0 .. regStackSz - 4, pushed : Regs, argsLeft : Nat, ok : BOOLEAN,
     save : Machine, used0 : Nat, depth0 : Nat, frames0 : Nat]

NewAct(id, u, mm, f) ==
    [id |-> id, pc |-> "enter", r1 |-> 0, pushed |-> 0, argsLeft |-> 0,
     ok |-> TRUE, save |-> Blank, used0 |-> u, depth0 |-> Len(mm.stk),
     frames0 |-> Len(f)]

act    == acts[Len(acts)]
pc     == act.pc
r1     == act.r1
r2     == act.r1 + 1
r3     == act.r1 + 2
node   == tree[act.id]

\* The k-th child of node n, NULL if there is none.
Child(p, n, k) == IF k \in DOMAIN p[n].kids THEN p[n].kids[k] ELSE 0

KidOf(n, k) == Child(tree, n, k)
Kid(i)      == KidOf(act.id, i)

At(ops, p) ==
    /\ status = "run" /\ acts # <<>>
    /\ pc = p
    /\ act.id # 0 /\ node.op \in ops

\* Mutant of Less: the counter is signed.
LessSigned(u, k) == u - k

Less(u, k) == IF u >= k THEN u - k ELSE Word + u - k     \* unsigned u - k

Holds(mm, r, i) == mm.reg[r] = Val(i)

-----------------------------------------------------------------------------
(* The ways a step of an activation ends.                                  *)

Live(a, u, f, mm) ==
    /\ acts' = a /\ used' = u /\ nf' = f /\ m' = mm
    /\ UNCHANGED <<tree, status>>

\* codeGen(child), to continue the caller at `a`.
Gen(id, a, u, f, mm) ==
    Live(Append([acts EXCEPT ![Len(acts)] = a], NewAct(id, u, mm, f)), u, f, mm)

Resume(p) == [act EXCEPT !.pc = p]

\* The place after a run-time test that read the right value iff ok.
Fork(p, ok, mm) == [Resume(p) EXCEPT !.ok = ok, !.save = mm]

\* Mutant of Finish: the spilled registers are never popped.
FinishNoPop(u, f, mm) == Live([acts EXCEPT ![Len(acts)] = Resume("done")], u, f, mm)

\* The end of codeGen: a spilled activation moves its result up to
\* regStack[pushed] and pops the registers below it.
Finish(u, f, mm) ==
    LET n == act.pushed
    IN  /\ Live([acts EXCEPT ![Len(acts)] = Resume("done")], u,
                IF n = 0 THEN f ELSE Pushed(f, -n),
                IF n = 0 THEN mm ELSE PopRange(MovRR(mm, n, r1), 0, n - 1))

Stop(why) == status' = why /\ UNCHANGED <<tree, acts, used, nf, m>>

-----------------------------------------------------------------------------
(* Frames: createFrame, closeFrame, getVarCnt, functionEntryVars.          *)

\* getVarCnt does not look below these.
Opaque == {"var", "call", "func", "qq", "tern"}

getVarCnt(p, i) ==
    IF i = 0 THEN 0
    ELSE Cardinality({j \in i .. p[i].last :
            /\ p[j].op = "var"
            /\ \A k \in i .. j - 1 : j <= p[k].last => p[k].op \notin Opaque})

MinOf(a, b) == IF a <= b THEN a ELSE b

\* The words createFrame reserves for the variables of node i; a FUNC node
\* counts those of its body and its register parameters.
frameWords(p, i) ==
    IF p[i].op = "func"
      THEN getVarCnt(p, Child(p, i, 1)) + MinOf(6, Len(p[i].names))
      ELSE getVarCnt(p, i)

\* Mutant of OpenFrame: push rbp is not counted.
OpenFrameUncounted(f, u, n) == Append(f, createNF(FALSE, n, u))

\* createFrame with a parent: push rbp is counted, the saved registers are not.
OpenFrame(f, u, n) ==
    Append(Pushed(f, 1), createNF(FALSE, n, u))

\* Mutant of EnterFrame: RSP stays above the variables of the frame.
EnterFrameUnreserved(mm, u, n) == PushRange(Enter(mm), 1, u - 1)

EnterFrame(mm, u, n) ==
    Reserve(PushRange(Enter(mm), 1, u - 1), n)

\* Mutant of CloseFrame: the frame is not left.
CloseFrameKept(f) == Pushed(f, -1)

\* closeFrame with a parent: regStackUsed comes back from the frame.
CloseFrame(f) == Pushed(SubSeq(f, 1, Len(f) - 1), -1)

ClosedUsed(f) == f[Len(f)].regSaved

\* The saved registers are popped before rsp returns to rbp.
LeaveFrame(f, mm) ==
    LET n == f[Len(f)].regSaved
    IN  Unwind(IF n = 0 THEN mm ELSE PopRange(mm, 1, n - 1))

\* createFrame(NULL) of a function: no registers saved, regStackUsed kept.
\* functionEntryVars then names the parameters and stores the first six.
params == node.names

FunctionFrame ==
    LET bp     == (IF Len(params) > 6 THEN Len(params) - 6 ELSE 0) + 2
        off(i) == IF i <= 6 THEN -i ELSE i - 5
    IN  Append(Pushed(nf, 1),
               [createNF(TRUE, frameWords(tree, act.id), 0) EXCEPT
                   !.above = MinOf(6, Len(params)),
                   !.vars  = [i \in 1 .. Len(params) |->
                                 [name |-> params[i], off |-> off(i),
                                  decl |-> act.id + i, slot |-> bp - off(i)]]])

\* The machine at the entry of the function: arguments passed on the stack,
\* the return address, then what createFrame and functionEntryVars do.  The
\* parameters are the nodes that follow the FUNC node.
FunctionEntry(f) ==
    LET k == IF Len(params) > 6 THEN Len(params) - 6 ELSE 0
        called == [Blank EXCEPT !.stk =
            Append([i \in 1 .. k |-> Slot(act.id + Len(params) + 1 - i)], Ret)]
        inside == Reserve(Enter(called), f[Len(f)].nSub)
    IN  [inside EXCEPT !.stk = [d \in 1 .. Len(@) |->
            IF d - inside.bp \in 1 .. MinOf(6, Len(params))
              THEN Slot(act.id + d - inside.bp) ELSE inside.stk[d]]]

-----------------------------------------------------------------------------
(* codeGen: entry                                                          *)

\* A NULL tree is a zero in the next register.
GenNull ==
    /\ status = "run" /\ acts # <<>> /\ pc = "enter" /\ act.id = 0
    /\ IF used \in Regs
         THEN Live([acts EXCEPT ![Len(acts)] = Resume("done")], used + 1, nf,
                   Mov(m, used, Val(0)))
         ELSE Stop("crash")

\* With at least three registers left the node takes regStack[used] as r1.
Begin ==
    /\ At(Ops, "enter")
    /\ used <= regStackSz - 4
    /\ Live([acts EXCEPT ![Len(acts)] = [Resume("body") EXCEPT !.r1 = used]],
            used, nf, m)

\* Otherwise every register in use is pushed and the node starts from RAX.
\* (regStack[pushed] and the loop over regStack[i] must stay in the array.)
Spill ==
    /\ At(Ops, "enter")
    /\ used > regStackSz - 4
    /\ IF used \in Regs
         THEN Live([acts EXCEPT ![Len(acts)] = [Resume("body") EXCEPT !.pushed = used]],
                   0, Pushed(nf, used), PushRange(m, 0, used - 1))
         ELSE Stop("crash")

\* The call of codeGen returns to its caller.
Return ==
    /\ status = "run" /\ Len(acts) > 1 /\ pc = "done"
    /\ Live(SubSeq(acts, 1, Len(acts) - 1), used, nf, m)

\* backend(): closeFrame and exit after the root.
Exit ==
    /\ status = "run" /\ Len(acts) = 1 /\ pc = "done"
    /\ status' = "done"
    /\ acts' = <<>> /\ used' = 0
    /\ nf' = SubSeq(nf, 1, Len(nf) - 1) /\ m' = Unwind(m)
    /\ UNCHANGED tree

-----------------------------------------------------------------------------
(* codeGen: the operators with two operands                                *)

\* codeGen(left); codeGen(right).  CASE_CMP first leaves r1 for the result.
EvalLeft ==
    /\ At(TwoOperand \union {"compare"}, "body")
    /\ Gen(Kid(1), Resume("left"),
           IF node.op = "compare" THEN used + 1 ELSE used, nf, m)

EvalRight ==
    /\ At(TwoOperand \union {"compare"}, "left")
    /\ Gen(Kid(2), Resume("right"), used, nf, m)

BothIn(mm, a, b) == Holds(mm, a, Kid(1)) /\ Holds(mm, b, Kid(2))

CaseBinary ==
    /\ At({"binary"}, "right")
    /\ Finish(Less(used, 1), nf, Result(m, r1, act.id, BothIn(m, r1, r2)))

\* Mutant of CaseCompare: the register set aside for the result is not released.
CompareKeepsRegister ==
    /\ At({"compare"}, "right")
    /\ Finish(Less(used, 1), nf, Result(m, r1, act.id, BothIn(m, r2, r3)))

CaseCompare ==
    /\ At({"compare"}, "right")
    /\ Finish(Less(used, 2), nf, Result(m, r1, act.id, BothIn(m, r2, r3)))

\* The count must be in CL: r3 takes over from RCX, or RCX is saved.
ShiftCode ==
    IF r1 = RCX
      THEN LET a == MovRR(MovRR(m, r3, r1), r1, r2)
           IN  MovRR(Result(a, r3, act.id, BothIn(a, r3, RCX)), r1, r3)
      ELSE LET a == MovRR(Push(m, RCX), RCX, r2)
           IN  Pop(Result(a, r1, act.id, BothIn(a, r1, RCX)), RCX)

CaseShift ==
    /\ At({"shift"}, "right")
    /\ Finish(Less(used, 1), nf, ShiftCode)

\* idiv takes RDX:RAX and leaves the quotient in RAX, the remainder in RDX;
\* the result is moved out of them only when r1 is not RAX.
DivModCode(wanted) ==
    LET a == IF r2 = RDX THEN MovRR(m, r3, r2) ELSE m
        b == IF r1 # RDX THEN Push(a, RDX) ELSE a
        c == IF r1 # RAX THEN MovRR(Push(b, RAX), RAX, r1) ELSE b
        divisor == IF r2 # RDX THEN r2 ELSE r3
        good == BothIn(c, RAX, divisor)
        d == Mov(Result(c, wanted, act.id, good),
                 IF wanted = RAX THEN RDX ELSE RAX, Junk)
        e == IF r1 # RAX THEN Pop(MovRR(d, r1, wanted), RAX) ELSE d
    IN  IF r1 # RDX THEN Pop(e, RDX) ELSE e

CaseDivMod ==
    /\ At({"div", "mod"}, "right")
    /\ Finish(Less(used, 1), nf, DivModCode(IF node.op = "div" THEN RAX ELSE RDX))

\* mov [r1], r2: the address stays in r1 as the value of the assignment.
CaseSetMem ==
    /\ At({"setmem"}, "right")
    /\ Finish(Less(used, 1), nf, Result(m, r1, act.id, BothIn(m, r1, r2)))

-----------------------------------------------------------------------------
(* codeGen: the operators with one operand and the leaves                  *)

\* VAR registers its variable before the initial value is generated.
EvalOperand ==
    /\ At(OneOperand, "body")
    /\ Gen(Kid(1), Resume("right"), used,
           IF node.op = "var" THEN registerVar(nf, node.names[1], act.id, m.bp)
                              ELSE nf, m)

\* Mutant of CaseUnary: the operand's register is counted twice.
UnaryCountsTwice ==
    /\ At({"unary"}, "right")
    /\ Finish(used + 1, nf, Result(m, r1, act.id, Holds(m, r1, Kid(1))))

CaseUnary ==
    /\ At({"unary"}, "right")
    /\ Finish(used, nf, Result(m, r1, act.id, Holds(m, r1, Kid(1))))

\* SET and VAR: mov [rbp + getOffset(x)], r1
CaseStore ==
    /\ At({"set", "var"}, "right")
    /\ Finish(used, nf, Result(StoreVar(m, nf, node.names[1]), r1, act.id,
                               Holds(m, r1, Kid(1))))

\* ncc_out prints RDI and returns in RAX; it keeps neither of its scratch registers.
OutScratch == {RDI, RSI, RDX, RCX, R8, R11}
OutCode ==
    LET a == IF r1 # RDI THEN Push(m, RDI) ELSE m
        b == IF r1 # RAX THEN Push(a, RAX) ELSE a
        c == MovRR(b, RDI, r1)
        d == Result(Clobber(c, OutScratch), RAX, act.id, Holds(c, RDI, Kid(1)))
        e == MovRR(d, r1, RAX)
        g == IF r1 # RAX THEN Pop(e, RAX) ELSE e
    IN  IF r1 # RDI THEN Pop(g, RDI) ELSE g

CaseOut ==
    /\ At({"out"}, "right")
    /\ Finish(used, nf, OutCode)

\* ncc_in returns in RAX, the only register the code saves around it.
InScratch == {RDI, RSI, RDX, RCX, R11}
InCode ==
    LET a == IF r1 # RAX THEN Push(m, RAX) ELSE m
        b == MovRR(Result(Clobber(a, InScratch), RAX, act.id, TRUE), r1, RAX)
    IN  IF r1 # RAX THEN Pop(b, RAX) ELSE b

CaseIn ==
    /\ At({"in"}, "body")
    /\ Finish(used + 1, nf, InCode)

\* NUMBER is an immediate; ADDR is lea r1, [rbp + getOffset(x)].
CaseNumberAddr ==
    /\ At({"number", "addr"}, "body")
    /\ Finish(used + 1, nf, Result(m, r1, act.id,
           node.op = "addr" =>
               /\ Declared(nf, node.names[1])
               /\ Addressed(nf, m.bp, node.names[1]) =
                      Entry(nf, node.names[1]).slot))

CaseIdent ==
    /\ At({"ident"}, "body")
    /\ Finish(used + 1, nf, Result(m, r1, act.id, Readable(m, nf, node.names[1])))

\* Postfix: r2 takes the variable and is stored back; prefix: r1 itself.
CaseIncDec ==
    /\ At({"post", "pre"}, "body")
    /\ LET x == node.names[1]
           a == Result(m, r1, act.id, Readable(m, nf, x))
           b == IF node.op = "post" THEN Mov(a, r2, Junk) ELSE a
       IN  Finish(used + 1, nf, StoreVar(b, nf, x))

\* Mutant of CaseUnsupported: the operator is tried again.
UnsupportedRetried ==
    At({"unsup"}, "body") /\ Live([acts EXCEPT ![Len(acts)] = Resume("enter")], used, nf, m)

\* Operators the backend does not generate: an error is logged; BREAK, RET,
\* OUTC and DIFF return at once, the others leave the switch.
CaseUnsupported ==
    \/ At({"unsup"}, "body") /\ Live([acts EXCEPT ![Len(acts)] = Resume("done")],
                                     used, nf, m)
    \/ At({"stray"}, "body") /\ Finish(used, nf, m)

-----------------------------------------------------------------------------
(* codeGen: control flow                                                   *)

\* L; R -- the value of L is dropped and R must start from RAX again.
Endl ==
    \/ At({"endl"}, "body") /\ Gen(Kid(1), Resume("left"), used, nf, m)
    \/ /\ At({"endl"}, "left") /\ Kid(2) = 0
       /\ Finish(used, nf, Result(m, r1, act.id, Holds(m, r1, Kid(1))))
    \/ /\ At({"endl"}, "left") /\ Kid(2) # 0
       /\ IF Less(used, 1) = 0 THEN Gen(Kid(2), Resume("right"), 0, nf, m)
                               ELSE Stop("assert")
    \/ /\ At({"endl"}, "right")
       /\ Finish(used, nf, Result(m, r1, act.id, Holds(m, r1, Kid(2))))

\* createFrame(nf, owner), then codeGen(k) with `start` registers in use.
\* createFrame dereferences owner and reads regStack[1 .. u - 1].
GenInFrame(k, start, owner, a, u, f, mm) ==
    IF owner = 0 \/ u > regStackSz THEN Stop("crash")
    ELSE Gen(k, a, start, OpenFrame(f, u, frameWords(tree, owner)),
             EnterFrame(mm, u, frameWords(tree, owner)))

\* mov r1, rax; closeFrame
ArmResult(k, ok) ==
    LeaveFrame(nf, Result(m, r1, act.id, ok /\ Holds(m, RAX, k)))

Tern ==
    \/ At({"tern"}, "body") /\ Gen(Kid(1), Resume("test"), used, nf, m)
    \/ /\ At({"tern"}, "test")
       /\ GenInFrame(Kid(2), 0, Kid(2),
              Fork("then", Holds(m, r1, Kid(1)), m),
              Less(used, 1), nf, m)
    \/ /\ At({"tern"}, "then")
       /\ GenInFrame(Kid(3), 0, Kid(3),
              Fork("else", act.ok, ArmResult(Kid(2), act.ok)),
              ClosedUsed(nf), CloseFrame(nf), act.save)
    \/ /\ At({"tern"}, "else")
       /\ \E mm \in {act.save, ArmResult(Kid(3), act.ok)} :
             Finish(ClosedUsed(nf) + 1, CloseFrame(nf), mm)

\* L ?? R -- r1 is popped, tested, and kept if it is not zero.
Qq ==
    \/ At({"qq"}, "body") /\ Gen(Kid(1), Resume("test"), used, nf, m)
    \/ /\ At({"qq"}, "test")
       /\ LET a == Pop(m, r1)
          IN  GenInFrame(Kid(2), 0, act.id,
                  Fork("right", TRUE, Result(a, r1, act.id, Holds(a, r1, Kid(1)))),
                  Less(used, 1), Pushed(nf, -1), a)
    \/ /\ At({"qq"}, "right")
       /\ \E mm \in {act.save, ArmResult(Kid(2), TRUE)} :
             Finish(ClosedUsed(nf) + 1, CloseFrame(nf), mm)

\* LAND and LOR: the right operand is skipped when the left decides.  Both
\* tests release r1 and the join takes it again.
Logic ==
    \/ At({"logic"}, "body") /\ Gen(Kid(1), Resume("left"), used, nf, m)
    \/ /\ At({"logic"}, "left")
       /\ Gen(Kid(2), Fork("right", Holds(m, r1, Kid(1)), m),
              Less(used, 1), nf, m)
    \/ /\ At({"logic"}, "right")
       /\ \E mm \in {act.save, m} :
             Finish(used, nf,
                    Result(mm, r1, act.id, act.ok /\ Holds(m, r1, Kid(2))))

\* regStackUsed is raised by one for the condition, which so goes to RDI;
\* the body goes to RAX.  The loop is left from the first test or from a test
\* that follows a run of the body.
While ==
    \/ /\ At({"while"}, "body")
       /\ GenInFrame(Kid(1), 1, act.id, Resume("test"), used, nf, m)
    \/ /\ At({"while"}, "test")
       /\ Gen(Kid(2), Fork("right", Holds(m, RDI, Kid(1)), m),
              Less(used, 2), nf, m)
    \/ /\ At({"while"}, "right")
       /\ \E mm \in {act.save, Mov(m, RDI, Junk)} :
             Finish(ClosedUsed(nf), CloseFrame(nf),
                    Result(LeaveFrame(nf, mm), r1, act.id, act.ok))

\* A function is generated in place and jumped over; its body runs on the
\* machine of a caller.  The value of the definition is 0.
Func ==
    \/ /\ At({"func"}, "body")
       /\ Gen(Kid(1), Fork("right", TRUE, m), used, FunctionFrame,
              FunctionEntry(FunctionFrame))
    \/ /\ At({"func"}, "right")
       /\ LET returns == Top(Unwind(m)) = Ret /\ Holds(m, RAX, Kid(1))
          IN  Finish(1, CloseFrame(nf), Result(act.save, r1, act.id, returns))

\* CALL saves the registers in use, evaluates its arguments last to first and
\* pops the first six into the registers of the calling convention.
Args == node.kids
InRegs == MinOf(Len(Args), 6)

ArgsInPlace(mm) ==
    \A i \in 1 .. Len(Args) :
        Val(Args[i]) = IF i <= 6 THEN mm.reg[i] ELSE Under(mm, i - 7)

CallCode ==
    LET a == PopUp(m, 1, InRegs)
        b == MovRR(Result(Clobber(a, Regs), RAX, act.id, ArgsInPlace(a)), r1, RAX)
    IN  PopRange(IF Len(Args) > 6 THEN Drop(b, Len(Args) - 6) ELSE b, 1, r1)

Call ==
    \/ /\ At({"call"}, "body")
       /\ Live([acts EXCEPT ![Len(acts)] =
                   [Resume("args") EXCEPT !.argsLeft = Len(Args)]],
               0, Pushed(nf, r1), PushRange(m, 0, r1 - 1))
    \/ /\ At({"call"}, "args") /\ act.argsLeft > 0
       /\ Gen(Args[act.argsLeft],
              [Resume("push") EXCEPT !.argsLeft = @ - 1], used, nf, m)
    \/ /\ At({"call"}, "push")
       /\ IF Less(used, 1) \in Regs
            THEN Live([acts EXCEPT ![Len(acts)] = Resume("args")], Less(used, 1),
                      Pushed(nf, 1), Push(m, Less(used, 1)))
            ELSE Stop("crash")
    \/ /\ At({"call"}, "args") /\ act.argsLeft = 0
       /\ Finish(r1 + 1, Pushed(nf, -(InRegs + r1)), CallCode)

-----------------------------------------------------------------------------
Init ==
    /\ tree \in Programs
    /\ status = "run"
    /\ used = 0
    /\ nf = <<createNF(TRUE, frameWords(tree, 1), 0)>>
    /\ m = Reserve(Enter(Blank), frameWords(tree, 1))
    /\ acts = <<NewAct(1, 0, m, nf)>>

Step ==
    \/ GenNull \/ Begin \/ Spill \/ Return \/ Exit
    \/ EvalLeft \/ EvalRight
    \/ CaseBinary \/ CaseCompare \/ CaseShift \/ CaseDivMod \/ CaseSetMem
    \/ EvalOperand \/ CaseUnary \/ CaseStore \/ CaseOut
    \/ CaseIn \/ CaseNumberAddr \/ CaseIdent \/ CaseIncDec \/ CaseUnsupported
    \/ Endl \/ Tern \/ Qq \/ Logic \/ While \/ Func \/ Call

\* A compiler that has stopped stays stopped.
Stopped == status # "run" /\ UNCHANGED vars

Next == Step \/ Stopped

Spec     == Init /\ [][Next]_vars
FairSpec == Spec /\ WF_vars(Step)

-----------------------------------------------------------------------------
(* Properties                                                              *)

TypeOK ==
    /\ tree \in Seq(Node)
    /\ status \in {"run", "done", "assert", "crash"}
    /\ acts \in Seq(Activation)
    /\ used \in 0 .. Word - 1
    /\ nf \in Seq(Nameframe)
    /\ m \in Machine

\* An activation that has returned to its end, just before codeGen returns.
Returning == status = "run" /\ acts # <<>> /\ pc = "done"

\* codeGen leaves exactly one more register in use than it found
\* (context->regStackUsed), whatever it spilled, saved or opened meanwhile.
\* A loop uses none (Backend.cpp:361): nodes with a loop in them are left out.
HasLoop == act.id # 0 /\ \E j \in act.id .. node.last : tree[j].op = "while"
UsesOneRegister == Returning /\ ~HasLoop => used = act.used0 + 1

\* The value of the node is in the register its caller will look for it:
\* regStack[regStackUsed at entry] (Backend.cpp:99).
ResultInPlace == Returning => Holds(m, act.used0, act.id)

\* Operators that do not give back the stack words they were given: ?? pops r1
\* (Backend.cpp:261), and an operator that returns early keeps its spilled
\* registers (Backend.cpp:505-512).
Leaky == {"qq", "unsup"}

\* In a program without those, the code of a node pops exactly what it pushes,
\* on every path through it, spilled registers and saved frames included.
StackBalanced ==
    Returning /\ (\A i \in DOMAIN tree : tree[i].op \notin Leaky)
        => Len(m.stk) = act.depth0

\* Every frame a node opens it also closes.
FramesBalanced == Returning => Len(nf) = act.frames0

\* getOffset finds a visible variable where it was registered, however many
\* words have been pushed and frames opened since (StFrame.cpp:25-43).
OffsetsAgree ==
    status = "run" =>
        \A x \in Names : Declared(nf, x) =>
            Addressed(nf, m.bp, x) = Entry(nf, x).slot

\* A visible variable lies in the words createFrame reserved or in the words
\* its caller pushed, never at or beyond RSP where the next push overwrites it.
LocalsReserved ==
    status = "run" =>
        \A x \in Names : Declared(nf, x) => Entry(nf, x).slot \in 1 .. Len(m.stk)

\* The compiler neither stops at its own LOG_ASSERT(context->regStackUsed == 0)
\* in ENDL (Backend.cpp:282): a statement starts with no register in use; nor
\* follows a NULL node or indexes regStack past its end.
CompilesThrough == status \notin {"assert", "crash"}

\* The compiler gets to its end.
Terminates == <>(status # "run")
=============================================================================
