----------------------------- MODULE AsmCodeGen -----------------------------
(***************************************************************************)
(* The backend for the stack machine (BackEnd/asm/Backend.cpp): the walk   *)
(* of codeGen over the tree, then a run of the code it has written.        *)
(*                                                                         *)
(* `todo` is what the activations of codeGen have still to do, the         *)
(* innermost first: a node to generate code for ("gen"), an instruction    *)
(* ("emit"), one with the place of a variable ("name"), the end of a name  *)
(* space that has a frame of its own ("leave") or of a function ("drop").  *)
(* `ns` is context->ns and its parents; a name space holds the names in    *)
(* its table, the k-th at offset (k - 1) * INT_SZ, and whether it has a    *)
(* parent.  Programs are those of Meaning; the labels of a node carry its  *)
(* number in place of its address, those of a function the number of the   *)
(* first function of its name in place of the name.                        *)
(***************************************************************************)
EXTENDS StackMachine

CONSTANT
    Programs        \* the node tables that may be compiled

INIT_SZ == 32       \* entries of a varTable
INT_SZ  == 4

VARIABLES
    tree,           \* the program being compiled
    todo,           \* what codeGen has still to do
    ns              \* context->ns, innermost last

vars == <<tree, todo, ns, code, m>>

Compiled == todo = <<>>

\* The opcodes of the binary operators; StackMachine runs the first three.
Opcode == [ADD |-> "add", SUB |-> "sub", MUL |-> "mul", DIV |-> "div", MOD |-> "mod",
           SHL |-> "shl", SHR |-> "shr", AND |-> "andb", OR |-> "orb", XOR |-> "xorb"]

\* The six comparisons: a routine of its own each, one tail for all.
Routines == <<[name |-> "LESS", jump |-> "b"], [name |-> "LESS_EQ", jump |-> "be"],
              [name |-> "GRTR", jump |-> "a"], [name |-> "GRTR_EQ", jump |-> "ae"],
              [name |-> "EQUAL", jump |-> "e"], [name |-> "NON_EQ", jump |-> "ne"]>>

Routine(k) ==
    <<Lab(Label(Routines[k].name, 0)), PopR("ax"),
      Jcc(Routines[k].jump, Label("TRUE", 0)), Jmp(Label("FALSE", 0))>>

Prelude ==
    <<Push(Base), PopR("bx"), Jmp(Label("MAIN", 0))>>
    \o Routine(1) \o Routine(2) \o Routine(3) \o Routine(4) \o Routine(5) \o Routine(6)
    \o <<Lab(Label("FALSE", 0)), Push(0), Jmp(Label("COMP_RET", 0)),
         Lab(Label("TRUE", 0)), Push(1), Lab(Label("COMP_RET", 0)), PushR("ax"), Op("ret"),
         Lab(Label("MAIN", 0))>>

Epilogue == <<Op("out"), Op("draw"), Op("in"), Op("hlt")>>

-----------------------------------------------------------------------------
(* Name spaces.                                                            *)

createNS(parent) == [parent |-> parent, names |-> <<>>]

registerVar(f, x) == [f EXCEPT ![Len(f)].names = Append(@, x)]

\* A mutant of Size: the last variable is not counted.
SizeShort(f) == (Len(f[Len(f)].names) - 1) * INT_SZ

Size(f) == Len(f[Len(f)].names) * INT_SZ

\* The place of the first entry of x in the table of frame k, or none.
Entries(f, k, x) == {i \in DOMAIN f[k].names : f[k].names[i] = x}

\* A mutant of getOffset: what the parent's frame takes is not subtracted.
getOffsetFlat(f, x) ==
    LET In[k \in 1 .. Len(f)] ==
            IF Entries(f, k, x) # {}
              THEN (CHOOSE i \in Entries(f, k, x) : \A j \in Entries(f, k, x) : i <= j) * INT_SZ
                   - INT_SZ
              ELSE IF ~f[k].parent THEN -1 ELSE In[k - 1]
    IN  In[Len(f)]

getOffset(f, x) ==
    LET In[k \in 1 .. Len(f)] ==
            IF Entries(f, k, x) # {}
              THEN (CHOOSE i \in Entries(f, k, x) : \A j \in Entries(f, k, x) : i <= j) * INT_SZ
                   - INT_SZ
              ELSE IF ~f[k].parent THEN -1
              ELSE In[k - 1] - Len(f[k - 1].names) * INT_SZ
    IN  In[Len(f)]

\* bx moves past the variables of the name space, and back.
FrameUp(f)   == <<PushR("bx"), Push(Size(f)), Alu("add"), PopR("bx")>>

FrameDown(f) == <<PushR("bx"), Push(Size(f)), Alu("sub"), PopR("bx")>>

-----------------------------------------------------------------------------
(* One step of codeGen.                                                    *)

Gen(i)        == [do |-> "gen", n |-> i]
Emit(i)       == [do |-> "emit", ins |-> i]
Named(i, x)   == [do |-> "name", ins |-> i, x |-> x]    \* i with the place of x
Drop          == [do |-> "drop"]
Leave         == [do |-> "leave"]

item   == Head(todo)
id     == item.n
node   == tree[id]
Kid(k) == Gen(node.kids[k])

\* A mutant of Here: the labels of all nodes are the same.
HereShared(kind) == Label(kind, 0)

Here(kind) == Label(kind, id)               \* the label kind_%p of the node
FunctionIds == {i \in DOMAIN tree : tree[i].op = "func"}
Func(kind, x) ==
    LET ids == {i \in FunctionIds : tree[i].arg = x}
    IN  Label(kind, CHOOSE i \in ids : \A j \in ids : i <= j)

Does(do) == ~Compiled /\ item.do = do
Case(op) == Does("gen") /\ id # 0 /\ node.op = op

\* The rest of the node's code, after the instructions out.
Go(items, f, out) ==
    /\ todo' = items \o Tail(todo)
    /\ ns' = f
    /\ code' = code \o out
    /\ UNCHANGED <<tree, m>>
Expand(items) == Go(items, ns, <<>>)
Out(out)      == Go(<<>>, ns, out)

EmitOne   == Does("emit") /\ Out(<<item.ins>>)
EmitNamed == Does("name") /\ Out(<<[item.ins EXCEPT !.v = getOffset(ns, item.x)]>>)
DropNS    == Does("drop") /\ Go(<<>>, SubSeq(ns, 1, Len(ns) - 1), <<>>)
LeaveNS   == Does("leave") /\ LET f == SubSeq(ns, 1, Len(ns) - 1)
                              IN  Go(<<>>, f, FrameDown(f))

NullNode  == Does("gen") /\ id = 0 /\ Out(<<Push(0)>>)
Number    == Case("number") /\ Out(<<Push(node.num)>>)
Ident     == Case("ident") /\ Expand(<<Named(PushM("bx", 0), node.arg)>>)
AddrCase  == Case("addr") /\ Expand(<<Named(PushSum("bx", 0), node.arg)>>)
Val       == Case("val") /\ Expand(<<Kid(1), Emit(PopR("dx")), Emit(PushM("dx", 0))>>)

Binary    == Case("binary") /\ Expand(<<Kid(1), Kid(2), Emit(Alu(Opcode[node.arg]))>>)
Compare   == Case("compare") /\ Expand(<<Kid(1), Kid(2), Emit(Call(Label(node.arg, 0)))>>)
Not       == Case("not") /\ Expand(<<Kid(1), Emit(Push(0)), Emit(Call(Label("EQUAL", 0)))>>)

\* A mutant of SetVar: the value stays on the stack, the variable as it was.
SetVarLost(x) == <<Emit(PopR("dx")), Emit(PushR("dx"))>>

SetVar(x) == <<Named(PopM("bx", 0), x), Named(PushM("bx", 0), x)>>
Set       == Case("set") /\ Expand(<<Kid(1)>> \o SetVar(node.arg))
SetMem    == /\ Case("setmem")
             /\ Expand(<<Kid(2), Kid(1), Emit(PopR("dx")), Emit(PopM("dx", 0)),
                         Emit(PushM("dx", 0))>>)

Step1 == <<Emit(Push(1)), Emit(Alu(IF node.num = 1 THEN "add" ELSE "sub"))>>
Post  == /\ Case("post")
         /\ LET x == node.arg
            IN  Expand(<<Named(PushM("bx", 0), x), Named(PushM("bx", 0), x)>> \o Step1
                       \o <<Named(PopM("bx", 0), x)>>)
Pre   == Case("pre") /\ Expand(<<Named(PushM("bx", 0), node.arg)>> \o Step1 \o SetVar(node.arg))

Tern == /\ Case("tern")
        /\ Expand(<<Kid(1), Emit(Push(0)), Emit(Jcc("e", Here("ELSE"))),
                    Kid(2), Emit(Jmp(Here("END_IF"))),
                    Emit(Lab(Here("ELSE"))), Kid(3), Emit(Lab(Here("END_IF")))>>)

\* The jump is taken when L is zero, and then L is the value; otherwise it is
\* popped and R is evaluated.
Qq   == /\ Case("qq")
        /\ Expand(<<Kid(1), Emit(PopR("dx")), Emit(PushR("dx")), Emit(PushR("dx")),
                    Emit(Push(0)), Emit(Jcc("e", Here("QQ_END"))), Emit(PopR("dx")),
                    Kid(2), Emit(Lab(Here("QQ_END")))>>)

Endl == /\ Case("endl")
        /\ Expand(<<Kid(1)>> \o IF node.kids[2] = 0 THEN <<>>
                                ELSE <<Emit(PopR("dx")), Kid(2)>>)

Var  == /\ Case("var")
        /\ Go(<<Kid(1)>> \o SetVar(node.arg), registerVar(ns, node.arg), <<>>)

\* The parameters come first, then the return address, under the name -1.
RetAddr == "-1"

\* A mutant of Func0: the return address is registered twice.
Func0Twice == [createNS(FALSE) EXCEPT !.names = node.params \o <<RetAddr, RetAddr>>]

Func0 == [createNS(FALSE) EXCEPT !.names = Append(node.params, RetAddr)]
FuncCase ==
    /\ Case("func")
    /\ LET f == Append(ns, Func0)
       IN  Go(<<Kid(1), Named(PushM("bx", 0), RetAddr), Emit(Op("ret")),
                Emit(Lab(Func("FUNC_END", node.arg))), Emit(PushSum("bx", id)), Drop>>,
              f,
              <<Jmp(Func("FUNC_END", node.arg)), Lab(Func("FUNC_BEG", node.arg)),
                PopM("bx", getOffset(f, RetAddr))>>)

\* Each argument goes straight to its place in the callee's frame.
Arguments ==
    LET Upto[k \in 0 .. Len(node.kids)] ==
            IF k = 0 THEN <<>>
            ELSE Upto[k - 1] \o <<Kid(k), Emit(PopM("bx", (k - 1) * INT_SZ))>>
    IN  Upto[Len(node.kids)]

CallCase ==
    /\ Case("call")
    /\ Go(Arguments \o <<Emit(Call(Func("FUNC_BEG", node.arg))), Leave>>,
          Append(ns, createNS(TRUE)), FrameUp(ns))

\* The value of the last round is kept in the frame, under the name -2.
LoopVal == "-2"

While ==
    /\ Case("while")
    /\ Go(<<Kid(1), Emit(Push(0)), Emit(Jcc("e", Here("WHILE_END"))),
            Kid(2), Named(PopM("bx", 0), LoopVal), Emit(Jmp(Here("WHILE_BEG"))),
            Emit(Lab(Here("WHILE_END"))), Named(PushM("bx", 0), LoopVal), Leave>>,
          registerVar(Append(ns, createNS(TRUE)), LoopVal),
          Append(FrameUp(ns), Lab(Here("WHILE_BEG"))))

Land == /\ Case("land")
        /\ Expand(<<Kid(1), Emit(Push(0)), Emit(Jcc("e", Here("LAND_FALSE"))),
                    Kid(2), Emit(Push(0)), Emit(Jcc("e", Here("LAND_FALSE"))),
                    Emit(Push(1)), Emit(Jmp(Here("LAND_END"))),
                    Emit(Lab(Here("LAND_FALSE"))), Emit(Push(0)), Emit(Lab(Here("LAND_END")))>>)

\* LOR_TRUE is written twice, LOR_END never.
Lor  == /\ Case("lor")
        /\ Expand(<<Kid(1), Emit(Push(0)), Emit(Jcc("ne", Here("LOR_TRUE"))),
                    Kid(2), Emit(Push(0)), Emit(Jcc("ne", Here("LOR_TRUE"))),
                    Emit(Push(0)), Emit(Jmp(Here("LOR_END"))),
                    Emit(Lab(Here("LOR_TRUE"))), Emit(Push(1)), Emit(Lab(Here("LOR_TRUE")))>>)

InCase  == Case("in") /\ Out(<<Op("in")>>)
OutCase == /\ Case("out")
           /\ Expand(<<Kid(1), Emit(PopR("dx")), Emit(PushR("dx")), Emit(PushR("dx")),
                       Emit(Op("out"))>>)

\* BREAK, RET, OUTC, DIFF and operators out of place: a message, no code.
Unsupported == Case("unsup") /\ Out(<<>>)

CodeGen ==
    \/ EmitOne \/ EmitNamed \/ DropNS \/ LeaveNS
    \/ NullNode \/ Number \/ Ident \/ AddrCase \/ Val
    \/ Binary \/ Compare \/ Not \/ Set \/ SetMem \/ Post \/ Pre
    \/ Tern \/ Qq \/ Endl \/ Var \/ FuncCase \/ CallCase \/ While
    \/ Land \/ Lor \/ InCase \/ OutCase \/ Unsupported

-----------------------------------------------------------------------------
(* backend(): the routines, the code of the program, its end; then a run.  *)

Init ==
    /\ tree \in Programs
    /\ todo = <<Gen(1)>> \o [k \in DOMAIN Epilogue |-> Emit(Epilogue[k])]
    /\ ns = <<createNS(FALSE)>>
    /\ code = Prelude
    /\ m = PowerOn

RunCode == Compiled /\ Run /\ UNCHANGED <<tree, todo, ns, code>>
Halted  == m.halted /\ UNCHANGED vars

Next == CodeGen \/ RunCode \/ Halted

Spec == Init /\ [][Next]_vars /\ WF_vars(Next)

-----------------------------------------------------------------------------
(* Every label a jump or call names is written once, whatever is nested in *)
(* whatever; || is the exception (Backend.cpp:334).                        *)
LabelsResolve ==
    Compiled /\ m = PowerOn /\ (\A i \in DOMAIN tree : tree[i].op # "lor") =>
        \A k \in DOMAIN code :
            code[k].op \in {"jmp", "jcc", "call"} =>
                \E j \in Defined(code[k].l) : Defined(code[k].l) = {j}

(* Type correctness: a name space never outgrows the entries its table has *)
(* (it is never enlarged: capacity starts at 0 and is doubled), what runs  *)
(* has an instruction to run, and every label has its place.               *)
TypeOK ==
    /\ \A k \in DOMAIN ns : Len(ns[k].names) <= INIT_SZ /\ ns[k].parent \in BOOLEAN
    /\ m.pc \in DOMAIN code
    /\ m.halted \in BOOLEAN
    /\ ~Compiled => ns # <<>> /\ m = PowerOn
    /\ LabelsResolve

(* A function returns to the call that entered it: the word of its frame   *)
(* in which it keeps its return address (Backend.cpp:255-260) is never     *)
(* written by the frames of its loops and of the calls it makes.  It gives *)
(* bx back as it got it and leaves one word on the stack, a comparison one *)
(* word for two; at the end the stack holds the word of the last `in` only *)
(* and bx is where it was at the start.                                    *)
call == m.calls[Len(m.calls)]
ReturnsToCaller ==
    /\ At("ret") => Deep(1) /\ m.calls # <<>> /\ Word(0) = call.ret
    /\ At("ret") /\ m.calls # <<>> =>
        /\ m.reg.bx = call.bx
        /\ Len(m.stk) = call.depth + IF call.to.kind = "FUNC_BEG" THEN 2 ELSE 0
    /\ m.halted => Len(m.stk) = 1 /\ m.calls = <<>> /\ m.reg.bx = Base

(* Programs that stop when their meaning is followed stop when compiled.   *)
Terminates == <>m.halted
=============================================================================
