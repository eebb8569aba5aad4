------------------------------- MODULE Labels -------------------------------
(***************************************************************************)
(* Labels, jumps and functions of the x86_64 backend: LabelReserve,        *)
(* LabelRegister, functionRegister and functionGetL (StFrame.cpp), XJMP    *)
(* and XCALL (Operations.cpp) and UPDATE_ADDR (Backend.cpp), as the cases  *)
(* of codeGen use them.                                                    *)
(*                                                                         *)
(* `stack` holds the constructs whose code is being generated, innermost   *)
(* last; between two of its own steps a construct generates a subtree,     *)
(* which may be any instructions, calls and constructs.  `out` is the part *)
(* of BackendContext they write.  Instructions are known by their size,    *)
(* jumps by the offset of their end, which is what UPDATE_ADDR is given.   *)
(* What a case emits besides its jumps (tests, moves, saved registers) is  *)
(* next to one of its subtrees and is a step of Plain: among instructions  *)
(* that use no label only the number of bytes matters.                     *)
(***************************************************************************)
EXTENDS Integers, Sequences

CONSTANTS
    FuncIds,        \* names functions are defined and called by
    InstrSizes,     \* sizes of the instructions that are not jumps
    InitRoom,       \* labels the new buffer holds: 1024 / sizeof(size_t)
    MaxSize, MaxLabels, MaxDepth    \* bounds on a program

ASSUME LabelsAssumption ==
    /\ InstrSizes \subseteq Nat \ {0}
    /\ InitRoom \in Nat /\ InitRoom >= 2

VARIABLES
    pc,             \* "gen", "done", or "assert" where a LOG_ASSERT failed
    out,            \* the buffers
    stack           \* the open constructs

vars == <<pc, out, stack>>

(* What backend() and the frames of a construct emit around its code.      *)
OpenCode  == 11     \* push rbp; mov rbp, rsp; sub rsp, n
CloseCode == 4      \* mov rsp, rbp; pop rbp

(* place is the label buffer, on the labels registered so far; jumps and   *)
(* calls are the operands in binBuf by the end of their instruction.       *)
EmptyContext ==
    [size |-> OpenCode, labels |-> 1, room |-> InitRoom, place |-> <<>>,
     jumps |-> <<>>, calls |-> <<>>, funcs |-> <<>>]

Bind(f, x, v) == [y \in DOMAIN f \union {x} |-> IF y = x THEN v ELSE f[y]]

-----------------------------------------------------------------------------
(* The buffers.                                                            *)

Emit(c, n) == [c EXCEPT !.size = @ + n]

\* Mutant of Reserve: a second label is not counted.
ReserveOne(c, n) == [c EXCEPT !.labels = @ + 1]

\* LabelReserve takes the labels c.labels .. c.labels + n - 1.  The buffer is
\* doubled until they fit; for n <= 2 once is enough.
Reserve(c, n) ==
    [c EXCEPT !.labels = @ + n, !.room = IF c.labels + n > @ THEN 2 * @ ELSE @]

Register(c, l) == [c EXCEPT !.place = Bind(@, l, c.size)]

\* LabelGetOffs: an entry not yet written reads as 0 (the buffer is cleared;
\* every such operand but that of label 0 is patched before the code runs).
GetOffs(c, l) == IF l \in DOMAIN c.place THEN c.place[l] ELSE 0

\* Mutant of Jump: the offset counts from the start of the instruction.
JumpFromStart(c, len, l) ==
    [c EXCEPT !.size = @ + len,
              !.jumps = Bind(@, c.size + len, [label |-> l, disp |-> GetOffs(c, l) - c.size])]

\* xJmpC: len is 5 for jmp and 6 for a conditional jump.
Jump(c, len, l) ==
    LET afterIp == c.size + len
    IN  [c EXCEPT !.size = afterIp,
                  !.jumps = Bind(@, afterIp, [label |-> l, disp |-> GetOffs(c, l) - afterIp])]

\* UPDATE_ADDR: the jump that ends at `of` now leads to the end of the code.
Update(c, of) == [c EXCEPT !.jumps[of].disp = c.size - of]

\* Mutant of Entries: the names are not compared.
EntriesOfAll(c, id) == DOMAIN c.funcs

\* functionGetL: the first entry with the name, or 0.
Entries(c, id) == {i \in DOMAIN c.funcs : c.funcs[i].id = id}

functionGetL(c, id) ==
    IF Entries(c, id) = {} THEN 0
    ELSE c.funcs[CHOOSE i \in Entries(c, id) : \A j \in Entries(c, id) : i <= j].label

functionRegister(c, id, l) == [c EXCEPT !.funcs = Append(@, [id |-> id, label |-> l])]

\* Mutant of CallTo: its bytes are not counted.
CallToUncounted(c, id) ==
    LET l == functionGetL(c, id)
        afterIp == c.size + 5
    IN  [c EXCEPT !.calls = Bind(@, afterIp, [id |-> id, label |-> l,
                                              disp |-> GetOffs(c, l) - afterIp])]

\* xCallC
CallTo(c, id) ==
    LET l == functionGetL(c, id)
        afterIp == c.size + 5
    IN  [c EXCEPT !.size = afterIp,
                  !.calls = Bind(@, afterIp, [id |-> id, label |-> l,
                                              disp |-> GetOffs(c, l) - afterIp])]

-----------------------------------------------------------------------------
(* codeGen.  A construct remembers its first label and `of`, the end of    *)
(* the jump it still has to patch (0 if there is none).                    *)

Construct == [op : {"tern", "qq", "func", "while", "logic"},
              stage : {"left", "then", "right", "body"}, lbl : Nat, of : Nat]

Top == stack[Len(stack)]

InnerMost(op, stage) ==
    /\ pc = "gen" /\ stack # <<>>
    /\ Top.op = op /\ Top.stage = stage

Open(op, stage, l, of) ==
    Append(stack, [op |-> op, stage |-> stage, lbl |-> l, of |-> of])

Close == SubSeq(stack, 1, Len(stack) - 1)

Go(stage, of) == Append(Close, [Top EXCEPT !.stage = stage, !.of = of])

CanOpen(n) ==
    /\ pc = "gen" /\ Len(stack) < MaxDepth /\ out.labels + n <= MaxLabels
    /\ out.size <= MaxSize

Step(c, s) == out' = c /\ stack' = s /\ UNCHANGED pc

Init ==
    /\ pc = "gen"
    /\ out = EmptyContext
    /\ stack = <<>>

\* Instructions of the cases that use no label.
Plain ==
    /\ pc = "gen" /\ out.size <= MaxSize
    /\ \E n \in InstrSizes : Step(Emit(out, n), stack)

CaseCall ==
    /\ pc = "gen" /\ out.size <= MaxSize
    /\ \E id \in FuncIds : Step(CallTo(out, id), stack)

(* TERN_Q: the condition has been generated.                               *)
TernTest ==
    /\ CanOpen(2)
    /\ LET c == Jump(Reserve(out, 2), 6, out.labels)
       IN  Step(Emit(c, OpenCode), Open("tern", "then", out.labels, c.size))

TernElse ==
    /\ InnerMost("tern", "then")
    /\ LET c == Update(Register(Jump(Emit(out, CloseCode), 5, Top.lbl + 1), Top.lbl), Top.of)
       IN  Step(Emit(c, OpenCode), Go("right", c.size))

TernEnd ==
    /\ InnerMost("tern", "right")
    /\ Step(Update(Register(Emit(out, CloseCode), Top.lbl + 1), Top.of), Close)

(* QQ: the left operand has been generated.                                *)
QqTest ==
    /\ CanOpen(1)
    /\ LET c == Jump(Reserve(out, 1), 6, out.labels)
       IN  Step(Emit(c, OpenCode), Open("qq", "right", out.labels, c.size))

QqEnd ==
    /\ InnerMost("qq", "right")
    /\ Step(Update(Register(Emit(out, CloseCode), Top.lbl), Top.of), Close)

(* FUNC: the code of the body is jumped over.                              *)
\* Mutant of FuncBegin: the function is entered at the jump over its body.
FuncBeginEarly ==
    /\ CanOpen(2)
    /\ \E id \in FuncIds :
          LET l == out.labels
              c == functionRegister(Reserve(out, 2), id, l)
              d == Jump(Register(c, l), 5, l + 1)
          IN  IF functionGetL(c, id) # l
                THEN pc' = "assert" /\ out' = c /\ UNCHANGED stack
                ELSE Step(Emit(d, OpenCode), Open("func", "body", l, d.size))

\* functionRegister requires that the name is found again, with this label.
FuncBegin ==
    /\ CanOpen(2)
    /\ \E id \in FuncIds :
          LET l == out.labels
              c == functionRegister(Reserve(out, 2), id, l)
              d == Register(Jump(c, 5, l + 1), l)
          IN  IF functionGetL(c, id) # l
                THEN pc' = "assert" /\ out' = c /\ UNCHANGED stack
                ELSE Step(Emit(d, OpenCode), Open("func", "body", l, d.size))

\* Mutant of FuncEnd: the entry is registered again, behind the body.
FuncEndMovesEntry ==
    /\ InnerMost("func", "body")
    /\ LET c == Emit(out, CloseCode + 1)
       IN  Step(Update(Register(Register(c, Top.lbl), Top.lbl + 1), Top.of), Close)

\* closeFrame; ret
FuncEnd ==
    /\ InnerMost("func", "body")
    /\ Step(Update(Register(Emit(out, CloseCode + 1), Top.lbl + 1), Top.of), Close)

(* WHILE                                                                   *)
WhileBegin ==
    /\ CanOpen(2)
    /\ Step(Register(Emit(Reserve(out, 2), OpenCode), out.labels),
            Open("while", "left", out.labels, 0))

WhileTest ==
    /\ InnerMost("while", "left")
    /\ LET c == Jump(out, 6, Top.lbl + 1)
       IN  Step(c, Go("body", c.size))

WhileEnd ==
    /\ InnerMost("while", "body")
    /\ Step(Emit(Update(Register(Jump(out, 5, Top.lbl), Top.lbl + 1), Top.of), CloseCode), Close)

(* LAND and LOR differ in the condition and in the constants they leave at *)
(* the end: a zero takes an xor of 3 bytes, a one a mov of 7.              *)
LastMove == {3, 7}

LogicBegin ==
    /\ CanOpen(2)
    /\ Step(Reserve(out, 2), Open("logic", "left", out.labels, 0))

LogicTest ==
    /\ InnerMost("logic", "left")
    /\ LET c == Jump(out, 6, Top.lbl)
       IN  Step(c, Go("right", c.size))

\* Mutant of LogicEnd: the second test is not patched.
LogicEndOnce ==
    /\ InnerMost("logic", "right")
    /\ LET c == Jump(out, 6, Top.lbl)
           d == Jump(Emit(c, 7), 5, Top.lbl + 1)
           e == Update(Register(d, Top.lbl), Top.of)
       IN  \E n \in LastMove :
             Step(Update(Register(Emit(e, n), Top.lbl + 1), d.size), Close)

LogicEnd ==
    /\ InnerMost("logic", "right")
    /\ LET c == Jump(out, 6, Top.lbl)
           d == Jump(Emit(c, 7), 5, Top.lbl + 1)
           e == Update(Update(Register(d, Top.lbl), Top.of), c.size)
       IN  \E n \in LastMove :
             Step(Update(Register(Emit(e, n), Top.lbl + 1), d.size), Close)

\* backend(): closeFrame and exit
Finish ==
    /\ pc = "gen" /\ stack = <<>>
    /\ pc' = "done" /\ out' = Emit(out, CloseCode + 12)
    /\ UNCHANGED stack

Next ==
    \/ Plain \/ CaseCall
    \/ TernTest \/ TernElse \/ TernEnd
    \/ QqTest \/ QqEnd
    \/ FuncBegin \/ FuncEnd
    \/ WhileBegin \/ WhileTest \/ WhileEnd
    \/ LogicBegin \/ LogicTest \/ LogicEnd
    \/ Finish

Spec == Init /\ [][Next]_vars

-----------------------------------------------------------------------------
(* Properties                                                              *)

TypeOK ==
    /\ pc \in {"gen", "done", "assert"}
    /\ out.size \in Nat /\ out.labels \in Nat /\ out.room \in Nat
    /\ DOMAIN out.place \subseteq Nat /\ \A l \in DOMAIN out.place : out.place[l] \in 1 .. out.size
    /\ DOMAIN out.jumps \subseteq 1 .. out.size
    /\ DOMAIN out.calls \subseteq 1 .. out.size
    /\ \A e \in DOMAIN out.jumps : out.jumps[e].label \in Nat /\ out.jumps[e].disp \in Int
    /\ \A e \in DOMAIN out.calls : out.calls[e].label \in Nat /\ out.calls[e].disp \in Int
    /\ out.funcs \in Seq([id : FuncIds, label : Nat])
    /\ stack \in Seq(Construct)

\* The assertions of LabelRegister and LabelGetOffs (StFrame.cpp:131,137) and
\* the memory behind them: a label that is registered or jumped to has been
\* reserved, and the buffer has room for every reserved label.
LabelsReserved ==
    /\ out.labels <= out.room
    /\ \A l \in DOMAIN out.place : l < out.labels
    /\ \A e \in DOMAIN out.jumps : out.jumps[e].label < out.labels

Pending(e) == \E i \in DOMAIN stack : stack[i].of = e

\* Every jump leads to the place of its label, except those an open construct
\* still has to patch: forward and backward, whatever is nested in between.
JumpsLand ==
    \A e \in DOMAIN out.jumps :
        \/ Pending(e)
        \/ /\ out.jumps[e].label \in DOMAIN out.place
           /\ e + out.jumps[e].disp = out.place[out.jumps[e].label]

\* A call enters a function of its name, also from inside its body; a call
\* of a name not defined before it enters the program at its start.
CallsLand ==
    \A e \in DOMAIN out.calls :
        LET c == out.calls[e]
        IN  \/ c.label = 0 /\ e + c.disp = 0
            \/ /\ \E i \in DOMAIN out.funcs : out.funcs[i] = [id |-> c.id, label |-> c.label]
               /\ c.label \in DOMAIN out.place
               /\ e + c.disp = out.place[c.label]

\* The code of a complete function is entered by calls and left by ret only:
\* but for the jump over it, which ends at its entry, no jump crosses its ends.
FunctionsClosed ==
    \A i \in DOMAIN out.funcs : \A e \in DOMAIN out.jumps :
        LET l == out.funcs[i].label
            t == e + out.jumps[e].disp
        IN  l + 1 \in DOMAIN out.place /\ ~ Pending(e) /\ e # out.place[l] =>
                (e \in out.place[l] .. out.place[l + 1] <=>
                 t \in out.place[l] .. out.place[l + 1] - 1)

\* A label keeps its place, and an operand that is not pending its value:
\* UPDATE_ADDR never writes into the jump of another construct.
CodeFixed ==
    [][/\ \A l \in DOMAIN out.place :
             l \in DOMAIN out'.place /\ out'.place[l] = out.place[l]
       /\ \A e \in DOMAIN out.jumps :
             ~ Pending(e) => e \in DOMAIN out'.jumps /\ out'.jumps[e] = out.jumps[e]]_vars

=============================================================================
