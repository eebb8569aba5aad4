# NecroCC: models and proofs

NecroCC compiles a small expression language. `ncc.sh` runs a front end
(`.cht` source to a binary `.tree` file), the middle end (rewrites the `.tree`
in place) and one of two back ends (`asm`: text for a stack machine; `x86_64`:
an ELF file and a listing). Every step is a sequential program; they share
nothing but files. The repository has no tests. What it says about itself is
in `README.md`, `docs/`, the comments of `src/LangTree/LangTree.h` and its many
`LOG_ASSERT`s. `lib/` (logging, allocation) is not part of it: `LOG_ASSERT` is
taken to stop the program when its condition fails.

This directory models the way from the characters of a text to the tree a back
end reads; the asm back end, with the machine its code runs on; the x86_64 back
end in four parts: code generation (on a machine, with name frames), the labels
and jumps of the generated code, the bytes of its instructions, and the ELF file
around them; and the script that runs the programs one after the other. TLC
checks them on families of texts and programs and on code sizes around every
boundary; TLAPS proves what holds for every program, every size and every set of
files. What is left out is under "Not modelled".

## 1. Inventory

| Component | State | Operations | Correct when |
|---|---|---|---|
| tokeniser `Tokenisator.cpp` | text cursor, token buffer of `MAX_TOKEN_LEN`, identifier table, node list | `parseText`, `findKeyword` | every word of the text is in the list once, in order; equal words have equal ids; comments end |
| syntax analyser `SyntaxAnalyzer.cpp` | `Context` (cursor, size, root, nParsed) over the shared node list | one function per grammar rule, `getOprLadder` | accepts `docs/Grammar.md`, leaves the list intact when it backtracks, builds a tree whose nodes occur once |
| front end driver `Frontend.cpp` | – | parse; print a tree back | printing then parsing gives the tree back |
| language tree `Tree.cpp` | `NodeList` (array, size, capacity) | `nodeListPush`, `writeTree`, `readTree` | pointers into the array stay valid or are not used; read after write is the identity |
| middle end `middleend.cpp` | the node list | `diffTree`, `diff` | every DIFF node is replaced by the derivative of its operand |
| asm back end `asm/Backend.cpp` | name space chain, nesting depth | `codeGen`, `registerVar`, `getOffset`, `evaluteArguments` | every node leaves exactly one value; variables do not overlap |
| x86_64 code generator `x86_64/Backend.cpp` | `regStackUsed`, name frame chain, buffers | `codeGen`, `createFrame`, `closeFrame`, `functionEntryVars`, `evaluteArguments` | every node takes one register and leaves its value there; the stack and the compiler's picture of it agree |
| x86_64 name frames `StFrame.cpp` | `Nameframe` chain: table, `pushed`, `nSub`, `regSaved`, `above` | `createNF`, `registerVar`, `getOffset`, `getVarCnt` | a variable is found where it was put, in words reserved for it |
| labels and buffers `StFrame.cpp`, `Operations.cpp` | label buffer, code bytes, function table | `LabelReserve`, `LabelRegister`, `UPDATE_ADDR`, `functionGetL` | every jump and call lands on its label |
| instruction encoding `Operations.cpp` | – | one function per instruction | the bytes are the instruction of the listing |
| ELF writer `Elfer.cpp` | static header tables, growing buffer | `genElf`, `writeElf*` | file regions do not overlap and the headers describe them |
| runtime `ncclib2.s` | output buffer | `ncc_in`, `ncc_out` | keep the registers their callers rely on |
| driver `ncc.sh` | files on disk | option parsing, one call per step | never uses the output of an earlier compilation |

`src/main.cpp` is a stub and the binaries in `asm/` are prebuilt; both are left
out.

**Interactions.** The front end, the middle end and the back ends communicate
through the `.tree` file only. Files stay when a compilation is over, so one run of `ncc.sh`
can find those of another. Inside the x86_64 back end `codeGen` recurses
over the tree; all of its activations share `BackendContext` (`regStackUsed`,
`nf`, the buffers). An activation relies on a contract nobody checks: after
`codeGen(child)`, one more register is in use and it holds the child's value.
The emitted code in turn calls `ncc_in` and `ncc_out`.

**What is hard.** Inside a program nothing runs concurrently and nothing is
retried. What is hard is long legal sequences: the compiler's counters must
describe the stack of code that will run later, on every path through its
branches, although the compiler walks the two arms one after the other. The
limits (14 registers, 6 argument registers, 32 variables, an unsigned counter)
are where it breaks. Around the programs it is failure: `ncc.sh` asks whether a
file exists, not whether the program that should have written it succeeded, and
sources are edited while it runs.
`PROJECT.json` lists each hazard at its line.

## 2. Modules

| Module | Models |
|---|---|
| `Tokenisator` | `parseText` and `findKeyword`, one step for each turn of the loop |
| `Lexis` | what the tokens of a text are, said of the whole text: `Tokenisator` is compared with it |
| `Parser` | every rule of `SyntaxAnalyzer.cpp`, on the array of nodes it links in place |
| `Grammar` | `docs/Grammar.md`, which `Parser` is compared with: the trees a token sequence derives |
| `Printer` | `printNode`, which writes a tree as source text for `ncc.sh -r`, and which trees that loses |
| `FrontEnd` | tokens, analysis, the `.tree` file through front end and middle end to a back end or to `Printer` |
| `Meaning` | what a program means (`LangTree.h`), and the promise of a back end: to print that and stop |
| `StackMachine` | the machine the asm back end writes for (external) |
| `AsmCodeGen` | `asm/Backend.cpp`: the walk of `codeGen`, then a run of the code |
| `X86` | registers of `regStack`, the stack above its bottom, RBP; instructions by their effect |
| `StFrame` | `Nameframe`, `registerVar`, `getOffset`, the counting of `XPUSH`/`XPOP` |
| `CodeGen` | `codeGen` of the x86_64 back end as a transition system, with one run of the emitted code |
| `Labels` | label buffer, function table, jump and call operands; the cases of `codeGen` that use them |
| `Operations` | every function of `Operations.cpp`: the line and the bytes it writes |
| `Decoder` | how an x86-64 processor reads bytes (external) |
| `ElfLayout` | `genElf`: places and sizes of the pieces of the file |
| `Driver` | `ncc.sh`: files, steps, failing and interrupted programs, edits |
| `Releases` | what a user of `ncc.sh` may rely on: the specification `Driver` implements |
| `MCTokens`, `MCFrontEnd`, `MCAsm`, `MCCodeGen`, `MCLabels`, `MCOperations`, `MCElfLayout`, `MCDriver` | instances for TLC |
| `Shapes` | which programs the code generator keeps its count of registers for, by rules between a node and its operands |
| `Scopes` | which programs find their variables, by rules between the scope a node starts in, those of its operands and the one it leaves |
| `Stores` | which programs compute their values, by rules between the names stored in where a node starts and where it ends |
| `MCShapes` | shape, scopes and storing of every program of the run `values` |
| `CodeGenProofs`, `StackProofs`, `ValueProofs`, `LabelsProofs`, `ElfLayoutProofs`, `DriverProofs`, `TokenisatorProofs` | theorems |
| `WellOrder` | least and greatest elements, used where a proof would go by induction |

### How Tokenisator corresponds to the code

A character is a member of a small set, classed as the code classes it: letters
(`isalnum`, `_`), the quote, the symbols, and among them those that end a comment.
`at` is the cursor, 0 for NULL, one past the end for the terminating zero; `token` is the
array of that name. An action is one turn of the loop, with the branch it takes:
a quoted comment, the `meow` comment, a letter, a letter too many, a symbol. Reading
through NULL is `"crash"`. A token that fills the array has no terminating zero: what
`strcmp` and `strdup` see behind it is any of `Junk`. The keywords are the constant
`Dictionary`, so that an instance can have short ones; `findKeyword` is a lookup in it.

Worth knowing: the word at the end of the text is never pushed
(`Tokenisator.cpp:121`, only a symbol ends a word), so a source needs its last line
end. Digits in a row make one number. The keyword `meow` opens a comment according
to `docs/LangSyntax.md:11`, but behind `if(nxt && nxt < nxt2) text = nxt + 4` there is no
`else` (`:51-52`) and the token is not emptied: the loop looks for line ends until there is
none and reads through NULL, whatever the comment is like. This is a disagreement with the
document: no `meow` comment works, and no property takes the crash for right.
`strstr(text + 4, "meow")` (`:43`) may start behind the zero. What it finds decides nothing,
`text = nxt2` follows in any case; but the read itself may stop the program, the second
disjunct of `MeowComment`.

### How Parser and FrontEnd correspond to the code

A rule takes a context and returns one, as in C++, except that the array of nodes
travels with the context: in the code it is shared, so where a caller goes on with
its own copy after a failed attempt, the model takes the array from the attempt
(`Back`). `SetLeft`, `SetRight`, `Require` and `Return` leave a failed context alone, which
is the early return of the `REQUIRE` macros; `Match` and `Rungs` do not look, because
`getOpr` and `getOprLadder` do not. `nParsed` is kept as the code computes it, since `TRY`
and the precedence levels decide on its sign; its value is not a count of tokens
(an empty line leaves the caller's in place, a parenthesis counts three).

A token is its kind: the value of a number and the id of a name decide nothing
here. `Texts` are sequences of words each followed by a character that ends it:
what `Tokenisator` makes of the characters. Digits are words (`Dagon zhro` is 10), so
`Tokenise` merges them. A pointer is a position in the list: nodes are pushed by the
tokeniser, which holds no pointers, so nothing depends on where a reallocated list lies.
`Analyse` is `frontEnd` behind `parseText`: it pushes the closing node, runs `getG` and
draws the result before it looks at success; a NULL root fails `graphTree`'s
assertion (`"abort"`), a cycle makes `graphNode` recurse for ever (`"overflow"`). The middle
end reads and writes the tree; `diff` is never reached, because `Keywords.h` has no
word for DIFF (`README.md` promises Cthulhu). (If it were, it would change nothing: `diffTree` hands the DIFF
node itself to `diff`, which returns operators it does not know as they are.)

`Reverse` is the other way that `ncc.sh` can take with a tree file (`-r`): `printNode` turns it into a
text, and the model compiles that text next. `printed` remembers the tree it came from and, for each
word, the node it was printed for (the code has neither; only `PrintedReadsBack` looks at them).

### How CodeGen corresponds to the code

`acts` is the C++ call stack of `codeGen`: an activation has its node, the
place (`pc`) it is at, the index of `r1` in `regStack`, the number of registers
it spilled. `used` is `context->regStackUsed`, `nf` the chain of name frames
from the outermost to `context->nf` (a frame made with parent NULL is marked
`root`). An action is the code between two recursive calls of `codeGen`,
together with everything it emits. `Begin` and `Spill` are the entry of
`codeGen`, `GenNull` its NULL case, `Finish` the common end (including the
unspilling moves), `Return` the return to the caller, `Exit` the end of
`backend()`.

The emitted instructions run at once on the machine `m`. Values are symbolic:
`Val(i)` is "the value of node i", and an instruction sequence yields
`Val(i)` exactly when it finds the values of the children of `i` where it takes
its operands from. So `ResultInPlace` says that the emitted code computes the
tree, without arithmetic. A variable's storage holds `Slot(i)`, i its
declaration; a load finds the variable only if it reads the slot it was
registered for. What is below RSP is lost.

Branches: the machine at the branch is saved (`save`); each arm starts from it
and the join chooses one of the machines that can arrive. `ok` carries along
whether the tests made on the way read the right value. A loop is entered from
the test with the machine of its first pass, and left either at the first test
or after one pass of the body: later passes start from the same machine with
junk in the registers that a pass may change, so nothing new arrives at the
exit. A function body runs on a machine of its own, as a caller leaves it:
stack arguments, return address, parameters.

Decisions worth knowing:

* `evaluteArguments` adds two calls whose order C++ leaves open. The model takes
  `right` before `left`, which is what the order of pops at `Backend.cpp:329`
  needs.
* An access outside `regStack` and a NULL dereference stop the model
  (`"crash"`): what the build does after them is not described. A failed
  `LOG_ASSERT` on `regStackUsed` is `"assert"`.
* Operators that differ in the opcode only are one operator. LAND and LOR differ
  in the jump condition and two constants only and are one operator too.
* The kids of a call are its arguments that are not NULL: `evaluteArguments` passes over
  a NULL leaf of the comma tree (`Backend.cpp:565`).
* Trees have the shape the parser builds for each operator: the `LOG_ASSERT`s on
  the shape of a node (SET, VAR, TERN_Q) hold of them. Any child may be NULL.
* The value of `[p] fhtagn v` is the address, which is what the code leaves in
  r1; what memory holds is not modelled.
* Tables of names are unbounded (the code's hold 32 entries), and code
  addresses are left out: a jump goes where its label is.
* `VarOffset` carries the declaring node and the depth the offset meant when it
  was registered. `acts` carries entry values (`used0`, `depth0`, `frames0`).
  Nothing the model does depends on them, only properties do.
* `regStackUsed` wraps at `Word`, 2^32 in the code, 65536 in the runs: TLC's
  integers are 32-bit, and nothing the code does tells the two apart (any
  wrapped value is far outside `regStack`).

### How AsmCodeGen corresponds to the code

`todo` is what the activations of `codeGen` have still to do, the innermost first:
a node to generate code for, an instruction, an instruction with the place of a
variable (which is looked up only then: the table may have changed), the end of a
name space. `ns` is `context->ns` and its parents. One action takes the first item:
the case of a node replaces it with what that case does in order. When nothing is
left to do, the code runs on `StackMachine`; the last four instructions are those
`backend()` writes. Labels carry the number of the node instead of its address; those of a
function carry its name, as in the code (as the number of the first function of that name),
so two functions of one name would write a label twice.

`Meaning` follows the comments of `LangTree.h:29-85`: the operands of an operator from left
to right, both arms of a branch only when it is taken, a name in the scope it is
declared in, the parameters in a frame of their own. Numbers are the integers: the
width of a word of the machine is not known.

Programs are those on which the two agree. Left out, because the code does
something else: `||` (its end label is written under another name,
`asm/Backend.cpp:334`, so the jump to it goes nowhere); `L ?? R` (a non-zero L is popped
and R evaluated, a zero L stays, `:228-230`: the opposite of `LangTree.h:73`, for L of either
kind, `5 ?? 7` gives 7);
the value of a loop that makes no round (a word nobody has written); a call, declaration or
loop in an argument after the first (run `asm_arguments`). `||`, `??` and the operators the
back end does not support, which write a message and leave no value, occur where they are
not reached: their code is generated and never run.

### How Operations corresponds to the code

An action is one function: it appends its line to `asmBuf` and its bytes to
`binBuf`. The bytes are computed as in the code, bit by bit, the fields of ModRM and
the prefixes included; numbers are the four bytes of `PUT_ARG`. A line is kept as
its mnemonic and operands, with the function that wrote it. `Disassembly` reads
`binBuf` from the first byte on; an operand that is relative to the end of its
instruction is turned into a place in the code, so lines are about places too.

`Miscoded` names the lines that the bytes do not say: `lea` with exactly one of R8-R15
as base and target (the R and B bits are exchanged, `Operations.cpp:182`;
`Backend.cpp:478` uses it); RSP, R12 or R13 as base where the encoding has an extra
byte or none; arithmetic of a number on RAX, whose short form is written and then
the long one as well, for want of a `return` (`:417-425`); the condition `ns`, listed as
`nf`; a condition that is not a code (`LOG_ASSERT`ed elsewhere). `ListingIsProgram` says that
these are all.

### How Driver corresponds to the code

`tree[b]`, `asm[s]`, `prod[s]`, `elf[s]` are the files `BASE.tree`, `STEM.asm`, `STEM.out` and
`STEM`; `prod` also has those named after `-o`. A content is a source, a version of it and
whether it is complete. `KindOf` says what a version is like: correct, rejected by
the front end, or one the back ends abort on. An action is one program of the row
with the check of the script behind it; `Dies` and `Interrupt` cut a program short, with its
file as it was or truncated, and `Dies` goes on where the script does. The user edits
at any time. Sources of one name in different directories share all their
intermediate files.

The script itself is right about very little, and the properties say what is left:
`[[ ! -e "$tmpFile" ]]` (`ncc.sh:61`) is satisfied by a tree of an earlier compilation, so a
rejected source can end in a program of an older version, or of another source, with
no failure of the last steps; and `mv STEM.out OutFile` (`:86`) runs for x86_64 too, where it
moves a program the asm back end left behind. No line of the repository says what `-o` means for
x86_64, whose program is STEM wherever it was asked for, so no property asks what the moved
file is; `Monotone` says only that it is some STEM.out. Nothing looks at how the `mv` ends either:
`Move` may succeed, be skipped because both names are one, or leave everything as it is (no
STEM.out, the same file under another name, a place that cannot be written), which counts
as a program that failed.

### How Labels corresponds to the code

`out` is what the operations write of `BackendContext`: `size` is `binBuf.size`,
`place` the label buffer on the labels registered so far, `jumps` and `calls` the
32-bit operands in `binBuf`, each known by the offset of the end of its
instruction (the number `UPDATE_ADDR` is given), `funcs` the function table,
`room` the number of labels the buffer has memory for. `stack` holds the constructs
`codeGen` is inside of, with the local variables they keep across the recursive
calls: the first label (`lbl`) and the offset to patch (`of`). An action is what a
case does with labels between two recursive calls; the subtree generated there is
any sequence of other actions. So every nesting occurs, independently of what the
parser would build. Instructions without a label matter by their size only and
are steps of `Plain`; the last move of LAND has three bytes, that of LOR seven (`LastMove`).
`functionRegister`'s assertion ends the model in `"assert"`.

Code addresses in `CodeGen` are abstract (a jump goes where its label is).
`Labels` shows that this is what the bytes do: `JumpsLand` and `CallsLand` are the
assumption `CodeGen` makes about control flow, `FunctionsClosed` is why a function
body can run on a machine of its own there.

`TERN_Q` registers its first label with `LabelRegister`, not with the macro that also
prints it (`Backend.cpp:244`): the listing has no line for that label. Nothing
reads the listing.

### How ElfLayout corresponds to the code

One action per write of `genElf`, in its order, with the offset, the length and
the part of the contents that names other places. `file` holds the pieces that
nothing has overwritten. The sizes come from the tables; `extraSize` is
`bufSize & 0x1000`. The static tables are patched before the write and restored
after it, so an action writes the patched contents. `Covers` and `Executable` are the
kernel's loading of `PT_LOAD` segments: whole pages, in order, later ones on top.

## 3. What the runs check

| Run | Instance | Question |
|---|---|---|
| `tokens` | every text of up to 5 of 9 characters; up to 4 of 11 pieces | is the list what the text says |
| `frontend` | every text of up to three words, of four over those about backtracking; every construct; what of these is printed again | is the grammar accepted, is nothing lost, is a printed program the same program |
| `asm` | 1089 programs, in the main program, loops, functions, arguments | does the code print what the program means |
| `values` | `var x; b + (b + .. t)`, t of depth 2, b = 0..8 registers in use; each construct with each operand one level deep; calls with up to 6 arguments, functions of up to 8 parameters; loops | is the value where the caller takes it |
| `wild` | every operator at register depth 0..12 with NULL, undeclared, unsupported operands; spills in both operands | does the compiler keep its books whatever the program |
| `labels` | every nesting of constructs to depth three, six labels | do jumps land |
| `operations` | every function with every register and number, alone and in front of another | are the bytes the listing |
| `layout` | sizes around every boundary up to six pages | is the file described by its headers |
| `driver` | two sources of one name, two versions each, both back ends, `-o` | what do left over files do |
| `while_statement` | violates `CompilesThrough` | a loop, then a statement: WHILE does not count its result (`Backend.cpp:351`) |
| `call_operand` | violates `ResultInPlace` | `x / f(x)`: registers popped one too high, so `f(x) / x` is computed (`Backend.cpp:338`) |
| `asm_arguments` | violates `KeepsPromise` | `sum(x, 1, inc(x))`: the inner call writes over the arguments (`asm/Backend.cpp:477`) |

**`Tokenisator`** (run `tokens`): `TypeOK`, in particular the identifier table has room
for the next id and the cursor stays in the text; `TokensRight`, the list is the one
`Lexis` derives from the text, with equal ids for equal words and, for names as long as
the array, some id; `QuotesEnd`, a text without `meow` in which every `'...'` comment has its
end is read to its end: no NULL is followed; `Terminates`. Texts with a word that starts with
`meow` are run as well, but `QuotesEnd` leaves them out: the code crashes on all of them, against the
document. Removing `Meows(text) = {}` from the property makes TLC show it.

**`FrontEnd`** (run `frontend`):

* `TypeOK`: types; links lead to nodes; the list has room for one more node.
* `SentencesParse`: a sentence of `docs/Grammar.md` becomes a tree that the grammar
  derives for it, with operators associating to the right, as `getOprLadder` links them
  (`a - b - c` is `a - (b - c)`; the document does not say). Excepted are three kinds
  of sentences that the parser does not take: a postfix `x++` (`getUnary` returns the
  context from before the operator, `SyntaxAnalyzer.cpp:555`), a function without
  parameters (`:142`), a call below `!`, as in `! f()`: it is tried as the left side of an
  assignment first, and that turns the parenthesis into CALL for good (`:492`).
  Removing an exception from the property makes TLC show it.
* `EachTokenOnce`: whatever the text, what the front end hands on has every token at
  one place at most.
* `TreeArrives`: the tree a back end reads is the one the parser built.
* `PrintedReadsBack`: the text that `ncc.sh -r` writes for a tree without missing operands is read back as
  the same tree, node for node, if and only if no part of the tree is `Lost`. `PRIORITY` (`Frontend.cpp:72`) puts an operand
  in parentheses when its operator binds less tightly; it looks at ranks, not at sides. So
  `(a - b) - c` is printed as `a - b - c`, which is `a - (b - c)`; `-(a + b)` as `-a + b`; `(while(c) x) + y`
  with `+ y` in the body; and `OUT`, arguments and the left operand of ENDL are printed
  without parentheses at all, so that `f((a ; b))` is no program any more.

What is no sentence may still be accepted: `* x` is, with NULL as left operand, because
`getOprLadder` tests the wrong context (`:715`). Behind an operator, as in `x + * y`, the stale
root becomes the operand, which makes a cycle, and the front end recurses until it crashes.

**`AsmCodeGen`** (runs `asm`, `asm_arguments`):

* `KeepsPromise`: the code, run on the machine, implements `Meaning`: what is printed is what
  the program prints, word by word and in order, and the machine stops only when all of it is.
* `ReturnsToCaller`: every return goes to the call that entered the function, with `bx` and
  the height of the stack as the caller needs them; nothing is left on the stack at the end.
* `TypeOK`: every label a jump names is written once (`LabelsResolve`), and no name space outgrows
  its table (the programs include one that fills it: 31 parameters and the return address).
* `Terminates`: the code halts.

**`CodeGen`** (runs `values`, `wild`, `while_statement`, `call_operand`):

* `TypeOK`: types; in particular `regStackUsed` stays an unsigned int and r1, r2,
  r3 are inside `regStack`.
* `UsesOneRegister`: an activation leaves exactly one more register in use than
  it found.
* `ResultInPlace`: the value of the node is in `regStack[regStackUsed at entry]`.
* `StackBalanced`: in a program without `??` and unsupported operators the emitted
  code of a node leaves RSP where it found it.
* `FramesBalanced`: a node closes the frames it opens.
* `OffsetsAgree`: at every step `getOffset` of every visible name gives the slot
  it was registered for.
* `LocalsReserved`: every visible variable lies in words that are above RSP.
* `CompilesThrough`: the assertion of ENDL never fails; `regStack` is never indexed past
  its end and no NULL node is dereferenced.
* `Terminates`: the compiler reaches its end.

`values` finds a shape, scopes and a storing for each of its programs (`ValueProgramsStored`), so
what `CodeGenProofs`, `StackProofs` and `ValueProofs` show of such programs is said of all of these.

Not all of the properties hold of all programs. `values` draws the line between what works and
what does not. What it leaves out tells where the code is right: `?:`, calls, functions and
statements only where no register is in use; `in` with at most one and `out` with at most
two; `%` with at least one; no statement after a loop; no declaration inside a call
argument, an initial value or the condition of `?:`, which `getVarCnt` does not count.
The programs left out fail each for a reason of its own that adding it to a family makes
TLC show: `x % 1` (the quotient is kept when r1 is RAX, `Backend.cpp:186`); a statement
after an expression deep enough to spill (`regStackUsed` is left at 1, `:539`); `?:` as a right
operand (RAX is not saved around the arms, `:238`); `x ?? 1` (a stray pop, `:261`); `in` with
two registers in use (`ncc_in` changes RDI, `:487`); `?:` inside `?:` with two registers in use
(the saved registers are not counted, `StFrame.cpp:42`); a declaration in an arm of `?:` with a
register in use, `x + (x ? var y = 1 : x)` (the slot is one word below RSP, `StFrame.cpp:78`); `?:` after
a call with seven arguments (`:334` gives the seventh back without counting it, and the frame of the arm
looks for `x` one word too high).

**`Labels`** (run `labels`):

* `TypeOK`: in particular places and ends of jumps lie in the code.
* `LabelsReserved`: only reserved labels are registered or jumped to, and the
  buffer has room for them.
* `JumpsLand`, `CallsLand`: an operand that no open construct has still to patch
  leads to the place of its label; a call to a function of the name called, or,
  with label 0, to the start of the program. `functionRegister`'s assertion stops the
  compiler at the second function of a name, which the parser accepts.
* `FunctionsClosed`: no jump crosses the ends of a function but the one over it.
* `CodeFixed`: a placed label and a patched operand never change.

**`Operations`** (run `operations`): `ListingIsProgram`: read by a processor the bytes are the listing,
line by line, if and only if no line is in `Miscoded`.

**`ElfLayout`** (run `layout`):

* `TypeOK`, `InBuffer`: writes stay in the buffer, which is whole pages.
* `CodeIntact`: the file has all its pieces exactly when the code is smaller than
  two pages (8192 bytes). `extraSize` makes room for the second page only.
* `CodeExecutable`: the code can run to its end exactly when it is at most 4048 +
  `extraSize` bytes. So code of 4049..4095 bytes, and of 8145..8191, ends in the page
  the data segment takes over. Both are limits of the layout; nothing in the
  repository promises more.
* `HeadersAgree`, `PltReachesGot`: below two pages header, sections, segments, relocations, PLT and
  GOT slots describe the pieces where they are, but for two entries of the dynamic section,
  which are right exactly below one page: from 4096 bytes on `genElf` moves `DynTable[6]`
  (`DT_PLTRELSZ`) instead of `DynTable[5]` (`DT_PLTGOT`, `Elfer.cpp:311`), so the relocations have a wrong
  size and the words behind `DT_PLTGOT` are not those the PLT uses.

**`Driver`** (run `driver`):

* `InOrder`: of one source the tree is never older than the assembler file and the x86_64
  program, the assembler file never older than `STEM.out`, that never older than what was moved
  away from it; no file is newer than its source.
* `SuccessIsCurrent`: a run in which no program failed ends with a whole program of its own
  source, not older than the source was at the start.
* `Monotone`: as `Releases` has it, programs are what some source was at some time, and none is
  replaced by an older one of the same source; for `STEM.out` and the files of `-o`, and for `STEM`.
* `DeliversOrFails`: a run that starts delivers such a program or has a program that fails.
* `TypeOK`: in particular a step finds the file it reads.

**Refinement.** Two detailed models are shown to implement abstract ones: `AsmCodeGen` the
promise in `Meaning` (`KeepsPromise`, with `printed` and `over` read off the machine), and `Driver`
the shelf in `Releases` (`Monotone`, once with `shelf` = `prod`, once with `elf`).

**Bounds.** Tokenisator: the loop looks at one character, the token and the last node, so five
characters show each branch behind each other one and a token of three (the bound on its
length here) with something before and behind it; four pieces add rows of words and comments, a
number of four digits, and the growth of the table, which starts at 2 instead of 32. FrontEnd:
every text of up to three words over all words (one operator for each precedence level) and of up
to four over the words that rules start with and give up on; every pair of operands around every
operator, three operators in every order of precedence, every statement form around each operand and around
each operator with operands of three kinds, every two statement forms behind each other, so that each
rule occurs at the start, in the middle and at the end of each other; a construct
of each rank in parentheses on each side of each other, two deep for a loop and a difference.
A program of up to ten tokens (`MaxPrinted` counts the closing node, too) is printed and compiled again,
once: all of the short texts, and every pair of unary and binary operators.
`INIT_LIST_SZ` is 4 instead of 64, so that the list grows several times. AsmCodeGen: each operator
with each kind of operand (one that reads, writes, declares, calls, prints), in each place where
the frame differs; recursion to depth three, loops of up to three rounds. Operations: an
instruction has at most three operands; every register for each of them, and the least, greatest
and one-byte numbers. A second instruction shows that the decoder finds the start of the next.
Driver: two sources of one name with two versions each suffice for every order of two
compilations with an edit in between, and the state has no counter that goes on.
Labels: a construct takes at most two labels and interacts with the one
around it and the ones inside it, so three levels and six labels (label 0 and two
and a half constructs) show each construct inside and next to each other;
`MaxSize` lets a few plain instructions come between any two steps. The label
buffer starts with room for two labels instead of 128 and so grows twice. The
proofs have no such bounds. ElfLayout: sizes within 3 bytes of every page boundary up
to six pages, with and without the PLT, and of the dynamic section, where
the code begins to overlap it and where the buffer first grows.

CodeGen: `regStack` and the argument registers have their real sizes; b
reaches every value of `regStackUsed` (0..13), so every choice of r1, r2, r3 and
both sides of the spill condition occur. Behaviour of a node depends on its
children only through `used`, `nf` and `m`, so two levels of nesting reach every
pair (construct, construct inside it); a function or a loop
around an arm gives the third. Names: two variables and two parameters, so a lookup
can succeed in the innermost frame, in an outer one, or fail.

**Deadlock** is checked in the runs of `CodeGen`, `AsmCodeGen` and `Driver`: a compiler or machine that
has stopped stutters (`Stopped`, `Halted`), the user goes on. The others stop when the list, the
tree, the code or the file is complete, `Labels` and `Operations` also at their bounds.

**Fairness.** Each program is sequential, and the operating system runs it until it ends:
`WF_vars(Step)` in `CodeGen` and `WF_vars(Next)` in `Tokenisator` and `AsmCodeGen`, used by `Terminates`;
`KeepsPromise` and everything else is safety. In `Driver` the shell goes on with its next command when a
program has ended: `WF_vars(Script)`; nothing forces the user to start, edit or interrupt.

## 4. What is proved

For every value of `Programs` that satisfies `ProgramAssumption` (a non-empty
node table whose children are inside it, a name in every VAR node), every set of
names and every `Word` greater than twice the number of registers:

* `TypeCorrect`: `Spec => []TypeOK`;
* `FramesAlwaysBalanced`: `Spec => []FramesBalanced`.

Neither is inductive. `FramesBalanced` speaks of an activation about to return,
and `Step` actions that close a frame (`Tern`, `Qq`, `While`, `Func`) take it off
`nf` wherever they are. The invariant of the proof, `Inv` in `CodeGenProofs`,
adds for every activation how many frames it has open at its `pc` (`FrameOpen`,
`opened`), that an activation entered below it was entered with exactly the
frames of those above, and that what is stored in each activation is typed
(`ActOK`). So the innermost frame belongs to the activation that closes it, its
`regSaved` is within `regStack`, and a `Finish` leaves as many frames as were
found. Type correctness needs the same facts: `used` comes back from
`regSaved`, and `used` in `0 .. Word - 1` rests on `Less` and on a bound for what
one activation can add.

For every program that has a shape (`WellShaped`):

* `OneRegister`: `Spec /\ WellShaped(tree) => []UsesOneRegister`;
* `ShapedCompiles`: `Spec /\ WellShaped(tree) => []CompilesThrough`.

Without a condition on the program both are false: `while_statement` shows it for
a loop in front of a statement, and section 3 lists the others. A shape gives each node a
number of registers, `dep`, and says whether its code leaves a value, `one`; the rules of
`NodeShaped` relate a node to its operands only (a call is generated where no register is in
use, the right operand of `+` where one more is, a loop leaves no value). The invariant
`RegInv` is `Inv` and, for every activation, how many registers are in use at each place of
its case as a function of the shape (`InUse`), that an activation below another is for the operand
that one waits for, and that neither `"assert"` nor `"crash"` has been reached. A node that
spills leaves a count of one and has no shape: `dep` ends where spilling begins. A name frame restores the count that it saved (`regSaved`), so the book of an
activation with an open frame says what that is.

For every program that has a shape and scopes (`WellScoped`):

* `ScopedStackBalanced`: `Spec /\ WellScoped(tree) => []StackBalanced`;
* `ScopedOffsetsAgree`: `Spec /\ WellScoped(tree) => []OffsetsAgree`;
* `ScopedLocalsReserved`: `Spec /\ WellScoped(tree) => []LocalsReserved`.

A scope is what the compiler knows of the innermost frame at a place of the program: the words
taken, the words reserved, the names a lookup finds. `NodeScoped` gives each node the scope it
starts in and the one it leaves; the rules relate a node to its operands, and ask of the program what
the code takes for granted: a declaration has a word that `getVarCnt` counted, a store a name that
is declared. Four restrictions are there because the code is wrong without them, and section 3 shows
each: no `??`; frames of `?:` and loops only where no register is in use (`StFrame.cpp:42`); at most six
arguments (`Backend.cpp:334`); no declaration that was not counted. That a call has no NULL argument
is what the parser makes.

None of the three is inductive. What `getOffset` computes is right if the push counters of all frames on the
way are, and those are right if each frame was opened where RBP points now. So the invariant `StackInv`
is `RegInv` (with its shape) and, for some `b`, the depth of the stack at which each frame was opened (`Stands`):

* `Frames`: every variable of frame j lies in the words of the frame or with its arguments, at
  `b[j]` minus its offset; a frame that is no root starts where the counters of its parent say;
* `Fits`, `Linked`: RBP is at the last of `b`, and each frame up to the first root has the RBP of its
  parent saved at its bottom, so that `leave` goes back to it;
* `Counts`: RSP lies `pushed` words beyond the reserved ones;
* `Below`: each activation entered at the depth at which the one above it goes on (`Depth`, which counts
  what a call has pushed); where a branch or a function has a machine saved, that machine fits the frames it
  will be taken up in (`SavedFits`), and a frame yet to be closed goes back to the scope behind the node (`OpenedAt`);
* `Matches`: the compiler's frame is what the scope of the place says.

The proof has one lemma for each action or family of like actions (`BeginOn`, `LeafOn` .. `FuncOn`, `CallOn`, put
together in `NextOn`). What they say of variables rests on `HopsAre`: the sum that `getOffset` makes over the chain of frames is the difference of
the `b`s. It is the sum of a recursive function over the chain, so its proof takes the innermost
frame at which the two differ (`Greatest` of `WellOrder`) where one would go by induction.

For every program that has a shape, scopes and a storing (`WellStored`):

* `StoredResultInPlace`: `Spec /\ WellStored(tree) => []ResultInPlace`.

This is what the back end is for: every node's value is in the register its user takes it
from. A storing gives each node the names that hold a value where its code starts and where it ends.
`NodeStored` relates a node to its operands and asks that a name is read only if something has been stored
in it on every path. It does not count on what an arm of `?:`, a loop or a function stores, nor on
anything behind a right operand of `&&` or `||` that declares: the code may have gone past it. Three rules are
there because the code is wrong without them (section 3): `%` needs a register in use, `in` has at most one and
`out` at most two, a call none.

`ResultInPlace` speaks of an activation about to return; whether a value is still there depends on
everything generated since it was computed. The invariant `ValueInv` is `StackInv` (with its shape and
scopes) and, for some storing, `Worth`:

* `Outcome`: a value that has just been computed is in its register, at the return of the node and
  at the place where the node above takes it up;
* `HasStored`: the names of the storing are declared, and the word that `getOffset` leads to holds what was stored;
* `Needs`: for every activation, what it will find when it goes on: the left operand in its register (`HeldIn`), the
  pushed arguments in their words (`PlaceOf`), the return address in a function body, and the variables of
  the frames that were open before it opened its own (`Restores`);
* `Nested`: an activation entered later takes registers and words above those (`Within`), so nothing generated for it
  touches them (`LowerKept`);
* `SaveGood`: a machine saved at a branch satisfies what the one that runs does, for it will be taken up in its place;
* `Apart`, `Tidy`: no two variables of a frame share a word, and nothing but variables is in its words; so a store
  changes one variable (`StoreOver`), and a fresh word holds nothing that is taken for a value.

A function body runs on a machine of its own. `Shares` says which activations run on the same machine; of
those on another one nothing is asked until the body has been left. A lemma for each operator says what its code
does to the registers (`ShiftYields`, `DivModYields`, `InYields`, `OutYields`, `CallYields`), one for each
action what becomes of the invariant (`BeginWorth`, `LeafWorth` .. `FuncWorth`, `CallWorth`, put together in
`NextWorth`); `TopGround` carries everything about the activations below through a step that
keeps their registers and words.

The first lemmas of `CodeGenProofs` type the machine. `WellOrder` states that a
non-empty set of naturals has a least element and, if bounded, a greatest one;
it is derived from the well-founded minimum of the library and stands in for
induction over the chain of frames.

**Labels**, for every set of names, every instruction size, every bound on size,
labels and depth and any initial buffer of at least two labels
(`LabelsAssumption`): `LabelsTyped`, `LabelsAreReserved`, `PatchedJumpsLand`,
`CallsEnterFunctions`, `FunctionsStayClosed`, `PlacedCodeIsFixed`. `JumpsLand` alone is not inductive: it says nothing of
the jump an open construct will patch. The invariant `IInv` adds, for every open
construct, which of its labels are placed and that its pending jump names the
label it is about to register (`Held`), that the label ranges of constructs are
disjoint and ordered as the constructs are nested (`StackInv`), and that every
entry of the function table has a place. `Sound(c, P)` is what holds of the buffers while
the jumps in P are pending and `Extends` what an operation leaves alone; there is one
lemma for each operation (`EmitSound` .. `CallSound`), and the proof of a case
chains them (`Reach`, `ThenEmit` .. `ThenUpdate`). `FunctionsClosed` speaks of complete functions
only. While a function is open its entry is a watershed (`OpenAt`): jumps and labels from before it
lie below and are about lower labels, those since lie above and are about higher labels. When it is
closed, this gives what holds from then on (`ClosedAt`): no jump inside is pending, each leads inside, and no
jump outside and no label that an open construct has still to jump to is inside. Code emitted later lies
above and is about labels that are new or belong to an open construct (`Grows`, `Owned`), which keeps
`ClosedAt`.

**ElfLayout**, for every set of positive sizes: `LayoutTyped`, `WritesStayInBuffer`,
`FileCompleteBelowTwoPages`, `PltAndSlotsAgree`, `CodeExecutableUpToData`, `HeadersDescribeFile`. The invariant
says of each state of `genElf` which pieces are written, where, and which of them are
intact as a function of `size`.

**Driver**, for every number of sources, names and versions and any `KindOf` (`NameAssumption`,
`KindAssumption`, `VersionAssumption`): `TypeCorrect`, `OrderKept` (`Spec => []InOrder`), `SuccessCurrent`
(`Spec => []SuccessIsCurrent`) and `Refines` (`Spec => Monotone`). `InOrder` is inductive given the types:
every step writes one file, and there is one lemma for each kind of file (`OrderWriteTree` ..
`OrderMoveProd`, `OrderEdit`); `Cut` and the mutilated writes of `Dies` and `Interrupt` are cases of the same
lemmas, since truncation keeps source and version. `InOrder` is also what the refinement needs: what
is put on the shelf is `Latest` because the file it is made from is not older. `SuccessIsCurrent` is
not inductive: it speaks of the end. Its invariant says, for each place of the script, that in a run
without failure the file just written is a whole one of this source (`CleanInv`).

**Tokenisator**, for every set of characters, dictionary, sizes and texts: `TypeCorrect`.

Only model-checked: everything about `FrontEnd`, whose parser is recursive; `TokensRight` and
`QuotesEnd`, which compare with recursive definitions; everything about `AsmCodeGen`, as
`Meaning` is a recursive evaluator; `ListingIsProgram`, which computes with bits and reads a whole
program by recursion. `Terminates` and `DeliversOrFails` need fairness and ENABLED, which the prover does not
have; nor has it induction over data, so what a recursive definition computes for every input
cannot be proved.

## 5. Not modelled

* `diff` of the middle end: no keyword of the language makes a DIFF node, so no program
  reaches it.
* Names and digits in printed text: from the fourteenth name on it is `_14`, `_15` .. without a space
  behind, which runs into a keyword made of letters, and a number of ten digits does not fit
  `num[10]` (`Frontend.cpp:199`). Both go wrong wherever they occur.
* The limit of `varTable` in the x86_64 back end: `expandNS(0 * 2)` never grows it, and the 33rd
  variable of a frame is written behind it (`StFrame.cpp:74`), whatever happened before.
* The conversion of numbers and the output buffer in `ncclib2.s`; what memory holds behind
  `[p] fhtagn v` on x86_64; division, remainder and bitwise operators of the stack machine, whose
  width is not known.
* `src/main.cpp`, a stub; the assembler and processor in `asm/`, prebuilt, by what the code takes
  for granted of them only.
* Trees that are foreign or short: `readTree` asserts what it reads and stops.

## 6. What could come next

A refinement of `Meaning` by `CodeGen` as well: its values are symbolic now, and numbers
would make it comparable with `AsmCodeGen`, and `StoredResultInPlace` would then be the invariant of that
refinement. `Stores` could count on what both arms of `?:` store; that asks `Restores` for the
names stored at the end of the other arm.
