------------------------------- MODULE Driver -------------------------------
(***************************************************************************)
(* The compiler driver ncc.sh: one compilation after the other, each a     *)
(* row of programs that hand a file to the next, while the user edits the  *)
(* sources.  The script looks whether a file is there, never whether the   *)
(* program before it succeeded, and removes none of them at the end (its   *)
(* last line is commented out).                                            *)
(*                                                                         *)
(* What a file holds is told by the version of the source it comes from    *)
(* and whether the file is complete; KindOf says of each version whether   *)
(* it is correct, makes a backend abort, or does not pass the front end.   *)
(* Each program is one step.  Any of them may be cut short, with the file  *)
(* it writes truncated: then the script goes on (the program died, or the  *)
(* disk is full: no fwrite is checked) or is gone as well (the user has    *)
(* stopped it).                                                            *)
(***************************************************************************)
EXTENDS Integers

CONSTANTS
    Sources,        \* the source files, by path
    Bases,          \* their names without directory
    Stems,          \* these without extension: STEM.asm, STEM.out, STEM
    Others,         \* the files named after -o, none of them STEM.out
    BaseOf,         \* ${File##*/} of each source
    StemOf,         \* ${baseName%.*} of each base
    MaxVer,         \* bound on the versions of a source
    KindOf,         \* what each version of each source is like
    None            \* no file

Kinds    == {"good", "aborts", "rejected"}      \* of a version of a source
Contents == [src : Sources, ver : 1 .. MaxVer, intact : BOOLEAN]
Places   == Stems \union Others
Backends == {"asm", "x86_64"}
Jobs     == [src : Sources, backend : Backends, out : Places]
PCs      == {"idle", "front", "middle", "back", "assemble", "move", "done"}

ASSUME NoneAssumption   == None \notin Contents
ASSUME VersionAssumption == MaxVer \in Nat \ {0}
ASSUME NameAssumption   ==
    /\ BaseOf \in [Sources -> Bases] /\ StemOf \in [Bases -> Stems]
    /\ Stems \cap Others = {}
ASSUME KindAssumption   == KindOf \in [Sources -> [1 .. MaxVer -> Kinds]]

VARIABLES
    ver,            \* the version of each source
    tree,           \* BASE.tree
    asm,            \* STEM.asm
    prod,           \* STEM.out and the files named after -o
    elf,            \* STEM, the program of the x86_64 backend
    pc, job,        \* the script
    asked,          \* for the properties: the version the source had at the start
    clean           \* and whether every program of this run, mv included, has succeeded

files == <<tree, asm, prod, elf>>
vars  == <<ver, tree, asm, prod, elf, pc, job, asked, clean>>

base == BaseOf[job.src]
stem == StemOf[BaseOf[job.src]]

Source(s)    == [src |-> s, ver |-> ver[s], intact |-> TRUE]
Kind(c)      == KindOf[c.src][c.ver]
Truncated(c) == [c EXCEPT !.intact = FALSE]

Files(t, a, p, e) == tree' = t /\ asm' = a /\ prod' = p /\ elf' = e
Goes(to, ok)      == pc' = to /\ clean' = (clean /\ ok)
Same              == UNCHANGED <<ver, job, asked>>

-----------------------------------------------------------------------------
\* The user saves a new version of a source.
Edit(s) ==
    /\ ver[s] < MaxVer
    /\ ver' = [ver EXCEPT ![s] = @ + 1]
    /\ UNCHANGED <<files, pc, job, asked, clean>>

\* ncc.sh -m backend -o out source; without -o the output is STEM.out.
Start(j) ==
    /\ pc = "idle"
    /\ j.out \in Others \union {StemOf[BaseOf[j.src]]}
    /\ job' = j /\ pc' = "front" /\ asked' = ver[j.src] /\ clean' = TRUE
    /\ UNCHANGED <<ver, files>>

\* Mutant: the front end is left out when there is a tree.
FrontEndOnce ==
    /\ pc = "front" /\ Same
    /\ \/ /\ tree[base] = None
          /\ Files([tree EXCEPT ![base] = Source(job.src)], asm, prod, elf)
       \/ tree[base] # None /\ UNCHANGED files
    /\ Goes("middle", TRUE)

\* The front end writes the tree of a correct source; then the script only
\* looks whether a tree is there.
FrontEnd ==
    /\ pc = "front" /\ Same
    /\ \/ /\ Kind(Source(job.src)) # "rejected"
          /\ Files([tree EXCEPT ![base] = Source(job.src)], asm, prod, elf)
          /\ Goes("middle", TRUE)
       \/ /\ Kind(Source(job.src)) = "rejected"
          /\ UNCHANGED files
          /\ Goes(IF tree[base] = None THEN "idle" ELSE "middle", FALSE)

\* Reads the tree and writes it back; stops at a truncated one (LOG_ASSERT).
MiddleEnd ==
    /\ pc = "middle" /\ Same
    /\ UNCHANGED files
    /\ Goes("back", tree[base].intact)

\* The asm backend opens its file before it generates code.
BackAsm ==
    /\ pc = "back" /\ job.backend = "asm" /\ Same
    /\ LET t == tree[base]
       IN  \/ /\ t.intact /\ Kind(t) # "aborts"
              /\ Files(tree, [asm EXCEPT ![stem] = t], prod, elf)
              /\ Goes("assemble", TRUE)
           \/ /\ t.intact /\ Kind(t) = "aborts"
              /\ Files(tree, [asm EXCEPT ![stem] = Truncated(t)], prod, elf)
              /\ Goes("assemble", FALSE)
           \/ /\ ~t.intact
              /\ UNCHANGED files
              /\ Goes(IF asm[stem] = None THEN "idle" ELSE "assemble", FALSE)

\* Mutant: the x86_64 backend is given the assembler file of an asm backend.
BackElfOfAsm ==
    /\ pc = "back" /\ job.backend = "x86_64" /\ Same
    /\ \/ asm[stem] # None /\ Files(tree, asm, prod, [elf EXCEPT ![stem] = asm[stem]])
       \/ asm[stem] = None /\ UNCHANGED files
    /\ Goes("move", asm[stem] # None)

\* The x86_64 backend writes its file when all is generated.
BackElf ==
    /\ pc = "back" /\ job.backend = "x86_64" /\ Same
    /\ LET t == tree[base]
       IN  \/ /\ t.intact /\ Kind(t) # "aborts"
              /\ Files(tree, asm, prod, [elf EXCEPT ![stem] = t])
              /\ Goes("move", TRUE)
           \/ /\ ~(t.intact /\ Kind(t) # "aborts")
              /\ UNCHANGED files
              /\ Goes("move", FALSE)

\* Mutant: the assembler writes the file after -o itself.
AssembleToOut ==
    /\ pc = "assemble" /\ Same
    /\ \/ /\ Files(tree, asm, [prod EXCEPT ![job.out] = asm[stem]], elf)
          /\ Goes("move", asm[stem].intact)
       \/ /\ ~asm[stem].intact
          /\ UNCHANGED files
          /\ Goes("move", FALSE)

\* The assembler, which is not part of the repository, may take a truncated
\* file or refuse it.
Assemble ==
    /\ pc = "assemble" /\ Same
    /\ \/ /\ Files(tree, asm, [prod EXCEPT ![stem] = asm[stem]], elf)
          /\ Goes("move", asm[stem].intact)
       \/ /\ ~asm[stem].intact
          /\ UNCHANGED files
          /\ Goes("move", FALSE)

\* Mutant: mv -n, which keeps a file that is there and does not fail.
MoveKeeps ==
    /\ pc = "move" /\ Same
    /\ \/ /\ job.out # stem /\ prod[stem] # None /\ prod[job.out] = None
          /\ Files(tree, asm, [prod EXCEPT ![job.out] = prod[stem], ![stem] = None], elf)
          /\ Goes("done", TRUE)
       \/ /\ job.out = stem \/ prod[job.out] # None
          /\ UNCHANGED files
          /\ Goes("done", TRUE)
       \/ /\ job.out # stem
          /\ UNCHANGED files
          /\ Goes("done", FALSE)

\* mv STEM.out OutFile, whichever backend has run.  It fails if there is no
\* STEM.out, if OutFile is another name of it or cannot be written; nothing
\* looks whether it did.
Move ==
    /\ pc = "move" /\ Same
    /\ \/ /\ job.out # stem /\ prod[stem] # None
          /\ Files(tree, asm, [prod EXCEPT ![job.out] = prod[stem], ![stem] = None], elf)
          /\ Goes("done", TRUE)
       \/ /\ job.out = stem
          /\ UNCHANGED files
          /\ Goes("done", TRUE)
       \/ /\ job.out # stem
          /\ UNCHANGED files
          /\ Goes("done", FALSE)

Done ==
    /\ pc = "done"
    /\ pc' = "idle" /\ UNCHANGED <<ver, files, job, asked, clean>>

-----------------------------------------------------------------------------
(* A program cut short: the file it was writing is truncated.              *)

After(p) ==
    CASE p = "front" -> "middle" [] p = "middle" -> "back" [] p = "assemble" -> "move"
      [] p = "back" -> IF job.backend = "asm" THEN "assemble" ELSE "move"

Cut ==
    \/ /\ pc = "front" /\ Kind(Source(job.src)) # "rejected"
       /\ Files([tree EXCEPT ![base] = Truncated(Source(job.src))], asm, prod, elf)
    \/ /\ pc = "middle" /\ tree[base].intact
       /\ Files([tree EXCEPT ![base] = Truncated(@)], asm, prod, elf)
    \/ /\ pc = "back" /\ job.backend = "asm" /\ tree[base].intact
       /\ Files(tree, [asm EXCEPT ![stem] = Truncated(tree[base])], prod, elf)
    \/ /\ pc = "back" /\ job.backend = "x86_64" /\ tree[base].intact
       /\ Files(tree, asm, prod, [elf EXCEPT ![stem] = Truncated(tree[base])])
    \/ /\ pc = "assemble"
       /\ Files(tree, asm, [prod EXCEPT ![stem] = Truncated(asm[stem])], elf)

\* Mutant: the script does not look whether the files are there.
DiesUnchecked ==
    /\ pc \in {"front", "middle", "back", "assemble"}
    /\ Cut \/ UNCHANGED files
    /\ Goes(After(pc), FALSE)
    /\ Same

\* The script goes on after a program that died, if the file it looks for is
\* there.
Dies ==
    /\ pc \in {"front", "middle", "back", "assemble"}
    /\ Cut \/ UNCHANGED files
    /\ Goes(IF \/ pc = "front" /\ tree'[base] = None
               \/ pc = "back" /\ job.backend = "asm" /\ asm'[stem] = None
            THEN "idle" ELSE After(pc), FALSE)
    /\ Same

\* The user stops the script, between two programs or in one.
Interrupt ==
    /\ pc \in PCs \ {"idle", "done"}
    /\ Cut \/ UNCHANGED files
    /\ Goes("idle", FALSE) /\ Same

-----------------------------------------------------------------------------
Init ==
    /\ ver = [s \in Sources |-> 1]
    /\ tree = [b \in Bases |-> None] /\ asm = [s \in Stems |-> None]
    /\ prod = [p \in Places |-> None] /\ elf = [s \in Stems |-> None]
    /\ pc = "idle" /\ job \in Jobs /\ asked = 1 /\ clean = TRUE

Script == FrontEnd \/ MiddleEnd \/ BackAsm \/ BackElf \/ Assemble \/ Move \/ Done

Next ==
    \/ \E s \in Sources : Edit(s)
    \/ \E j \in Jobs : Start(j)
    \/ Script \/ Dies \/ Interrupt

Spec == Init /\ [][Next]_vars

\* The shell goes on with its next command when a program has ended.
FairSpec == Spec /\ WF_vars(Script)

-----------------------------------------------------------------------------
(* Properties.                                                             *)

File == Contents \union {None}

\* Every variable keeps its type, and the script is past a step only with the
\* file that the next one reads.
TypeOK ==
    /\ ver \in [Sources -> 1 .. MaxVer]
    /\ tree \in [Bases -> File] /\ asm \in [Stems -> File]
    /\ prod \in [Places -> File] /\ elf \in [Stems -> File]
    /\ pc \in PCs /\ job \in Jobs /\ asked \in 1 .. MaxVer /\ clean \in BOOLEAN
    /\ pc # "idle" => job.out \in Others \union {stem}
    /\ pc \in {"middle", "back"} => tree[base] # None
    /\ pc = "assemble" => asm[stem] # None

\* d is not of the same source as c, or not younger.
NotAfter(d, c) == d # None /\ c # None /\ d.src = c.src => d.ver <= c.ver

\* Files that are left over from earlier, failed or stopped runs never get
\* ahead of the ones they are made from: of the same source the tree is at
\* least as new as the assembler file and the x86_64 program, the assembler
\* file as STEM.out, STEM.out as what has been moved away from it (ncc.sh uses
\* whatever files it finds).
TreeInOrder ==
    \A b \in Bases : tree[b] # None =>
        /\ BaseOf[tree[b].src] = b /\ tree[b].ver <= ver[tree[b].src]
        /\ \A t \in Stems : NotAfter(asm[t], tree[b]) /\ NotAfter(elf[t], tree[b])
        /\ \A p \in Places : NotAfter(prod[p], tree[b])

AsmInOrder ==
    \A t \in Stems : asm[t] # None =>
        /\ StemOf[BaseOf[asm[t].src]] = t /\ asm[t].ver <= ver[asm[t].src]
        /\ \A p \in Places : NotAfter(prod[p], asm[t])

ProdInOrder ==
    /\ \A p \in Places : prod[p] # None => prod[p].ver <= ver[prod[p].src]
    /\ \A t \in Stems : prod[t] # None =>
        /\ StemOf[BaseOf[prod[t].src]] = t
        /\ \A p \in Places : NotAfter(prod[p], prod[t])

ElfInOrder ==
    \A t \in Stems : elf[t] # None =>
        StemOf[BaseOf[elf[t].src]] = t /\ elf[t].ver <= ver[elf[t].src]

InOrder == TreeInOrder /\ AsmInOrder /\ ProdInOrder /\ ElfInOrder

\* c is a whole program of the source of this run, not older than the source
\* was when the run started.
Current(c) ==
    /\ c # None
    /\ c.src = job.src /\ c.ver >= asked /\ c.intact /\ Kind(c) = "good"

Result == IF job.backend = "asm" THEN prod[job.out] ELSE elf[stem]

\* When a run ends in which no program has failed, its result is a whole
\* program of this source, and none of an earlier run (ncc.sh never removes a
\* file and asks only whether one is there).
SuccessIsCurrent == pc = "done" /\ clean => Current(Result)

\* A run that starts delivers such a program or has a step that fails.
DeliversOrFails == pc = "front" ~> (~clean \/ (pc = "done" /\ Current(Result)))

\* The files STEM.out and -o OUT of the asm backend, and the programs of the
\* x86_64 backend, behave as Releases says, whatever fails in between.
OutReleases  == INSTANCE Releases WITH shelf <- prod
OutMonotone  == OutReleases!Spec
ElfReleases  == INSTANCE Releases WITH shelf <- elf, Places <- Stems
ElfMonotone  == ElfReleases!Spec
Monotone     == OutMonotone /\ ElfMonotone
=============================================================================
