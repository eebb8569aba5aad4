---------------------------- MODULE DriverProofs ----------------------------
(***************************************************************************)
(* The driver, for every set of sources and names.                         *)
(*                                                                         *)
(* Every step of the script changes at most one kind of file, and what it  *)
(* writes is either the source of the day or of the version of the file it *)
(* is made from (FileStep).  So the order of the files (InOrder) is        *)
(* inductive, and the files on the shelf are a refinement of Releases.     *)
(***************************************************************************)
EXTENDS Driver, TLAPS

USE NoneAssumption, VersionAssumption, NameAssumption, KindAssumption

\* c is written by a program that reads the source of this run.
Fresh(c) == c \in Contents /\ c.src = job.src /\ c.ver = ver[job.src]

\* c is written by a program that reads d.
From(d, c) == d # None /\ c \in Contents /\ c.src = d.src /\ c.ver = d.ver

WriteTree == \E c \in Contents :
    /\ Fresh(c) \/ From(tree[base], c)
    /\ Files([tree EXCEPT ![base] = c], asm, prod, elf)
WriteAsm  == \E c \in Contents :
    From(tree[base], c) /\ Files(tree, [asm EXCEPT ![stem] = c], prod, elf)
WriteElf  == \E c \in Contents :
    From(tree[base], c) /\ Files(tree, asm, prod, [elf EXCEPT ![stem] = c])
WriteProd == \E c \in Contents :
    From(asm[stem], c) /\ Files(tree, asm, [prod EXCEPT ![stem] = c], elf)
MoveProd  ==
    /\ job.out \in Others /\ prod[stem] # None
    /\ Files(tree, asm, [prod EXCEPT ![job.out] = prod[stem], ![stem] = None], elf)

FileStep == UNCHANGED files \/ WriteTree \/ WriteAsm \/ WriteElf \/ WriteProd \/ MoveProd

-----------------------------------------------------------------------------
(* The names of this run.                                                  *)

LEMMA Names ==
    ASSUME TypeOK
    PROVE  /\ job.src \in Sources /\ base \in Bases /\ stem \in Stems /\ stem \in Places
           /\ job.out \in Places /\ stem \notin Others /\ stem = StemOf[base]
           /\ ver[job.src] \in 1 .. MaxVer
  BY DEF TypeOK, Jobs, base, stem, Places

LEMMA CutShort ==
    ASSUME NEW c \in Contents
    PROVE  Truncated(c) \in Contents /\ Truncated(c).src = c.src /\ Truncated(c).ver = c.ver
  BY DEF Contents, Truncated

LEMMA SourceType ==
    ASSUME TypeOK
    PROVE  Source(job.src) \in Contents /\ Fresh(Source(job.src)) /\ Fresh(Truncated(Source(job.src)))
  <1>1. Source(job.src) \in Contents /\ Fresh(Source(job.src))
    BY Names DEF Source, Contents, Fresh
  <1> QED BY <1>1, CutShort DEF Fresh

LEMMA CutWrites ==
    ASSUME TypeOK, Cut
    PROVE  FileStep
  <1>1. CASE pc = "front" /\ Files([tree EXCEPT ![base] = Truncated(Source(job.src))], asm, prod, elf)
    BY <1>1, SourceType, CutShort DEF FileStep, WriteTree
  <1>2. CASE pc = "middle" /\ Files([tree EXCEPT ![base] = Truncated(@)], asm, prod, elf)
    <2>1. tree[base] \in Contents
      BY <1>2, Names DEF TypeOK, File
    <2>2. From(tree[base], Truncated(tree[base])) /\ Truncated(tree[base]) \in Contents
      BY <2>1, CutShort DEF From
    <2> QED BY <1>2, <2>2 DEF FileStep, WriteTree
  <1>3. CASE pc = "back" /\ Files(tree, [asm EXCEPT ![stem] = Truncated(tree[base])], prod, elf)
    <2>1. tree[base] \in Contents
      BY <1>3, Names DEF TypeOK, File
    <2>2. From(tree[base], Truncated(tree[base])) /\ Truncated(tree[base]) \in Contents
      BY <2>1, CutShort DEF From
    <2> QED BY <1>3, <2>2 DEF FileStep, WriteAsm
  <1>4. CASE pc = "back" /\ Files(tree, asm, prod, [elf EXCEPT ![stem] = Truncated(tree[base])])
    <2>1. tree[base] \in Contents
      BY <1>4, Names DEF TypeOK, File
    <2>2. From(tree[base], Truncated(tree[base])) /\ Truncated(tree[base]) \in Contents
      BY <2>1, CutShort DEF From
    <2> QED BY <1>4, <2>2 DEF FileStep, WriteElf
  <1>5. CASE pc = "assemble" /\ Files(tree, asm, [prod EXCEPT ![stem] = Truncated(asm[stem])], elf)
    <2>1. asm[stem] \in Contents
      BY <1>5, Names DEF TypeOK, File
    <2>2. From(asm[stem], Truncated(asm[stem])) /\ Truncated(asm[stem]) \in Contents
      BY <2>1, CutShort DEF From
    <2> QED BY <1>5, <2>2 DEF FileStep, WriteProd
  <1> QED BY <1>1, <1>2, <1>3, <1>4, <1>5 DEF Cut

\* Whatever the script does to the files is one of the six.
LEMMA ScriptWrites ==
    ASSUME TypeOK, Script \/ Dies \/ Interrupt
    PROVE  FileStep /\ UNCHANGED ver
  <1>1. CASE FrontEnd
    BY <1>1, SourceType DEF FrontEnd, Same, FileStep, WriteTree
  <1>2. CASE MiddleEnd
    BY <1>2 DEF MiddleEnd, Same, FileStep
  <1>3. CASE BackAsm
    <2>1. tree[base] \in Contents
      BY <1>3, Names DEF TypeOK, File, BackAsm
    <2>2. /\ From(tree[base], tree[base])
          /\ From(tree[base], Truncated(tree[base])) /\ Truncated(tree[base]) \in Contents
      BY <2>1, CutShort DEF From
    <2> QED BY <1>3, <2>1, <2>2 DEF BackAsm, Same, FileStep, WriteAsm
  <1>4. CASE BackElf
    <2>1. tree[base] \in Contents
      BY <1>4, Names DEF TypeOK, File, BackElf
    <2>2. From(tree[base], tree[base])
      BY <2>1 DEF From
    <2> QED BY <1>4, <2>1, <2>2 DEF BackElf, Same, FileStep, WriteElf
  <1>5. CASE Assemble
    <2>1. asm[stem] \in Contents
      BY <1>5, Names DEF TypeOK, File, Assemble
    <2>2. From(asm[stem], asm[stem])
      BY <2>1 DEF From
    <2> QED BY <1>5, <2>1, <2>2 DEF Assemble, Same, FileStep, WriteProd
  <1>6. CASE Move
    <2>1. pc # "idle" /\ (job.out \in Others \/ job.out = stem)
      BY <1>6 DEF Move, TypeOK
    <2> QED BY <1>6, <2>1 DEF Move, Same, FileStep, MoveProd
  <1>7. CASE Done
    BY <1>7 DEF Done, FileStep, files
  <1>8. CASE Dies
    BY <1>8, CutWrites DEF Dies, Same, FileStep
  <1>9. CASE Interrupt
    BY <1>9, CutWrites DEF Interrupt, Same, FileStep
  <1> QED BY <1>1, <1>2, <1>3, <1>4, <1>5, <1>6, <1>7, <1>8, <1>9 DEF Script

-----------------------------------------------------------------------------
(* Types.                                                                  *)

\* No program removes the tree or the assembler file.
LEMMA FilesType ==
    ASSUME TypeOK, FileStep
    PROVE  /\ tree' \in [Bases -> File] /\ asm' \in [Stems -> File]
           /\ prod' \in [Places -> File] /\ elf' \in [Stems -> File]
           /\ tree[base] # None => tree'[base] # None
           /\ asm[stem] # None => asm'[stem] # None
           /\ WriteTree => tree'[base] # None
           /\ WriteAsm => asm'[stem] # None
  <1>0. /\ tree \in [Bases -> File] /\ asm \in [Stems -> File]
        /\ prod \in [Places -> File] /\ elf \in [Stems -> File]
        /\ \A c \in Contents : c \in File /\ c # None
    BY DEF TypeOK, File
  <1>1. CASE UNCHANGED files
    <2>1. ~WriteTree \/ tree'[base] # None
      BY <1>0, Names DEF WriteTree, Files
    <2>2. ~WriteAsm \/ asm'[stem] # None
      BY <1>0, Names DEF WriteAsm, Files
    <2> QED BY <1>0, <1>1, <2>1, <2>2 DEF files
  <1>2. CASE WriteTree
    BY <1>0, <1>2, Names DEF WriteTree, WriteAsm, Files
  <1>3. CASE WriteAsm
    BY <1>0, <1>3, Names DEF WriteTree, WriteAsm, Files
  <1>4. CASE WriteElf
    BY <1>0, <1>4, Names DEF WriteTree, WriteAsm, WriteElf, Files
  <1>5. CASE WriteProd
    BY <1>0, <1>5, Names DEF WriteTree, WriteAsm, WriteProd, Files
  <1>6. CASE MoveProd
    <2>1. prod' \in [Places -> File]
      BY <1>0, <1>6, Names DEF MoveProd, Files, File
    <2> QED BY <1>0, <1>6, <2>1, Names DEF MoveProd, WriteTree, WriteAsm, Files
  <1> QED BY <1>1, <1>2, <1>3, <1>4, <1>5, <1>6 DEF FileStep

LEMMA SameNames ==
    ASSUME Same
    PROVE  base' = base /\ stem' = stem /\ job' = job
  BY DEF Same, base, stem

\* What a step of the script leaves to be shown for TypeOK.
LEMMA TypeStep ==
    ASSUME TypeOK, FileStep, Same, pc # "idle",
           pc' \in PCs, clean' \in BOOLEAN,
           pc' \in {"middle", "back"} => tree'[base] # None,
           pc' = "assemble" => asm'[stem] # None
    PROVE  TypeOK'
  <1>1. /\ ver' \in [Sources -> 1 .. MaxVer] /\ job' \in Jobs /\ asked' \in 1 .. MaxVer
        /\ job'.out \in Others \union {stem'}
    BY SameNames DEF TypeOK, Same
  <1> QED BY <1>1, FilesType, SameNames DEF TypeOK

LEMMA TypeNext ==
    ASSUME TypeOK, [Next]_vars
    PROVE  TypeOK'
  <1>1. ASSUME NEW s \in Sources, Edit(s) PROVE TypeOK'
    <2>1. ver' \in [Sources -> 1 .. MaxVer]
      BY <1>1 DEF TypeOK, Edit
    <2> QED BY <1>1, <2>1 DEF TypeOK, Edit, files, base, stem
  <1>2. ASSUME NEW j \in Jobs, Start(j) PROVE TypeOK'
    <2>1. ver[j.src] \in 1 .. MaxVer
      BY DEF TypeOK, Jobs
    <2>2. pc' = "front" /\ job' = j /\ j.out \in Others \union {stem'}
      BY <1>2 DEF Start, stem
    <2> QED BY <1>2, <2>1, <2>2 DEF TypeOK, Start, files, base, stem, PCs
  <1>3. CASE FrontEnd
    <2>1. FileStep /\ Same /\ pc = "front"
      BY <1>3, ScriptWrites DEF Script, FrontEnd
    <2>2. clean' \in BOOLEAN /\ (pc' = "middle" \/ pc' = "idle")
      BY <1>3 DEF FrontEnd, Goes
    <2>3. pc' = "middle" => tree'[base] # None
      <3>1. CASE Files([tree EXCEPT ![base] = Source(job.src)], asm, prod, elf)
        BY <3>1, Names, SourceType DEF TypeOK, Files
      <3>2. CASE UNCHANGED files /\ Goes(IF tree[base] = None THEN "idle" ELSE "middle", FALSE)
        BY <3>2 DEF files, Goes
      <3> QED BY <1>3, <3>1, <3>2 DEF FrontEnd
    <2> QED BY <2>1, <2>2, <2>3, TypeStep DEF PCs
  <1>4. CASE MiddleEnd
    <2>1. FileStep /\ Same /\ pc = "middle" /\ pc' = "back" /\ clean' \in BOOLEAN
      BY <1>4, ScriptWrites DEF Script, MiddleEnd, Goes
    <2>2. tree'[base] # None
      BY <2>1, FilesType DEF TypeOK
    <2> QED BY <2>1, <2>2, TypeStep DEF PCs
  <1>5. CASE BackAsm
    <2>1. FileStep /\ Same /\ pc = "back"
      BY <1>5, ScriptWrites DEF Script, BackAsm
    <2>2. clean' \in BOOLEAN /\ (pc' = "assemble" \/ pc' = "idle")
      BY <1>5 DEF BackAsm, Goes
    <2>3. pc' = "assemble" => asm'[stem] # None
      <3>0. tree[base] \in Contents
        BY <2>1, Names DEF TypeOK, File
      <3>1. CASE Files(tree, [asm EXCEPT ![stem] = tree[base]], prod, elf)
        BY <3>0, <3>1, Names DEF TypeOK, Files
      <3>2. CASE Files(tree, [asm EXCEPT ![stem] = Truncated(tree[base])], prod, elf)
        <4>1. Truncated(tree[base]) \in Contents
          BY <3>0, CutShort
        <4> QED BY <3>2, <4>1, Names DEF TypeOK, Files
      <3>3. CASE UNCHANGED files /\ Goes(IF asm[stem] = None THEN "idle" ELSE "assemble", FALSE)
        BY <3>3 DEF files, Goes
      <3> QED BY <1>5, <3>1, <3>2, <3>3 DEF BackAsm
    <2> QED BY <2>1, <2>2, <2>3, TypeStep DEF PCs
  <1>6. CASE BackElf
    <2>1. FileStep /\ Same /\ pc = "back" /\ pc' = "move" /\ clean' \in BOOLEAN
      BY <1>6, ScriptWrites DEF Script, BackElf, Goes
    <2> QED BY <2>1, TypeStep DEF PCs
  <1>7. CASE Assemble
    <2>1. FileStep /\ Same /\ pc = "assemble" /\ pc' = "move" /\ clean' \in BOOLEAN
      BY <1>7, ScriptWrites DEF Script, Assemble, Goes
    <2> QED BY <2>1, TypeStep DEF PCs
  <1>8. CASE Move
    <2>1. FileStep /\ Same /\ pc = "move" /\ pc' = "done" /\ clean' \in BOOLEAN
      BY <1>8, ScriptWrites DEF Script, Move, Goes
    <2> QED BY <2>1, TypeStep DEF PCs
  <1>9. CASE Done
    BY <1>9 DEF TypeOK, Done, files, base, stem, PCs
  <1>10. CASE Dies
    <2>1. FileStep /\ Same /\ pc \in {"front", "middle", "back", "assemble"} /\ clean' = FALSE
      BY <1>10, ScriptWrites DEF Dies, Goes
    <2>2. /\ pc' \in {"idle", "middle", "back", "assemble", "move"}
          /\ pc' = "middle" => pc = "front" /\ tree'[base] # None
          /\ pc' = "back" => pc = "middle"
          /\ pc' = "assemble" => pc = "back" /\ asm'[stem] # None
      BY <1>10 DEF Dies, Goes, After
    <2>3. pc = "middle" => tree'[base] # None
      BY <2>1, FilesType DEF TypeOK
    <2> QED BY <2>1, <2>2, <2>3, TypeStep DEF PCs
  <1>11. CASE Interrupt
    <2>1. FileStep /\ Same /\ pc # "idle" /\ pc' = "idle" /\ clean' = FALSE
      BY <1>11, ScriptWrites DEF Interrupt, Goes
    <2> QED BY <2>1, TypeStep DEF PCs
  <1>12. CASE UNCHANGED vars
    BY <1>12 DEF TypeOK, vars, base, stem
  <1> QED BY <1>1, <1>2, <1>3, <1>4, <1>5, <1>6, <1>7, <1>8, <1>9, <1>10, <1>11, <1>12 DEF Next, Script

LEMMA TypeInit ==
    ASSUME Init
    PROVE  TypeOK
  BY DEF Init, TypeOK, File, PCs

\* The script never takes a step for which the file it reads is missing: all
\* variables keep their types (TypeOK).
THEOREM TypeCorrect == Spec => []TypeOK
  BY TypeInit, TypeNext, PTL DEF Spec

-----------------------------------------------------------------------------
(* The order of the files.                                                 *)

LEMMA FileTypes ==
    ASSUME TypeOK
    PROVE  /\ tree \in [Bases -> File] /\ asm \in [Stems -> File]
           /\ prod \in [Places -> File] /\ elf \in [Stems -> File]
           /\ Stems \subseteq Places /\ Others \subseteq Places
           /\ \A c \in File : c # None => c.src \in Sources /\ c.ver \in Int
           /\ \A c \in Contents : c # None /\ c.src \in Sources /\ c.ver \in Int
           /\ \A s \in Sources : ver[s] \in Int
  BY DEF TypeOK, File, Contents, Places

LEMMA OrderWriteTree ==
    ASSUME TypeOK, InOrder, WriteTree, UNCHANGED ver
    PROVE  InOrder'
  <1> PICK c \in Contents : /\ Fresh(c) \/ From(tree[base], c)
                            /\ Files([tree EXCEPT ![base] = c], asm, prod, elf)
    BY DEF WriteTree
  <1>1. /\ asm' = asm /\ prod' = prod /\ elf' = elf
        /\ tree'[base] = c /\ \A b \in Bases \ {base} : tree'[b] = tree[b]
    BY Names, FileTypes DEF Files
  <1>2. BaseOf[c.src] = base /\ c.ver <= ver[c.src]
    BY Names, FileTypes DEF InOrder, TreeInOrder, Fresh, From, base
  <1>3. /\ \A t \in Stems : NotAfter(asm[t], c) /\ NotAfter(elf[t], c)
        /\ \A p \in Places : NotAfter(prod[p], c)
    <2>1. CASE Fresh(c)
      BY <2>1, FileTypes DEF Fresh, InOrder, AsmInOrder, ElfInOrder, ProdInOrder, NotAfter
    <2>2. CASE From(tree[base], c)
      BY <2>2, Names, FileTypes DEF From, InOrder, TreeInOrder, NotAfter
    <2> QED BY <2>1, <2>2
  <1>4. TreeInOrder'
    BY <1>1, <1>2, <1>3 DEF InOrder, TreeInOrder, NotAfter
  <1> QED BY <1>1, <1>4 DEF InOrder, AsmInOrder, ProdInOrder, ElfInOrder, NotAfter

LEMMA OrderWriteAsm ==
    ASSUME TypeOK, InOrder, WriteAsm, UNCHANGED ver
    PROVE  InOrder'
  <1> PICK c \in Contents : /\ From(tree[base], c)
                            /\ Files(tree, [asm EXCEPT ![stem] = c], prod, elf)
    BY DEF WriteAsm
  <1>1. /\ tree' = tree /\ prod' = prod /\ elf' = elf
        /\ asm'[stem] = c /\ \A t \in Stems \ {stem} : asm'[t] = asm[t]
    BY Names, FileTypes DEF Files
  <1>2. BaseOf[c.src] = base /\ c.ver <= ver[c.src]
    BY Names, FileTypes DEF InOrder, TreeInOrder, From
  <1>3. \A p \in Places : NotAfter(prod[p], c)
    BY Names, FileTypes DEF From, InOrder, TreeInOrder, NotAfter
  <1>4. AsmInOrder'
    BY <1>1, <1>2, <1>3, Names DEF InOrder, AsmInOrder, NotAfter
  <1>5. ASSUME NEW b \in Bases, tree[b] # None PROVE NotAfter(c, tree[b])
    <2>1. CASE tree[b].src = c.src
      BY <1>2, <1>5, <2>1, Names, FileTypes DEF From, InOrder, TreeInOrder, NotAfter
    <2> QED BY <2>1 DEF NotAfter
  <1>6. TreeInOrder'
    BY <1>1, <1>5 DEF InOrder, TreeInOrder, NotAfter
  <1> QED BY <1>1, <1>4, <1>6 DEF InOrder, ProdInOrder, ElfInOrder, NotAfter

LEMMA OrderWriteElf ==
    ASSUME TypeOK, InOrder, WriteElf, UNCHANGED ver
    PROVE  InOrder'
  <1> PICK c \in Contents : /\ From(tree[base], c)
                            /\ Files(tree, asm, prod, [elf EXCEPT ![stem] = c])
    BY DEF WriteElf
  <1>1. /\ tree' = tree /\ prod' = prod /\ asm' = asm
        /\ elf'[stem] = c /\ \A t \in Stems \ {stem} : elf'[t] = elf[t]
    BY Names, FileTypes DEF Files
  <1>2. BaseOf[c.src] = base /\ c.ver <= ver[c.src]
    BY Names, FileTypes DEF InOrder, TreeInOrder, From
  <1>3. ElfInOrder'
    BY <1>1, <1>2, Names DEF InOrder, ElfInOrder
  <1>4. ASSUME NEW b \in Bases, tree[b] # None PROVE NotAfter(c, tree[b])
    <2>1. CASE tree[b].src = c.src
      BY <1>2, <1>4, <2>1, Names, FileTypes DEF From, InOrder, TreeInOrder, NotAfter
    <2> QED BY <2>1 DEF NotAfter
  <1>5. TreeInOrder'
    BY <1>1, <1>4 DEF InOrder, TreeInOrder, NotAfter
  <1> QED BY <1>1, <1>3, <1>5 DEF InOrder, AsmInOrder, ProdInOrder, NotAfter

LEMMA OrderWriteProd ==
    ASSUME TypeOK, InOrder, WriteProd, UNCHANGED ver
    PROVE  InOrder'
  <1> PICK c \in Contents : /\ From(asm[stem], c)
                            /\ Files(tree, asm, [prod EXCEPT ![stem] = c], elf)
    BY DEF WriteProd
  <1>1. /\ tree' = tree /\ asm' = asm /\ elf' = elf
        /\ prod'[stem] = c /\ \A p \in Places \ {stem} : prod'[p] = prod[p]
    BY Names, FileTypes DEF Files
  <1>2. StemOf[BaseOf[c.src]] = stem /\ c.ver <= ver[c.src]
    BY Names, FileTypes DEF InOrder, AsmInOrder, From
  <1>3. \A p \in Places : NotAfter(prod[p], c)
    BY Names, FileTypes DEF From, InOrder, AsmInOrder, NotAfter
  <1>4. NotAfter(c, c)
    BY FileTypes DEF NotAfter
  <1>5. ProdInOrder'
    <2>1. \A p \in Places : prod'[p] # None => prod'[p].ver <= ver[prod'[p].src]
      BY <1>1, <1>2 DEF InOrder, ProdInOrder
    <2>2. ASSUME NEW t \in Stems, prod'[t] # None
          PROVE  /\ StemOf[BaseOf[prod'[t].src]] = t
                 /\ \A p \in Places : NotAfter(prod'[p], prod'[t])
      <3>1. CASE t = stem
        BY <1>1, <1>2, <1>3, <1>4, <3>1, Names
      <3>2. CASE t # stem
        <4>1. prod'[t] = prod[t] /\ StemOf[BaseOf[prod[t].src]] = t
              /\ \A p \in Places : NotAfter(prod[p], prod[t])
          BY <1>1, <2>2, <3>2, FileTypes DEF InOrder, ProdInOrder
        <4>2. c.src # prod[t].src
          BY <1>2, <4>1, <3>2
        <4>3. NotAfter(c, prod[t])
          BY <4>2 DEF NotAfter
        <4> QED BY <1>1, <4>1, <4>3
      <3> QED BY <3>1, <3>2
    <2> QED BY <1>1, <2>1, <2>2 DEF ProdInOrder, NotAfter
  <1>6. ASSUME NEW b \in Bases, tree[b] # None PROVE NotAfter(c, tree[b])
    BY <1>6, Names, FileTypes DEF From, InOrder, TreeInOrder, NotAfter
  <1>7. TreeInOrder'
    BY <1>1, <1>6 DEF InOrder, TreeInOrder, NotAfter
  <1>8. ASSUME NEW t \in Stems, asm[t] # None PROVE NotAfter(c, asm[t])
    <2>1. CASE asm[t].src = c.src
      BY <1>2, <1>8, <2>1, Names, FileTypes DEF From, InOrder, AsmInOrder, NotAfter
    <2> QED BY <2>1 DEF NotAfter
  <1>9. AsmInOrder'
    BY <1>1, <1>8 DEF InOrder, AsmInOrder, NotAfter
  <1> QED BY <1>1, <1>5, <1>7, <1>9 DEF InOrder, ElfInOrder

LEMMA OrderMoveProd ==
    ASSUME TypeOK, InOrder, MoveProd, UNCHANGED ver
    PROVE  InOrder'
  <1> DEFINE c == prod[stem]
  <1>1. /\ tree' = tree /\ asm' = asm /\ elf' = elf
        /\ c # None /\ c \in File
        /\ job.out \in Others /\ prod'[job.out] = c /\ prod'[stem] = None
        /\ \A p \in Places \ {stem, job.out} : prod'[p] = prod[p]
    BY Names, FileTypes DEF MoveProd, Files
  <1> HIDE DEF c
  <1>2. ASSUME NEW p \in Places
        PROVE  prod'[p] \in {prod[p], c, None}
    BY <1>1
  <1>3. c = prod[stem] /\ stem \in Places
    BY Names DEF c
  <1>4. TreeInOrder'
    <2>1. ASSUME NEW b \in Bases, tree[b] # None, NEW p \in Places
          PROVE  NotAfter(prod'[p], tree[b])
      BY <1>2, <1>3, <2>1 DEF InOrder, TreeInOrder, NotAfter
    <2> QED BY <1>1, <2>1 DEF InOrder, TreeInOrder, NotAfter
  <1>5. AsmInOrder'
    <2>1. ASSUME NEW t \in Stems, asm[t] # None, NEW p \in Places
          PROVE  NotAfter(prod'[p], asm[t])
      BY <1>2, <1>3, <2>1 DEF InOrder, AsmInOrder, NotAfter
    <2> QED BY <1>1, <2>1 DEF InOrder, AsmInOrder, NotAfter
  <1>6. ProdInOrder'
    <2>1. ASSUME NEW p \in Places, prod'[p] # None
          PROVE  prod'[p].ver <= ver[prod'[p].src]
      BY <1>2, <1>3, <2>1 DEF InOrder, ProdInOrder
    <2>2. ASSUME NEW t \in Stems, prod'[t] # None
          PROVE  /\ StemOf[BaseOf[prod'[t].src]] = t
                 /\ \A p \in Places : NotAfter(prod'[p], prod'[t])
      <3>1. t # stem /\ t \notin Others /\ t \in Places
        BY <1>1, <2>2, FileTypes
      <3>2. prod'[t] = prod[t]
        BY <1>1, <3>1
      <3>3. /\ StemOf[BaseOf[prod[t].src]] = t
            /\ \A p \in Places : NotAfter(prod[p], prod[t])
        BY <2>2, <3>2 DEF InOrder, ProdInOrder
      <3>4. ASSUME NEW p \in Places PROVE NotAfter(prod'[p], prod[t])
        BY <1>2, <1>3, <3>3 DEF NotAfter
      <3> QED BY <3>2, <3>3, <3>4
    <2> QED BY <1>1, <2>1, <2>2 DEF ProdInOrder, NotAfter
  <1> QED BY <1>1, <1>4, <1>5, <1>6 DEF InOrder, ElfInOrder

LEMMA OrderEdit ==
    ASSUME TypeOK, InOrder, NEW s \in Sources, Edit(s)
    PROVE  InOrder'
  <1>1. /\ UNCHANGED files
        /\ \A r \in Sources : ver'[r] \in Int /\ ver[r] <= ver'[r]
    BY FileTypes DEF Edit, TypeOK
  <1>2. ASSUME NEW c \in File, c # None, c.ver <= ver[c.src]
        PROVE  c.ver <= ver'[c.src]
    BY <1>1, <1>2, FileTypes
  <1>3. TreeInOrder'
    BY <1>1, <1>2, FileTypes DEF InOrder, TreeInOrder, NotAfter, files
  <1>4. AsmInOrder'
    BY <1>1, <1>2, FileTypes DEF InOrder, AsmInOrder, NotAfter, files
  <1>5. ProdInOrder'
    BY <1>1, <1>2, FileTypes DEF InOrder, ProdInOrder, NotAfter, files
  <1>6. ElfInOrder'
    BY <1>1, <1>2, FileTypes DEF InOrder, ElfInOrder, files
  <1> QED BY <1>3, <1>4, <1>5, <1>6 DEF InOrder

LEMMA OrderSame ==
    ASSUME InOrder, UNCHANGED <<ver, files>>
    PROVE  InOrder'
  BY DEF InOrder, TreeInOrder, AsmInOrder, ProdInOrder, ElfInOrder, NotAfter, files

LEMMA OrderNext ==
    ASSUME TypeOK, InOrder, [Next]_vars
    PROVE  InOrder'
  <1>1. ASSUME NEW s \in Sources, Edit(s) PROVE InOrder'
    BY <1>1, OrderEdit
  <1>2. ASSUME NEW j \in Jobs, Start(j) PROVE InOrder'
    BY <1>2, OrderSame DEF Start
  <1>3. CASE Script \/ Dies \/ Interrupt
    <2>1. FileStep /\ UNCHANGED ver
      BY <1>3, ScriptWrites
    <2>2. CASE UNCHANGED files
      BY <2>1, <2>2, OrderSame
    <2> QED BY <2>1, <2>2, OrderWriteTree, OrderWriteAsm, OrderWriteElf, OrderWriteProd,
               OrderMoveProd DEF FileStep
  <1>4. CASE UNCHANGED vars
    BY <1>4, OrderSame DEF vars, files
  <1> QED BY <1>1, <1>2, <1>3, <1>4 DEF Next

\* No file left over from an earlier run gets ahead of the one it is made from
\* (InOrder): this is what lets ncc.sh reuse whatever files it finds.
THEOREM OrderKept == Spec => []InOrder
  <1>1. Init => InOrder
    BY DEF Init, InOrder, TreeInOrder, AsmInOrder, ProdInOrder, ElfInOrder, Places
  <1> QED BY <1>1, OrderNext, TypeCorrect, PTL DEF Spec

-----------------------------------------------------------------------------
(* Refinement.                                                             *)

LEMMA FilesAbide ==
    ASSUME TypeOK, InOrder, FileStep, UNCHANGED ver
    PROVE  /\ OutReleases!Next \/ UNCHANGED <<ver, prod>>
           /\ ElfReleases!Next \/ UNCHANGED <<ver, elf>>
  <1>1. CASE UNCHANGED files \/ WriteTree \/ WriteAsm
    BY <1>1 DEF files, WriteTree, WriteAsm, Files
  <1>2. CASE WriteElf
    <2> PICK c \in Contents : /\ From(tree[base], c)
                              /\ Files(tree, asm, prod, [elf EXCEPT ![stem] = c])
      BY <1>2 DEF WriteElf
    <2>1. c.ver <= ver[c.src] /\ \A t \in Stems : NotAfter(elf[t], c)
      BY Names, FileTypes DEF From, InOrder, TreeInOrder, NotAfter
    <2>2. ElfReleases!Release(stem, c)
      BY <2>1, FileTypes DEF ElfReleases!Release, ElfReleases!Latest, NotAfter, Files
    <2> QED BY <2>2, Names DEF ElfReleases!Next, Files
  <1>3. CASE WriteProd
    <2> PICK c \in Contents : /\ From(asm[stem], c)
                              /\ Files(tree, asm, [prod EXCEPT ![stem] = c], elf)
      BY <1>3 DEF WriteProd
    <2>1. c.ver <= ver[c.src] /\ \A p \in Places : NotAfter(prod[p], c)
      BY Names, FileTypes DEF From, InOrder, AsmInOrder, NotAfter
    <2>2. OutReleases!Release(stem, c)
      BY <2>1, FileTypes DEF OutReleases!Release, OutReleases!Latest, NotAfter, Files
    <2> QED BY <2>2, Names DEF OutReleases!Next, Files
  <1>4. CASE MoveProd
    <2>1. \A p \in Places : NotAfter(prod[p], prod[stem])
      BY <1>4, Names DEF MoveProd, InOrder, ProdInOrder
    <2>2. OutReleases!Move(stem, job.out)
      BY <1>4, <2>1, FileTypes DEF MoveProd, OutReleases!Move, OutReleases!Latest, NotAfter, Files
    <2> QED BY <1>4, <2>2, Names DEF OutReleases!Next, MoveProd, Files
  <1> QED BY <1>1, <1>2, <1>3, <1>4 DEF FileStep

LEMMA StepAbides ==
    ASSUME TypeOK, InOrder, [Next]_vars
    PROVE  /\ OutReleases!Next \/ UNCHANGED <<ver, prod>>
           /\ ElfReleases!Next \/ UNCHANGED <<ver, elf>>
  <1>1. ASSUME NEW s \in Sources, Edit(s)
        PROVE  OutReleases!Next /\ ElfReleases!Next
    BY <1>1 DEF Edit, files, OutReleases!Next, OutReleases!Edit, ElfReleases!Next, ElfReleases!Edit
  <1>2. ASSUME NEW j \in Jobs, Start(j) PROVE UNCHANGED <<ver, files>>
    BY <1>2 DEF Start
  <1>3. CASE Script \/ Dies \/ Interrupt
    BY <1>3, ScriptWrites, FilesAbide
  <1>4. CASE UNCHANGED vars
    BY <1>4 DEF vars
  <1> QED BY <1>1, <1>2, <1>3, <1>4 DEF Next, files

\* The files that hold programs of the asm backend are a Releases (OutMonotone):
\* whatever is interrupted, fails or is left over, no program is replaced by an
\* older one of the same source (ncc.sh:76-88).
LEMMA OutRefines == Spec => OutMonotone
  <1>1. Init => OutReleases!Init
    BY DEF Init, OutReleases!Init
  <1>2. TypeOK /\ InOrder /\ [Next]_vars => [OutReleases!Next]_(OutReleases!vars)
    BY StepAbides DEF OutReleases!vars
  <1> QED BY <1>1, <1>2, TypeCorrect, OrderKept, PTL DEF Spec, OutMonotone, OutReleases!Spec

\* So are the programs of the x86_64 backend (ElfMonotone; ncc.sh:80-84).
LEMMA ElfRefines == Spec => ElfMonotone
  <1>1. Init => ElfReleases!Init
    BY DEF Init, ElfReleases!Init
  <1>2. TypeOK /\ InOrder /\ [Next]_vars => [ElfReleases!Next]_(ElfReleases!vars)
    BY StepAbides DEF ElfReleases!vars
  <1> QED BY <1>1, <1>2, TypeCorrect, OrderKept, PTL DEF Spec, ElfMonotone, ElfReleases!Spec

\* The driver implements Releases on both shelves (Monotone; ncc.sh:57-88):
\* whatever fails, a program there is one some source was, and none is replaced
\* by an older one of the same source.
THEOREM Refines == Spec => Monotone
  BY OutRefines, ElfRefines, PTL DEF Monotone

-----------------------------------------------------------------------------
(* A run in which nothing fails.                                           *)

\* c is a whole file of this run.
Whole(c) ==
    /\ c # None
    /\ c.src = job.src /\ c.ver >= asked /\ c.intact /\ Kind(c) # "rejected"

\* As long as no program has failed the next one reads what this run wrote.
CleanInv ==
    pc # "idle" /\ clean =>
        /\ asked <= ver[job.src]
        /\ pc \in {"middle", "back"} => Whole(tree[base])
        /\ pc = "assemble" => job.backend = "asm" /\ Current(asm[stem])
        /\ pc = "move" =>
            Current(IF job.backend = "asm" THEN prod[stem] ELSE elf[stem])
        /\ pc = "done" => Current(Result)

LEMMA KindType ==
    ASSUME NEW c \in Contents
    PROVE  Kind(c) \in Kinds
  BY DEF Kind, Contents

LEMMA CleanNext ==
    ASSUME TypeOK, CleanInv, [Next]_vars
    PROVE  CleanInv'
  <1>0. SUFFICES ASSUME pc' # "idle", clean'
                 PROVE  /\ (asked <= ver[job.src])'
                        /\ pc' \in {"middle", "back"} => Whole(tree[base])'
                        /\ pc' = "assemble" => job'.backend = "asm" /\ Current(asm[stem])'
                        /\ pc' = "move" =>
                             Current(IF job.backend = "asm" THEN prod[stem] ELSE elf[stem])'
                        /\ pc' = "done" => Current(Result)'
    BY DEF CleanInv
  <1> USE <1>0
  <1>1. ASSUME NEW s \in Sources, Edit(s) PROVE CleanInv'
    <2>1. UNCHANGED <<files, pc, job, asked, clean>> /\ pc # "idle" /\ clean
      BY <1>1 DEF Edit
    <2>2. ver[job.src] <= ver'[job.src] /\ ver[job.src] \in Int /\ ver'[job.src] \in Int
          /\ asked \in Int
      BY <1>1, Names DEF Edit, TypeOK
    <2>3. base' = base /\ stem' = stem /\ UNCHANGED <<tree, asm, prod, elf, job, asked>>
      BY <2>1 DEF files, base, stem
    <2>4. /\ Whole(tree[base])' = Whole(tree[base])
          /\ Current(asm[stem])' = Current(asm[stem])
          /\ Current(prod[stem])' = Current(prod[stem])
          /\ Current(elf[stem])' = Current(elf[stem])
          /\ Current(Result)' = Current(Result)
      BY <2>3 DEF Whole, Current, Result, Kind
    <2>5. asked' <= ver'[job'.src]
      BY <2>1, <2>2 DEF CleanInv
    <2> QED BY <2>1, <2>3, <2>4, <2>5 DEF CleanInv
  <1>2. ASSUME NEW j \in Jobs, Start(j) PROVE CleanInv'
    <2>1. ver[j.src] \in Int
      BY DEF TypeOK, Jobs
    <2> QED BY <1>2, <2>1 DEF Start, CleanInv
  <1>3. CASE FrontEnd
    <2>1. /\ pc = "front" /\ pc' = "middle" /\ Same /\ clean
          /\ Kind(Source(job.src)) # "rejected"
          /\ Files([tree EXCEPT ![base] = Source(job.src)], asm, prod, elf)
      BY <1>3 DEF FrontEnd, Goes
    <2>2. tree'[base'] = Source(job.src)
      BY <2>1, Names, SameNames, FileTypes DEF Files
    <2>3. asked <= ver[job.src] /\ asked \in Int /\ ver[job.src] \in Int
      BY <2>1, Names DEF CleanInv, TypeOK
    <2>4. Whole(tree[base])'
      <3> DEFINE c == Source(job.src)
      <3>1. /\ c \in Contents /\ c # None
            /\ c.src = job.src /\ c.ver = ver[job.src] /\ c.intact /\ Kind(c) # "rejected"
        BY <2>1, SourceType, FileTypes DEF Source
      <3>2. tree'[base'] = c
        BY <2>2
      <3> HIDE DEF c
      <3> QED BY <2>1, <2>3, <3>1, <3>2 DEF Whole, Same, Kind
    <2> QED BY <2>1, <2>3, <2>4 DEF CleanInv, Same
  <1>4. CASE MiddleEnd
    <2>1. pc = "middle" /\ pc' = "back" /\ Same /\ clean /\ UNCHANGED files
      BY <1>4 DEF MiddleEnd, Goes
    <2> QED BY <2>1, SameNames DEF CleanInv, Same, Whole, files, Kind
  <1>5. CASE BackAsm
    <2>1. /\ pc = "back" /\ pc' = "assemble" /\ Same /\ clean /\ job.backend = "asm"
          /\ Kind(tree[base]) # "aborts"
          /\ Files(tree, [asm EXCEPT ![stem] = tree[base]], prod, elf)
      BY <1>5 DEF BackAsm, Goes
    <2>2. Whole(tree[base]) /\ asked <= ver[job.src] /\ tree[base] \in Contents
      BY <2>1, Names, FileTypes DEF CleanInv, File, Whole
    <2>3. Kind(tree[base]) = "good"
      BY <2>1, <2>2, KindType DEF Whole, Kinds
    <2>4. asm'[stem'] = tree[base]
      BY <2>1, Names, SameNames, FileTypes DEF Files
    <2> QED BY <2>1, <2>2, <2>3, <2>4 DEF CleanInv, Same, Whole, Current, Kind
  <1>6. CASE BackElf
    <2>1. /\ pc = "back" /\ pc' = "move" /\ Same /\ clean /\ job.backend # "asm"
          /\ Kind(tree[base]) # "aborts"
          /\ Files(tree, asm, prod, [elf EXCEPT ![stem] = tree[base]])
      BY <1>6 DEF BackElf, Goes
    <2>2. Whole(tree[base]) /\ asked <= ver[job.src] /\ tree[base] \in Contents
      BY <2>1, Names, FileTypes DEF CleanInv, File, Whole
    <2>3. Kind(tree[base]) = "good"
      BY <2>1, <2>2, KindType DEF Whole, Kinds
    <2>4. elf'[stem'] = tree[base]
      BY <2>1, Names, SameNames, FileTypes DEF Files
    <2> QED BY <2>1, <2>2, <2>3, <2>4 DEF CleanInv, Same, Whole, Current, Kind
  <1>7. CASE Assemble
    <2>1. /\ pc = "assemble" /\ pc' = "move" /\ Same /\ clean
          /\ Files(tree, asm, [prod EXCEPT ![stem] = asm[stem]], elf)
      BY <1>7 DEF Assemble, Goes
    <2>2. prod'[stem'] = asm[stem]
      BY <2>1, Names, SameNames, FileTypes DEF Files
    <2> QED BY <2>1, <2>2 DEF CleanInv, Same, Current, Kind
  <1>8. CASE Move
    <2>1. /\ pc = "move" /\ pc' = "done" /\ Same /\ clean /\ UNCHANGED <<elf>>
          /\ asked <= ver[job.src]
          /\ Current(IF job.backend = "asm" THEN prod[stem] ELSE elf[stem])
      BY <1>8 DEF Move, Goes, CleanInv, Files, files
    <2>2. CASE job.backend = "asm"
      <3>1. Current(prod[stem]) /\ prod[stem] # None
        BY <2>1, <2>2 DEF Current
      <3>2. CASE job.out = stem
        <4>1. UNCHANGED files
          BY <1>8, <3>2 DEF Move
        <4>2. prod' = prod /\ prod'[job'.out] = prod[stem]
          BY <2>1, <3>2, <4>1 DEF files, Same
        <4> QED BY <2>1, <2>2, <3>1, <4>2 DEF Result, Same, Current, Kind
      <3>3. CASE job.out # stem
        <4>1. Files(tree, asm, [prod EXCEPT ![job.out] = prod[stem], ![stem] = None], elf)
          BY <1>8, <3>3 DEF Move, Goes
        <4>2. prod'[job.out] = prod[stem]
          BY <3>3, <4>1, Names, FileTypes DEF Files
        <4> QED BY <2>1, <2>2, <3>1, <4>2 DEF Result, Same, Current, Kind
      <3> QED BY <3>2, <3>3
    <2>3. CASE job.backend # "asm"
      BY <2>1, <2>3, SameNames DEF Result, Same, Current, Kind
    <2> QED BY <2>1, <2>2, <2>3 DEF Same
  <1>9. CASE Done \/ Dies \/ Interrupt
    BY <1>9 DEF Done, Dies, Interrupt, Goes
  <1>10. CASE UNCHANGED vars
    BY <1>10 DEF CleanInv, vars, base, stem, Whole, Current, Result, Kind
  <1> QED BY <1>1, <1>2, <1>3, <1>4, <1>5, <1>6, <1>7, <1>8, <1>9, <1>10
          DEF Next, Script, CleanInv

\* A run in which no program fails ends with a whole program of its own source,
\* not older than the source was when the run started (SuccessIsCurrent).
THEOREM SuccessCurrent == Spec => []SuccessIsCurrent
  <1>1. Init => CleanInv
    BY DEF Init, CleanInv
  <1>2. CleanInv => SuccessIsCurrent
    BY DEF CleanInv, SuccessIsCurrent
  <1> QED BY <1>1, <1>2, CleanNext, TypeCorrect, PTL DEF Spec
=============================================================================
