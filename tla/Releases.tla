------------------------------ MODULE Releases ------------------------------
(***************************************************************************)
(* What a user may rely on who edits sources, compiles them and runs what  *)
(* is on the shelf, whatever goes wrong in between: a program on the shelf *)
(* is one that some source was at some time, and none is ever replaced by  *)
(* an older one of the same source.  Driver implements this.               *)
(***************************************************************************)
EXTENDS Integers

CONSTANTS
    Sources,        \* the source files
    Places,         \* where a program can be
    Contents,       \* what a file can hold: records with a source and a version
    None            \* no file

VARIABLES
    ver,            \* the version of each source
    shelf           \* what is in each place

vars == <<ver, shelf>>

\* c is not older than what the shelf has of the same source.
Latest(c) ==
    \A p \in Places : shelf[p] # None /\ shelf[p].src = c.src => shelf[p].ver <= c.ver

Init == ver = [s \in Sources |-> 1] /\ shelf = [p \in Places |-> None]

Edit(s) == ver' = [ver EXCEPT ![s] = @ + 1] /\ UNCHANGED shelf

Release(p, c) ==
    /\ c.ver <= ver[c.src] /\ Latest(c)
    /\ shelf' = [shelf EXCEPT ![p] = c]
    /\ UNCHANGED ver

Move(p, q) ==
    /\ shelf[p] # None /\ Latest(shelf[p])
    /\ shelf' = [shelf EXCEPT ![q] = shelf[p], ![p] = None]
    /\ UNCHANGED ver

Next ==
    \/ \E s \in Sources : Edit(s)
    \/ \E p \in Places, c \in Contents : Release(p, c)
    \/ \E p \in Places, q \in Places : Move(p, q)

Spec == Init /\ [][Next]_vars
=============================================================================
