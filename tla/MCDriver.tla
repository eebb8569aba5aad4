------------------------------ MODULE MCDriver ------------------------------
(***************************************************************************)
(* A small instance of Driver: two sources of one name in two directories, *)
(* which share every intermediate file.  The versions of s1 are correct,   *)
(* those of s2 do not pass the front end or make a backend abort.          *)
(***************************************************************************)
EXTENDS Driver, TLC

CONSTANTS s1, s2, prog, progStem, elsewhere

MCBaseOf == (s1 :> prog) @@ (s2 :> prog)
MCStemOf == prog :> progStem
MCKindOf == (s1 :> <<"good", "good">>) @@ (s2 :> <<"rejected", "aborts">>)
=============================================================================
