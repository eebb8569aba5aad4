---------------------------- MODULE MCOperations ----------------------------
(***************************************************************************)
(* Every instruction with every register alone, and in front of each of a  *)
(* few: registers the encodings treat differently, one number and place.   *)
(***************************************************************************)
EXTENDS Operations

MCRegisters(n) == IF n = 0 THEN Register ELSE {RAX, R12}
MCNumbers(n)   == IF n = 0 THEN {-2147483647, -8, 0, 128, 2147483647} ELSE {-8}
MCPlaces(n)    == IF n = 0 THEN {0, 300} ELSE {1}
MCFlagNames(n) == IF n = 0 THEN DOMAIN Conditions ELSE {"z", "ns"}
=============================================================================
