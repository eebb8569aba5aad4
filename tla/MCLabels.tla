------------------------------ MODULE MCLabels ------------------------------
(* Programs of up to six labels and three levels of constructs; the label  *)
(* buffer starts with room for two labels, so that it has to grow twice.   *)
EXTENDS Labels, TLC

CONSTANTS f, g

Names == {f, g}
Sizes == {3}
Rename == Permutations(Names)
=============================================================================
