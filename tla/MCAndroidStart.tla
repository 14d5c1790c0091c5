--------------------------- MODULE MCAndroidStart ---------------------------
(***************************************************************************)
(* The attempts, calls and ports of the runs.                              *)
(***************************************************************************)
EXTENDS AndroidStart, TLC

CONSTANTS a1, a2, start, stop, p1, p2

Symmetry == Permutations(Attempt)
=============================================================================
