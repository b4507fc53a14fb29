--------------------------- MODULE MCRunManager ---------------------------
(* RunManager on two runs, interchangeable in the safety runs.              *)
EXTENDS RunManager, TLC

CONSTANTS r1, r2

Symmetry == Permutations(Runs)
=============================================================================
