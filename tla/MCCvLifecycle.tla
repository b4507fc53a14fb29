--------------------------- MODULE MCCvLifecycle ---------------------------
(* CvLifecycle on one or two runs, interchangeable in the safety run.       *)
EXTENDS CvLifecycle, TLC

CONSTANTS r1, r2

Symmetry == Permutations(Runs)
=============================================================================
