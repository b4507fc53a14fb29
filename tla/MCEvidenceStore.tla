-------------------------- MODULE MCEvidenceStore --------------------------
(* EvidenceStore on interchangeable runs and files.                         *)
EXTENDS EvidenceStore, TLC

CONSTANTS r1, r2, m1, v1, p1, p2, p3, s1

Symmetry == Permutations(Runs) \cup Permutations(Pictures)
=============================================================================
