--------------------------- MODULE MCTacticalFeed ---------------------------
(* TacticalFeed on two runs that are interchangeable.                       *)
EXTENDS TacticalFeed, TLC

CONSTANTS r1, r2, c1, c2, z1, z2

Symmetry == Permutations(Runs) \cup Permutations(Cameras) \cup Permutations(Zones)
=============================================================================
