--------------------------- MODULE MCReidBinding ---------------------------
(* ReidBinding with two tracks in one camera and one in another.            *)
EXTENDS ReidBinding, TLC

CONSTANTS a1, a2, b1, A, B

MCCameraOf == (a1 :> A) @@ (a2 :> A) @@ (b1 :> B)
MCPairs == {{a1, b1}}
Symmetry == Permutations({a1, a2})
=============================================================================
