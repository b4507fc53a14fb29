---------------------- MODULE MCCrossCameraProvisional ----------------------
(* CrossCameraProvisional with one or two tracks in a camera and one in the *)
(* other.                                                                   *)
EXTENDS CrossCameraProvisional, TLC

CONSTANTS a1, a2, b1, A, B

MCCameraOf == (a1 :> A) @@ (b1 :> B)
MCCameraOf3 == MCCameraOf @@ (a2 :> A)
Symmetry == Permutations({a1, a2})
=============================================================================
