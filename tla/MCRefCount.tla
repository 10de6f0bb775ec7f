----------------------------- MODULE MCRefCount -----------------------------
(* Two workers with two values each. *)
EXTENDS RefCount, TLC

CONSTANTS s1, s2, s3, s4, t1, t2

MCWorkerOf == (s1 :> t1) @@ (s2 :> t1) @@ (s3 :> t2) @@ (s4 :> t2)

Symmetry == Permutations(Cells)
=============================================================================
