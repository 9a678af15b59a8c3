-------------------------- MODULE MCSecurityHeaders --------------------------
(* Model checking SecurityHeaders. *)
EXTENDS SecurityHeaders, TLC

Symmetry == Permutations(Requests)
=============================================================================
