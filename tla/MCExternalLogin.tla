-------------------------- MODULE MCExternalLogin --------------------------
(* Model checking ExternalLogin. *)
EXTENDS ExternalLogin, TLC

Symmetry == Permutations(Browsers) \cup Permutations(Requests) \cup Permutations(Users)
=============================================================================
