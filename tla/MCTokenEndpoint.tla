-------------------------- MODULE MCTokenEndpoint --------------------------
(* Model checking TokenEndpoint: two keys of one algorithm.               *)
EXTENDS TokenEndpoint, TLC

CONSTANTS k1, k2

SameAlg == k1 :> "ES256" @@ k2 :> "ES256"

Symmetry == Permutations(Sessions) \cup Permutations(Requests) \cup Permutations(Jtis)
=============================================================================
