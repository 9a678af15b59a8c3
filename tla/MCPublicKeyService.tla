------------------------- MODULE MCPublicKeyService -------------------------
(* Model checking PublicKeyService: two buckets, arrays that grow from two *)
(* slots on, and symmetry of the identities that leaves buckets alone.      *)
EXTENDS PublicKeyService, TLC

CONSTANTS OddSessions   \* the sessions with an odd hash code

MCBucketOf == [s \in Sessions \cup {NoSession} |-> IF s \in OddSessions THEN 1 ELSE 0]
MCExpand   == [n \in 0 .. Capacity |-> IF n < 2 THEN 2 ELSE Capacity]

Symmetry == Permutations(Threads) \cup Permutations(PublicKeys)
            \cup Permutations(OddSessions) \cup Permutations(Sessions \ OddSessions)
=============================================================================
