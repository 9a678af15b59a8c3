----------------------------- MODULE MCConsent -----------------------------
(* Model checking Consent: two tabs of the user a back-channel request is  *)
(* for, one of another user.                                               *)
EXTENDS Consent, TLC

CONSTANTS t1, t2, t3, alice, bob, openid, profile, api, offline

MCUserOf == t1 :> alice @@ t2 :> alice @@ t3 :> bob
MCRequests == {{openid, api}, {profile, offline}}
Symmetry == Permutations({t1, t2})
=============================================================================
