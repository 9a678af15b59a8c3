----------------------------- MODULE MCAccount -----------------------------
(* Model checking Account: a web client, a native one and one that uses an *)
(* external provider only; a local user and one of a provider that         *)
(* supports sign-out.                                                      *)
EXTENDS Account, TLC

CONSTANTS alice, bob

MCIdpOf == alice :> "local" @@ bob :> "oidc"
=============================================================================
