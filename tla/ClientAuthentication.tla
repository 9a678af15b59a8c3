------------------------ MODULE ClientAuthentication ------------------------
(***************************************************************************)
(* What the token endpoint promises about client authentication, whatever  *)
(* the validator does between the arrival of a request and its answer: a   *)
(* request is granted a token for a session, at most once, at a moment at  *)
(* which the store binds that session to the key that signed the request's *)
(* assertion.                                                              *)
(*                                                                         *)
(* TokenEndpoint implements this: with requests that overlap, and sessions *)
(* that are created and lost meanwhile, each request is answered as if its *)
(* whole validation took place in the step that answers it.                *)
(***************************************************************************)
EXTENDS SessionStore

CONSTANT Requests  \* token requests

VARIABLE tokens    \* the requests granted, with the session and the key

authVars == <<storeVars, tokens>>

AuthInit == Init /\ tokens = {}

(* Sessions come and go, the tokens granted stay. *)
StoreStep == Next /\ UNCHANGED tokens

Grant(r, s, k) ==
  /\ Known(s) /\ binding[s] = k
  /\ \A t \in tokens : t.request # r
  /\ tokens' = tokens \cup {[request |-> r, session |-> s, key |-> k]}
  /\ UNCHANGED storeVars

AuthNext ==
  \/ StoreStep
  \/ \E r \in Requests, s \in Sessions, k \in PublicKeys : Grant(r, s, k)

AuthSpec == AuthInit /\ [][AuthNext]_authVars
=============================================================================
