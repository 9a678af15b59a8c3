---------------------------- MODULE SessionStore ----------------------------
(***************************************************************************)
(* What the identity provider promises about auth sessions, independently  *)
(* of how PublicKeyService stores them: an auth_session is drawn at        *)
(* random, bound to one public key when it is created, keeps that key, and *)
(* goes away only when the process that holds the cache stops.             *)
(*                                                                         *)
(* PublicKeyService implements this (with one request at a time), and the  *)
(* modules that only depend on the promise, DeviceRegistration and         *)
(* TokenEndpoint, take their session operations from here.                 *)
(***************************************************************************)
CONSTANTS Sessions,     \* values of GetHexString(32)
          PublicKeys,   \* PEM-encoded public keys
          NoKey         \* "no entry": the default value tuple of a missing key

VARIABLES binding,      \* the cache: the key of a session, NoKey if there is none
          drawn         \* sessions ever drawn; the generator does not repeat itself

storeVars == <<binding, drawn>>

EmptyStore == [s \in Sessions |-> NoKey]

Init == binding = EmptyStore /\ drawn = {}

(* Mutant: sessions drawn without regard to those lost in a restart, as a  *)
(* counter would.                                                          *)
FreshInCache(s) == s \in Sessions /\ binding[s] = NoKey

Fresh(s) == s \in Sessions \ drawn

(* CreateSession: draw a session and add it, with its key, to the cache. *)
Create(s, k) ==
  /\ Fresh(s)
  /\ drawn' = drawn \cup {s}
  /\ binding' = [binding EXCEPT ![s] = k]

(* The process stops and starts again: the static cache starts empty, and  *)
(* requests that were cut off may have drawn sessions nobody will ever see. *)
Forget ==
  /\ binding' = EmptyStore
  /\ drawn' \in SUBSET Sessions
  /\ drawn \subseteq drawn'

Next == Forget \/ \E s \in Sessions, k \in PublicKeys : Create(s, k)

Spec == Init /\ [][Next]_storeVars

(* GetPublicKey and GetPublicSecurityKey throw for a session without a key. *)
Known(s) == s \in Sessions /\ binding[s] # NoKey
=============================================================================
