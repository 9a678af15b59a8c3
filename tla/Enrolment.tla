------------------------------ MODULE Enrolment ------------------------------
(***************************************************************************)
(* What registration promises, without messages, handlers and steps of a   *)
(* program: a device generates one key per process, keeps it to itself,    *)
(* and enrols at most once with it, for a session that the provider        *)
(* created for this very key.  A key that ended with its process is held   *)
(* by nobody, so that nobody enrols for its sessions any more.             *)
(*                                                                         *)
(* DeviceRegistration implements this, whatever the network makes of the   *)
(* messages and whoever stops in between.                                  *)
(***************************************************************************)
EXTENDS SessionStore

CONSTANTS Devices, NoSession

VARIABLES generated,   \* the keys ever generated, by devices or by others
          holds,       \* device -> the key its process holds, NoKey if none
          enrolled,    \* device -> the session it enrolled for, NoSession if none
          createdFor   \* session -> the key it was created for, NoKey if none

deviceVars == <<generated, holds, enrolled>>
enrolVars  == <<storeVars, createdFor, deviceVars>>

EnrolInit ==
  /\ Init
  /\ createdFor = [s \in Sessions |-> NoKey]
  /\ generated  = {}
  /\ holds      = [d \in Devices |-> NoKey]
  /\ enrolled   = [d \in Devices |-> NoSession]

(* A process begins with a key of its own. *)
Generate(d, k) ==
  /\ holds[d] = NoKey
  /\ k \notin generated
  /\ generated' = generated \cup {k}
  /\ holds'     = [holds EXCEPT ![d] = k]
  /\ UNCHANGED <<storeVars, createdFor, enrolled>>

(* Other programs have keys as well. *)
GenerateElsewhere(k) ==
  /\ k \notin generated
  /\ generated' = generated \cup {k}
  /\ UNCHANGED <<storeVars, createdFor, holds, enrolled>>

(* The provider creates a session for a key somebody generated.  It may do *)
(* so more than once, and nobody need ever learn of it.                    *)
CreateFor(s, k) ==
  /\ k \in generated
  /\ Create(s, k)
  /\ createdFor' = [createdFor EXCEPT ![s] = k]
  /\ UNCHANGED deviceVars

Lose == Forget /\ UNCHANGED <<createdFor, deviceVars>>

Enrol(d, s) ==
  /\ enrolled[d] = NoSession
  /\ holds[d] # NoKey /\ createdFor[s] = holds[d]
  /\ enrolled' = [enrolled EXCEPT ![d] = s]
  /\ UNCHANGED <<storeVars, createdFor, generated, holds>>

(* The process ends, its key with it. *)
Leave(d) ==
  /\ holds'    = [holds    EXCEPT ![d] = NoKey]
  /\ enrolled' = [enrolled EXCEPT ![d] = NoSession]
  /\ UNCHANGED <<storeVars, createdFor, generated>>

EnrolNext ==
  \/ \E d \in Devices : Leave(d)
  \/ \E d \in Devices, k \in PublicKeys : Generate(d, k)
  \/ \E d \in Devices, s \in Sessions : Enrol(d, s)
  \/ \E k \in PublicKeys : GenerateElsewhere(k)
  \/ \E s \in Sessions, k \in PublicKeys : CreateFor(s, k)
  \/ Lose

EnrolSpec == EnrolInit /\ [][EnrolNext]_enrolVars
=============================================================================
