---------------------- MODULE DeviceRegistrationProofs ----------------------
(***************************************************************************)
(* Proofs about DeviceRegistration, for any number of devices, attempts    *)
(* and sessions and any forms of other programs: its type invariant, its   *)
(* three safety properties, and that it implements Enrolment.              *)
(***************************************************************************)
EXTENDS DeviceRegistration, TLAPS

(* Only registered devices run: TypeOK needs it, for the scopes of the     *)
(* assertions to be sessions.                                              *)
RunningIsRegistered ==
  \A d \in Devices : proc[d] = "running" =>
    /\ ~NeedsRegistration(d)
    /\ scope[d] = cached[d].session
    /\ call[d] = NoCall

TypeInv == TypeOK /\ RunningIsRegistered

-----------------------------------------------------------------------------
(* What the parts of an action do. *)

NewCall(a) == [step |-> "posting", key |-> a, state |-> a, nonce |-> a,
               session |-> NoSession, answered |-> NoKey]

(* A post gives the device a call and sends a request, both with the       *)
(* secrets of one run of the generators nobody has used.                   *)
LEMMA PostEffect ==
  ASSUME TypeOK, NEW d \in Devices, Post(d)
  PROVE  \E a \in Attempts :
           /\ owner[a] = NoDevice
           /\ owner'    = [owner EXCEPT ![a] = d]
           /\ call'     = [call EXCEPT ![d] = NewCall(a)]
           /\ requests' = requests \cup {[form |-> FormOf(d), key |-> a,
                                          state |-> a, nonce |-> a]}
BY DEF Post, Secrets, NewCall

(* It keeps the types of what it changes. *)
LEMMA PostTypes ==
  ASSUME TypeOK, NEW d \in Devices, Post(d)
  PROVE  /\ call' \in [Devices -> {NoCall} \cup Active]
         /\ \A e \in Devices : e # d => call'[e] = call[e]
         /\ requests' \in SUBSET Request
         /\ owner' \in [Attempts -> Devices \cup {NoDevice, Others}]
<1>1. PICK a \in Attempts :
        /\ owner'    = [owner EXCEPT ![a] = d]
        /\ call'     = [call EXCEPT ![d] = NewCall(a)]
        /\ requests' = requests \cup {[form |-> FormOf(d), key |-> a, state |-> a, nonce |-> a]}
  BY PostEffect
<1>2. NewCall(a) \in Active
  BY DEF NewCall, Active, Posting
<1>3. [form |-> FormOf(d), key |-> a, state |-> a, nonce |-> a] \in Request
  BY DEF Request
<1> QED
  BY <1>1, <1>2, <1>3 DEF TypeOK

(* A call with a step other than "idle" is an active one. *)
LEMMA ActiveCall ==
  ASSUME TypeOK, NEW d \in Devices, call[d].step # "idle"
  PROVE  call[d] \in Active /\ call[d] # NoCall
BY DEF TypeOK, NoCall

(* A process with a call, or in a step other than "off", is not off; and   *)
(* one with a call does not run.                                           *)
LEMMA BusyStarts ==
  ASSUME TypeInv, NEW d \in Devices, call[d].step # "idle"
  PROVE  proc[d] = "starting"
BY ActiveCall DEF TypeInv, TypeOK, RunningIsRegistered

(* What a device has cached is a session and a key. *)
LEMMA CachedPair ==
  ASSUME TypeOK, NEW d \in Devices, ~NeedsRegistration(d)
  PROVE  cached[d].session \in Sessions /\ cached[d].key \in Attempts
BY DEF TypeOK, Cache, NeedsRegistration

(* The end of a process keeps types. *)
LEMMA EndsTypes ==
  ASSUME TypeInv, NEW d \in Devices, Ends(d), UNCHANGED <<responses, serverVars>>
  PROVE  TypeInv'
<1>1. /\ proc'   \in [Devices -> {"off", "starting", "running"}]
      /\ call'   \in [Devices -> {NoCall} \cup Active]
      /\ cached' \in [Devices -> Cache]
      /\ scope'  \in [Devices -> Sessions \cup {NoSession}]
  BY DEF Ends, TypeInv, TypeOK, Cache
<1>2. /\ proc'[d] = "off" /\ call'[d] = NoCall /\ cached'[d] = NoCache /\ scope'[d] = NoSession
      /\ \A e \in Devices : e # d => /\ proc'[e] = proc[e] /\ call'[e] = call[e]
                                     /\ cached'[e] = cached[e] /\ scope'[e] = scope[e]
  BY DEF Ends, TypeInv, TypeOK
<1>3. UNCHANGED <<requests, asserted, owner, responses, handling, binding, origin>>
  BY DEF Ends, serverVars
<1>4. TypeOK'
  BY <1>1, <1>2, <1>3 DEF TypeInv, TypeOK
<1>5. RunningIsRegistered'
  BY <1>2 DEF TypeInv, RunningIsRegistered, NeedsRegistration
<1> QED
  BY <1>4, <1>5 DEF TypeInv

-----------------------------------------------------------------------------
(* Types, action by action. *)

LEMMA StartTypes ==
  ASSUME TypeInv, NEW d \in Devices, Start(d)
  PROVE  TypeInv'
<1> USE DEF TypeInv
<1>1. /\ call' \in [Devices -> {NoCall} \cup Active]
      /\ \A e \in Devices : e # d => call'[e] = call[e]
      /\ requests' \in SUBSET Request
      /\ owner' \in [Attempts -> Devices \cup {NoDevice, Others}]
  BY PostTypes DEF Start
<1>2. /\ proc' \in [Devices -> {"off", "starting", "running"}]
      /\ proc'[d] = "starting"
      /\ \A e \in Devices : e # d => proc'[e] = proc[e]
  BY DEF Start, TypeOK
<1>3. UNCHANGED <<cached, scope, asserted, responses, handling, binding, origin>>
  BY DEF Start, serverVars
<1>4. TypeOK'
  BY <1>1, <1>2, <1>3 DEF TypeOK
<1>5. RunningIsRegistered'
  BY <1>1, <1>2, <1>3 DEF RunningIsRegistered, NeedsRegistration
<1> QED
  BY <1>4, <1>5

(* The answer a call takes for its own is one the controller granted. *)
LEMMA ValidIsGranted ==
  ASSUME TypeOK, NEW r \in responses, NEW x, IsValid(r, x)
  PROVE  r \in Granted /\ r.state = x
BY DEF TypeOK, IsValid, Refused, UnauthorizedValidationParametersFailed

LEMMA PostReturnsTypes ==
  ASSUME TypeInv, NEW d \in Devices, NEW r \in responses, PostReturns(d, r)
  PROVE  TypeInv'
<1> USE DEF TypeInv
<1>1. CASE IsValid(r, call[d].state)
  <2> DEFINE c == [call[d] EXCEPT !.step = "discovering", !.session = r.session,
                                  !.answered = r.nonce]
  <2>1. call[d] \in Active /\ proc[d] = "starting"
    BY ActiveCall, BusyStarts DEF PostReturns
  <2>2. r.session \in Sessions /\ r.nonce \in Attempts
    BY <1>1, ValidIsGranted DEF Granted
  <2>3. c \in Active
    BY <2>1, <2>2 DEF PostReturns, Active, Posting, Answered
  <2>4. call' = [call EXCEPT ![d] = c]
    BY <1>1, <2>1 DEF PostReturns, TypeOK
  <2>5. UNCHANGED <<proc, cached, scope, requests, asserted, owner, responses,
                    handling, binding, origin>>
    BY <1>1 DEF PostReturns, serverVars
  <2>6. TypeOK'
    BY <2>1, <2>3, <2>4, <2>5 DEF TypeOK
  <2>7. RunningIsRegistered'
    BY <2>1, <2>4, <2>5 DEF RunningIsRegistered, NeedsRegistration, TypeOK
  <2> QED
    BY <2>6, <2>7
<1>2. CASE ~IsValid(r, call[d].state)
  BY <1>2, EndsTypes DEF PostReturns
<1> QED
  BY <1>1, <1>2

LEMMA DiscoveredTypes ==
  ASSUME TypeInv, NEW d \in Devices, Discovered(d)
  PROVE  TypeInv'
<1> USE DEF TypeInv
<1>1. CASE call[d].answered = call[d].nonce
  <2>1. call[d] \in Active /\ proc[d] = "starting"
    BY ActiveCall, BusyStarts DEF Discovered
  <2>2. [session |-> call[d].session, key |-> call[d].key] \in Cache
    BY <2>1 DEF Cache, Active, Posting, Answered, Discovered
  <2>3. /\ cached' \in [Devices -> Cache]
        /\ call' \in [Devices -> {NoCall} \cup Active]
        /\ \A e \in Devices : e # d => cached'[e] = cached[e] /\ call'[e] = call[e]
    BY <1>1, <2>2 DEF Discovered, TypeOK
  <2>4. UNCHANGED <<proc, scope, requests, asserted, owner, responses, handling, binding, origin>>
    BY <1>1 DEF Discovered, serverVars
  <2>5. TypeOK'
    BY <2>1, <2>3, <2>4 DEF TypeOK
  <2>6. RunningIsRegistered'
    BY <2>1, <2>3, <2>4 DEF RunningIsRegistered, NeedsRegistration
  <2> QED
    BY <2>5, <2>6
<1>2. CASE call[d].answered # call[d].nonce
  BY <1>2, EndsTypes DEF Discovered
<1> QED
  BY <1>1, <1>2

LEMMA ConfigureClientsTypes ==
  ASSUME TypeInv, NEW d \in Devices, ConfigureClients(d)
  PROVE  TypeInv'
<1> USE DEF TypeInv
<1>1. call[d] = NoCall
  BY DEF ConfigureClients, TypeOK, Active, Posting, Answered
<1>2. cached[d].session \in Sessions
  BY CachedPair DEF ConfigureClients
<1>3. /\ scope' \in [Devices -> Sessions \cup {NoSession}]
      /\ proc'  \in [Devices -> {"off", "starting", "running"}]
      /\ scope'[d] = cached[d].session /\ proc'[d] = "running"
      /\ \A e \in Devices : e # d => scope'[e] = scope[e] /\ proc'[e] = proc[e]
  BY <1>2 DEF ConfigureClients, TypeOK
<1>4. UNCHANGED <<call, cached, requests, responses, asserted, owner, handling, binding, origin>>
  BY DEF ConfigureClients, serverVars
<1>5. TypeOK'
  BY <1>3, <1>4 DEF TypeOK
<1>6. RunningIsRegistered'
  BY <1>1, <1>3, <1>4 DEF RunningIsRegistered, NeedsRegistration, ConfigureClients
<1> QED
  BY <1>5, <1>6

(* A running program has its session: it only ever reads it again. *)
LEMMA AssertionEffect ==
  ASSUME TypeInv, NEW d \in Devices, GetClientAssertion(d)
  PROVE  /\ asserted' = asserted \cup {[session |-> cached[d].session,
                                        key |-> cached[d].key, scope |-> scope[d]]}
         /\ scope[d] = cached[d].session
         /\ ~NeedsRegistration(d)
         /\ UNCHANGED <<proc, call, cached, scope, requests, owner, responses, handling,
                        binding, origin>>
BY DEF TypeInv, RunningIsRegistered, GetClientAssertion, serverVars

LEMMA AssertionTypes ==
  ASSUME TypeInv, NEW d \in Devices, GetClientAssertion(d)
  PROVE  TypeInv'
<1> USE DEF TypeInv
<1>1. cached[d].session \in Sessions /\ cached[d].key \in Attempts
  BY AssertionEffect, CachedPair
<1>2. asserted' \in SUBSET [session : Sessions, key : Attempts, scope : Sessions]
  BY <1>1, AssertionEffect DEF TypeOK
<1> QED
  BY <1>2, AssertionEffect DEF TypeOK, RunningIsRegistered, NeedsRegistration

LEMMA OtherPostTypes ==
  ASSUME TypeInv, NEW f \in OtherForms, OtherPost(f)
  PROVE  TypeInv'
<1> USE DEF TypeInv
<1>1. PICK a \in Attempts :
        /\ owner'    = [owner EXCEPT ![a] = Others]
        /\ requests' = requests \cup {[form |-> f, key |-> a, state |-> a, nonce |-> a]}
  BY DEF OtherPost
<1>2. [form |-> f, key |-> a, state |-> a, nonce |-> a] \in Request
  BY DEF Request
<1>3. requests' \in SUBSET Request /\ owner' \in [Attempts -> Devices \cup {NoDevice, Others}]
  BY <1>1, <1>2 DEF TypeOK
<1> QED
  BY <1>3 DEF OtherPost, TypeOK, RunningIsRegistered, NeedsRegistration, serverVars

(* The forms of the console programs pass the guards. *)
LEMMA FormOfPasses ==
  ASSUME NEW d \in Devices
  PROVE  Refusal(FormOf(d)) = <<>>
BY AlgAssumption DEF Refusal, FormOf, Algs

LEMMA IdpTypes ==
  ASSUME TypeInv, IdpNext
  PROVE  TypeInv'
<1> USE DEF TypeInv
<1>1. UNCHANGED <<proc, call, cached, scope, asserted, owner, requests>>
  BY DEF IdpNext, RefuseRegistration, CreateSession, Respond, Abort, RestartIdp, clientVars
<1>2. responses' \in SUBSET (Granted \cup Refused)
  <2>1. ASSUME NEW q \in requests, RefuseRegistration(q)
        PROVE  responses' \in SUBSET (Granted \cup Refused)
    <3>1. Refusal(q.form) # <<>>
      BY <2>1 DEF RefuseRegistration
    <3>2. q.form \in OtherForms
      BY <3>1, FormOfPasses DEF TypeOK, Request
    <3>3. UnauthorizedValidationParametersFailed(Refusal(q.form)[1], Refusal(q.form)[2])
            \in Refused
      BY <3>1, <3>2 DEF Refused
    <3> QED
      BY <2>1, <3>3 DEF RefuseRegistration, TypeOK
  <2>2. ASSUME NEW h \in handling, Respond(h)
        PROVE  responses' \in SUBSET (Granted \cup Refused)
    <3>1. [status |-> "ok", session |-> h.session, nonce |-> h.nonce, state |-> h.state]
            \in Granted
      BY DEF TypeOK, Granted
    <3> QED
      BY <2>2, <3>1 DEF Respond, TypeOK
  <2>3. CASE UNCHANGED responses
    BY <2>3 DEF TypeOK
  <2> QED
    BY <2>1, <2>2, <2>3 DEF IdpNext, CreateSession, Abort, RestartIdp
<1>3. handling' \in SUBSET [session : Sessions, nonce : Attempts, state : Attempts]
  <2>1. ASSUME NEW q \in requests, CreateSession(q)
        PROVE  handling' \in SUBSET [session : Sessions, nonce : Attempts, state : Attempts]
    BY <2>1 DEF CreateSession, TypeOK, Request
  <2>2. CASE handling' \in SUBSET handling
    BY <2>2 DEF TypeOK
  <2> QED
    BY <2>1, <2>2 DEF IdpNext, RefuseRegistration, Respond, Abort, RestartIdp, serverVars
<1>4. /\ origin'  \in [Sessions -> Attempts \cup {NoKey}]
      /\ binding' \in [Sessions -> Attempts \cup {NoKey}]
  <2>1. ASSUME NEW q \in requests, CreateSession(q)
        PROVE  /\ origin'  \in [Sessions -> Attempts \cup {NoKey}]
               /\ binding' \in [Sessions -> Attempts \cup {NoKey}]
    <3>1. q.key \in Attempts
      BY DEF TypeOK, Request
    <3> QED
      BY <2>1, <3>1 DEF CreateSession, TypeOK, Store!Create
  <2>2. CASE RestartIdp
    BY <2>2 DEF RestartIdp, TypeOK, Store!Forget, Store!EmptyStore
  <2>3. CASE UNCHANGED <<origin, binding>>
    BY <2>3 DEF TypeOK
  <2> QED
    BY <2>1, <2>2, <2>3 DEF IdpNext, RefuseRegistration, Respond, Abort, serverVars
<1>5. TypeOK'
  BY <1>1, <1>2, <1>3, <1>4 DEF TypeOK
<1>6. RunningIsRegistered'
  BY <1>1 DEF RunningIsRegistered, NeedsRegistration
<1> QED
  BY <1>5, <1>6

(* TypeOK, for every interleaving of devices, provider and other programs. *)
THEOREM TypeInvariance == Spec => []TypeInv
<1>1. Init => TypeInv
  BY DEF Init, TypeInv, TypeOK, RunningIsRegistered, Cache, Store!EmptyStore
<1>2. TypeInv /\ [Next]_vars => TypeInv'
  <2> SUFFICES ASSUME TypeInv, [Next]_vars PROVE TypeInv'
    OBVIOUS
  <2>1. ASSUME NEW d \in Devices, DeviceNext(d) PROVE TypeInv'
    <3>1. CASE PostFails(d) \/ DiscoveryFails(d) \/ Stop(d)
      BY <3>1, EndsTypes DEF PostFails, DiscoveryFails, Stop
    <3>2. CASE ~(PostFails(d) \/ DiscoveryFails(d) \/ Stop(d))
      BY <2>1, <3>2, StartTypes, PostReturnsTypes, DiscoveredTypes, ConfigureClientsTypes,
         AssertionTypes DEF DeviceNext, Startup
    <3> QED
      BY <3>1, <3>2
  <2>2. CASE IdpNext
    BY <2>2, IdpTypes
  <2>3. ASSUME NEW f \in OtherForms, OtherPost(f) PROVE TypeInv'
    BY <2>3, OtherPostTypes
  <2>4. CASE UNCHANGED vars
    BY <2>4 DEF vars, clientVars, serverVars, TypeInv, TypeOK, RunningIsRegistered,
       NeedsRegistration
  <2> QED
    BY <2>1, <2>2, <2>3, <2>4 DEF Next
<1> QED
  BY <1>1, <1>2, PTL DEF Spec

THEOREM Typing == Spec => []TypeOK
<1>1. TypeInv => TypeOK
  BY DEF TypeInv
<1> QED
  BY <1>1, TypeInvariance, PTL

-----------------------------------------------------------------------------
(* The inductive invariant: from the random generators to the cache, the   *)
(* key, the session and the nonce stay together.                           *)

(* A request names the key, state and nonce of one run of the generators. *)
RequestsMatch == \A q \in requests : q.state = q.key /\ q.nonce = q.key

(* An answer, given or being prepared, names a session created for the key *)
(* that came with its state and nonce.                                     *)
Matches(h) == h.state = h.nonce /\ origin[h.session] = h.nonce
AnswersMatch ==
  /\ \A h \in handling : Matches(h)
  /\ \A r \in responses : r \in Granted => Matches(r)

(* A call has the secrets its device drew, and once it has taken an answer *)
(* for its own, a session that was created for its key.                    *)
CallsMatch ==
  \A d \in Devices : call[d] # NoCall =>
    /\ call[d].state = call[d].key
    /\ owner[call[d].key] = d
    /\ call[d].step = "discovering" => origin[call[d].session] = call[d].key

(* A cached session was created for the cached key, which the device drew. *)
CachesMatch ==
  \A d \in Devices : ~NeedsRegistration(d) =>
    /\ origin[cached[d].session] = cached[d].key
    /\ owner[cached[d].key] = d

StoreMatches == \A s \in Sessions : binding[s] \in {origin[s], NoKey}

IInv == /\ TypeInv
        /\ RequestsMatch
        /\ AnswersMatch
        /\ CallsMatch
        /\ CachesMatch
        /\ StoreMatches
        /\ AssertionsMatchScope

(* Runs of the generators and sessions keep the device and the key they    *)
(* were drawn for.                                                         *)
HistoryGrows ==
  /\ \A a \in Attempts : owner[a] # NoDevice => owner'[a] = owner[a]
  /\ \A s \in Sessions : origin[s] # NoKey => origin'[s] = origin[s]

(* What is stated of calls, caches and assertions left alone by a step is  *)
(* still true when history grows.                                          *)
LEMMA CallStays ==
  ASSUME IInv, HistoryGrows, NEW d \in Devices, call'[d] = call[d], call[d] # NoCall
  PROVE  /\ call[d].state = call[d].key
         /\ owner'[call[d].key] = d
         /\ call[d].step = "discovering" => origin'[call[d].session] = call[d].key
<1>1. call[d] \in Active
  BY DEF IInv, TypeInv, TypeOK
<1>2. call[d].key \in Attempts
  BY <1>1 DEF Active, Posting, Answered
<1>3. call[d].step = "discovering" => call[d].session \in Sessions
  BY <1>1 DEF Active, Posting, Answered
<1> QED
  BY <1>2, <1>3, NullAssumption DEF IInv, CallsMatch, HistoryGrows

LEMMA CacheStays ==
  ASSUME IInv, HistoryGrows, NEW d \in Devices, ~NeedsRegistration(d)
  PROVE  /\ origin'[cached[d].session] = cached[d].key
         /\ owner'[cached[d].key] = d
BY CachedPair, NullAssumption DEF IInv, TypeInv, CachesMatch, HistoryGrows

LEMMA AnswersStay ==
  ASSUME IInv, HistoryGrows
  PROVE  /\ \A h \in handling : h.state = h.nonce /\ origin'[h.session] = h.nonce
         /\ \A r \in responses : r \in Granted => r.state = r.nonce /\ origin'[r.session] = r.nonce
<1>1. \A h \in handling : h.session \in Sessions /\ h.nonce \in Attempts
  BY DEF IInv, TypeInv, TypeOK
<1>2. \A r \in responses : r \in Granted => r.session \in Sessions /\ r.nonce \in Attempts
  BY DEF Granted
<1> QED
  BY <1>1, <1>2, NullAssumption DEF IInv, AnswersMatch, Matches, HistoryGrows

LEMMA AssertionsStay ==
  ASSUME IInv, HistoryGrows
  PROVE  \A a \in asserted : a.scope = a.session /\ origin'[a.session] = a.key
<1>1. \A a \in asserted : a.session \in Sessions /\ a.key \in Attempts
  BY DEF IInv, TypeInv, TypeOK
<1> QED
  BY <1>1, NullAssumption DEF IInv, AssertionsMatchScope, HistoryGrows

(* A step of one device leaves the others and the provider alone: what is  *)
(* left to show is about its own call and cache, and what it sends.        *)
LEMMA DevicePreserves ==
  ASSUME IInv, TypeInv', HistoryGrows, NEW d \in Devices,
         \A e \in Devices : e # d => call'[e] = call[e] /\ cached'[e] = cached[e],
         UNCHANGED <<responses, handling, binding, origin>>,
         RequestsMatch',
         call'[d] # NoCall =>
           /\ call'[d].state = call'[d].key
           /\ owner'[call'[d].key] = d
           /\ call'[d].step = "discovering" => origin[call'[d].session] = call'[d].key,
         cached'[d] # NoCache =>
           /\ origin[cached'[d].session] = cached'[d].key
           /\ owner'[cached'[d].key] = d,
         AssertionsMatchScope'
  PROVE  IInv'
<1>1. CallsMatch'
  BY CallStays DEF CallsMatch
<1>2. CachesMatch'
  <2> SUFFICES ASSUME NEW e \in Devices, cached'[e] # NoCache
               PROVE  /\ origin[cached'[e].session] = cached'[e].key
                      /\ owner'[cached'[e].key] = e
    BY DEF CachesMatch, NeedsRegistration
  <2>1. CASE e = d
    BY <2>1
  <2>2. CASE e # d
    BY <2>2, CacheStays DEF NeedsRegistration
  <2> QED
    BY <2>1, <2>2
<1>3. AnswersMatch' /\ StoreMatches'
  BY DEF IInv, AnswersMatch, Matches, StoreMatches
<1> QED
  BY <1>1, <1>2, <1>3 DEF IInv

LEMMA EndsPreserves ==
  ASSUME IInv, NEW d \in Devices, Ends(d), UNCHANGED <<responses, serverVars>>
  PROVE  IInv'
<1>1. TypeInv'
  BY EndsTypes DEF IInv
<1>2. /\ call'[d] = NoCall /\ cached'[d] = NoCache
      /\ \A e \in Devices : e # d => call'[e] = call[e] /\ cached'[e] = cached[e]
      /\ UNCHANGED <<requests, asserted, owner, responses, handling, binding, origin>>
  BY DEF Ends, serverVars, IInv, TypeInv, TypeOK
<1>3. HistoryGrows /\ RequestsMatch' /\ AssertionsMatchScope'
  BY <1>2 DEF IInv, HistoryGrows, RequestsMatch, AssertionsMatchScope
<1> QED
  BY <1>1, <1>2, <1>3, DevicePreserves

LEMMA StartPreserves ==
  ASSUME IInv, NEW d \in Devices, Start(d)
  PROVE  IInv'
<1>1. TypeInv'
  BY StartTypes DEF IInv
<1>2. PICK a \in Attempts :
        /\ owner[a] = NoDevice
        /\ owner'    = [owner EXCEPT ![a] = d]
        /\ call'     = [call EXCEPT ![d] = NewCall(a)]
        /\ requests' = requests \cup {[form |-> FormOf(d), key |-> a, state |-> a, nonce |-> a]}
  BY PostEffect DEF Start, IInv, TypeInv
<1>3. /\ owner'[a] = d
      /\ \A b \in Attempts : b # a => owner'[b] = owner[b]
      /\ call'[d] = NewCall(a)
      /\ \A e \in Devices : e # d => call'[e] = call[e]
  BY <1>2 DEF IInv, TypeInv, TypeOK
<1>4. UNCHANGED <<cached, asserted, responses, handling, binding, origin>>
  BY DEF Start, serverVars
<1>5. HistoryGrows
  BY <1>2, <1>3, <1>4 DEF HistoryGrows
<1>6. RequestsMatch'
  BY <1>2 DEF IInv, RequestsMatch
<1>7. AssertionsMatchScope'
  BY <1>4 DEF IInv, AssertionsMatchScope
<1>8. /\ call'[d].state = call'[d].key
      /\ owner'[call'[d].key] = d
      /\ call'[d].step # "discovering"
  BY <1>3 DEF NewCall
<1>9. cached'[d] = NoCache
  BY <1>4 DEF Start, NeedsRegistration
<1> QED
  BY <1>1, <1>3, <1>4, <1>5, <1>6, <1>7, <1>8, <1>9, DevicePreserves

(* The state of the answer is the call's own, so the session was created   *)
(* for the call's key.                                                     *)
LEMMA PostReturnsPreserves ==
  ASSUME IInv, NEW d \in Devices, NEW r \in responses, PostReturns(d, r)
  PROVE  IInv'
<1>1. CASE IsValid(r, call[d].state)
  <2>1. TypeInv'
    BY PostReturnsTypes DEF IInv
  <2>2. call[d] \in Active /\ call[d] # NoCall
    BY ActiveCall DEF PostReturns, IInv, TypeInv
  <2>3. UNCHANGED <<cached, requests, asserted, owner, responses, handling, binding, origin>>
    BY <1>1 DEF PostReturns, serverVars
  <2>4. /\ call'[d].state = call[d].state /\ call'[d].key = call[d].key
        /\ call'[d].session = r.session
        /\ \A e \in Devices : e # d => call'[e] = call[e]
    BY <1>1, <2>2 DEF PostReturns, IInv, TypeInv, TypeOK, Active, Posting, Answered
  <2>5. origin[r.session] = call[d].state
    BY <1>1, ValidIsGranted DEF IInv, TypeInv, AnswersMatch, Matches
  <2>6. call[d].state = call[d].key /\ owner[call[d].key] = d
    BY <2>2 DEF IInv, CallsMatch
  <2>7. HistoryGrows /\ RequestsMatch' /\ AssertionsMatchScope'
    BY <2>3 DEF IInv, HistoryGrows, RequestsMatch, AssertionsMatchScope
  <2>8. cached'[d] # NoCache =>
          origin[cached'[d].session] = cached'[d].key /\ owner'[cached'[d].key] = d
    BY <2>3 DEF IInv, CachesMatch, NeedsRegistration
  <2> QED
    BY <2>1, <2>3, <2>4, <2>5, <2>6, <2>7, <2>8, DevicePreserves
<1>2. CASE ~IsValid(r, call[d].state)
  BY <1>2, EndsPreserves DEF PostReturns
<1> QED
  BY <1>1, <1>2

LEMMA DiscoveredPreserves ==
  ASSUME IInv, NEW d \in Devices, Discovered(d)
  PROVE  IInv'
<1>1. CASE call[d].answered = call[d].nonce
  <2>1. TypeInv'
    BY DiscoveredTypes DEF IInv
  <2>2. call[d] # NoCall /\ call[d].step = "discovering"
    BY ActiveCall DEF Discovered, IInv, TypeInv
  <2>3. UNCHANGED <<requests, asserted, owner, responses, handling, binding, origin>>
    BY <1>1 DEF Discovered, serverVars
  <2>4. /\ call'[d] = NoCall
        /\ cached'[d] = [session |-> call[d].session, key |-> call[d].key]
        /\ \A e \in Devices : e # d => call'[e] = call[e] /\ cached'[e] = cached[e]
    BY <1>1 DEF Discovered, IInv, TypeInv, TypeOK
  <2>5. origin[call[d].session] = call[d].key /\ owner[call[d].key] = d
    BY <2>2 DEF IInv, CallsMatch
  <2>6. HistoryGrows /\ RequestsMatch' /\ AssertionsMatchScope'
    BY <2>3 DEF IInv, HistoryGrows, RequestsMatch, AssertionsMatchScope
  <2>7. origin[cached'[d].session] = cached'[d].key /\ owner'[cached'[d].key] = d
    BY <2>3, <2>4, <2>5
  <2> QED
    BY <2>1, <2>3, <2>4, <2>6, <2>7, DevicePreserves
<1>2. CASE call[d].answered # call[d].nonce
  BY <1>2, EndsPreserves DEF Discovered
<1> QED
  BY <1>1, <1>2

(* The clients are configured with, and the assertions are made for, the   *)
(* session in the cache.                                                   *)
LEMMA ConfigureClientsPreserves ==
  ASSUME IInv, NEW d \in Devices, ConfigureClients(d)
  PROVE  IInv'
<1>1. TypeInv'
  BY ConfigureClientsTypes DEF IInv
<1>2. UNCHANGED <<call, cached, requests, responses, asserted, owner, handling, binding, origin>>
  BY DEF ConfigureClients, serverVars
<1> QED
  BY <1>1, <1>2 DEF IInv, RequestsMatch, AnswersMatch, Matches, CallsMatch, CachesMatch,
     StoreMatches, AssertionsMatchScope, NeedsRegistration

LEMMA AssertionPreserves ==
  ASSUME IInv, NEW d \in Devices, GetClientAssertion(d)
  PROVE  IInv'
<1>1. TypeInv'
  BY AssertionTypes DEF IInv
<1>2. /\ asserted' = asserted \cup {[session |-> cached[d].session,
                                     key |-> cached[d].key, scope |-> scope[d]]}
      /\ scope[d] = cached[d].session
      /\ origin[cached[d].session] = cached[d].key
      /\ UNCHANGED <<call, cached, requests, owner, responses, handling, binding, origin>>
  BY AssertionEffect DEF IInv, CachesMatch
<1>3. AssertionsMatchScope'
  BY <1>2 DEF IInv, AssertionsMatchScope
<1> QED
  BY <1>1, <1>2, <1>3 DEF IInv, RequestsMatch, AnswersMatch, Matches, CallsMatch, CachesMatch,
     StoreMatches, NeedsRegistration

LEMMA OtherPostPreserves ==
  ASSUME IInv, NEW f \in OtherForms, OtherPost(f)
  PROVE  IInv'
<1>1. TypeInv'
  BY OtherPostTypes DEF IInv
<1>2. PICK a \in Attempts :
        /\ owner[a] = NoDevice
        /\ owner'    = [owner EXCEPT ![a] = Others]
        /\ requests' = requests \cup {[form |-> f, key |-> a, state |-> a, nonce |-> a]}
  BY DEF OtherPost
<1>3. UNCHANGED <<call, cached, asserted, responses, handling, binding, origin>>
  BY DEF OtherPost, serverVars
<1>4. HistoryGrows
  BY <1>2, <1>3 DEF HistoryGrows, IInv, TypeInv, TypeOK
<1>5. RequestsMatch'
  BY <1>2 DEF IInv, RequestsMatch
<1>6. CallsMatch'
  BY <1>3, <1>4, CallStays DEF CallsMatch
<1>7. CachesMatch'
  BY <1>3, <1>4, CacheStays DEF CachesMatch, NeedsRegistration
<1>8. AnswersMatch' /\ StoreMatches' /\ AssertionsMatchScope'
  BY <1>3 DEF IInv, AnswersMatch, Matches, StoreMatches, AssertionsMatchScope
<1> QED
  BY <1>1, <1>5, <1>6, <1>7, <1>8 DEF IInv

-----------------------------------------------------------------------------
(* The steps of the identity provider. *)

(* They leave the devices alone, and what is stated of these holds on when *)
(* the provider draws sessions.                                            *)
LEMMA IdpLeavesDevices ==
  ASSUME IInv, IdpNext, HistoryGrows
  PROVE  RequestsMatch' /\ CallsMatch' /\ CachesMatch' /\ AssertionsMatchScope'
<1>1. UNCHANGED <<clientVars, requests>>
  BY DEF IdpNext, RefuseRegistration, CreateSession, Respond, Abort, RestartIdp
<1>2. UNCHANGED <<call, cached, owner, asserted>>
  BY <1>1 DEF clientVars
<1>3. CallsMatch'
  BY <1>2, CallStays DEF CallsMatch
<1>4. CachesMatch'
  BY <1>2, CacheStays DEF CachesMatch, NeedsRegistration
<1>5. RequestsMatch' /\ AssertionsMatchScope'
  BY <1>1, <1>2, AssertionsStay DEF IInv, RequestsMatch, AssertionsMatchScope
<1> QED
  BY <1>3, <1>4, <1>5

(* The session is bound to the key of the request, and answered with the   *)
(* state and nonce of the same request.                                    *)
LEMMA CreateSessionPreserves ==
  ASSUME IInv, NEW q \in requests, CreateSession(q)
  PROVE  IInv'
<1>1. PICK s \in Sessions :
        /\ origin'   = [origin EXCEPT ![s] = q.key]
        /\ Store!Create(s, q.key)
        /\ handling' = handling \cup {[session |-> s, nonce |-> q.nonce, state |-> q.state]}
  BY DEF CreateSession
<1>2. origin[s] = NoKey /\ binding' = [binding EXCEPT ![s] = q.key]
  BY <1>1 DEF Store!Create, Store!Fresh
<1>3. /\ origin'[s] = q.key /\ binding'[s] = q.key
      /\ \A x \in Sessions : x # s => origin'[x] = origin[x] /\ binding'[x] = binding[x]
  BY <1>1, <1>2 DEF IInv, TypeInv, TypeOK
<1>4. HistoryGrows
  BY <1>2, <1>3 DEF HistoryGrows, CreateSession, clientVars
<1>5. AnswersMatch'
  <2>1. q.state = q.nonce /\ origin'[s] = q.nonce
    BY <1>3 DEF IInv, RequestsMatch
  <2>2. responses' = responses
    BY DEF CreateSession
  <2>3. \A h \in handling' : h.state = h.nonce /\ origin'[h.session] = h.nonce
    BY <1>1, <1>4, <2>1, AnswersStay
  <2> QED
    BY <1>4, <2>2, <2>3, AnswersStay DEF AnswersMatch, Matches
<1>6. StoreMatches'
  BY <1>3 DEF IInv, StoreMatches
<1>7. IdpNext
  BY DEF IdpNext
<1> QED
  BY <1>4, <1>5, <1>6, <1>7, IdpTypes, IdpLeavesDevices DEF IInv

LEMMA RespondPreserves ==
  ASSUME IInv, NEW h \in handling, Respond(h)
  PROVE  IInv'
<1>1. UNCHANGED <<origin, binding, owner>> /\ handling' \subseteq handling
  BY DEF Respond, clientVars
<1>2. HistoryGrows
  BY <1>1 DEF HistoryGrows
<1>3. AnswersMatch'
  BY <1>1 DEF IInv, AnswersMatch, Matches, Respond
<1>4. StoreMatches'
  BY <1>1 DEF IInv, StoreMatches
<1>5. IdpNext
  BY DEF IdpNext
<1> QED
  BY <1>2, <1>3, <1>4, <1>5, IdpTypes, IdpLeavesDevices DEF IInv

(* Refusing and aborting give no answer a device could take for its own,   *)
(* and a restart leaves no session with another key.                       *)
LEMMA OtherIdpPreserves ==
  ASSUME IInv, IdpNext, handling' \subseteq handling, UNCHANGED <<origin, owner>>,
         \A r \in responses' : r \in responses \/ r.status # "ok",
         \A s \in Sessions : binding'[s] \in {binding[s], NoKey}
  PROVE  IInv'
<1>1. HistoryGrows
  BY DEF HistoryGrows
<1>2. AnswersMatch'
  BY DEF IInv, AnswersMatch, Matches, Granted
<1>3. StoreMatches'
  BY DEF IInv, StoreMatches
<1> QED
  BY <1>1, <1>2, <1>3, IdpTypes, IdpLeavesDevices DEF IInv

LEMMA IdpPreserves ==
  ASSUME IInv, IdpNext
  PROVE  IInv'
<1>1. ASSUME NEW q \in requests, RefuseRegistration(q) PROVE IInv'
  <2>1. /\ UNCHANGED <<handling, origin, owner, binding>>
        /\ \A r \in responses' : r \in responses \/ r.status # "ok"
    BY <1>1 DEF RefuseRegistration, UnauthorizedValidationParametersFailed, clientVars, serverVars
  <2> QED
    BY <2>1, OtherIdpPreserves
<1>2. ASSUME NEW h \in handling, Abort(h) PROVE IInv'
  <2>1. /\ handling' \subseteq handling
        /\ UNCHANGED <<responses, origin, owner, binding>>
    BY <1>2 DEF Abort, clientVars
  <2> QED
    BY <2>1, OtherIdpPreserves
<1>3. CASE RestartIdp
  <2>1. /\ handling' = {}
        /\ UNCHANGED <<responses, origin, owner>>
        /\ \A s \in Sessions : binding'[s] = NoKey
    BY <1>3 DEF RestartIdp, Store!Forget, Store!EmptyStore, clientVars
  <2> QED
    BY <2>1, OtherIdpPreserves
<1> QED
  BY <1>1, <1>2, <1>3, CreateSessionPreserves, RespondPreserves DEF IdpNext

(* The invariant holds in every reachable state. *)
THEOREM Invariance == Spec => []IInv
<1>1. Init => IInv
  <2>1. Init => TypeInv
    BY DEF Init, TypeInv, TypeOK, RunningIsRegistered, Cache, Store!EmptyStore
  <2> QED
    BY <2>1 DEF Init, IInv, RequestsMatch, AnswersMatch, CallsMatch, CachesMatch, StoreMatches,
       AssertionsMatchScope, NeedsRegistration, Store!EmptyStore
<1>2. IInv /\ [Next]_vars => IInv'
  <2> SUFFICES ASSUME IInv, [Next]_vars PROVE IInv'
    OBVIOUS
  <2>1. ASSUME NEW d \in Devices, DeviceNext(d) PROVE IInv'
    <3>1. CASE PostFails(d) \/ DiscoveryFails(d) \/ Stop(d)
      BY <3>1, EndsPreserves DEF PostFails, DiscoveryFails, Stop
    <3>2. CASE ~(PostFails(d) \/ DiscoveryFails(d) \/ Stop(d))
      BY <2>1, <3>2, StartPreserves, PostReturnsPreserves, DiscoveredPreserves,
         ConfigureClientsPreserves, AssertionPreserves DEF DeviceNext, Startup
    <3> QED
      BY <3>1, <3>2
  <2>2. CASE IdpNext
    BY <2>2, IdpPreserves
  <2>3. ASSUME NEW f \in OtherForms, OtherPost(f) PROVE IInv'
    BY <2>3, OtherPostPreserves
  <2>4. CASE UNCHANGED vars
    BY <2>4 DEF vars, clientVars, serverVars, IInv, TypeInv, TypeOK, RunningIsRegistered,
       NeedsRegistration, RequestsMatch, AnswersMatch, Matches, CallsMatch, CachesMatch,
       StoreMatches, AssertionsMatchScope
  <2> QED
    BY <2>1, <2>2, <2>3, <2>4 DEF Next
<1> QED
  BY <1>1, <1>2, PTL DEF Spec

(* A device whose registration succeeded holds a session created for the   *)
(* very key it signs with (KeySessionService.cs:38-60, 94-99).             *)
THEOREM CacheIsRight == Spec => []CachedAgreesWithIdp
<1>1. IInv => CachedAgreesWithIdp
  <2> SUFFICES ASSUME IInv, NEW d \in Devices, ~NeedsRegistration(d)
               PROVE  /\ origin[cached[d].session] = cached[d].key
                      /\ binding[cached[d].session] \in {cached[d].key, NoKey}
    BY DEF CachedAgreesWithIdp
  <2>1. cached[d].session \in Sessions
    BY CachedPair DEF IInv, TypeInv
  <2> QED
    BY <2>1 DEF IInv, CachesMatch, StoreMatches
<1> QED
  BY <1>1, Invariance, PTL

(* A session belongs to one device: it was created for one key, which one  *)
(* device drew.                                                            *)
THEOREM SessionsAreNotShared == Spec => []NoSharedSession
<1>1. IInv => NoSharedSession
  <2> SUFFICES ASSUME IInv, NEW d \in Devices, NEW e \in Devices, d # e,
                      ~NeedsRegistration(d), cached[d].session = cached[e].session
               PROVE  FALSE
    BY DEF NoSharedSession
  <2>1. CASE NeedsRegistration(e)
    <3>1. cached[e].session = NoSession
      BY <2>1 DEF NeedsRegistration, NoCache
    <3> QED
      BY <3>1, CachedPair, NullAssumption DEF IInv, TypeInv
  <2>2. CASE ~NeedsRegistration(e)
    BY <2>2 DEF IInv, CachesMatch
  <2> QED
    BY <2>1, <2>2
<1> QED
  BY <1>1, Invariance, PTL

(* Every assertion a program sends is for the session of the scope it is   *)
(* sent with, signed with the key that session was created for             *)
(* (ClientAssertionService.cs, Program.cs).                                *)
THEOREM AssertionsAreRight == Spec => []AssertionsMatchScope
<1>1. IInv => AssertionsMatchScope
  BY DEF IInv
<1> QED
  BY <1>1, Invariance, PTL

-----------------------------------------------------------------------------
(* Registration implements Enrolment.  Two facts more: the keys in requests *)
(* were generated, and a process registers once, before it has a session.  *)
RequestsAreGenerated == \A q \in requests : owner[q.key] # NoDevice
RegistersOnce        == \A d \in Devices : call[d] # NoCall => NeedsRegistration(d)

EInv == IInv /\ RequestsAreGenerated /\ RegistersOnce

(* A step that adds no request, and gives no device a call or takes its    *)
(* need for one, keeps both.                                               *)
LEMMA QuietStep ==
  ASSUME EInv, IInv', requests' \subseteq requests, UNCHANGED owner,
         \A d \in Devices : call'[d] # NoCall => call[d] # NoCall /\ cached'[d] = cached[d]
  PROVE  EInv'
BY DEF EInv, RequestsAreGenerated, RegistersOnce, NeedsRegistration

LEMMA EndsKeepsEInv ==
  ASSUME EInv, IInv', NEW d \in Devices, Ends(d)
  PROVE  EInv'
<1>1. /\ requests' = requests /\ owner' = owner
      /\ \A e \in Devices : call'[e] # NoCall => call[e] # NoCall /\ cached'[e] = cached[e]
  BY DEF Ends, EInv, IInv, TypeInv, TypeOK
<1> QED
  BY <1>1, QuietStep

LEMMA DeviceKeepsEInv ==
  ASSUME EInv, IInv', NEW d \in Devices, DeviceNext(d)
  PROVE  EInv'
<1> USE DEF EInv, IInv, TypeInv
<1>1. CASE PostFails(d) \/ DiscoveryFails(d) \/ Stop(d)
  BY <1>1, EndsKeepsEInv DEF PostFails, DiscoveryFails, Stop
<1>2. CASE Start(d)
  <2>1. PICK a \in Attempts :
          /\ owner[a] = NoDevice
          /\ owner'    = [owner EXCEPT ![a] = d]
          /\ call'     = [call EXCEPT ![d] = NewCall(a)]
          /\ requests' = requests \cup {[form |-> FormOf(d), key |-> a, state |-> a, nonce |-> a]}
    BY <1>2, PostEffect DEF Start
  <2>2. RequestsAreGenerated'
    <3>1. owner'[a] = d /\ d # NoDevice
      BY <2>1, NullAssumption DEF TypeOK
    <3>2. \A b \in Attempts : owner[b] # NoDevice => owner'[b] # NoDevice
      BY <2>1, <3>1 DEF TypeOK
    <3>3. \A q \in requests : q.key \in Attempts
      BY DEF TypeOK, Request
    <3> QED
      BY <2>1, <3>1, <3>2, <3>3 DEF RequestsAreGenerated
  <2>3. RegistersOnce'
    BY <1>2, <2>1 DEF Start, RegistersOnce, NeedsRegistration, TypeOK
  <2> QED
    BY <2>2, <2>3
<1>3. ASSUME NEW r \in responses, PostReturns(d, r) PROVE EInv'
  <2>1. CASE IsValid(r, call[d].state)
    <3>1. call[d] # NoCall /\ UNCHANGED <<requests, owner, cached>>
      BY <1>3, <2>1, ActiveCall DEF PostReturns
    <3>2. \A e \in Devices : e # d => call'[e] = call[e]
      BY <1>3, <2>1 DEF PostReturns, TypeOK
    <3> QED
      BY <3>1, <3>2, QuietStep
  <2>2. CASE ~IsValid(r, call[d].state)
    BY <1>3, <2>2, EndsKeepsEInv DEF PostReturns
  <2> QED
    BY <2>1, <2>2
<1>4. CASE Discovered(d)
  <2>1. CASE call[d].answered = call[d].nonce
    <3>1. /\ call'[d] = NoCall
          /\ \A e \in Devices : e # d => call'[e] = call[e] /\ cached'[e] = cached[e]
          /\ UNCHANGED <<requests, owner>>
      BY <1>4, <2>1 DEF Discovered, TypeOK
    <3> QED
      BY <3>1, QuietStep
  <2>2. CASE call[d].answered # call[d].nonce
    BY <1>4, <2>2, EndsKeepsEInv DEF Discovered
  <2> QED
    BY <2>1, <2>2
<1>5. CASE ConfigureClients(d) \/ GetClientAssertion(d)
  <2>1. UNCHANGED <<requests, owner, call, cached>>
    BY <1>5, AssertionEffect DEF ConfigureClients
  <2> QED
    BY <2>1, QuietStep
<1> QED
  BY <1>1, <1>2, <1>3, <1>4, <1>5 DEF DeviceNext, Startup

THEOREM EnrolmentInvariance == Spec => []EInv
<1>1. Init => RequestsAreGenerated /\ RegistersOnce
  BY DEF Init, RequestsAreGenerated, RegistersOnce
<1>2. EInv /\ IInv' /\ [Next]_vars => RequestsAreGenerated' /\ RegistersOnce'
  <2> SUFFICES ASSUME EInv, IInv', [Next]_vars PROVE EInv'
    BY DEF EInv
  <2>1. ASSUME NEW d \in Devices, DeviceNext(d) PROVE EInv'
    BY <2>1, DeviceKeepsEInv
  <2>2. CASE IdpNext
    <3>1. UNCHANGED <<requests, owner, call, cached>>
      BY <2>2 DEF IdpNext, RefuseRegistration, CreateSession, Respond, Abort, RestartIdp, clientVars
    <3> QED
      BY <3>1, QuietStep
  <2>3. ASSUME NEW f \in OtherForms, OtherPost(f) PROVE EInv'
    <3>1. PICK a \in Attempts :
            /\ owner'    = [owner EXCEPT ![a] = Others]
            /\ requests' = requests \cup {[form |-> f, key |-> a, state |-> a, nonce |-> a]}
      BY <2>3 DEF OtherPost
    <3>2. /\ owner'[a] # NoDevice
          /\ \A b \in Attempts : owner[b] # NoDevice => owner'[b] # NoDevice
      BY <3>1, NullAssumption DEF EInv, IInv, TypeInv, TypeOK
    <3>3. \A q \in requests : q.key \in Attempts
      BY DEF EInv, IInv, TypeInv, TypeOK, Request
    <3>4. RequestsAreGenerated'
      BY <3>1, <3>2, <3>3 DEF EInv, RequestsAreGenerated
    <3>5. RegistersOnce'
      BY <2>3 DEF OtherPost, EInv, RegistersOnce, NeedsRegistration
    <3> QED
      BY <3>4, <3>5 DEF EInv
  <2>4. CASE UNCHANGED vars
    BY <2>4, QuietStep DEF vars, clientVars
  <2> QED
    BY <2>1, <2>2, <2>3, <2>4 DEF Next
<1> QED
  BY <1>1, <1>2, Invariance, PTL DEF Spec, EInv

-----------------------------------------------------------------------------
(* The steps of Enrolment. *)

(* Devices that keep key and session, with keys and store as they are, are *)
(* not seen to move.                                                       *)
LEMMA Stutters ==
  ASSUME UNCHANGED <<owner, origin, binding>>,
         \A d \in Devices : KeyOf(d)' = KeyOf(d) /\ cached'[d].session = cached[d].session
  PROVE  UNCHANGED Enrolled!enrolVars
BY DEF Enrolled!enrolVars, Enrolled!deviceVars, Enrolled!storeVars

LEMMA EndsLeaves ==
  ASSUME IInv, NEW d \in Devices, Ends(d), UNCHANGED <<responses, serverVars>>
  PROVE  Enrolled!Leave(d)
<1>1. /\ call'[d] = NoCall /\ cached'[d] = NoCache
      /\ \A e \in Devices : e # d => call'[e] = call[e] /\ cached'[e] = cached[e]
      /\ UNCHANGED <<owner, binding, origin>>
  BY DEF Ends, serverVars, IInv, TypeInv, TypeOK
<1>2. KeyOf(d)' = NoKey /\ cached'[d].session = NoSession
  BY <1>1 DEF KeyOf, NoCache
<1>3. \A e \in Devices : e # d => KeyOf(e)' = KeyOf(e) /\ cached'[e].session = cached[e].session
  BY <1>1 DEF KeyOf
<1> QED
  BY <1>1, <1>2, <1>3 DEF Enrolled!Leave, Enrolled!storeVars

(* The owner of a run of the generators makes its key a generated one. *)
LEMMA KeyIsGenerated ==
  ASSUME IInv, NEW a \in Attempts, NEW x, x # NoDevice, owner' = [owner EXCEPT ![a] = x]
  PROVE  {b \in Attempts : owner'[b] # NoDevice} = {b \in Attempts : owner[b] # NoDevice} \cup {a}
BY DEF IInv, TypeInv, TypeOK

LEMMA StartGenerates ==
  ASSUME IInv, NEW d \in Devices, Start(d)
  PROVE  \E a \in Attempts : Enrolled!Generate(d, a)
<1>1. PICK a \in Attempts :
        /\ owner[a] = NoDevice
        /\ owner'   = [owner EXCEPT ![a] = d]
        /\ call'    = [call EXCEPT ![d] = NewCall(a)]
  BY PostEffect DEF Start, IInv, TypeInv
<1>2. UNCHANGED <<cached, binding, origin>>
  BY DEF Start, serverVars
<1>3. KeyOf(d) = NoKey
  BY DEF Start, IInv, TypeInv, TypeOK, KeyOf, NoCache
<1>4. KeyOf(d)' = a
  BY <1>1 DEF IInv, TypeInv, TypeOK, KeyOf, NewCall, NoCall
<1>5. \A e \in Devices : e # d => KeyOf(e)' = KeyOf(e)
  BY <1>1, <1>2 DEF IInv, TypeInv, TypeOK, KeyOf
<1>6. {b \in Attempts : owner'[b] # NoDevice} = {b \in Attempts : owner[b] # NoDevice} \cup {a}
  BY <1>1, KeyIsGenerated, NullAssumption
<1>7. [e \in Devices |-> KeyOf(e)]' = [[e \in Devices |-> KeyOf(e)] EXCEPT ![d] = a]
  BY <1>4, <1>5
<1> QED
  BY <1>1, <1>2, <1>3, <1>6, <1>7 DEF Enrolled!Generate, Enrolled!storeVars

(* The answer is taken: the key is still the one of the call. *)
LEMMA PostReturnsStutters ==
  ASSUME IInv, NEW d \in Devices, NEW r \in responses, PostReturns(d, r)
  PROVE  Enrolled!Leave(d) \/ UNCHANGED Enrolled!enrolVars
<1>1. CASE IsValid(r, call[d].state)
  <2>1. call[d] \in Active /\ call[d] # NoCall
    BY ActiveCall DEF PostReturns, IInv, TypeInv
  <2>2. /\ call'[d].key = call[d].key /\ call'[d].step = "discovering"
        /\ \A e \in Devices : e # d => call'[e] = call[e]
        /\ UNCHANGED <<cached, owner, binding, origin>>
    BY <1>1, <2>1 DEF PostReturns, serverVars, IInv, TypeInv, TypeOK, Active, Posting, Answered
  <2>3. \A e \in Devices : KeyOf(e)' = KeyOf(e)
    BY <2>1, <2>2 DEF KeyOf, NoCall
  <2> QED
    BY <2>2, <2>3, Stutters
<1>2. CASE ~IsValid(r, call[d].state)
  BY <1>2, EndsLeaves DEF PostReturns
<1> QED
  BY <1>1, <1>2

(* The session is cached: the step at which the device is enrolled. *)
LEMMA DiscoveredEnrols ==
  ASSUME EInv, NEW d \in Devices, Discovered(d)
  PROVE  Enrolled!Leave(d) \/ \E s \in Sessions : Enrolled!Enrol(d, s)
<1> USE DEF EInv, IInv, TypeInv
<1>1. CASE call[d].answered = call[d].nonce
  <2>1. call[d] \in Active /\ call[d] # NoCall /\ call[d].step = "discovering"
    BY ActiveCall DEF Discovered
  <2>2. call[d].session \in Sessions /\ call[d].key \in Attempts
    BY <2>1 DEF Active, Posting, Answered
  <2>3. /\ call'[d] = NoCall
        /\ cached'[d] = [session |-> call[d].session, key |-> call[d].key]
        /\ \A e \in Devices : e # d => call'[e] = call[e] /\ cached'[e] = cached[e]
        /\ UNCHANGED <<owner, binding, origin>>
    BY <1>1 DEF Discovered, TypeOK, serverVars
  <2>4. cached[d].session = NoSession
    BY <2>1 DEF RegistersOnce, NeedsRegistration, NoCache
  <2>5. KeyOf(d) = call[d].key /\ KeyOf(d) # NoKey /\ origin[call[d].session] = KeyOf(d)
    BY <2>1, <2>2, NullAssumption DEF KeyOf, CallsMatch
  <2>6. \A e \in Devices : KeyOf(e)' = KeyOf(e)
    BY <2>1, <2>3 DEF KeyOf
  <2>7. PICK s \in Sessions : s = call[d].session
    BY <2>2
  <2>8. cached'[d].session = s /\ \A e \in Devices : e # d => cached'[e].session = cached[e].session
    BY <2>3, <2>7
  <2>9. [e \in Devices |-> cached[e].session]'
          = [[e \in Devices |-> cached[e].session] EXCEPT ![d] = s]
    BY <2>8
  <2>10. Enrolled!Enrol(d, s)
    BY <2>3, <2>4, <2>5, <2>6, <2>7, <2>9 DEF Enrolled!Enrol, Enrolled!storeVars
  <2> QED
    BY <2>10
<1>2. CASE call[d].answered # call[d].nonce
  BY <1>2, EndsLeaves DEF Discovered
<1> QED
  BY <1>1, <1>2

LEMMA DeviceStep ==
  ASSUME EInv, NEW d \in Devices, DeviceNext(d)
  PROVE  Enrolled!EnrolNext \/ UNCHANGED Enrolled!enrolVars
<1> USE DEF EInv
<1>1. CASE PostFails(d) \/ DiscoveryFails(d) \/ Stop(d)
  <2>1. Enrolled!Leave(d)
    BY <1>1, EndsLeaves DEF PostFails, DiscoveryFails, Stop
  <2> QED
    BY <2>1 DEF Enrolled!EnrolNext
<1>2. CASE Start(d)
  BY <1>2, StartGenerates DEF Enrolled!EnrolNext
<1>3. CASE \E r \in responses : PostReturns(d, r)
  BY <1>3, PostReturnsStutters DEF Enrolled!EnrolNext
<1>4. CASE Discovered(d)
  BY <1>4, DiscoveredEnrols DEF Enrolled!EnrolNext
<1>5. CASE ConfigureClients(d) \/ GetClientAssertion(d)
  <2>1. UNCHANGED <<owner, call, cached, origin, binding>>
    BY <1>5, AssertionEffect DEF ConfigureClients, serverVars, IInv
  <2> QED
    BY <2>1, Stutters DEF KeyOf
<1> QED
  BY <1>1, <1>2, <1>3, <1>4, <1>5 DEF DeviceNext, Startup

(* The store's part of the mapping. *)
LEMMA CreateSessionCreates ==
  ASSUME EInv, NEW q \in requests, CreateSession(q)
  PROVE  \E s \in Sessions : Enrolled!CreateFor(s, q.key)
<1> USE DEF EInv, IInv, TypeInv
<1>1. PICK s \in Sessions :
        origin' = [origin EXCEPT ![s] = q.key] /\ Store!Create(s, q.key)
  BY DEF CreateSession
<1>2. /\ UNCHANGED <<owner, call, cached>>
      /\ q.key \in Attempts /\ owner[q.key] # NoDevice
  BY DEF CreateSession, clientVars, TypeOK, Request, RequestsAreGenerated
<1>3. origin[s] = NoKey /\ binding' = [binding EXCEPT ![s] = q.key]
  BY <1>1 DEF Store!Create, Store!Fresh
<1>4. {x \in Sessions : origin'[x] # NoKey} = {x \in Sessions : origin[x] # NoKey} \cup {s}
  BY <1>1, <1>2, NullAssumption DEF TypeOK
<1>5. Enrolled!Create(s, q.key)
  BY <1>3, <1>4 DEF Enrolled!Create, Enrolled!Fresh
<1>6. UNCHANGED Enrolled!deviceVars
  BY <1>2 DEF Enrolled!deviceVars, KeyOf
<1> QED
  BY <1>1, <1>2, <1>5, <1>6 DEF Enrolled!CreateFor

LEMMA IdpStep ==
  ASSUME EInv, IdpNext
  PROVE  Enrolled!EnrolNext \/ UNCHANGED Enrolled!enrolVars
<1>1. ASSUME NEW q \in requests, CreateSession(q) PROVE Enrolled!EnrolNext
  <2>1. q.key \in Attempts
    BY DEF EInv, IInv, TypeInv, TypeOK, Request
  <2> QED
    BY <1>1, <2>1, CreateSessionCreates DEF Enrolled!EnrolNext
<1>2. CASE RestartIdp
  <2>1. UNCHANGED <<owner, call, cached, origin>> /\ Store!Forget
    BY <1>2 DEF RestartIdp, clientVars
  <2>2. Enrolled!Forget
    BY <2>1 DEF Store!Forget, Store!EmptyStore, Enrolled!Forget, Enrolled!EmptyStore
  <2>3. UNCHANGED Enrolled!deviceVars
    BY <2>1 DEF Enrolled!deviceVars, KeyOf
  <2> QED
    BY <2>1, <2>2, <2>3 DEF Enrolled!Lose, Enrolled!EnrolNext
<1>3. CASE UNCHANGED <<clientVars, binding, origin>>
  BY <1>3, Stutters DEF clientVars, KeyOf
<1> QED
  BY <1>1, <1>2, <1>3 DEF IdpNext, RefuseRegistration, Respond, Abort, serverVars

(* Registration, for any number of devices and messages, and any losses,   *)
(* delays, repetitions and restarts, is the one-step enrolment of a device *)
(* with the key of its process.                                            *)
THEOREM ImplementsEnrolment == Spec => RegistersAtOnce
<1>1. Init => Enrolled!EnrolInit
  <2> SUFFICES ASSUME Init PROVE Enrolled!EnrolInit
    OBVIOUS
  <2>1. \A d \in Devices : KeyOf(d) = NoKey /\ cached[d].session = NoSession
    BY DEF Init, KeyOf, NoCache
  <2>2. {a \in Attempts : owner[a] # NoDevice} = {} /\ {s \in Sessions : origin[s] # NoKey} = {}
    BY DEF Init
  <2> QED
    BY <2>1, <2>2 DEF Init, Enrolled!EnrolInit, Enrolled!Init, Store!EmptyStore,
       Enrolled!EmptyStore
<1>2. EInv /\ [Next]_vars => [Enrolled!EnrolNext]_(Enrolled!enrolVars)
  <2> SUFFICES ASSUME EInv, [Next]_vars
               PROVE  Enrolled!EnrolNext \/ UNCHANGED Enrolled!enrolVars
    OBVIOUS
  <2>1. ASSUME NEW f \in OtherForms, OtherPost(f) PROVE Enrolled!EnrolNext
    <3>1. PICK a \in Attempts : owner[a] = NoDevice /\ owner' = [owner EXCEPT ![a] = Others]
      BY <2>1 DEF OtherPost
    <3>2. {b \in Attempts : owner'[b] # NoDevice}
            = {b \in Attempts : owner[b] # NoDevice} \cup {a}
      BY <3>1, KeyIsGenerated, NullAssumption DEF EInv
    <3>3. UNCHANGED <<call, cached, origin, binding>>
      BY <2>1 DEF OtherPost, serverVars
    <3>4. Enrolled!GenerateElsewhere(a)
      BY <3>1, <3>2, <3>3 DEF Enrolled!GenerateElsewhere, Enrolled!storeVars, KeyOf
    <3> QED
      BY <3>4 DEF Enrolled!EnrolNext
  <2>2. CASE UNCHANGED vars
    BY <2>2, Stutters DEF vars, clientVars, serverVars, KeyOf
  <2> QED
    BY <2>1, <2>2, DeviceStep, IdpStep DEF Next
<1> QED
  BY <1>1, <1>2, EnrolmentInvariance, PTL DEF Spec, RegistersAtOnce, Enrolled!EnrolSpec
=============================================================================
