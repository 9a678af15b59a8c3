---------------------------- MODULE TokenEndpoint ----------------------------
(***************************************************************************)
(* Client authentication at the token endpoint:                            *)
(* Idp/PerInstancePrivateKeyJwtSecretValidator.cs with the session store   *)
(* it reads, the replay cache it writes and the clock both depend on.      *)
(*                                                                         *)
(* The validator runs once per token request, and requests overlap: it     *)
(* reads the session's key, awaits, validates the assertion, awaits the    *)
(* replay cache twice and answers.  The same assertion may arrive in more  *)
(* than one request (a retry, a duplicate).  A restart of the identity     *)
(* provider empties the session store and the replay cache together, both  *)
(* being kept in its memory.                                               *)
(***************************************************************************)
EXTENDS Naturals, FiniteSets

CONSTANTS Sessions, PublicKeys, NoKey, NoSession,
          KeyAlg,             \* the algorithm of each key
          Jtis,               \* bound: assertions, named by their jti
          NoAssertion,
          Requests,           \* bound: token requests
          AssertionLifetime,  \* ClientAssertionService: 1 minute
          ClockSkew,          \* TokenValidationParameters: 10 seconds
          ReplayGrace,        \* exp.AddMinutes(5)
          MaxDelay,           \* assumed: from the validation of an assertion to the
                              \*   answer of the replay cache's lookup
          MaxTime             \* bound: the clock

ASSUME TimeAssumption ==
  /\ {AssertionLifetime, ClockSkew, ReplayGrace, MaxDelay, MaxTime} \subseteq Nat
  /\ ClockSkew + MaxDelay < ReplayGrace
ASSUME NullAssumption == NoKey \notin PublicKeys /\ NoSession \notin Sessions

VARIABLES
  now,        \* the clock
  binding,    \* session -> key, or NoKey (SessionStore.tla)
  origin,     \* history: session -> the key it was drawn for
  assertion,  \* jti -> the client assertion signed with that jti
  request,    \* request -> where the validator is with it
  replay,     \* replay cache: jti -> when its entry expires (0: no entry)
  seen        \* history: the jtis ever recorded

storeVars == <<binding, origin>>
vars      == <<now, storeVars, assertion, request, replay, seen>>

Store == INSTANCE SessionStore WITH
           drawn <- {s \in Sessions : origin[s] # NoKey}

NoRequest == [step |-> "none", jti |-> NoAssertion, scope |-> NoSession,
              trusted |-> NoKey, at |-> 0]

Init ==
  /\ now       = 0
  /\ binding   = Store!EmptyStore
  /\ origin    = [s \in Sessions |-> NoKey]
  /\ assertion = [j \in Jtis |-> NoAssertion]
  /\ request   = [r \in Requests |-> NoRequest]
  /\ replay    = [j \in Jtis |-> 0]
  /\ seen      = {}

At(r, step)     == request[r].step = step
Goto(r, step)   == request' = [request EXCEPT ![r].step = step]
AssertionOf(r)  == assertion[request[r].jti]
InProgress(r)   == request[r].step \in {"received", "keyed", "validated", "new"}

-----------------------------------------------------------------------------
(* The surroundings of the validator *)

(* DeviceRegistrationController creates a session. *)
Register(s, k) ==
  /\ origin' = [origin EXCEPT ![s] = k]
  /\ Store!Create(s, k)
  /\ UNCHANGED <<now, assertion, request, replay, seen>>

(* A client signs an assertion for a session with some key.  The console   *)
(* programs use their own; wellFormed covers what is right or wrong with   *)
(* the other claims: issuer, audience, subject, jti.                       *)
Sign(j, s, k, exp, wellFormed) ==
  /\ assertion[j] = NoAssertion
  /\ assertion' = [assertion EXCEPT ![j] =
                     [session |-> s, key |-> k, exp |-> exp, wellFormed |-> wellFormed]]
  /\ UNCHANGED <<now, storeVars, request, replay, seen>>

(* A token request arrives with an assertion, for the first time or again, *)
(* and a scope with or without an auth_session.                            *)
Receive(r, j, s) ==
  /\ At(r, "none")
  /\ assertion[j] # NoAssertion
  /\ request' = [request EXCEPT ![r] =
                   [NoRequest EXCEPT !.step = "received", !.jti = j, !.scope = s]]
  /\ UNCHANGED <<now, storeVars, assertion, replay, seen>>

(* Time passes; a request does not take longer than MaxDelay to get from   *)
(* the validated token to the end of the replay lookup.                    *)
Tick ==
  /\ now < MaxTime
  /\ \A r \in Requests : At(r, "validated") => now < request[r].at + MaxDelay
  /\ now' = now + 1
  /\ UNCHANGED <<storeVars, assertion, request, replay, seen>>

(* Mutant: the store is emptied below the requests in progress, as by an   *)
(* eviction of sessions.                                                   *)
RestartBelowRequests ==
  /\ origin'  = origin
  /\ Store!Forget
  /\ replay'  = [j \in Jtis |-> 0]
  /\ UNCHANGED <<now, assertion, request, seen>>

(* The identity provider stops and starts: sessions, replay cache and the  *)
(* requests in progress are gone.                                          *)
Restart ==
  /\ origin'  = origin
  /\ Store!Forget
  /\ replay'  = [j \in Jtis |-> 0]
  /\ request' = [r \in Requests |->
                   IF InProgress(r) THEN [request[r] EXCEPT !.step = "failed"] ELSE request[r]]
  /\ UNCHANGED <<now, assertion, seen>>

-----------------------------------------------------------------------------
(* ValidateAsync *)

(* GetPublicSecurityKey: the key stored for the session; NoKey where the   *)
(* code throws, for an unknown session and for a PEM of another algorithm. *)
GetPublicSecurityKey(s, alg) ==
  IF Store!Known(s) /\ KeyAlg[binding[s]] = alg THEN binding[s] ELSE NoKey

(* The session and algorithm are read from the assertion, not yet          *)
(* validated, and select the key.                                          *)
SelectedKey(r) ==
  GetPublicSecurityKey(AssertionOf(r).session, KeyAlg[AssertionOf(r).key])

(* Mutant: a request that asks for no auth_session passes. *)
ScopeMatchesOrMissing(r) == request[r].scope \in {NoSession, AssertionOf(r).session}

(* The auth_session of the scope must be the one of the assertion. *)
ScopeMatches(r) == AssertionOf(r).session = request[r].scope

(* The exception leaves the validator: the request ends without an answer  *)
(* of the validator.                                                       *)
KeyMissing(r) ==
  /\ At(r, "received")
  /\ SelectedKey(r) = NoKey
  /\ Goto(r, "failed")
  /\ UNCHANGED <<now, storeVars, assertion, replay, seen>>

(* Compare the scope, then await the issuer name with the key in hand. *)
SelectKey(r) ==
  /\ At(r, "received")
  /\ SelectedKey(r) # NoKey
  /\ IF ScopeMatches(r)
       THEN request' = [request EXCEPT ![r].step = "keyed", ![r].trusted = SelectedKey(r)]
       ELSE Goto(r, "refused")
  /\ UNCHANGED <<now, storeVars, assertion, replay, seen>>

(* ValidateTokenAsync and the checks of the claims after it. *)
TokenIsValid(r) ==
  /\ AssertionOf(r).key = request[r].trusted
  /\ AssertionOf(r).wellFormed
  /\ now <= AssertionOf(r).exp + ClockSkew

ValidateToken(r) ==
  /\ At(r, "keyed")
  /\ IF TokenIsValid(r)
       THEN request' = [request EXCEPT ![r].step = "validated", ![r].at = now]
       ELSE Goto(r, "refused")
  /\ UNCHANGED <<now, storeVars, assertion, replay, seen>>

(* ExistsAsync.  An entry is found until it expires. *)
Exists(j) == now < replay[j]

(* Mutant: the lookup reserves the jti. *)
CheckReplayReserving(r) ==
  /\ At(r, "validated")
  /\ Goto(r, IF Exists(request[r].jti) THEN "refused" ELSE "new")
  /\ replay' = [replay EXCEPT ![request[r].jti] = now + ReplayGrace]
  /\ UNCHANGED <<now, storeVars, assertion, seen>>

CheckReplay(r) ==
  /\ At(r, "validated")
  /\ Goto(r, IF Exists(request[r].jti) THEN "refused" ELSE "new")
  /\ UNCHANGED <<now, storeVars, assertion, replay, seen>>

(* Mutant: the entry lives as long as the assertion. *)
ReplayExpiryAtExp(exp) == exp

(* AddAsync, and success. *)
ReplayExpiry(exp) == exp + ReplayGrace

RecordJti(r) ==
  /\ At(r, "new")
  /\ replay' = [replay EXCEPT ![request[r].jti] = ReplayExpiry(AssertionOf(r).exp)]
  /\ seen'   = seen \cup {request[r].jti}
  /\ Goto(r, "accepted")
  /\ UNCHANGED <<now, storeVars, assertion>>

ValidateAsync(r) ==
  KeyMissing(r) \/ SelectKey(r) \/ ValidateToken(r) \/ CheckReplay(r) \/ RecordJti(r)

Next ==
  \/ \E s \in Sessions, k \in PublicKeys : Register(s, k)
  \/ \E j \in Jtis, s \in Sessions, k \in PublicKeys,
        exp \in now .. now + AssertionLifetime, wellFormed \in BOOLEAN :
          Sign(j, s, k, exp, wellFormed)
  \/ \E r \in Requests, j \in Jtis, s \in Sessions \cup {NoSession} : Receive(r, j, s)
  \/ \E r \in Requests : ValidateAsync(r)
  \/ Tick
  \/ Restart

Spec == Init /\ [][Next]_vars

-----------------------------------------------------------------------------
(* Properties *)

Assertion == [session : Sessions, key : PublicKeys, exp : Nat, wellFormed : BOOLEAN]
Steps     == {"received", "keyed", "validated", "new", "accepted", "refused", "failed"}
Request   == [step : Steps, jti : Jtis, scope : Sessions \cup {NoSession},
              trusted : PublicKeys \cup {NoKey}, at : Nat]

(* The shape of every variable; a request past its arrival has a signed    *)
(* assertion, and an entry of the replay cache belongs to one.             *)
TypeOK ==
  /\ now       \in Nat
  /\ binding   \in [Sessions -> PublicKeys \cup {NoKey}]
  /\ origin    \in [Sessions -> PublicKeys \cup {NoKey}]
  /\ assertion \in [Jtis -> Assertion \cup {NoAssertion}]
  /\ request   \in [Requests -> Request \cup {NoRequest}]
  /\ replay    \in [Jtis -> Nat]
  /\ seen      \in SUBSET Jtis
  /\ \A r \in Requests : request[r] # NoRequest => AssertionOf(r) # NoAssertion
  /\ \A j \in Jtis : replay[j] # 0 => j \in seen

(* An assertion that was once recorded never passes the replay lookup      *)
(* again: not while its entry is in the cache, not when the entry has      *)
(* expired, and not after a restart that emptied the cache, because the    *)
(* session it names is gone with it and is never drawn again.              *)
RecordedNeverPasses ==
  [][\A r \in Requests :
       At(r, "validated") /\ (At(r, "new"))' => request[r].jti \notin seen]_vars

(* The key read before the awaits is still the session's key when the      *)
(* validator uses it and when it answers.                                  *)
TrustedKeyIsCurrent ==
  \A r \in Requests :
    request[r].step \in {"keyed", "validated", "new"} =>
      binding[AssertionOf(r).session] = request[r].trusted

(* A token goes to a request whose scope names the session of the          *)
(* assertion, and only when the assertion was signed with the very key     *)
(* that session was created for (the MUST of the comment at line 80).      *)
AcceptedRequestIsTheDevice ==
  \A r \in Requests : At(r, "accepted") =>
    /\ request[r].scope = AssertionOf(r).session
    /\ origin[request[r].scope] = AssertionOf(r).key

(* The requests that were accepted, as the tokens of ClientAuthentication. *)
Granted == {[request |-> r, session |-> request[r].scope, key |-> AssertionOf(r).key] :
              r \in {q \in Requests : At(q, "accepted")}}

Authentication == INSTANCE ClientAuthentication WITH
                    drawn  <- {s \in Sessions : origin[s] # NoKey},
                    tokens <- Granted

(* The validator reads the key, awaits, validates, awaits the replay cache *)
(* twice and answers, and all the time sessions are created, other         *)
(* requests run and the provider may restart; still it answers as if all   *)
(* of it took place at the end, with the store as it is then.              *)
AnswersAtOnce == Authentication!AuthSpec

(* One assertion, one token: the second of two requests with the same jti  *)
(* is refused because "jti is found in replay cache" (line 189).           *)
AcceptedAtMostOnce ==
  \A r, q \in Requests :
    r # q /\ At(r, "accepted") /\ At(q, "accepted") => request[r].jti # request[q].jti
=============================================================================
