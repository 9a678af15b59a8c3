------------------------- MODULE DeviceRegistration -------------------------
(***************************************************************************)
(* Registration of application instances: the two console programs         *)
(* (KeySessionService.cs, Program.cs, ClientAssertionService.cs), the      *)
(* controller of the identity provider (DeviceRegistrationController.cs)   *)
(* and the network between them.                                           *)
(*                                                                         *)
(* A device is one installation of a console program.  Its process starts, *)
(* registers a new key before anything else, configures its clients with   *)
(* the session it got, then sends token requests; any failure on the way   *)
(* is an exception that ends the process, whose key and session are lost   *)
(* with it.  Messages are never removed: they may be lost (never looked    *)
(* at), late, duplicated or delivered to another call; state and nonce are *)
(* what the client has to tell its own answer from the others.             *)
(***************************************************************************)
EXTENDS Naturals, FiniteSets

CONSTANTS Devices,     \* installations of the console programs
          Alg,         \* the algorithm of each: "ES256" or "RS256"
          Attempts,    \* bound: runs of the random generators; run a draws key a,
                       \*   state a and nonce a
          Sessions,    \* bound: sessions the identity provider can draw
          NoDevice, NoKey, NoSession,
          Others,      \* the programs that are not among the Devices
          OtherForms   \* the forms they post

Algs == {"RS256", "ES256"}

ASSUME AlgAssumption  == Alg \in [Devices -> Algs]
ASSUME FormAssumption == OtherForms \subseteq
         [grant_type : {"fp_register", "other"}, client_id : {"cid-fp-device", "other"},
          alg : Algs \cup {"other"}]
ASSUME NullAssumption == /\ NoDevice \notin Devices
                         /\ Others \notin Devices \cup {NoDevice}
                         /\ NoKey \notin Attempts
                         /\ NoSession \notin Sessions

VARIABLES
  proc,       \* device -> "off", "starting" (in CreateHostBuilder) or "running"
  call,       \* device -> its run of CreateGetSessionAsync
  cached,     \* device -> KeySessionService's static cache: session and signing key
  scope,      \* device -> the session in the scopes its clients are configured with
  requests,   \* registration requests sent
  handling,   \* requests between CreateSession and the controller's response
  responses,  \* registration responses sent
  asserted,   \* token requests sent: the session and key of the assertion, the scope
  binding,    \* the identity provider's session store (SessionStore.tla)
  owner,      \* history: the device that ran the random generators
  origin      \* history: the key a session was drawn for

clientVars == <<proc, call, cached, scope, asserted, owner>>
serverVars == <<handling, binding, origin>>
vars       == <<clientVars, serverVars, requests, responses>>

Store == INSTANCE SessionStore WITH
           PublicKeys <- Attempts,
           drawn      <- {s \in Sessions : origin[s] # NoKey}

NoCall  == [step |-> "idle", key |-> NoKey, state |-> NoKey, nonce |-> NoKey,
            session |-> NoSession, answered |-> NoKey]
NoCache == [session |-> NoSession, key |-> NoKey]

Init ==
  /\ proc      = [d \in Devices |-> "off"]
  /\ call      = [d \in Devices |-> NoCall]
  /\ cached    = [d \in Devices |-> NoCache]
  /\ scope     = [d \in Devices |-> NoSession]
  /\ requests  = {}
  /\ handling  = {}
  /\ responses = {}
  /\ asserted  = {}
  /\ owner     = [a \in Attempts |-> NoDevice]
  /\ origin    = [s \in Sessions |-> NoKey]
  /\ binding   = Store!EmptyStore

-----------------------------------------------------------------------------
(* The console program *)

(* _inMemoryCache.AuthSession is null. *)
NeedsRegistration(d) == cached[d] = NoCache

(* Mutant: state and nonce are drawn once for the program. *)
SecretsOfProgram(a) ==
  LET once == CHOOSE x \in Attempts : TRUE IN [key |-> a, state |-> once, nonce |-> once]

(* The key, state and nonce one call draws. *)
Secrets(a) == [key |-> a, state |-> a, nonce |-> a]

FormOf(d) == [grant_type |-> "fp_register", client_id |-> "cid-fp-device", alg |-> Alg[d]]

(* CreateGetSessionAsync up to the await of PostAsync. *)
Post(d) ==
  \E a \in Attempts :
    /\ owner[a] = NoDevice
    /\ owner' = [owner EXCEPT ![a] = d]
    /\ LET x == Secrets(a) IN
         /\ call'     = [call EXCEPT ![d] =
                           [step |-> "posting", key |-> x.key, state |-> x.state,
                            nonce |-> x.nonce, session |-> NoSession, answered |-> NoKey]]
         /\ requests' = requests \cup {[form |-> FormOf(d), key |-> x.key,
                                        state |-> x.state, nonce |-> x.nonce]}

(* Mutant: the cached session survives the process, its scope does not. *)
EndsKeepingSession(d) ==
  /\ proc'   = [proc EXCEPT ![d] = "off"]
  /\ call'   = [call EXCEPT ![d] = NoCall]
  /\ scope'  = [scope EXCEPT ![d] = NoSession]
  /\ UNCHANGED <<cached, requests, asserted, owner>>

(* An exception, a shutdown or a crash: the process and all it holds end. *)
Ends(d) ==
  /\ proc'   = [proc   EXCEPT ![d] = "off"]
  /\ call'   = [call   EXCEPT ![d] = NoCall]
  /\ cached' = [cached EXCEPT ![d] = NoCache]
  /\ scope'  = [scope  EXCEPT ![d] = NoSession]
  /\ UNCHANGED <<requests, asserted, owner>>

(* Main builds the host, which blocks on CreateGetSessionAsync. *)
Start(d) ==
  /\ proc[d] = "off"
  /\ NeedsRegistration(d)
  /\ Post(d)
  /\ proc' = [proc EXCEPT ![d] = "starting"]
  /\ UNCHANGED <<cached, scope, asserted, responses, serverVars>>

(* Mutant: PostAsync waits for ever. *)
PostWaits(d) == call[d].step = "waiting" /\ UNCHANGED vars

(* PostAsync throws: no connection, or the timeout of HttpClient. *)
PostFails(d) ==
  /\ call[d].step = "posting"
  /\ Ends(d)
  /\ UNCHANGED <<responses, serverVars>>

(* ValidateTokenResponsePayload.IsValid, for a response with status 200. *)
IsValid(r, state) == r.status = "ok" /\ r.state = state

(* PostAsync returns.  The session and nonce of the token are read later,  *)
(* once the token has been validated.                                      *)
PostReturns(d, r) ==
  /\ call[d].step = "posting"
  /\ IF IsValid(r, call[d].state)
       THEN /\ call' = [call EXCEPT ![d].step = "discovering", ![d].session = r.session,
                                    ![d].answered = r.nonce]
            /\ UNCHANGED <<proc, cached, scope, requests, asserted, owner>>
       ELSE Ends(d)
  /\ UNCHANGED <<responses, serverVars>>

(* The signing keys cannot be fetched, or the token is not valid any more: *)
(* its identity is null and GetNonce throws.                               *)
DiscoveryFails(d) ==
  /\ call[d].step = "discovering"
  /\ Ends(d)
  /\ UNCHANGED <<responses, serverVars>>

(* The token is validated, its nonce compared, and the session cached.     *)
Discovered(d) ==
  /\ call[d].step = "discovering"
  /\ IF call[d].answered = call[d].nonce
       THEN /\ cached' = [cached EXCEPT ![d] = [session |-> call[d].session,
                                                key |-> call[d].key]]
            /\ call'   = [call EXCEPT ![d] = NoCall]
            /\ UNCHANGED <<proc, scope, requests, asserted, owner>>
       ELSE Ends(d)
  /\ UNCHANGED <<responses, serverVars>>

(* The rest of CreateHostBuilder: the session goes into the scopes of both *)
(* clients, once and for all.                                              *)
ConfigureClients(d) ==
  /\ proc[d] = "starting"
  /\ call[d].step = "idle"
  /\ ~NeedsRegistration(d)
  /\ scope' = [scope EXCEPT ![d] = cached[d].session]
  /\ proc'  = [proc EXCEPT ![d] = "running"]
  /\ UNCHANGED <<call, cached, requests, responses, asserted, owner, serverVars>>

(* Mutant: the program may register again while it runs, say because the   *)
(* session is getting old.                                                 *)
GetClientAssertionAnew(d) ==
  /\ proc[d] = "running"
  /\ call[d].step = "idle"
  /\ \/ Post(d) /\ UNCHANGED asserted
     \/ /\ asserted' = asserted \cup {[session |-> cached[d].session,
                                        key |-> cached[d].key, scope |-> scope[d]]}
        /\ UNCHANGED <<call, requests, owner>>
  /\ UNCHANGED <<proc, cached, scope, responses, serverVars>>

(* A token request: GetClientAssertionAsync asks KeySessionService for the *)
(* session again, while the scope is the configured one.                   *)
GetClientAssertion(d) ==
  /\ proc[d] = "running"
  /\ call[d].step = "idle"
  /\ IF NeedsRegistration(d)
       THEN Post(d) /\ UNCHANGED asserted
       ELSE /\ asserted' = asserted \cup {[session |-> cached[d].session,
                                           key |-> cached[d].key, scope |-> scope[d]]}
            /\ UNCHANGED <<call, requests, owner>>
  /\ UNCHANGED <<proc, cached, scope, responses, serverVars>>

(* The process is stopped, at any point. *)
Stop(d) ==
  /\ proc[d] # "off"
  /\ Ends(d)
  /\ UNCHANGED <<responses, serverVars>>

(* The registration endpoint is open: other programs post forms too. *)
OtherPost(f) ==
  /\ \E a \in Attempts :
       /\ owner[a] = NoDevice
       /\ owner'    = [owner EXCEPT ![a] = Others]
       /\ requests' = requests \cup {[form |-> f, key |-> a, state |-> a, nonce |-> a]}
  /\ UNCHANGED <<proc, call, cached, scope, asserted, responses, serverVars>>

-----------------------------------------------------------------------------
(* The controller of the identity provider *)

(* The guards of CreateAuthSessionAsync, in their order: for a form that   *)
(* fails one of them, the two arguments of the response, else <<>>.        *)
Refusal(f) ==
  CASE f.grant_type # "fp_register" ->
         <<"invalid_request", "Request grant_type is incorrect">>
    [] f.grant_type = "fp_register" /\ f.client_id # "cid-fp-device" ->
         <<"invalid_client", "Request client_id is incorrect">>
    [] f.grant_type = "fp_register" /\ f.client_id = "cid-fp-device" /\ f.alg \notin Algs ->
         <<"invalid_client", "Request alg for the public_key is not supported">>
    [] OTHER -> <<>>

UnauthorizedValidationParametersFailed(reason, error) ==
  [status |-> "unauthorized", error |-> error, error_description |-> reason]

(* One of the guards returns. *)
RefuseRegistration(q) ==
  LET args == Refusal(q.form) IN
    /\ args # <<>>
    /\ responses' = responses \cup
                       {UnauthorizedValidationParametersFailed(args[1], args[2])}
    /\ UNCHANGED <<clientVars, serverVars, requests>>

(* The session is created and the request awaits the signing credentials.  *)
CreateSession(q) ==
  /\ Refusal(q.form) = <<>>
  /\ \E s \in Sessions :
       /\ origin'   = [origin EXCEPT ![s] = q.key]
       /\ Store!Create(s, q.key)
       /\ handling' = handling \cup {[session |-> s, nonce |-> q.nonce, state |-> q.state]}
  /\ UNCHANGED <<clientVars, requests, responses>>

(* The token is generated and returned with the state of the request. *)
Respond(h) ==
  /\ handling'  = handling \ {h}
  /\ responses' = responses \cup {[status |-> "ok", session |-> h.session,
                                   nonce |-> h.nonce, state |-> h.state]}
  /\ UNCHANGED <<clientVars, binding, origin, requests>>

(* RequestAborted cancels the await: the session stays, nobody learns it.  *)
Abort(h) ==
  /\ handling' = handling \ {h}
  /\ UNCHANGED <<clientVars, binding, origin, requests, responses>>

(* The identity provider stops and starts. *)
RestartIdp ==
  /\ origin'   = origin
  /\ Store!Forget
  /\ handling' = {}
  /\ UNCHANGED <<clientVars, requests, responses>>

-----------------------------------------------------------------------------
Startup(d) ==
  \/ PostFails(d)
  \/ \E r \in responses : PostReturns(d, r)
  \/ DiscoveryFails(d)
  \/ Discovered(d)
  \/ ConfigureClients(d)

DeviceNext(d) == Start(d) \/ Startup(d) \/ GetClientAssertion(d) \/ Stop(d)

IdpNext ==
  \/ \E q \in requests : RefuseRegistration(q) \/ CreateSession(q)
  \/ \E h \in handling : Respond(h) \/ Abort(h)
  \/ RestartIdp

Next ==
  \/ \E d \in Devices : DeviceNext(d)
  \/ IdpNext
  \/ \E f \in OtherForms : OtherPost(f)

(* HttpClient gives up after its timeout, and a process that can go on     *)
(* does; nothing is assumed of the network, the provider or restarts.      *)
Fairness == \A d \in Devices : WF_vars(Startup(d))

Spec == Init /\ [][Next]_vars /\ Fairness

-----------------------------------------------------------------------------
(* Properties *)

Request  == [form : OtherForms \cup {FormOf(d) : d \in Devices},
             key : Attempts, state : Attempts, nonce : Attempts]
Posting  == [step : {"posting"}, key : Attempts, state : Attempts, nonce : Attempts,
             session : {NoSession}, answered : {NoKey}]
Answered == [step : {"discovering"}, key : Attempts, state : Attempts, nonce : Attempts,
             session : Sessions, answered : Attempts]
Active   == Posting \cup Answered
Granted  == [status : {"ok"}, session : Sessions, nonce : Attempts, state : Attempts]
Refused  == {UnauthorizedValidationParametersFailed(Refusal(f)[1], Refusal(f)[2]) :
               f \in {g \in OtherForms : Refusal(g) # <<>>}}
Cache    == {NoCache} \cup [session : Sessions, key : Attempts]

(* The shape of every variable; a stopped process holds nothing, and a     *)
(* running one has been through registration.                              *)
TypeOK ==
  /\ proc      \in [Devices -> {"off", "starting", "running"}]
  /\ call      \in [Devices -> {NoCall} \cup Active]
  /\ cached    \in [Devices -> Cache]
  /\ scope     \in [Devices -> Sessions \cup {NoSession}]
  /\ requests  \in SUBSET Request
  /\ handling  \in SUBSET [session : Sessions, nonce : Attempts, state : Attempts]
  /\ responses \in SUBSET (Granted \cup Refused)
  /\ asserted  \in SUBSET [session : Sessions, key : Attempts, scope : Sessions]
  /\ binding   \in [Sessions -> Attempts \cup {NoKey}]
  /\ owner     \in [Attempts -> Devices \cup {NoDevice, Others}]
  /\ origin    \in [Sessions -> Attempts \cup {NoKey}]
  /\ \A d \in Devices :
       proc[d] = "off" => call[d] = NoCall /\ cached[d] = NoCache /\ scope[d] = NoSession

(* What a device has cached and what the identity provider has stored      *)
(* never disagree: the session was created for the cached key, and the     *)
(* provider either still finds that key under it or, after a restart, none. *)
(* Late, duplicated and misdelivered answers do not change this.           *)
CachedAgreesWithIdp ==
  \A d \in Devices : ~NeedsRegistration(d) =>
    /\ origin[cached[d].session] = cached[d].key
    /\ binding[cached[d].session] \in {cached[d].key, NoKey}

(* Two devices never hold the same session, whatever happened to answers,  *)
(* processes and the provider: a token for the session is for one device.  *)
NoSharedSession ==
  \A d, e \in Devices :
    d # e /\ ~NeedsRegistration(d) => cached[d].session # cached[e].session

(* A token request names one session: the one in its scope, configured at  *)
(* startup, is the one the assertion reads from the cache, and the key     *)
(* that signs the assertion is the one that session was created for (what  *)
(* PerInstancePrivateKeyJwtSecretValidator.cs:75-86 checks).               *)
AssertionsMatchScope ==
  \A a \in asserted : a.scope = a.session /\ origin[a.session] = a.key

(* The key a process holds: of its registration, then of its cache.        *)
KeyOf(d) == IF call[d] # NoCall THEN call[d].key ELSE cached[d].key

Enrolled == INSTANCE Enrolment WITH
              PublicKeys <- Attempts,
              drawn      <- {s \in Sessions : origin[s] # NoKey},
              generated  <- {a \in Attempts : owner[a] # NoDevice},
              holds      <- [d \in Devices |-> KeyOf(d)],
              enrolled   <- [d \in Devices |-> cached[d].session],
              createdFor <- origin

(* Between two programs that block, crash and start again, a provider that *)
(* forgets and a network that delays, repeats and misdelivers, a device is *)
(* registered as if in one step: with the one key of its process, once,    *)
(* for a session that was created for this key.                            *)
RegistersAtOnce == Enrolled!EnrolSpec

(* Starting does not hang: with no answer, or a wrong one, the process     *)
(* ends, else it gets to run.                                              *)
StartupEnds ==
  \A d \in Devices : proc[d] = "starting" ~> proc[d] # "starting"
=============================================================================
