----------------------------- MODULE DeviceFlow -----------------------------
(***************************************************************************)
(* A registered device at work: the request loop of the console programs   *)
(* (DPoPClient.cs), the access tokens its HTTP clients keep, and the two   *)
(* APIs it calls, the onboarding API of the identity provider              *)
(* (AuthorizationChallengeRequestController.cs, OnboardingUserService.cs)  *)
(* and the values API (ValuesController.cs).                               *)
(*                                                                         *)
(* Registration and client authentication are one step each here; their    *)
(* own modules are DeviceRegistration and TokenEndpoint.  What this module *)
(* adds is time: a token outlives the session it was issued for, a process *)
(* outlives the identity provider's memory, and the loop goes on.          *)
(***************************************************************************)
EXTENDS Naturals, FiniteSets

CONSTANTS Devices,
          Runs,       \* bound: process runs; a run draws its own key
          Sessions,   \* bound: sessions the identity provider can draw
          NoRun, NoSession,
          OtherSteps  \* onboarding steps that other programs call: the console
                      \*   programs call StartEmailVerification only

ASSUME NullAssumption == NoRun \notin Runs /\ NoSession \notin Sessions
ASSUME StepAssumption ==
  OtherSteps \subseteq {"StartSmsVerification", "VerifyPhoneNumberWithSmsCode"}

(* The two clients of a device, by the API they call. *)
Clients == {"onboarding", "values"}

VARIABLES
  run,      \* device -> the run of its process, NoRun when it is stopped
  session,  \* device -> the session it registered at startup
  call,     \* device -> the request of the loop: client and step
  token,    \* device, client -> the session in the cached token, NoSession for
            \*   a token that is missing or expired
  served,   \* history: the request an API served last
  binding,  \* the identity provider's session store (SessionStore.tla)
  origin    \* history: the run whose key a session was drawn for

storeVars == <<binding, origin>>
vars      == <<run, session, call, token, served, storeVars>>

Store == INSTANCE SessionStore WITH
           PublicKeys <- Runs,
           NoKey      <- NoRun,
           drawn      <- {s \in Sessions : origin[s] # NoRun}

NoAnswer == [op |-> "none", session |-> NoSession, run |-> NoRun, key |-> NoRun]
Paused   == [client |-> "onboarding", step |-> "pause"]
NoTokens == [c \in Clients |-> NoSession]

Init ==
  /\ run     = [d \in Devices |-> NoRun]
  /\ session = [d \in Devices |-> NoSession]
  /\ call    = [d \in Devices |-> Paused]
  /\ token   = [d \in Devices |-> NoTokens]
  /\ served  = NoAnswer
  /\ origin  = [s \in Sessions |-> NoRun]
  /\ binding = Store!EmptyStore

Running(d)  == run[d] # NoRun
At(d, step) == Running(d) /\ call[d].step = step
Goto(d, step) == call' = [call EXCEPT ![d].step = step]

-----------------------------------------------------------------------------
(* The process *)

(* Startup with a successful registration; the loop begins with a delay. *)
Boot(d) ==
  /\ ~Running(d)
  /\ \E a \in Runs, s \in Sessions :
       /\ \A x \in Sessions : origin[x] # a
       /\ origin'  = [origin EXCEPT ![s] = a]
       /\ Store!Create(s, a)
       /\ run'     = [run EXCEPT ![d] = a]
       /\ session' = [session EXCEPT ![d] = s]
  /\ call' = [call EXCEPT ![d] = Paused]
  /\ UNCHANGED <<token, served>>

(* Mutant: the token cache is not in the memory of the process. *)
EndsKeepingTokens(d) ==
  /\ run'     = [run     EXCEPT ![d] = NoRun]
  /\ session' = [session EXCEPT ![d] = NoSession]
  /\ call'    = [call    EXCEPT ![d] = Paused]
  /\ UNCHANGED <<token, served, storeVars>>

(* The end of the process takes its session, key and tokens with it. *)
Ends(d) ==
  /\ run'     = [run     EXCEPT ![d] = NoRun]
  /\ session' = [session EXCEPT ![d] = NoSession]
  /\ call'    = [call    EXCEPT ![d] = Paused]
  /\ token'   = [token   EXCEPT ![d] = NoTokens]
  /\ UNCHANGED <<served, storeVars>>

(* The process is stopped, or an exception leaves ExecuteAsync: the host   *)
(* stops when its background service fails.                                *)
Stop(d) == Running(d) /\ Ends(d)

-----------------------------------------------------------------------------
(* ExecuteAsync *)

(* The delay is over: the next turn starts with the onboarding call. *)
Wake(d) ==
  /\ At(d, "pause")
  /\ call' = [call EXCEPT ![d] = [client |-> "onboarding", step |-> "token"]]
  /\ UNCHANGED <<run, session, token, served, storeVars>>

(* Mutant: the provider grants a token for any session it ever created. *)
AuthenticatesByOrigin(d) == origin[session[d]] = run[d]

(* The token endpoint: the session is known, with the key of this run.     *)
(* TokenEndpoint.tla has the details.                                      *)
Authenticates(d) == Store!Known(session[d]) /\ binding[session[d]] = run[d]

(* The HTTP client attaches the cached token. *)
UseCachedToken(d) ==
  /\ At(d, "token")
  /\ token[d][call[d].client] # NoSession
  /\ Goto(d, "sent")
  /\ UNCHANGED <<run, session, token, served, storeVars>>

(* It has none, or was told to renew it, and asks for one; when it gets    *)
(* none, the request goes out without.  Grant and receipt are one step: a  *)
(* restart of the provider between them comes after the step.              *)
RequestToken(d) ==
  LET c == call[d].client IN
    /\ \/ At(d, "token") /\ Goto(d, "sent")
       \/ At(d, "renew") /\ Goto(d, "resent")
    /\ token[d][c] = NoSession
    /\ IF Authenticates(d)
         THEN token' \in {token, [token EXCEPT ![d][c] = session[d]]}
         ELSE UNCHANGED token
    /\ UNCHANGED <<run, session, served, storeVars>>

(* What the steps of the onboarding API need: ProcessAuthSessionAndEmail   *)
(* and ProcessAuthSessionAndPhoneNumber look the key up and throw without, *)
(* VerifyPhoneNumberWithSmsCode does not look.                             *)
NeedsKey(op) == op \in {"StartEmailVerification", "StartSmsVerification"}
GetPublicKey(s) == binding[s]
Serves(op, s)   == NeedsKey(op) => Store!Known(s)

(* The operation, the session it was served for, the run that asked, and   *)
(* the key that was found.                                                 *)
Served(d, op, s) ==
  [op |-> op, session |-> s, run |-> run[d],
   key |-> IF NeedsKey(op) THEN GetPublicKey(s) ELSE NoRun]

OperationOf(c) == IF c = "onboarding" THEN "StartEmailVerification" ELSE "Get"

Serve(d, op, s) == served' = Served(d, op, s)

(* The API serves the request, or fails with an error the loop ignores     *)
(* (the onboarding call) or logs (the values call).                        *)
Answer(d) ==
  LET c  == call[d].client
      s  == token[d][c]
  IN  /\ At(d, "sent") \/ At(d, "resent")
      /\ s # NoSession
      /\ IF Serves(OperationOf(c), s) THEN Serve(d, OperationOf(c), s) ELSE UNCHANGED served
      /\ Goto(d, "answered")
      /\ UNCHANGED <<run, session, token, storeVars>>

(* Mutant: every rejection is answered by another renewal. *)
RejectAgain(d) ==
  /\ At(d, "sent") \/ At(d, "resent")
  /\ token[d][call[d].client] = NoSession
  /\ Goto(d, "renew")
  /\ UNCHANGED <<run, session, token, served, storeVars>>

(* Without a valid token the API rejects the request; the HTTP client      *)
(* renews the token and sends it again, once.                              *)
Reject(d) ==
  /\ token[d][call[d].client] = NoSession
  /\ \/ At(d, "sent")   /\ Goto(d, "renew")
     \/ At(d, "resent") /\ Goto(d, "answered")
  /\ UNCHANGED <<run, session, token, served, storeVars>>

(* The onboarding call is followed by the values call, that one by the     *)
(* pause, whatever the answers were.                                       *)
Continue(d) ==
  /\ At(d, "answered")
  /\ call' = [call EXCEPT ![d] = IF @.client = "onboarding"
                                   THEN [client |-> "values", step |-> "token"]
                                   ELSE Paused]
  /\ UNCHANGED <<run, session, token, served, storeVars>>

ExecuteAsync(d) ==
  Wake(d) \/ UseCachedToken(d) \/ RequestToken(d) \/ Answer(d) \/ Reject(d) \/ Continue(d)

-----------------------------------------------------------------------------
(* The surroundings *)

(* A token expires, at any moment of a request. *)
Expire(d, c) ==
  /\ token[d][c] # NoSession
  /\ token' = [token EXCEPT ![d][c] = NoSession]
  /\ UNCHANGED <<run, session, call, served, storeVars>>

(* A program with the device's onboarding token calls one of the steps the *)
(* console programs do not call.                                           *)
Onboard(d, op) ==
  LET s == token[d]["onboarding"] IN
    /\ s # NoSession
    /\ Serves(op, s)
    /\ Serve(d, op, s)
    /\ UNCHANGED <<run, session, call, token, storeVars>>

(* The identity provider stops and starts; access tokens stay valid. *)
RestartIdp ==
  /\ origin' = origin
  /\ Store!Forget
  /\ UNCHANGED <<run, session, call, token, served>>

Next ==
  \/ \E d \in Devices : Boot(d) \/ Stop(d) \/ ExecuteAsync(d)
  \/ \E d \in Devices, c \in Clients : Expire(d, c)
  \/ \E d \in Devices, op \in OtherSteps : Onboard(d, op)
  \/ RestartIdp

(* A process that can go on does, and HTTP calls end, with an answer or an *)
(* exception; tokens have a lifetime.  Nothing is assumed of startups,     *)
(* restarts or other programs.                                             *)
Fairness ==
  /\ \A d \in Devices : WF_vars(ExecuteAsync(d))
  /\ \A d \in Devices, c \in Clients : WF_vars(Expire(d, c))

Spec == Init /\ [][Next]_vars /\ Fairness

-----------------------------------------------------------------------------
(* Properties *)

Steps      == {"pause", "token", "sent", "renew", "resent", "answered"}
Operations == {"StartEmailVerification", "Get"} \cup OtherSteps

(* The shape of every variable; a stopped process holds nothing, a running *)
(* one has a session, and two never have the same run.                     *)
TypeOK ==
  /\ run     \in [Devices -> Runs \cup {NoRun}]
  /\ session \in [Devices -> Sessions \cup {NoSession}]
  /\ call    \in [Devices -> [client : Clients, step : Steps]]
  /\ token   \in [Devices -> [Clients -> Sessions \cup {NoSession}]]
  /\ served  \in {NoAnswer} \cup [op : Operations, session : Sessions, run : Runs,
                                  key : Runs \cup {NoRun}]
  /\ binding \in [Sessions -> Runs \cup {NoRun}]
  /\ origin  \in [Sessions -> Runs \cup {NoRun}]
  /\ \A d \in Devices : IF Running(d)
                          THEN session[d] \in Sessions
                          ELSE session[d] = NoSession /\ token[d] = NoTokens
  /\ \A d, e \in Devices : d # e /\ Running(d) => run[d] # run[e]

(* An API serves a request for the session of the very run that sent it,   *)
(* and the key the onboarding API finds for the session is the key of that *)
(* run, although the token may be older than a restart of the provider and *)
(* the store has been filled again since.                                  *)
ServedForOwnKey ==
  served # NoAnswer =>
    /\ origin[served.session] = served.run
    /\ NeedsKey(served.op) => served.key = served.run

(* A running device whose session was lost in a restart stays without: its *)
(* session is never known again, to nobody, and it is granted no token any *)
(* more; a token granted before the restart may still be on its way, which *)
(* is the same as received here.                                           *)
LossIsForGood ==
  [][\A d \in Devices :
       Running(d) /\ ~Store!Known(session[d]) /\ run'[d] = run[d] =>
         /\ ~Store!Known(session[d])'
         /\ \A c \in Clients : token[d][c] = NoSession => token'[d][c] = NoSession]_vars

(* So it ends up cut off from both APIs, until its process starts anew:    *)
(* CreateGetSessionAsync registers again only when nothing is cached.      *)
LostIsCutOff ==
  \A d \in Devices :
    Running(d) /\ ~Store!Known(session[d]) ~>
      ~Running(d) \/ Store!Known(session[d]) \/ token[d] = NoTokens

(* No answer, failure or renewal keeps the loop from its next turn.        *)
LoopGoesOn == \A d \in Devices : Running(d) ~> ~Running(d) \/ At(d, "pause")
=============================================================================
