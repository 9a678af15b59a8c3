-------------------------- MODULE DeviceFlowProofs --------------------------
(***************************************************************************)
(* Proofs about DeviceFlow, for any number of devices, runs and sessions:  *)
(* its type invariant, that the APIs serve a request for the key of the    *)
(* run that sent it, and that a device does not get a lost session back.   *)
(***************************************************************************)
EXTENDS DeviceFlow, TLAPS

(* A session was drawn for one run and is bound to no other; a running     *)
(* device has a session of its own run, and its tokens are for that        *)
(* session.                                                                *)
OwnSessions == \A d \in Devices : Running(d) => origin[session[d]] = run[d]
OwnTokens   == \A d \in Devices, c \in Clients : token[d][c] \in {NoSession, session[d]}
Bindings    == \A s \in Sessions : binding[s] \in {NoRun, origin[s]}

IInv == TypeOK /\ OwnSessions /\ OwnTokens /\ Bindings /\ ServedForOwnKey

-----------------------------------------------------------------------------
(* Lemmas *)

LEMMA InitHolds == Init => IInv
BY NullAssumption
   DEF Init, IInv, TypeOK, OwnSessions, OwnTokens, Bindings, ServedForOwnKey, Running, Paused,
       NoTokens, Clients, Steps, Store!EmptyStore

(* What the store's operations do to the bindings. *)
LEMMA CreateBinds ==
  ASSUME IInv, NEW a \in Runs, NEW s \in Sessions,
         origin' = [origin EXCEPT ![s] = a], Store!Create(s, a)
  PROVE  /\ origin[s] = NoRun
         /\ binding' = [binding EXCEPT ![s] = a]
         /\ origin'  \in [Sessions -> Runs \cup {NoRun}]
         /\ binding' \in [Sessions -> Runs \cup {NoRun}]
         /\ Bindings'
<1>1. origin[s] = NoRun /\ binding' = [binding EXCEPT ![s] = a]
  BY DEF Store!Create, Store!Fresh
<1>2. /\ origin'  \in [Sessions -> Runs \cup {NoRun}]
      /\ binding' \in [Sessions -> Runs \cup {NoRun}]
  BY <1>1 DEF IInv, TypeOK
<1>3. Bindings'
  BY <1>1 DEF IInv, TypeOK, Bindings
<1> QED
  BY <1>1, <1>2, <1>3

(* A new run registers: its session was drawn for nobody before, so no     *)
(* other device has it, and no answer was served for it.                   *)
LEMMA BootPreserves == ASSUME IInv, NEW d \in Devices, Boot(d) PROVE IInv'
<1>1. PICK a \in Runs, s \in Sessions :
        /\ \A x \in Sessions : origin[x] # a
        /\ origin' = [origin EXCEPT ![s] = a]
        /\ Store!Create(s, a)
        /\ run'     = [run EXCEPT ![d] = a]
        /\ session' = [session EXCEPT ![d] = s]
  BY DEF Boot
<1>2. /\ origin[s] = NoRun
      /\ origin'  \in [Sessions -> Runs \cup {NoRun}]
      /\ binding' \in [Sessions -> Runs \cup {NoRun}]
      /\ Bindings'
  BY <1>1, CreateBinds
<1>3. /\ ~Running(d) /\ call' = [call EXCEPT ![d] = Paused] /\ UNCHANGED <<token, served>>
      /\ token[d] = NoTokens /\ a # NoRun
  BY NullAssumption DEF Boot, IInv, TypeOK
<1>4. \A e \in Devices : Running(e) => session[e] \in Sessions /\ origin[session[e]] = run[e]
  BY DEF IInv, TypeOK, OwnSessions
<1>5. TypeOK'
  <2>1. \A e \in Devices : IF Running(e)'
                             THEN session'[e] \in Sessions
                             ELSE session'[e] = NoSession /\ token'[e] = NoTokens
    BY <1>1, <1>3 DEF IInv, TypeOK, Running
  <2>2. \A e, f \in Devices : e # f /\ Running(e)' => run'[e] # run'[f]
    BY <1>1, <1>3, <1>4 DEF IInv, TypeOK, Running
  <2>3. /\ run' \in [Devices -> Runs \cup {NoRun}]
        /\ session' \in [Devices -> Sessions \cup {NoSession}]
        /\ call' \in [Devices -> [client : Clients, step : Steps]]
    BY <1>1, <1>3 DEF IInv, TypeOK, Paused, Clients, Steps
  <2> QED
    BY <1>2, <1>3, <2>1, <2>2, <2>3 DEF IInv, TypeOK
<1>6. OwnSessions'
  BY <1>1, <1>2, <1>3, <1>4 DEF IInv, TypeOK, OwnSessions, Running
<1>7. OwnTokens'
  BY <1>1, <1>3 DEF IInv, TypeOK, OwnTokens, NoTokens
<1>8. ServedForOwnKey'
  BY <1>1, <1>2, <1>3, NullAssumption
     DEF IInv, TypeOK, ServedForOwnKey, NoAnswer
<1> QED
  BY <1>2, <1>5, <1>6, <1>7, <1>8 DEF IInv

LEMMA StopPreserves == ASSUME IInv, NEW d \in Devices, Stop(d) PROVE IInv'
<1>1. /\ run'     = [run     EXCEPT ![d] = NoRun]
      /\ session' = [session EXCEPT ![d] = NoSession]
      /\ call'    = [call    EXCEPT ![d] = Paused]
      /\ token'   = [token   EXCEPT ![d] = NoTokens]
      /\ UNCHANGED <<served, origin, binding>>
  BY DEF Stop, Ends, storeVars
<1>2. TypeOK'
  BY <1>1 DEF IInv, TypeOK, Running, Paused, NoTokens, Clients, Steps
<1>3. OwnSessions' /\ OwnTokens' /\ Bindings' /\ ServedForOwnKey'
  BY <1>1 DEF IInv, TypeOK, OwnSessions, OwnTokens, Bindings, ServedForOwnKey, Running, NoTokens
<1> QED
  BY <1>2, <1>3 DEF IInv

(* A step of the loop that only moves on. *)
LEMMA LoopPreserves ==
  ASSUME IInv, NEW d \in Devices,
         Wake(d) \/ UseCachedToken(d) \/ Reject(d) \/ Continue(d)
  PROVE  IInv'
<1>1. UNCHANGED <<run, session, token, served, origin, binding>>
  BY DEF Wake, UseCachedToken, Reject, Continue, storeVars
<1>2. call' \in [Devices -> [client : Clients, step : Steps]]
  BY DEF Wake, UseCachedToken, Reject, Continue, Goto, IInv, TypeOK, Clients, Steps, Paused
<1> QED
  BY <1>1, <1>2
     DEF IInv, TypeOK, OwnSessions, OwnTokens, Bindings, ServedForOwnKey, Running

(* A token is issued for the session of the device, or goes away. *)
LEMMA TokenPreserves ==
  ASSUME IInv, NEW d \in Devices, NEW c \in Clients, NEW s \in {NoSession, session[d]},
         s # NoSession => Running(d),
         token' = token \/ token' = [token EXCEPT ![d][c] = s],
         call' \in [Devices -> [client : Clients, step : Steps]],
         UNCHANGED <<run, session, served, origin, binding>>
  PROVE  IInv'
<1>1. /\ token' \in [Devices -> [Clients -> Sessions \cup {NoSession}]]
      /\ OwnTokens'
  <2>1. s \in Sessions \cup {NoSession}
    BY DEF IInv, TypeOK
  <2>2. token' \in [Devices -> [Clients -> Sessions \cup {NoSession}]]
    <3>1. [token[d] EXCEPT ![c] = s] \in [Clients -> Sessions \cup {NoSession}]
      BY <2>1 DEF IInv, TypeOK
    <3> QED
      BY <3>1 DEF IInv, TypeOK
  <2>3. \A e \in Devices, b \in Clients :
          token'[e][b] = token[e][b] \/ (e = d /\ b = c /\ token'[e][b] = s)
    BY <2>1 DEF IInv, TypeOK
  <2> QED
    BY <2>2, <2>3 DEF IInv, OwnTokens
<1>2. \A e \in Devices : ~Running(e) => token'[e] = NoTokens
  BY DEF IInv, TypeOK, NoTokens
<1> QED
  BY <1>1, <1>2 DEF IInv, TypeOK, OwnSessions, Bindings, ServedForOwnKey, Running

LEMMA RequestTokenPreserves == ASSUME IInv, NEW d \in Devices, RequestToken(d) PROVE IInv'
<1>1. PICK c \in Clients : c = call[d].client
  BY DEF IInv, TypeOK
<1>2. /\ token' = token \/ token' = [token EXCEPT ![d][c] = session[d]]
      /\ UNCHANGED <<run, session, served, origin, binding>> /\ Running(d)
  BY <1>1 DEF RequestToken, At, storeVars
<1>3. call' \in [Devices -> [client : Clients, step : Steps]]
  BY DEF RequestToken, Goto, IInv, TypeOK, Steps
<1> QED
  BY <1>2, <1>3, TokenPreserves

LEMMA ExpirePreserves ==
  ASSUME IInv, NEW d \in Devices, NEW c \in Clients, Expire(d, c) PROVE IInv'
BY TokenPreserves DEF Expire, IInv, TypeOK, storeVars

(* What an API serves, for the session of a token, is for the run of the   *)
(* device that has the token.                                              *)
LEMMA ServePreserves ==
  ASSUME IInv, NEW d \in Devices, NEW c \in Clients, NEW op \in Operations,
         token[d][c] # NoSession, Serves(op, token[d][c]),
         Serve(d, op, token[d][c]),
         call' \in [Devices -> [client : Clients, step : Steps]],
         UNCHANGED <<run, session, token, origin, binding>>
  PROVE  IInv'
<1>1. Running(d) /\ token[d][c] = session[d] /\ session[d] \in Sessions
  BY DEF IInv, TypeOK, OwnTokens, NoTokens
<1>2. /\ run[d] \in Runs /\ origin[session[d]] = run[d]
      /\ NeedsKey(op) => binding[session[d]] = run[d]
  BY <1>1 DEF IInv, TypeOK, OwnSessions, Bindings, Running, Serves, Store!Known
<1>3. /\ served' \in [op : Operations, session : Sessions, run : Runs, key : Runs \cup {NoRun}]
      /\ served'.session = session[d] /\ served'.run = run[d] /\ served'.op = op
      /\ NeedsKey(op) => served'.key = run[d]
  BY <1>1, <1>2 DEF Serve, Served, GetPublicKey
<1>4. TypeOK' /\ ServedForOwnKey'
  BY <1>2, <1>3 DEF IInv, TypeOK, ServedForOwnKey, Running
<1> QED
  BY <1>4 DEF IInv, OwnSessions, OwnTokens, Bindings, Running

LEMMA AnswerPreserves == ASSUME IInv, NEW d \in Devices, Answer(d) PROVE IInv'
<1>1. PICK c \in Clients : c = call[d].client
  BY DEF IInv, TypeOK
<1>2. call' \in [Devices -> [client : Clients, step : Steps]]
  BY DEF Answer, Goto, IInv, TypeOK, Steps
<1>3. /\ UNCHANGED <<run, session, token, origin, binding>> /\ token[d][c] # NoSession
      /\ OperationOf(c) \in Operations
  BY <1>1 DEF Answer, storeVars, OperationOf, Operations
<1>4. CASE Serves(OperationOf(c), token[d][c])
  BY <1>1, <1>2, <1>3, <1>4, ServePreserves DEF Answer
<1>5. CASE ~Serves(OperationOf(c), token[d][c])
  <2>1. served' = served
    BY <1>1, <1>5 DEF Answer
  <2> QED
    BY <1>2, <1>3, <2>1
       DEF IInv, TypeOK, OwnSessions, OwnTokens, Bindings, ServedForOwnKey, Running
<1> QED
  BY <1>4, <1>5

LEMMA OnboardPreserves ==
  ASSUME IInv, NEW d \in Devices, NEW op \in OtherSteps, Onboard(d, op) PROVE IInv'
<1>1. "onboarding" \in Clients /\ op \in Operations
  BY DEF Clients, Operations
<1>2. call' \in [Devices -> [client : Clients, step : Steps]]
  BY DEF Onboard, IInv, TypeOK
<1> QED
  BY <1>1, <1>2, ServePreserves DEF Onboard, storeVars

(* A restart empties the store and forgets nothing about who drew what. *)
LEMMA RestartPreserves == ASSUME IInv, RestartIdp PROVE IInv'
<1>1. /\ UNCHANGED <<run, session, call, token, served, origin>>
      /\ binding' = [s \in Sessions |-> NoRun]
  BY DEF RestartIdp, Store!Forget, Store!EmptyStore
<1> QED
  BY <1>1 DEF IInv, TypeOK, OwnSessions, OwnTokens, Bindings, ServedForOwnKey, Running

-----------------------------------------------------------------------------
(* Theorems *)

(* The invariant holds in every state of every behaviour.                  *)
THEOREM Invariance == Spec => []IInv
<1>1. IInv /\ [Next]_vars => IInv'
  <2> SUFFICES ASSUME IInv, [Next]_vars PROVE IInv'
    OBVIOUS
  <2>1. ASSUME NEW d \in Devices, ExecuteAsync(d) PROVE IInv'
    BY <2>1, LoopPreserves, RequestTokenPreserves, AnswerPreserves DEF ExecuteAsync
  <2>2. CASE UNCHANGED vars
    BY <2>2 DEF vars, storeVars, IInv, TypeOK, OwnSessions, OwnTokens, Bindings,
                ServedForOwnKey, Running
  <2> QED
    BY <2>1, <2>2, BootPreserves, StopPreserves, ExpirePreserves, OnboardPreserves,
       RestartPreserves DEF Next
<1> QED
  BY <1>1, InitHolds, PTL DEF Spec

(* The shape of every variable; a stopped process holds nothing, a running *)
(* one has a session, and two never have the same run.                     *)
THEOREM Typing == Spec => []TypeOK
<1>1. IInv => TypeOK
  BY DEF IInv
<1> QED
  BY <1>1, Invariance, PTL

(* An API serves a request for the session, and with the key, of the run   *)
(* that sent it, whatever restarts, expiries and other programs do.        *)
THEOREM OwnKey == Spec => []ServedForOwnKey
<1>1. IInv => ServedForOwnKey
  BY DEF IInv
<1> QED
  BY <1>1, Invariance, PTL

(* A running device whose session was lost stays without it, and is        *)
(* granted no new tokens.                                                  *)
THEOREM NoWayBack == Spec => LossIsForGood
<1>1. IInv /\ [Next]_vars =>
        [\A d \in Devices :
           Running(d) /\ ~Store!Known(session[d]) /\ run'[d] = run[d] =>
             /\ ~Store!Known(session[d])'
             /\ \A c \in Clients : token[d][c] = NoSession => token'[d][c] = NoSession]_vars
  <2> SUFFICES ASSUME IInv, Next, NEW d \in Devices,
                      Running(d), ~Store!Known(session[d]), run'[d] = run[d]
               PROVE  /\ ~Store!Known(session[d])'
                      /\ \A c \in Clients : token[d][c] = NoSession => token'[d][c] = NoSession
    OBVIOUS
  <2>1. /\ session[d] \in Sessions /\ run[d] # NoRun /\ origin[session[d]] # NoRun
        /\ binding[session[d]] = NoRun
    BY DEF IInv, TypeOK, OwnSessions, Running, Store!Known
  <2>2. session'[d] = session[d] /\ binding'[session[d]] = NoRun
    <3>1. ASSUME NEW e \in Devices, Boot(e) PROVE session'[d] = session[d] /\ binding'[session[d]] = NoRun
      <4>1. PICK a \in Runs, s \in Sessions :
              /\ origin' = [origin EXCEPT ![s] = a]
              /\ Store!Create(s, a)
              /\ session' = [session EXCEPT ![e] = s]
        BY <3>1 DEF Boot
      <4>2. e # d /\ origin[s] = NoRun /\ binding' = [binding EXCEPT ![s] = a]
        BY <3>1, <4>1, CreateBinds DEF Boot
      <4> QED
        BY <2>1, <4>1, <4>2 DEF IInv, TypeOK
    <3>2. ASSUME NEW e \in Devices, Stop(e) PROVE session'[d] = session[d] /\ binding'[session[d]] = NoRun
      BY <2>1, <3>2 DEF Stop, Ends, IInv, TypeOK, storeVars
    <3>3. CASE RestartIdp
      BY <2>1, <3>3 DEF RestartIdp, Store!Forget, Store!EmptyStore
    <3>4. CASE \/ \E e \in Devices : ExecuteAsync(e)
               \/ \E e \in Devices, c \in Clients : Expire(e, c)
               \/ \E e \in Devices, op \in OtherSteps : Onboard(e, op)
      BY <2>1, <3>4 DEF ExecuteAsync, Wake, UseCachedToken, RequestToken, Answer, Reject, Continue,
                        Expire, Onboard, storeVars
    <3> QED
      BY <3>1, <3>2, <3>3, <3>4 DEF Next
  <2>3. ASSUME NEW c \in Clients, token[d][c] = NoSession PROVE token'[d][c] = NoSession
    <3>1. ~Authenticates(d)
      BY DEF Authenticates
    <3>2. ASSUME NEW e \in Devices, RequestToken(e) PROVE token'[d][c] = NoSession
      BY <2>3, <3>1, <3>2 DEF RequestToken, IInv, TypeOK
    <3>3. ASSUME NEW e \in Devices, Stop(e) PROVE token'[d][c] = NoSession
      BY <2>3, <3>3 DEF Stop, Ends, NoTokens, IInv, TypeOK
    <3>4. ASSUME NEW e \in Devices, NEW b \in Clients, Expire(e, b) PROVE token'[d][c] = NoSession
      BY <2>3, <3>4 DEF Expire, IInv, TypeOK
    <3>5. CASE \/ \E e \in Devices : \/ Boot(e) \/ Wake(e) \/ UseCachedToken(e) \/ Answer(e)
                                     \/ Reject(e) \/ Continue(e)
               \/ \E e \in Devices, op \in OtherSteps : Onboard(e, op)
               \/ RestartIdp
      BY <2>3, <3>5 DEF Boot, Wake, UseCachedToken, Answer, Reject, Continue, Onboard, RestartIdp
    <3> QED
      BY <3>2, <3>3, <3>4, <3>5 DEF Next, ExecuteAsync
  <2> QED
    BY <2>2, <2>3 DEF Store!Known
<1> QED
  BY <1>1, Invariance, PTL DEF Spec, LossIsForGood
=============================================================================
