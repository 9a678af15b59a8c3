------------------------- MODULE TokenEndpointProofs -------------------------
(***************************************************************************)
(* Proofs about TokenEndpoint, for any number of sessions, keys,           *)
(* assertions and requests and any times that satisfy TimeAssumption: its  *)
(* type invariant, its two invariants, its action property, and that it    *)
(* implements ClientAuthentication.                                        *)
(***************************************************************************)
EXTENDS TokenEndpoint, TLAPS

(* The session store's share of TypeOK. *)
LEMMA StoreTypes ==
  ASSUME TypeOK
  PROVE  /\ \A s \in Sessions, k \in PublicKeys :
              Register(s, k) => binding' \in [Sessions -> PublicKeys \cup {NoKey}]
         /\ Restart => binding' \in [Sessions -> PublicKeys \cup {NoKey}]
BY DEF TypeOK, Register, Restart, Store!Create, Store!Forget, Store!EmptyStore

(* A request past its arrival carries a signed assertion. *)
LEMMA RequestTypes ==
  ASSUME TypeOK, NEW r \in Requests, request[r].step # "none"
  PROVE  /\ request[r] \in Request
         /\ request[r].jti \in Jtis
         /\ AssertionOf(r) \in Assertion
         /\ AssertionOf(r).session \in Sessions
         /\ AssertionOf(r).key \in PublicKeys
         /\ AssertionOf(r).exp \in Nat
<1>1. request[r] # NoRequest
  BY DEF NoRequest
<1>2. request[r] \in Request /\ AssertionOf(r) # NoAssertion
  BY <1>1 DEF TypeOK
<1>3. request[r].jti \in Jtis
  BY <1>2 DEF Request
<1>4. AssertionOf(r) \in Assertion
  BY <1>2, <1>3 DEF TypeOK, AssertionOf
<1> QED
  BY <1>2, <1>3, <1>4 DEF Assertion

(* What a step of ValidateAsync does to the requests: r moves on with its  *)
(* assertion and its scope, the others stay.                               *)
LEMMA RequestStep ==
  ASSUME TypeOK, NEW r \in Requests, ValidateAsync(r)
  PROVE  /\ request' \in [Requests -> Request \cup {NoRequest}]
         /\ \A q \in Requests : request'[q].jti = request[q].jti
                                /\ request'[q].scope = request[q].scope
         /\ \A q \in Requests : q # r => request'[q] = request[q]
         /\ request[r].step # "none" /\ request[r] # NoRequest
         /\ UNCHANGED <<now, storeVars, assertion>>
<1>1. request[r].step \in {"received", "keyed", "validated", "new"}
  BY DEF ValidateAsync, KeyMissing, SelectKey, ValidateToken, CheckReplay, RecordJti, At
<1>2. request[r] # NoRequest
  BY <1>1 DEF NoRequest
<1>3. request[r] \in Request
  BY <1>1, RequestTypes
<1>4. now \in Nat /\ request \in [Requests -> Request \cup {NoRequest}]
  BY DEF TypeOK
<1>5. SelectedKey(r) \in PublicKeys \cup {NoKey}
  BY <1>1, RequestTypes DEF TypeOK, SelectedKey, GetPublicSecurityKey, Store!Known
<1>6. UNCHANGED <<now, storeVars, assertion>>
  BY DEF ValidateAsync, KeyMissing, SelectKey, ValidateToken, CheckReplay, RecordJti
<1>7. PICK q \in Request :
        request' = [request EXCEPT ![r] = q] /\ q.jti = request[r].jti /\ q.scope = request[r].scope
  <2>1. CASE \E step \in Steps : Goto(r, step)
    <3>1. PICK step \in Steps : Goto(r, step)
      BY <2>1
    <3> DEFINE q == [request[r] EXCEPT !.step = step]
    <3>2. q \in Request /\ q.jti = request[r].jti /\ q.scope = request[r].scope
      BY <1>3 DEF Request
    <3>3. request' = [request EXCEPT ![r] = q]
      BY <3>1, <1>4 DEF Goto
    <3> QED
      BY <3>2, <3>3
  <2>2. CASE request' = [request EXCEPT ![r].step = "keyed", ![r].trusted = SelectedKey(r)]
    <3> DEFINE q == [request[r] EXCEPT !.step = "keyed", !.trusted = SelectedKey(r)]
    <3>1. q \in Request /\ q.jti = request[r].jti /\ q.scope = request[r].scope
      BY <1>3, <1>5 DEF Request, Steps
    <3>2. request' = [request EXCEPT ![r] = q]
      BY <2>2, <1>4
    <3> QED
      BY <3>1, <3>2
  <2>3. CASE request' = [request EXCEPT ![r].step = "validated", ![r].at = now]
    <3> DEFINE q == [request[r] EXCEPT !.step = "validated", !.at = now]
    <3>1. q \in Request /\ q.jti = request[r].jti /\ q.scope = request[r].scope
      BY <1>3, <1>4 DEF Request, Steps
    <3>2. request' = [request EXCEPT ![r] = q]
      BY <2>3, <1>4
    <3> QED
      BY <3>1, <3>2
  <2>4. \/ \E step \in Steps : Goto(r, step)
        \/ request' = [request EXCEPT ![r].step = "keyed", ![r].trusted = SelectedKey(r)]
        \/ request' = [request EXCEPT ![r].step = "validated", ![r].at = now]
    BY DEF ValidateAsync, KeyMissing, SelectKey, ValidateToken, CheckReplay, RecordJti, Steps
  <2> QED
    BY <2>1, <2>2, <2>3, <2>4
<1> QED
  BY <1>1, <1>2, <1>3, <1>4, <1>6, <1>7

(* The variables have the types of TypeOK, whatever the interleaving. *)
THEOREM Typing == Spec => []TypeOK
<1>1. Init => TypeOK
  BY DEF Init, TypeOK, Store!EmptyStore
<1>2. TypeOK /\ [Next]_vars => TypeOK'
  <2> SUFFICES ASSUME TypeOK, [Next]_vars PROVE TypeOK'
    OBVIOUS
  <2>1. ASSUME NEW s \in Sessions, NEW k \in PublicKeys, Register(s, k) PROVE TypeOK'
    <3>1. binding' \in [Sessions -> PublicKeys \cup {NoKey}]
      BY <2>1, StoreTypes
    <3>2. origin' \in [Sessions -> PublicKeys \cup {NoKey}]
      BY <2>1 DEF Register, TypeOK
    <3> QED
      BY <2>1, <3>1, <3>2 DEF Register, TypeOK, AssertionOf
  <2>2. ASSUME NEW j \in Jtis, NEW s \in Sessions, NEW k \in PublicKeys,
               NEW exp \in now .. now + AssertionLifetime, NEW wellFormed \in BOOLEAN,
               Sign(j, s, k, exp, wellFormed)
        PROVE  TypeOK'
    <3>1. exp \in Nat
      BY TimeAssumption DEF TypeOK
    <3>2. [session |-> s, key |-> k, exp |-> exp, wellFormed |-> wellFormed] \in Assertion
      BY <3>1 DEF Assertion
    <3>3. /\ assertion' \in [Jtis -> Assertion \cup {NoAssertion}]
          /\ \A i \in Jtis : i # j => assertion'[i] = assertion[i]
      BY <2>2, <3>2 DEF Sign, TypeOK
    <3>4. ASSUME NEW r \in Requests, request[r] # NoRequest
          PROVE  assertion'[request[r].jti] # NoAssertion
      <4>1. request[r].jti \in Jtis /\ assertion[request[r].jti] # NoAssertion
        BY <3>4 DEF TypeOK, Request, AssertionOf
      <4>2. request[r].jti # j
        BY <2>2, <4>1 DEF Sign
      <4> QED
        BY <3>3, <4>1, <4>2
    <3> QED
      BY <2>2, <3>3, <3>4 DEF Sign, TypeOK, AssertionOf, storeVars
  <2>3. ASSUME NEW r \in Requests, NEW j \in Jtis, NEW s \in Sessions \cup {NoSession},
               Receive(r, j, s)
        PROVE  TypeOK'
    <3> DEFINE q == [NoRequest EXCEPT !.step = "received", !.jti = j, !.scope = s]
    <3>1. q \in Request /\ q.jti = j
      BY DEF NoRequest, Request, Steps
    <3>2. /\ request' \in [Requests -> Request \cup {NoRequest}]
          /\ request'[r] = q
          /\ \A p \in Requests : p # r => request'[p] = request[p]
      BY <2>3, <3>1 DEF Receive, TypeOK
    <3>3. \A p \in Requests : request'[p] # NoRequest => assertion[request'[p].jti] # NoAssertion
      BY <2>3, <3>1, <3>2 DEF Receive, TypeOK, AssertionOf
    <3> QED
      BY <2>3, <3>2, <3>3 DEF Receive, TypeOK, AssertionOf, storeVars
  <2>4. ASSUME NEW r \in Requests, ValidateAsync(r) PROVE TypeOK'
    <3>1. /\ request' \in [Requests -> Request \cup {NoRequest}]
          /\ \A q \in Requests : request'[q] # NoRequest =>
               assertion'[request'[q].jti] # NoAssertion
      BY <2>4, RequestStep DEF TypeOK, AssertionOf
    <3>2. /\ replay' \in [Jtis -> Nat]
          /\ seen'   \in SUBSET Jtis
          /\ \A j \in Jtis : replay'[j] # 0 => j \in seen'
      <4>1. CASE RecordJti(r)
        <5>1. request[r].jti \in Jtis /\ ReplayExpiry(AssertionOf(r).exp) \in Nat
          BY <4>1, RequestTypes, TimeAssumption DEF RecordJti, At, ReplayExpiry
        <5> QED
          BY <4>1, <5>1 DEF RecordJti, TypeOK
      <4>2. CASE UNCHANGED <<replay, seen>>
        BY <4>2 DEF TypeOK
      <4> QED
        BY <2>4, <4>1, <4>2 DEF ValidateAsync, KeyMissing, SelectKey, ValidateToken, CheckReplay
    <3>3. UNCHANGED <<now, storeVars, assertion>>
      BY <2>4, RequestStep
    <3> QED
      BY <3>1, <3>2, <3>3 DEF TypeOK, AssertionOf, storeVars
  <2>5. CASE Tick
    BY <2>5 DEF Tick, TypeOK, AssertionOf, storeVars
  <2>6. CASE Restart
    <3>1. binding' \in [Sessions -> PublicKeys \cup {NoKey}]
      BY <2>6, StoreTypes
    <3>2. \A r \in Requests :
            /\ request'[r] \in Request \cup {NoRequest}
            /\ request'[r].jti = request[r].jti
            /\ request'[r] # NoRequest => request[r] # NoRequest
      <4> SUFFICES ASSUME NEW r \in Requests
                   PROVE  /\ request'[r] \in Request \cup {NoRequest}
                          /\ request'[r].jti = request[r].jti
                          /\ request'[r] # NoRequest => request[r] # NoRequest
        OBVIOUS
      <4>1. CASE InProgress(r)
        <5>1. request[r] \in Request /\ request[r] # NoRequest
          BY <4>1, RequestTypes DEF InProgress, NoRequest
        <5> QED
          BY <2>6, <4>1, <5>1 DEF Restart, Request, Steps
      <4>2. CASE ~InProgress(r)
        BY <2>6, <4>2 DEF Restart, TypeOK
      <4> QED
        BY <4>1, <4>2
    <3>3. request' \in [Requests -> Request \cup {NoRequest}]
      BY <2>6, <3>2 DEF Restart
    <3>4. replay' = [j \in Jtis |-> 0]
      BY <2>6 DEF Restart
    <3> QED
      BY <2>6, <3>1, <3>2, <3>3, <3>4 DEF Restart, TypeOK, AssertionOf
  <2>7. CASE UNCHANGED vars
    BY <2>7 DEF vars, storeVars, TypeOK, AssertionOf
  <2> QED
    BY <2>1, <2>2, <2>3, <2>4, <2>5, <2>6, <2>7 DEF Next
<1> QED
  BY <1>1, <1>2, PTL DEF Spec

-----------------------------------------------------------------------------
(* The inductive invariant. *)

(* A session that has a key has the key it was drawn for. *)
KeysAreOrigins == \A s \in Sessions : binding[s] # NoKey => origin[s] = binding[s]

(* A request that has its key in hand asked for the session of its         *)
(* assertion, whose key is still the one in hand, and from the validation  *)
(* on the assertion is known to be signed with it.                         *)
KeyInHand ==
  \A r \in Requests : request[r].step \in {"keyed", "validated", "new"} =>
    /\ request[r].trusted # NoKey
    /\ binding[AssertionOf(r).session] = request[r].trusted
    /\ request[r].scope = AssertionOf(r).session
    /\ At(r, "keyed") \/ AssertionOf(r).key = request[r].trusted

(* A validated assertion was valid when it was validated, not long ago. *)
ValidatedInTime ==
  \A r \in Requests : At(r, "validated") =>
    /\ request[r].at <= AssertionOf(r).exp + ClockSkew
    /\ now <= request[r].at + MaxDelay

(* A recorded assertion names a session that was drawn, and has its entry  *)
(* in the replay cache, expired or not, unless that session was lost in a  *)
(* restart.                                                                *)
RecordedIsKept ==
  \A j \in seen :
    /\ assertion[j] # NoAssertion
    /\ origin[assertion[j].session] # NoKey
    /\ \/ replay[j] = ReplayExpiry(assertion[j].exp)
       \/ binding[assertion[j].session] = NoKey

IInv == /\ TypeOK
        /\ KeysAreOrigins
        /\ KeyInHand
        /\ ValidatedInTime
        /\ RecordedIsKept
        /\ AcceptedRequestIsTheDevice

(* What the store does to the sessions that are drawn: Create leaves them  *)
(* alone, and gives the new one its key.                                   *)
LEMMA RegisterKeepsDrawn ==
  ASSUME IInv, NEW s \in Sessions, NEW k \in PublicKeys, Register(s, k)
  PROVE  /\ \A x \in Sessions : origin[x] # NoKey =>
              origin'[x] = origin[x] /\ binding'[x] = binding[x]
         /\ \A x \in Sessions : binding'[x] # NoKey => origin'[x] = binding'[x]
<1>1. origin[s] = NoKey
  BY DEF Register, Store!Create, Store!Fresh
<1>2. /\ origin' = [origin EXCEPT ![s] = k]
      /\ binding' = [binding EXCEPT ![s] = k]
  BY DEF Register, Store!Create
<1> QED
  BY <1>1, <1>2 DEF IInv, TypeOK, KeysAreOrigins

LEMMA RegisterPreserves ==
  ASSUME IInv, TypeOK', NEW s \in Sessions, NEW k \in PublicKeys, Register(s, k)
  PROVE  IInv'
<1> USE DEF IInv
<1>1. UNCHANGED <<now, assertion, request, replay, seen>>
  BY DEF Register
<1>2. KeysAreOrigins'
  BY RegisterKeepsDrawn DEF KeysAreOrigins
<1>3. KeyInHand'
  <2> SUFFICES ASSUME NEW r \in Requests, request[r].step \in {"keyed", "validated", "new"}
               PROVE  binding'[AssertionOf(r).session] = binding[AssertionOf(r).session]
    BY <1>1 DEF KeyInHand, AssertionOf, At
  <2>1. AssertionOf(r).session \in Sessions /\ binding[AssertionOf(r).session] # NoKey
    BY RequestTypes DEF KeyInHand
  <2> QED
    BY <2>1, RegisterKeepsDrawn DEF KeysAreOrigins
<1>4. ValidatedInTime'
  BY <1>1 DEF ValidatedInTime, AssertionOf, At
<1>5. RecordedIsKept'
  <2> SUFFICES ASSUME NEW j \in seen
               PROVE  /\ binding'[assertion[j].session] = binding[assertion[j].session]
                      /\ origin'[assertion[j].session] = origin[assertion[j].session]
    BY <1>1 DEF RecordedIsKept
  <2>1. assertion[j].session \in Sessions /\ origin[assertion[j].session] # NoKey
    BY DEF TypeOK, RecordedIsKept, Assertion
  <2> QED
    BY <2>1, RegisterKeepsDrawn
<1>6. AcceptedRequestIsTheDevice'
  <2> SUFFICES ASSUME NEW r \in Requests, At(r, "accepted")
               PROVE  origin'[request[r].scope] = origin[request[r].scope]
    BY <1>1 DEF AcceptedRequestIsTheDevice, AssertionOf, At
  <2>1. AssertionOf(r).session \in Sessions /\ AssertionOf(r).key \in PublicKeys
    BY RequestTypes DEF At
  <2>2. request[r].scope \in Sessions /\ origin[request[r].scope] # NoKey
    BY <2>1, NullAssumption DEF AcceptedRequestIsTheDevice
  <2> QED
    BY <2>2, RegisterKeepsDrawn
<1> QED
  BY <1>2, <1>3, <1>4, <1>5, <1>6

(* A new assertion takes a jti that no request and no entry refers to. *)
LEMMA SignPreserves ==
  ASSUME IInv, TypeOK', NEW j \in Jtis, assertion[j] = NoAssertion,
         \A i \in Jtis : i # j => assertion'[i] = assertion[i],
         UNCHANGED <<now, storeVars, request, replay, seen>>
  PROVE  IInv'
<1> USE DEF IInv
<1>1. \A r \in Requests : request[r].step # "none" =>
        request[r].jti \in Jtis /\ request[r].jti # j
  <2> SUFFICES ASSUME NEW r \in Requests, request[r].step # "none"
               PROVE  request[r].jti \in Jtis /\ request[r].jti # j
    OBVIOUS
  <2>1. request[r] # NoRequest
    BY DEF NoRequest
  <2> QED
    BY <2>1, RequestTypes DEF TypeOK, AssertionOf
<1>2. \A r \in Requests : request[r].step # "none" => assertion'[request[r].jti] = AssertionOf(r)
  BY <1>1 DEF AssertionOf
<1>3. \A i \in seen : i \in Jtis /\ assertion'[i] = assertion[i]
  BY DEF RecordedIsKept, TypeOK
<1> QED
  BY <1>2, <1>3 DEF KeysAreOrigins, KeyInHand, ValidatedInTime, RecordedIsKept,
     AcceptedRequestIsTheDevice, At, AssertionOf, storeVars

(* A request that arrives, and a request that is forgotten, is of no       *)
(* concern to the invariant.                                               *)
LEMMA ReceivePreserves ==
  ASSUME IInv, TypeOK', NEW r \in Requests, NEW j \in Jtis,
         NEW s \in Sessions \cup {NoSession}, Receive(r, j, s)
  PROVE  IInv'
<1> USE DEF IInv
<1>1. /\ request'[r].step = "received"
      /\ \A q \in Requests : q # r => request'[q] = request[q]
  BY DEF Receive, TypeOK, NoRequest
<1>2. UNCHANGED <<now, storeVars, assertion, replay, seen>>
  BY DEF Receive
<1> QED
  BY <1>1, <1>2 DEF KeysAreOrigins, KeyInHand, ValidatedInTime, RecordedIsKept,
     AcceptedRequestIsTheDevice, At, AssertionOf, storeVars

(* The clock waits for validated requests. *)
LEMMA TickPreserves ==
  ASSUME IInv, TypeOK', Tick
  PROVE  IInv'
<1> USE DEF IInv
<1>1. UNCHANGED <<storeVars, assertion, request, replay, seen>> /\ now' = now + 1
  BY DEF Tick
<1>2. ValidatedInTime'
  <2> SUFFICES ASSUME NEW r \in Requests, At(r, "validated")
               PROVE  now' <= request[r].at + MaxDelay
    BY <1>1 DEF ValidatedInTime, AssertionOf, At
  <2>1. request[r].at \in Nat
    BY RequestTypes DEF At, Request
  <2>2. now < request[r].at + MaxDelay
    BY DEF Tick
  <2> QED
    BY <1>1, <2>1, <2>2, TimeAssumption DEF TypeOK
<1> QED
  BY <1>1, <1>2 DEF KeysAreOrigins, KeyInHand, RecordedIsKept,
     AcceptedRequestIsTheDevice, At, AssertionOf, storeVars

(* A restart ends the requests in progress and forgets every key, so that  *)
(* every recorded assertion names a session that is lost.                  *)
LEMMA RestartPreserves ==
  ASSUME IInv, TypeOK', Restart
  PROVE  IInv'
<1> USE DEF IInv
<1>1. /\ \A s \in Sessions : binding'[s] = NoKey
      /\ UNCHANGED <<now, origin, assertion, seen>>
  BY DEF Restart, Store!Forget, Store!EmptyStore
<1>2. \A r \in Requests : request'[r].step \notin {"keyed", "validated", "new"}
  <2> SUFFICES ASSUME NEW r \in Requests
               PROVE  request'[r].step \notin {"keyed", "validated", "new"}
    OBVIOUS
  <2>1. CASE InProgress(r)
    <3>1. request[r] \in Request
      BY <2>1, RequestTypes DEF InProgress
    <3> QED
      BY <2>1, <3>1 DEF Restart, Request
  <2>2. CASE ~InProgress(r)
    BY <2>2 DEF Restart, InProgress
  <2> QED
    BY <2>1, <2>2
<1>3. \A r \in Requests : request'[r].step = "accepted" => request'[r] = request[r]
  <2> SUFFICES ASSUME NEW r \in Requests, request'[r].step = "accepted"
               PROVE  request'[r] = request[r]
    OBVIOUS
  <2>1. ~InProgress(r)
    <3> SUFFICES ASSUME InProgress(r) PROVE FALSE
      OBVIOUS
    <3>1. request[r] \in Request
      BY RequestTypes DEF InProgress
    <3> QED
      BY <3>1 DEF Restart, Request
  <2> QED
    BY <2>1 DEF Restart
<1>4. RecordedIsKept'
  <2> SUFFICES ASSUME NEW j \in seen
               PROVE  /\ assertion[j] # NoAssertion
                      /\ binding'[assertion[j].session] = NoKey
                      /\ origin[assertion[j].session] # NoKey
    BY <1>1 DEF RecordedIsKept
  <2>1. assertion[j] # NoAssertion /\ assertion[j].session \in Sessions
    BY DEF RecordedIsKept, TypeOK, Assertion
  <2> QED
    BY <1>1, <2>1 DEF RecordedIsKept
<1>5. AcceptedRequestIsTheDevice'
  BY <1>1, <1>3 DEF AcceptedRequestIsTheDevice, At, AssertionOf
<1> QED
  BY <1>1, <1>2, <1>4, <1>5 DEF KeysAreOrigins, KeyInHand, ValidatedInTime, At

-----------------------------------------------------------------------------
(* The steps of ValidateAsync. *)

(* For r, which takes the step, the new state has to be as KeyInHand and   *)
(* ValidatedInTime want it; everything else follows from RequestStep.      *)
LEMMA StepPreserves ==
  ASSUME IInv, TypeOK', NEW r \in Requests, ValidateAsync(r),
         UNCHANGED <<replay, seen>>,
         request'[r].step # "accepted",
         request'[r].step \in {"keyed", "validated", "new"} =>
           /\ request'[r].trusted # NoKey
           /\ binding[AssertionOf(r).session] = request'[r].trusted
           /\ request[r].scope = AssertionOf(r).session
           /\ request'[r].step = "keyed" \/ AssertionOf(r).key = request'[r].trusted,
         request'[r].step = "validated" =>
           /\ request'[r].at <= AssertionOf(r).exp + ClockSkew
           /\ now <= request'[r].at + MaxDelay
  PROVE  IInv'
<1> USE DEF IInv
<1>1. UNCHANGED <<now, binding, origin, assertion, replay, seen>>
  BY RequestStep DEF storeVars
<1>2. \A q \in Requests : /\ AssertionOf(q)' = AssertionOf(q)
                          /\ request'[q].scope = request[q].scope
                          /\ q # r => request'[q] = request[q]
  BY <1>1, RequestStep DEF AssertionOf
<1>3. KeysAreOrigins' /\ RecordedIsKept'
  BY <1>1 DEF KeysAreOrigins, RecordedIsKept
<1>4. KeyInHand'
  BY <1>1, <1>2 DEF KeyInHand, At
<1>5. ValidatedInTime'
  BY <1>1, <1>2 DEF ValidatedInTime, At
<1>6. AcceptedRequestIsTheDevice'
  BY <1>1, <1>2 DEF AcceptedRequestIsTheDevice, At
<1> QED
  BY <1>3, <1>4, <1>5, <1>6

(* Ending a request without success. *)
LEMMA EndPreserves ==
  ASSUME IInv, TypeOK', NEW r \in Requests, ValidateAsync(r),
         UNCHANGED <<replay, seen>>, Goto(r, "refused") \/ Goto(r, "failed")
  PROVE  IInv'
<1>1. request[r] \in Request
  BY RequestStep, RequestTypes DEF IInv
<1>2. request'[r].step \in {"refused", "failed"}
  BY <1>1 DEF IInv, TypeOK, Goto, Request
<1> QED
  BY <1>2, StepPreserves

LEMMA SelectKeyPreserves ==
  ASSUME IInv, TypeOK', NEW r \in Requests, SelectKey(r)
  PROVE  IInv'
<1> USE DEF IInv
<1>1. ValidateAsync(r) /\ UNCHANGED <<replay, seen>>
  BY DEF ValidateAsync, SelectKey
<1>2. CASE ScopeMatches(r)
  <2>1. request[r] \in Request
    BY RequestTypes DEF SelectKey, At
  <2>2. request'[r].step = "keyed" /\ request'[r].trusted = SelectedKey(r)
    BY <1>2, <2>1 DEF SelectKey, TypeOK, Request
  <2>3. SelectedKey(r) # NoKey /\ binding[AssertionOf(r).session] = SelectedKey(r)
    BY DEF SelectKey, SelectedKey, GetPublicSecurityKey
  <2> QED
    BY <1>1, <1>2, <2>2, <2>3, StepPreserves DEF ScopeMatches
<1>3. CASE ~ScopeMatches(r)
  BY <1>1, <1>3, EndPreserves DEF SelectKey
<1> QED
  BY <1>2, <1>3

LEMMA ValidateTokenPreserves ==
  ASSUME IInv, TypeOK', NEW r \in Requests, ValidateToken(r)
  PROVE  IInv'
<1> USE DEF IInv
<1>1. ValidateAsync(r) /\ UNCHANGED <<replay, seen>>
  BY DEF ValidateAsync, ValidateToken
<1>2. CASE TokenIsValid(r)
  <2>1. request[r] \in Request
    BY RequestTypes DEF ValidateToken, At
  <2>2. /\ request'[r].step = "validated" /\ request'[r].at = now
        /\ request'[r].trusted = request[r].trusted
    BY <1>2, <2>1 DEF ValidateToken, TypeOK, Request
  <2>3. now <= AssertionOf(r).exp + ClockSkew /\ AssertionOf(r).key = request[r].trusted
    BY <1>2 DEF TokenIsValid
  <2>4. now <= now + MaxDelay
    BY TimeAssumption DEF TypeOK
  <2>5. /\ request[r].trusted # NoKey
        /\ binding[AssertionOf(r).session] = request[r].trusted
        /\ request[r].scope = AssertionOf(r).session
    BY DEF KeyInHand, ValidateToken, At
  <2> QED
    BY <1>1, <2>2, <2>3, <2>4, <2>5, StepPreserves
<1>3. CASE ~TokenIsValid(r)
  BY <1>1, <1>3, EndPreserves DEF ValidateToken
<1> QED
  BY <1>2, <1>3

LEMMA CheckReplayPreserves ==
  ASSUME IInv, TypeOK', NEW r \in Requests, CheckReplay(r)
  PROVE  IInv'
<1> USE DEF IInv
<1>1. ValidateAsync(r) /\ UNCHANGED <<replay, seen>>
  BY DEF ValidateAsync, CheckReplay
<1>2. CASE Goto(r, "new")
  <2>1. request[r] \in Request
    BY RequestTypes DEF CheckReplay, At
  <2>2. request'[r].step = "new" /\ request'[r].trusted = request[r].trusted
    BY <1>2, <2>1 DEF Goto, TypeOK, Request
  <2>3. /\ request[r].trusted # NoKey
        /\ binding[AssertionOf(r).session] = request[r].trusted
        /\ request[r].scope = AssertionOf(r).session
        /\ AssertionOf(r).key = request[r].trusted
    BY DEF KeyInHand, CheckReplay, At
  <2> QED
    BY <1>1, <2>2, <2>3, StepPreserves
<1>3. CASE Goto(r, "refused")
  BY <1>1, <1>3, EndPreserves
<1> QED
  BY <1>2, <1>3 DEF CheckReplay

(* The entry that is written is the one RecordedIsKept asks for, also when *)
(* it overwrites another one: its expiry depends on the assertion only.    *)
LEMMA RecordJtiPreserves ==
  ASSUME IInv, TypeOK', NEW r \in Requests, RecordJti(r)
  PROVE  IInv'
<1> USE DEF IInv
<1> DEFINE j == request[r].jti
<1>1. /\ request[r] \in Request /\ j \in Jtis
      /\ AssertionOf(r).session \in Sessions
      /\ AssertionOf(r) # NoAssertion
      /\ At(r, "new") /\ ValidateAsync(r)
  BY RequestTypes, RequestStep DEF RecordJti, At, ValidateAsync, TypeOK
<1>2. UNCHANGED <<now, binding, origin, assertion>>
  BY DEF RecordJti, storeVars
<1>3. \A q \in Requests : /\ AssertionOf(q)' = AssertionOf(q)
                          /\ request'[q].scope = request[q].scope
                          /\ q # r => request'[q] = request[q]
  BY <1>1, <1>2, RequestStep DEF AssertionOf
<1>4. request'[r].step = "accepted"
  BY <1>1 DEF RecordJti, Goto, TypeOK, Request
<1>5. /\ binding[AssertionOf(r).session] # NoKey
      /\ origin[AssertionOf(r).session] = AssertionOf(r).key
      /\ origin[AssertionOf(r).session] # NoKey
      /\ request[r].scope = AssertionOf(r).session
  BY <1>1 DEF KeyInHand, KeysAreOrigins, At
<1>6. /\ replay'[j] = ReplayExpiry(AssertionOf(r).exp)
      /\ \A i \in Jtis : i # j => replay'[i] = replay[i]
      /\ seen' = seen \cup {j}
  BY <1>1 DEF RecordJti, TypeOK
<1>7. RecordedIsKept'
  <2> SUFFICES ASSUME NEW i \in seen'
               PROVE  /\ assertion[i] # NoAssertion
                      /\ origin[assertion[i].session] # NoKey
                      /\ \/ replay'[i] = ReplayExpiry(assertion[i].exp)
                         \/ binding[assertion[i].session] = NoKey
    BY <1>2 DEF RecordedIsKept
  <2>1. CASE i = j
    BY <2>1, <1>1, <1>5, <1>6 DEF AssertionOf
  <2>2. CASE i # j
    <3>1. i \in seen /\ i \in Jtis
      BY <2>2, <1>6 DEF TypeOK
    <3> QED
      BY <2>2, <3>1, <1>6 DEF RecordedIsKept
  <2> QED
    BY <2>1, <2>2
<1>8. AcceptedRequestIsTheDevice'
  BY <1>2, <1>3, <1>5 DEF AcceptedRequestIsTheDevice, At
<1>9. KeysAreOrigins' /\ KeyInHand' /\ ValidatedInTime'
  BY <1>2, <1>3, <1>4 DEF KeysAreOrigins, KeyInHand, ValidatedInTime, At
<1> QED
  BY <1>7, <1>8, <1>9

(* The invariant holds in every reachable state. *)
THEOREM Invariance == Spec => []IInv
<1>1. Init => IInv
  <2> SUFFICES ASSUME Init PROVE IInv
    OBVIOUS
  <2>1. TypeOK
    BY DEF Init, TypeOK, Store!EmptyStore
  <2>2. \A r \in Requests : request[r].step = "none"
    BY DEF Init, NoRequest
  <2> QED
    BY <2>1, <2>2 DEF Init, IInv, KeysAreOrigins, KeyInHand, ValidatedInTime, RecordedIsKept,
       AcceptedRequestIsTheDevice, At, Store!EmptyStore
<1>2. IInv /\ TypeOK' /\ [Next]_vars => IInv'
  <2> SUFFICES ASSUME IInv, TypeOK', [Next]_vars PROVE IInv'
    OBVIOUS
  <2>1. ASSUME NEW s \in Sessions, NEW k \in PublicKeys, Register(s, k) PROVE IInv'
    BY <2>1, RegisterPreserves
  <2>2. ASSUME NEW j \in Jtis, NEW s \in Sessions, NEW k \in PublicKeys,
               NEW exp \in now .. now + AssertionLifetime, NEW wellFormed \in BOOLEAN,
               Sign(j, s, k, exp, wellFormed)
        PROVE  IInv'
    BY <2>2, SignPreserves DEF Sign, IInv, TypeOK
  <2>3. ASSUME NEW r \in Requests, NEW j \in Jtis, NEW s \in Sessions \cup {NoSession},
               Receive(r, j, s)
        PROVE  IInv'
    BY <2>3, ReceivePreserves
  <2>4. ASSUME NEW r \in Requests, ValidateAsync(r) PROVE IInv'
    <3>1. CASE KeyMissing(r)
      BY <2>4, <3>1, EndPreserves DEF KeyMissing
    <3>2. CASE ~KeyMissing(r)
      BY <2>4, <3>2, SelectKeyPreserves, ValidateTokenPreserves, CheckReplayPreserves,
         RecordJtiPreserves DEF ValidateAsync
    <3> QED
      BY <3>1, <3>2
  <2>5. CASE Tick
    BY <2>5, TickPreserves
  <2>6. CASE Restart
    BY <2>6, RestartPreserves
  <2>7. CASE UNCHANGED vars
    BY <2>7 DEF vars, storeVars, IInv, TypeOK, KeysAreOrigins, KeyInHand, ValidatedInTime,
       RecordedIsKept, AcceptedRequestIsTheDevice, At, AssertionOf
  <2> QED
    BY <2>1, <2>2, <2>3, <2>4, <2>5, <2>6, <2>7 DEF Next
<1> QED
  BY <1>1, <1>2, Typing, PTL DEF Spec

(* The key the validator read for an assertion, before it awaited the      *)
(* issuer name and the replay cache, is the session's key until it answers *)
(* (PerInstancePrivateKeyJwtSecretValidator.cs): requests, registrations   *)
(* and restarts at any point do not make it stale.                         *)
THEOREM KeyStaysCurrent == Spec => []TrustedKeyIsCurrent
<1>1. IInv => TrustedKeyIsCurrent
  BY DEF IInv, KeyInHand, TrustedKeyIsCurrent
<1> QED
  BY <1>1, Invariance, PTL

(* An accepted token request is one of the application instance that       *)
(* registered the key of the session it asks for.                          *)
THEOREM TokensForTheDevice == Spec => []AcceptedRequestIsTheDevice
<1>1. IInv => AcceptedRequestIsTheDevice
  BY DEF IInv
<1> QED
  BY <1>1, Invariance, PTL

(* The lookup finds the entry of every recorded assertion that is still    *)
(* within its lifetime: a request validated at most ClockSkew after exp    *)
(* looks it up at most MaxDelay later, before exp + ReplayGrace.           *)
THEOREM ReplayNeverPasses == Spec => RecordedNeverPasses
<1>1. IInv /\ [Next]_vars =>
        \A r \in Requests : At(r, "validated") /\ At(r, "new")' => request[r].jti \notin seen
  <2> SUFFICES ASSUME IInv, [Next]_vars, NEW r \in Requests,
                      At(r, "validated"), At(r, "new")', request[r].jti \in seen
               PROVE  FALSE
    OBVIOUS
  <2> DEFINE j == request[r].jti
  <2>1. /\ request[r] \in Request /\ j \in Jtis /\ AssertionOf(r).exp \in Nat
        /\ request[r].at \in Nat
    BY RequestTypes DEF IInv, At, Request
  <2>2. replay[j] = AssertionOf(r).exp + ReplayGrace
    BY DEF IInv, RecordedIsKept, KeyInHand, At, AssertionOf, ReplayExpiry
  <2>3. now < replay[j]
    BY <2>1, <2>2, TimeAssumption DEF IInv, TypeOK, ValidatedInTime
  <2>4. CheckReplay(r)
    <3>1. ASSUME NEW q \in Requests, ValidateAsync(q) PROVE CheckReplay(r)
      <4>1. q = r
        BY <3>1, RequestStep DEF IInv, At
      <4> QED
        BY <3>1, <4>1 DEF ValidateAsync, KeyMissing, SelectKey, ValidateToken, RecordJti, At
    <3>2. ASSUME NEW q \in Requests, NEW i \in Jtis, NEW s \in Sessions \cup {NoSession},
                 Receive(q, i, s)
          PROVE  FALSE
      BY <3>2 DEF Receive, IInv, TypeOK, At, NoRequest
    <3>3. ~Restart
      <4> SUFFICES ASSUME Restart PROVE FALSE
        OBVIOUS
      <4>1. InProgress(r)
        BY DEF InProgress, At
      <4> QED
        BY <2>1, <4>1 DEF Restart, At, Request
    <3>4. CASE UNCHANGED request
      BY <3>4 DEF At
    <3> QED
      BY <3>1, <3>2, <3>3, <3>4 DEF Next, Register, Sign, Tick, vars
  <2>5. Goto(r, "refused")
    BY <2>3, <2>4 DEF CheckReplay, Exists
  <2> QED
    BY <2>1, <2>5 DEF Goto, At, Request, IInv, TypeOK
<1> QED
  BY <1>1, Invariance, PTL DEF Spec, RecordedNeverPasses

-----------------------------------------------------------------------------
(* The validator implements ClientAuthentication. *)

(* The tokens granted depend on the requests accepted and their assertions *)
(* only.                                                                   *)
LEMMA TokensKept ==
  ASSUME \A r \in Requests : At(r, "accepted")' <=> At(r, "accepted"),
         \A r \in Requests : At(r, "accepted") =>
           request'[r].scope = request[r].scope /\ AssertionOf(r)' = AssertionOf(r)
  PROVE  Granted' = Granted
BY DEF Granted

(* Every step but RecordJti leaves the tokens, and moves the store as      *)
(* SessionStore allows or not at all.                                      *)
LEMMA OtherSteps ==
  ASSUME IInv, [Next]_vars, \A r \in Requests : ~RecordJti(r)
  PROVE  /\ Granted' = Granted
         /\ Authentication!Next \/ UNCHANGED storeVars
<1> USE DEF IInv
<1>1. ASSUME NEW s \in Sessions, NEW k \in PublicKeys, Register(s, k)
      PROVE  Granted' = Granted /\ Authentication!Next
  <2>1. Granted' = Granted
    BY <1>1, TokensKept DEF Register, At, AssertionOf
  <2>2. Authentication!Create(s, k)
    <3>1. origin' = [origin EXCEPT ![s] = k] /\ binding' = [binding EXCEPT ![s] = k]
          /\ origin[s] = NoKey
      BY <1>1 DEF Register, Store!Create, Store!Fresh
    <3>2. {x \in Sessions : origin'[x] # NoKey} = {x \in Sessions : origin[x] # NoKey} \cup {s}
      BY <3>1, NullAssumption DEF TypeOK
    <3> QED
      BY <3>1, <3>2 DEF Authentication!Create, Authentication!Fresh
  <2> QED
    BY <2>1, <2>2 DEF Authentication!Next
<1>2. ASSUME NEW j \in Jtis, assertion[j] = NoAssertion,
             \A i \in Jtis : i # j => assertion'[i] = assertion[i],
             UNCHANGED <<now, storeVars, request, replay, seen>>
      PROVE  Granted' = Granted /\ UNCHANGED storeVars
  <2>1. \A r \in Requests : At(r, "accepted") => AssertionOf(r)' = AssertionOf(r)
    <3> SUFFICES ASSUME NEW r \in Requests, At(r, "accepted")
                 PROVE  AssertionOf(r)' = AssertionOf(r)
      OBVIOUS
    <3>1. request[r] # NoRequest /\ request[r].jti \in Jtis
      BY RequestTypes DEF At, NoRequest
    <3>2. request[r].jti # j
      BY <1>2, <3>1 DEF TypeOK, AssertionOf
    <3> QED
      BY <1>2, <3>1, <3>2 DEF AssertionOf
  <2> QED
    BY <1>2, <2>1, TokensKept DEF At
<1>3. ASSUME NEW r \in Requests, NEW j \in Jtis, NEW s \in Sessions \cup {NoSession},
             Receive(r, j, s)
      PROVE  Granted' = Granted /\ UNCHANGED storeVars
  <2>1. /\ request[r].step = "none" /\ request'[r].step = "received"
        /\ \A q \in Requests : q # r => request'[q] = request[q]
        /\ UNCHANGED <<storeVars, assertion>>
    BY <1>3 DEF Receive, At, NoRequest, TypeOK
  <2> QED
    BY <2>1, TokensKept DEF At, AssertionOf
<1>4. ASSUME NEW r \in Requests, ValidateAsync(r)
      PROVE  Granted' = Granted /\ UNCHANGED storeVars
  <2>1. /\ \A q \in Requests : request'[q].jti = request[q].jti
                               /\ request'[q].scope = request[q].scope
        /\ \A q \in Requests : q # r => request'[q] = request[q]
        /\ request[r] \in Request
        /\ UNCHANGED <<storeVars, assertion>>
    BY <1>4, RequestStep, RequestTypes
  <2>2. request[r].step # "accepted" /\ request'[r].step # "accepted"
    BY <1>4, <2>1 DEF ValidateAsync, KeyMissing, SelectKey, ValidateToken, CheckReplay, At,
       Goto, TypeOK, Request
  <2> QED
    BY <2>1, <2>2, TokensKept DEF At, AssertionOf
<1>5. CASE Tick
  BY <1>5, TokensKept DEF Tick, At, AssertionOf
<1>6. ASSUME Restart PROVE Granted' = Granted /\ Authentication!Next
  <2>1. \A r \in Requests : /\ At(r, "accepted")' <=> At(r, "accepted")
                            /\ At(r, "accepted") => request'[r] = request[r]
    <3> SUFFICES ASSUME NEW r \in Requests
                 PROVE  /\ At(r, "accepted")' <=> At(r, "accepted")
                        /\ At(r, "accepted") => request'[r] = request[r]
      OBVIOUS
    <3>1. CASE InProgress(r)
      <4>1. request[r] \in Request
        BY <3>1, RequestTypes DEF InProgress
      <4> QED
        BY <1>6, <3>1, <4>1 DEF Restart, InProgress, At, Request
    <3>2. CASE ~InProgress(r)
      BY <1>6, <3>2 DEF Restart, At
    <3> QED
      BY <3>1, <3>2
  <2>2. Granted' = Granted
    BY <1>6, <2>1, TokensKept DEF Restart, AssertionOf
  <2>3. Authentication!Forget
    BY <1>6 DEF Restart, Store!Forget, Authentication!Forget, Store!EmptyStore,
       Authentication!EmptyStore
  <2> QED
    BY <2>2, <2>3 DEF Authentication!Next
<1>7. CASE UNCHANGED vars
  BY <1>7, TokensKept DEF vars, At, AssertionOf
<1>8. ASSUME NEW j \in Jtis, NEW s \in Sessions, NEW k \in PublicKeys,
             NEW exp \in now .. now + AssertionLifetime, NEW wellFormed \in BOOLEAN,
             Sign(j, s, k, exp, wellFormed)
      PROVE  Granted' = Granted /\ UNCHANGED storeVars
  BY <1>2, <1>8 DEF Sign, TypeOK
<1> QED
  BY <1>1, <1>3, <1>4, <1>5, <1>6, <1>7, <1>8 DEF Next, Tick, vars

(* RecordJti grants a token with the store as it is: the key is still the  *)
(* one that was read, and the assertion is signed with it.                 *)
LEMMA RecordJtiGrants ==
  ASSUME IInv, NEW r \in Requests, RecordJti(r)
  PROVE  Authentication!Grant(r, request[r].scope, AssertionOf(r).key)
<1> USE DEF IInv
<1> DEFINE token(q) == [request |-> q, session |-> request[q].scope, key |-> AssertionOf(q).key]
<1>1. /\ request[r] \in Request /\ At(r, "new") /\ ValidateAsync(r)
      /\ AssertionOf(r).session \in Sessions
  BY RequestTypes DEF RecordJti, At, ValidateAsync
<1>2. /\ \A q \in Requests : request'[q].scope = request[q].scope
                             /\ AssertionOf(q)' = AssertionOf(q)
      /\ \A q \in Requests : q # r => request'[q] = request[q]
      /\ request'[r].step = "accepted"
      /\ UNCHANGED storeVars
  <2>1. request'[r].step = "accepted"
    BY <1>1 DEF RecordJti, Goto, TypeOK, Request
  <2> QED
    BY <1>1, <2>1, RequestStep DEF AssertionOf
<1>3. /\ binding[request[r].scope] = AssertionOf(r).key
      /\ binding[request[r].scope] # NoKey
      /\ request[r].scope \in Sessions
  BY <1>1 DEF KeyInHand, At
<1>4. \A q \in Requests : At(q, "accepted")' <=> At(q, "accepted") \/ q = r
  BY <1>1, <1>2 DEF At
<1>5. Granted' = Granted \cup {token(r)}
  BY <1>2, <1>4 DEF Granted
<1>6. \A t \in Granted : t.request # r
  BY <1>1 DEF Granted, At
<1>7. UNCHANGED {s \in Sessions : origin[s] # NoKey} /\ UNCHANGED binding
  BY <1>2 DEF storeVars
<1> QED
  BY <1>3, <1>5, <1>6, <1>7
     DEF Authentication!Grant, Authentication!Known, Authentication!storeVars

(* Each request is answered as if it had been validated in one step, by    *)
(* the store of that moment, for any number of overlapping requests,       *)
(* registrations and restarts.                                             *)
THEOREM ImplementsAuthentication == Spec => AnswersAtOnce
<1>1. Init => Authentication!AuthInit
  <2> SUFFICES ASSUME Init PROVE Authentication!AuthInit
    OBVIOUS
  <2>1. \A r \in Requests : ~At(r, "accepted")
    BY DEF Init, NoRequest, At
  <2>2. Granted = {}
    BY <2>1 DEF Granted
  <2>3. {s \in Sessions : origin[s] # NoKey} = {}
    BY DEF Init
  <2> QED
    BY <2>2, <2>3 DEF Init, Authentication!AuthInit, Authentication!Init, Store!EmptyStore,
       Authentication!EmptyStore
<1>2. IInv /\ [Next]_vars => [Authentication!AuthNext]_(Authentication!authVars)
  <2> SUFFICES ASSUME IInv, [Next]_vars
               PROVE  Authentication!AuthNext \/ UNCHANGED Authentication!authVars
    OBVIOUS
  <2>1. ASSUME NEW r \in Requests, RecordJti(r) PROVE Authentication!AuthNext
    <3>1. request[r].scope \in Sessions /\ AssertionOf(r).key \in PublicKeys
      BY <2>1, RequestTypes DEF RecordJti, At, IInv, KeyInHand
    <3> QED
      BY <2>1, <3>1, RecordJtiGrants DEF Authentication!AuthNext
  <2>2. CASE \A r \in Requests : ~RecordJti(r)
    <3>1. Granted' = Granted /\ (Authentication!Next \/ UNCHANGED storeVars)
      BY <2>2, OtherSteps
    <3>2. CASE Authentication!Next
      BY <3>1, <3>2 DEF Authentication!AuthNext, Authentication!StoreStep
    <3>3. CASE UNCHANGED storeVars
      BY <3>1, <3>3 DEF storeVars, Authentication!authVars, Authentication!storeVars
    <3> QED
      BY <3>1, <3>2, <3>3
  <2> QED
    BY <2>1, <2>2
<1> QED
  BY <1>1, <1>2, Invariance, PTL DEF Spec, AnswersAtOnce, Authentication!AuthSpec
=============================================================================
