------------------------ MODULE ExternalLoginProofs ------------------------
(***************************************************************************)
(* Proofs about ExternalLogin, for any number of browsers, callbacks,      *)
(* external identities and users.                                          *)
(***************************************************************************)
EXTENDS ExternalLogin, TLAPS

InProgress(r) == call[r].step \in {"find", "create", "claims", "login", "signin"}

(* A user that is being provisioned belongs to its callback alone: it has  *)
(* no login, and no other callback provisions it.                          *)
Provisioning(r) == call[r].step \in {"claims", "login"}

ProvisionedAlone ==
  \A r \in Requests : Provisioning(r) =>
    /\ \A e \in Externals : logins[e] # call[r].user
    /\ \A q \in Requests : q # r /\ Provisioning(q) => call[q].user # call[r].user

(* Before its login is saved, the user has the claims. *)
ClaimsFirst ==
  \A r \in Requests :
    At(r, "login") /\ call[r].external \in Named => call[r].user \in claims

(* A callback signs in the user with the login of its identity. *)
SignsInItsUser ==
  \A r \in Requests : At(r, "signin") => call[r].user = logins[call[r].external]

(* No two identities have one user. *)
OneIdentity ==
  \A e, f \in Externals : e # f /\ logins[e] # None => logins[e] # logins[f]

(* A callback works for an identity its browser was given. *)
GivenIdentities ==
  /\ \A b \in Browsers : external[b] # None => external[b] \in authenticated[b]
  /\ \A r \in Requests : InProgress(r) => call[r].external \in authenticated[call[r].browser]

IInv ==
  /\ TypeOK
  /\ ProvisionedAlone
  /\ ClaimsFirst
  /\ SignsInItsUser
  /\ OneIdentity
  /\ GivenIdentities
  /\ SignedInAsSelf
  /\ LoginsAreComplete

-----------------------------------------------------------------------------
(* How a callback goes on. *)
LEMMA GotoFacts ==
  ASSUME TypeOK, NEW r \in Requests, NEW s \in Steps, Goto(r, s)
  PROVE  /\ call' \in [Requests -> Call]
         /\ call'[r].step = s
         /\ call'[r].browser = call[r].browser
         /\ call'[r].external = call[r].external
         /\ call'[r].user = call[r].user
         /\ \A q \in Requests : q # r => call'[q] = call[q]
<1>1. call[r] \in Call
  BY DEF TypeOK
<1>2. [call[r] EXCEPT !.step = s] \in Call
  BY <1>1 DEF Call
<1>3. call' = [call EXCEPT ![r] = [call[r] EXCEPT !.step = s]]
  BY DEF Goto
<1> QED
  BY <1>1, <1>2, <1>3 DEF TypeOK, Call

LEMMA WithFacts ==
  ASSUME TypeOK, NEW r \in Requests, NEW u \in Users, NEW s \in Steps, With(r, u, s)
  PROVE  /\ call' \in [Requests -> Call]
         /\ call'[r].step = s
         /\ call'[r].browser = call[r].browser
         /\ call'[r].external = call[r].external
         /\ call'[r].user = u
         /\ \A q \in Requests : q # r => call'[q] = call[q]
<1>1. call[r] \in Call
  BY DEF TypeOK
<1>2. [call[r] EXCEPT !.step = s, !.user = u] \in Call
  BY <1>1 DEF Call
<1>3. call' = [call EXCEPT ![r] = [call[r] EXCEPT !.step = s, !.user = u]]
  BY DEF With
<1> QED
  BY <1>1, <1>2, <1>3 DEF TypeOK, Call

-----------------------------------------------------------------------------
(* One lemma per action: it preserves the invariant. *)

LEMMA ChallengeStep ==
  ASSUME IInv, NEW b \in Browsers, NEW e \in Externals, Challenge(b, e)
  PROVE  IInv'
BY DEF Challenge, database, IInv, TypeOK, ProvisionedAlone, ClaimsFirst, SignsInItsUser, OneIdentity,
     GivenIdentities, SignedInAsSelf, LoginsAreComplete, Provisioning, InProgress, At

LEMMA OnGetStep ==
  ASSUME IInv, NEW r \in Requests, NEW b \in Browsers, OnGet(r, b)
  PROVE  IInv'
<1>1. PICK c \in Call :
        /\ call' = [call EXCEPT ![r] = c]
        /\ c.step = IF external[b] = None THEN "failed" ELSE "find"
        /\ c.browser = b /\ c.external = external[b] /\ c.user = None
  <2> DEFINE c == [step     |-> IF external[b] = None THEN "failed" ELSE "find",
                   browser  |-> b, external |-> external[b], user |-> None]
  <2>1. c \in Call
    BY DEF IInv, TypeOK, Call, Steps
  <2> QED
    BY <2>1 DEF OnGet
<1>2. /\ call' \in [Requests -> Call] /\ call'[r] = c
      /\ \A q \in Requests : q # r => call'[q] = call[q]
  BY <1>1 DEF IInv, TypeOK
<1> QED
  BY <1>1, <1>2, NoneAssumption DEF OnGet, database, cookies, IInv, TypeOK, ProvisionedAlone, ClaimsFirst, SignsInItsUser, OneIdentity,
     GivenIdentities, SignedInAsSelf, LoginsAreComplete, Provisioning, InProgress, At

LEMMA FindByLoginStep ==
  ASSUME IInv, NEW r \in Requests, FindByLogin(r)
  PROVE  IInv'
<1> DEFINE e == call[r].external
<1>1. e \in Externals /\ UserOf(e) = logins[e]
  BY DEF IInv, TypeOK, FindByLogin, UserOf, At, Call
<1>2. CASE logins[e] = None
  <2>1. Goto(r, "create")
    BY <1>1, <1>2 DEF FindByLogin
  <2> QED
    BY <1>1, <2>1, GotoFacts DEF Steps, FindByLogin, database, cookies, IInv, TypeOK, ProvisionedAlone, ClaimsFirst, SignsInItsUser, OneIdentity,
     GivenIdentities, SignedInAsSelf, LoginsAreComplete, Provisioning, InProgress, At
<1>3. CASE logins[e] # None
  <2>1. logins[e] \in users /\ logins[e] \in Users
    BY <1>1, <1>3 DEF IInv, TypeOK
  <2>2. With(r, logins[e], "signin") /\ UNCHANGED <<users, claims, logins, external, local, authenticated>>
    BY <1>1, <1>3 DEF FindByLogin, database, cookies
  <2>3. /\ call' \in [Requests -> Call]
        /\ call'[r].step = "signin"
        /\ call'[r].browser = call[r].browser
        /\ call'[r].external = e
        /\ call'[r].user = logins[e]
        /\ \A q \in Requests : q # r => call'[q] = call[q]
    BY <2>1, <2>2, WithFacts DEF IInv, Steps
  <2>4. At(r, "find")
    BY DEF FindByLogin
  <2>5. TypeOK'
    BY <1>1, <1>3, <2>1, <2>2, <2>3, <2>4 DEF IInv, TypeOK, At
  <2>6. ProvisionedAlone' /\ ClaimsFirst' /\ SignsInItsUser'
    BY <2>2, <2>3 DEF IInv, ProvisionedAlone, Provisioning, ClaimsFirst, SignsInItsUser, At
  <2>7. GivenIdentities'
    BY <2>2, <2>3, <2>4 DEF IInv, GivenIdentities, InProgress, At
  <2>8. OneIdentity' /\ SignedInAsSelf' /\ LoginsAreComplete'
    BY <2>2 DEF IInv, OneIdentity, SignedInAsSelf, LoginsAreComplete
  <2> QED
    BY <2>5, <2>6, <2>7, <2>8 DEF IInv
<1> QED
  BY <1>2, <1>3

LEMMA CreateUserStep ==
  ASSUME IInv, NEW r \in Requests, CreateUser(r)
  PROVE  IInv'
<1>1. PICK u \in Users \ users : users' = users \cup {u} /\ With(r, u, AfterCreate(call[r].external))
  BY DEF CreateUser
<1>2. /\ AfterCreate(call[r].external) \in {"claims", "login"}
      /\ AfterCreate(call[r].external) = "login" => call[r].external \notin Named
      /\ AfterCreate(call[r].external) \in Steps
  BY DEF AfterCreate, Steps
<1>3. At(r, "create") /\ UNCHANGED <<claims, logins, external, local, authenticated>>
  BY DEF CreateUser, cookies
<1>4. /\ call' \in [Requests -> Call]
      /\ call'[r].step \in {"claims", "login"}
      /\ call'[r].step = "login" => call[r].external \notin Named
      /\ call'[r].browser = call[r].browser
      /\ call'[r].external = call[r].external
      /\ call'[r].user = u
      /\ \A q \in Requests : q # r => call'[q] = call[q]
  BY <1>1, <1>2, WithFacts DEF IInv
<1>5. TypeOK'
  BY <1>1, <1>3, <1>4, NoneAssumption DEF IInv, TypeOK, At
<1>6. ProvisionedAlone'
  BY <1>1, <1>3, <1>4, NoneAssumption DEF IInv, TypeOK, ProvisionedAlone, Provisioning, At
<1>7. ClaimsFirst' /\ SignsInItsUser'
  BY <1>3, <1>4 DEF IInv, ClaimsFirst, SignsInItsUser, At
<1>8. GivenIdentities'
  BY <1>3, <1>4 DEF IInv, GivenIdentities, InProgress, At
<1>9. OneIdentity' /\ SignedInAsSelf' /\ LoginsAreComplete'
  BY <1>3 DEF IInv, OneIdentity, SignedInAsSelf, LoginsAreComplete
<1> QED
  BY <1>5, <1>6, <1>7, <1>8, <1>9 DEF IInv

LEMMA AddClaimsStep ==
  ASSUME IInv, NEW r \in Requests, AddClaims(r)
  PROVE  IInv'
<1>1. /\ At(r, "claims")
      /\ claims' = claims \cup {call[r].user}
      /\ UNCHANGED <<users, logins, external, local, authenticated>>
  BY DEF AddClaims, cookies
<1>2. /\ call' \in [Requests -> Call]
      /\ call'[r].step = "login"
      /\ call'[r].browser = call[r].browser
      /\ call'[r].external = call[r].external
      /\ call'[r].user = call[r].user
      /\ \A q \in Requests : q # r => call'[q] = call[q]
  BY GotoFacts DEF IInv, AddClaims, Steps
<1>3. TypeOK'
  BY <1>1, <1>2 DEF IInv, TypeOK, At
<1>4. ProvisionedAlone'
  BY <1>1, <1>2 DEF IInv, ProvisionedAlone, Provisioning, At
<1>5. ClaimsFirst' /\ SignsInItsUser'
  BY <1>1, <1>2 DEF IInv, ClaimsFirst, SignsInItsUser, At
<1>6. GivenIdentities'
  BY <1>1, <1>2 DEF IInv, GivenIdentities, InProgress, At
<1>7. OneIdentity' /\ SignedInAsSelf' /\ LoginsAreComplete'
  BY <1>1 DEF IInv, OneIdentity, SignedInAsSelf, LoginsAreComplete
<1> QED
  BY <1>3, <1>4, <1>5, <1>6, <1>7 DEF IInv

LEMMA AddLoginStep ==
  ASSUME IInv, NEW r \in Requests, AddLogin(r)
  PROVE  IInv'
<1> DEFINE e == call[r].external
<1>1. e \in Externals /\ call[r].user \in users /\ call[r].user # None
  BY DEF IInv, TypeOK, AddLogin, At, Call
<1>2. CASE logins[e] # None
  BY <1>1, <1>2, GotoFacts DEF AddLogin, cookies, Steps, IInv, TypeOK, ProvisionedAlone, ClaimsFirst, SignsInItsUser, OneIdentity,
     GivenIdentities, SignedInAsSelf, LoginsAreComplete, Provisioning, InProgress, At
<1>3. CASE logins[e] = None
  <2>1. /\ At(r, "login")
        /\ logins' = [logins EXCEPT ![e] = call[r].user]
        /\ UNCHANGED <<users, claims, external, local, authenticated>>
    BY <1>3 DEF AddLogin, cookies
  <2>2. /\ call' \in [Requests -> Call]
        /\ call'[r].step = "signin"
        /\ call'[r].browser = call[r].browser
        /\ call'[r].external = e
        /\ call'[r].user = call[r].user
        /\ \A q \in Requests : q # r => call'[q] = call[q]
    BY <1>3, GotoFacts DEF IInv, AddLogin, Steps
  <2>3. /\ logins \in [Externals -> users \cup {None}]
        /\ logins'[e] = call[r].user
        /\ \A f \in Externals : f # e => logins'[f] = logins[f]
        /\ \A f \in Externals : logins[f] # call[r].user
    BY <1>1, <2>1 DEF IInv, TypeOK, ProvisionedAlone, Provisioning, At
  <2>4. TypeOK'
    BY <1>1, <2>1, <2>2 DEF IInv, TypeOK, At
  <2>5. ProvisionedAlone'
    BY <1>1, <2>1, <2>2, <2>3 DEF IInv, ProvisionedAlone, Provisioning, At
  <2>6. ClaimsFirst'
    BY <2>1, <2>2 DEF IInv, ClaimsFirst, At
  <2>7. SignsInItsUser'
    <3>1. ASSUME NEW q \in Requests, q # r, At(q, "signin")
          PROVE  call[q].external # e
      BY <1>1, <1>3, <3>1 DEF IInv, TypeOK, SignsInItsUser, At
    <3>2. ASSUME NEW q \in Requests, At(q, "signin")
          PROVE  call[q].external \in Externals
      BY <3>2 DEF IInv, TypeOK, Call, At
    <3> QED
      BY <2>2, <2>3, <3>1, <3>2 DEF IInv, SignsInItsUser, At
  <2>8. OneIdentity'
    BY <1>1, <2>3 DEF IInv, OneIdentity
  <2>9. GivenIdentities'
    BY <2>1, <2>2 DEF IInv, GivenIdentities, InProgress, At
  <2>10. SignedInAsSelf'
    BY <1>3, <2>1, <2>3 DEF IInv, TypeOK, SignedInAsSelf
  <2>11. LoginsAreComplete'
    BY <1>1, <2>1, <2>3 DEF IInv, LoginsAreComplete, ClaimsFirst, At
  <2> QED
    BY <2>4, <2>5, <2>6, <2>7, <2>8, <2>9, <2>10, <2>11 DEF IInv
<1> QED
  BY <1>2, <1>3

LEMMA SignInStep ==
  ASSUME IInv, NEW r \in Requests, SignIn(r)
  PROVE  IInv'
<1> DEFINE b == call[r].browser
<1>1. /\ At(r, "signin")
      /\ local'    = [local    EXCEPT ![b] = call[r].user]
      /\ external' = [external EXCEPT ![b] = None]
      /\ UNCHANGED <<users, claims, logins, authenticated>>
  BY DEF SignIn, database
<1>2. /\ call' \in [Requests -> Call]
      /\ call'[r].step = "done"
      /\ call'[r].browser = b
      /\ call'[r].external = call[r].external
      /\ call'[r].user = call[r].user
      /\ \A q \in Requests : q # r => call'[q] = call[q]
  BY GotoFacts DEF IInv, SignIn, Steps
<1>3. /\ b \in Browsers
      /\ call[r].external \in authenticated[b]
      /\ call[r].external \in Externals
      /\ call[r].user = logins[call[r].external]
      /\ call[r].user \in users
  BY <1>1 DEF IInv, TypeOK, Call, GivenIdentities, InProgress, SignsInItsUser, At
<1>4. TypeOK'
  BY <1>1, <1>2, <1>3 DEF IInv, TypeOK, At
<1>5. ProvisionedAlone' /\ ClaimsFirst' /\ SignsInItsUser'
  BY <1>1, <1>2 DEF IInv, ProvisionedAlone, Provisioning, ClaimsFirst, SignsInItsUser, At
<1>6. GivenIdentities'
  BY <1>1, <1>2 DEF IInv, TypeOK, GivenIdentities, InProgress, At
<1>7. SignedInAsSelf'
  BY <1>1, <1>3 DEF IInv, TypeOK, SignedInAsSelf
<1>8. OneIdentity' /\ LoginsAreComplete'
  BY <1>1 DEF IInv, OneIdentity, LoginsAreComplete
<1> QED
  BY <1>4, <1>5, <1>6, <1>7, <1>8 DEF IInv

LEMMA FailStep ==
  ASSUME IInv, NEW r \in Requests, Fail(r)
  PROVE  IInv'
BY GotoFacts DEF Fail, database, cookies, Steps, IInv, TypeOK, ProvisionedAlone, ClaimsFirst, SignsInItsUser, OneIdentity,
     GivenIdentities, SignedInAsSelf, LoginsAreComplete, Provisioning, InProgress, At

-----------------------------------------------------------------------------

LEMMA InvInit == Init => IInv
BY NoneAssumption DEF Init, NewCall, Call, Steps, IInv, TypeOK, ProvisionedAlone, ClaimsFirst,
   SignsInItsUser, OneIdentity, GivenIdentities, SignedInAsSelf, LoginsAreComplete, Provisioning,
   InProgress, At

LEMMA InvNext == IInv /\ [Next]_vars => IInv'
<1> SUFFICES ASSUME IInv, [Next]_vars PROVE IInv'
  OBVIOUS
<1>1. ASSUME NEW b \in Browsers, NEW e \in Externals, Challenge(b, e) PROVE IInv'
  BY <1>1, ChallengeStep
<1>2. ASSUME NEW r \in Requests, Callback(r) PROVE IInv'
  BY <1>2, OnGetStep, FindByLoginStep, CreateUserStep, AddClaimsStep, AddLoginStep, SignInStep,
     FailStep DEF Callback
<1>3. CASE UNCHANGED vars
  BY <1>3 DEF vars, database, cookies, IInv, TypeOK, ProvisionedAlone, ClaimsFirst,
     SignsInItsUser, OneIdentity, GivenIdentities, SignedInAsSelf, LoginsAreComplete,
     Provisioning, InProgress, At
<1> QED
  BY <1>1, <1>2, <1>3 DEF Next

(* The inductive invariant holds in every reachable state. *)
THEOREM Invariance == Spec => []IInv
BY InvInit, InvNext, PTL DEF Spec

(* The variables have the types of TypeOK, and nothing refers to a user    *)
(* that is not in the database.                                            *)
THEOREM Typing == Spec => []TypeOK
<1>1. IInv => TypeOK
  BY DEF IInv
<1> QED
  BY <1>1, Invariance, PTL

(* A browser is signed in as a user of an identity the provider vouched    *)
(* for to that browser.                                                    *)
THEOREM BrowsersAreThemselves == Spec => []SignedInAsSelf
<1>1. IInv => SignedInAsSelf
  BY DEF IInv
<1> QED
  BY <1>1, Invariance, PTL

(* A user with a login has the claims of its identity. *)
THEOREM NobodyIsHalfProvisioned == Spec => []LoginsAreComplete
<1>1. IInv => LoginsAreComplete
  BY DEF IInv
<1> QED
  BY <1>1, Invariance, PTL

-----------------------------------------------------------------------------
(* The refinement: every step is a step of the directory or stutters. *)

LEMMA StepIsDirectoryStep ==
  ASSUME IInv, Next
  PROVE  [Directory!Next]_<<logins, local>>
<1>1. ASSUME NEW r \in Requests, AddLogin(r)
      PROVE  [Directory!Next]_<<logins, local>>
  <2> DEFINE e == call[r].external
             u == call[r].user
  <2>1. /\ e \in Externals
        /\ u \in Users
        /\ \A f \in Externals : logins[f] # u
    BY <1>1 DEF IInv, TypeOK, Call, AddLogin, ProvisionedAlone, Provisioning, At
  <2>2. CASE logins[e] = None
    BY <1>1, <2>1, <2>2 DEF AddLogin, cookies, Directory!Provision, Directory!Next
  <2>3. CASE logins[e] # None
    BY <1>1, <2>3 DEF AddLogin, cookies
  <2> QED
    BY <2>2, <2>3
<1>2. ASSUME NEW r \in Requests, SignIn(r)
      PROVE  [Directory!Next]_<<logins, local>>
  <2> DEFINE e == call[r].external
             b == call[r].browser
  <2>1. /\ b \in Browsers
        /\ e \in Externals
        /\ call[r].user # None
        /\ call[r].user = logins[e]
    BY <1>2 DEF IInv, TypeOK, Call, SignIn, SignsInItsUser, At
  <2> QED
    BY <1>2, <2>1 DEF SignIn, database, Directory!SignIn, Directory!Next
<1>3. ASSUME NEW r \in Requests,
             \/ \E b \in Browsers : OnGet(r, b)
             \/ FindByLogin(r) \/ CreateUser(r) \/ AddClaims(r) \/ Fail(r)
      PROVE  UNCHANGED <<logins, local>>
  BY <1>3 DEF OnGet, FindByLogin, CreateUser, AddClaims, Fail, database, cookies
<1>4. ASSUME NEW b \in Browsers, NEW e \in Externals, Challenge(b, e)
      PROVE  UNCHANGED <<logins, local>>
  BY <1>4 DEF Challenge, database
<1> QED
  BY <1>1, <1>2, <1>3, <1>4 DEF Next, Callback

(* Overlapping and failing callbacks implement a directory with one        *)
(* account per external identity.                                          *)
THEOREM ImplementsDirectory == Spec => DirectorySpec
<1>1. Init => Directory!Init
  BY DEF Init, Directory!Init
<1>2. IInv /\ [Next]_vars => [Directory!Next]_<<logins, local>>
  BY StepIsDirectoryStep DEF vars, database, cookies
<1> QED
  BY <1>1, <1>2, Invariance, PTL DEF Spec, DirectorySpec, Directory!Spec
=============================================================================
