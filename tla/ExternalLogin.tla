--------------------------- MODULE ExternalLogin ---------------------------
(***************************************************************************)
(* Signing in with an external provider: Pages/ExternalLogin/Challenge and *)
(* Callback of the identity provider.  A callback finds the local user of  *)
(* the external identity or provisions one, in three saves to the database *)
(* (user, claims, login) without a transaction; callbacks run in parallel, *)
(* and each may end in an exception at any await, or with the process.     *)
(***************************************************************************)
EXTENDS FiniteSets

CONSTANTS Browsers,
          Requests,   \* bound: callbacks
          Externals,  \* external identities: provider and id there
          Named,      \* those the provider sends a name for
          Users,      \* bound: local users, each named by a new GUID
          None

ASSUME NamedAssumption == Named \subseteq Externals
ASSUME NoneAssumption  == None \notin Users \cup Externals \cup Browsers

VARIABLES
  users,          \* database: AspNetUsers
  claims,         \* database: the users with a name in AspNetUserClaims
  logins,         \* database: AspNetUserLogins, external identity -> user
  external,       \* browser -> external identity in its temporary cookie
  local,          \* browser -> user in its authentication cookie
  call,           \* request -> its progress in the callback
  authenticated   \* history: browser -> identities the provider vouched for

database == <<users, claims, logins>>
cookies  == <<external, local>>
vars     == <<database, cookies, call, authenticated>>

NewCall == [step |-> "new", browser |-> None, external |-> None, user |-> None]

Init ==
  /\ users  = {}
  /\ claims = {}
  /\ logins = [e \in Externals |-> None]
  /\ external = [b \in Browsers |-> None]
  /\ local    = [b \in Browsers |-> None]
  /\ call = [r \in Requests |-> NewCall]
  /\ authenticated = [b \in Browsers |-> {}]

At(r, step)   == call[r].step = step
Goto(r, step) == call' = [call EXCEPT ![r].step = step]

(* Go on with a user. *)
With(r, u, step) == call' = [call EXCEPT ![r] = [@ EXCEPT !.step = step, !.user = u]]

-----------------------------------------------------------------------------
(* Challenge, and the provider's answer, which the framework keeps in the  *)
(* temporary cookie; a second tab replaces it.                             *)
Challenge(b, e) ==
  /\ external' = [external EXCEPT ![b] = e]
  /\ authenticated' = [authenticated EXCEPT ![b] = @ \cup {e}]
  /\ UNCHANGED <<database, local, call>>

-----------------------------------------------------------------------------
(* Callback *)

(* OnGet reads the temporary cookie, once. *)
OnGet(r, b) ==
  /\ At(r, "new")
  /\ call' = [call EXCEPT ![r] =
                [step     |-> IF external[b] = None THEN "failed" ELSE "find",
                 browser  |-> b,
                 external |-> external[b],
                 user     |-> None]]
  /\ UNCHANGED <<database, cookies, authenticated>>

(* Mutant: the id at the provider is not part of the key. *)
UserOfProvider(e) ==
  IF \A f \in Externals : logins[f] = None THEN None
  ELSE CHOOSE u \in Users : \E f \in Externals : logins[f] = u

UserOf(e) == logins[e]

FindByLogin(r) ==
  LET u == UserOf(call[r].external) IN
    /\ At(r, "find")
    /\ IF u = None THEN Goto(r, "create") ELSE With(r, u, "signin")
    /\ UNCHANGED <<database, cookies, authenticated>>

(* Mutant: the claims are collected and never saved. *)
ClaimsForgotten(e) == "login"

(* if (filtered.Any()) *)
AfterCreate(e) == IF e \in Named THEN "claims" ELSE "login"

(* Mutant: the user is not saved on its own. *)
CreateUserUnsaved(r) ==
  /\ At(r, "create")
  /\ \E u \in Users \ users : With(r, u, AfterCreate(call[r].external))
  /\ UNCHANGED <<database, cookies, authenticated>>

CreateUser(r) ==
  /\ At(r, "create")
  /\ \E u \in Users \ users :
       /\ users' = users \cup {u}
       /\ With(r, u, AfterCreate(call[r].external))
  /\ UNCHANGED <<claims, logins, cookies, authenticated>>

AddClaims(r) ==
  /\ At(r, "claims")
  /\ claims' = claims \cup {call[r].user}
  /\ Goto(r, "login")
  /\ UNCHANGED <<users, logins, cookies, authenticated>>

(* Mutant: the result of the save is not looked at. *)
AddLoginUnchecked(r) ==
  LET e == call[r].external IN
    /\ At(r, "login")
    /\ logins' = IF logins[e] = None THEN [logins EXCEPT ![e] = call[r].user] ELSE logins
    /\ Goto(r, "signin")
    /\ UNCHANGED <<users, claims, cookies, authenticated>>

(* The login is the primary key of its table; an exception when another    *)
(* callback was first.                                                     *)
AddLogin(r) ==
  LET e == call[r].external IN
    /\ At(r, "login")
    /\ IF logins[e] = None
         THEN logins' = [logins EXCEPT ![e] = call[r].user] /\ Goto(r, "signin")
         ELSE Goto(r, "failed") /\ UNCHANGED logins
    /\ UNCHANGED <<users, claims, cookies, authenticated>>

(* The response signs the browser in and deletes the temporary cookie. *)
SignIn(r) ==
  /\ At(r, "signin")
  /\ local'    = [local    EXCEPT ![call[r].browser] = call[r].user]
  /\ external' = [external EXCEPT ![call[r].browser] = None]
  /\ Goto(r, "done")
  /\ UNCHANGED <<database, authenticated>>

(* A save fails, the request is aborted, the response is lost, or the      *)
(* process stops.  What was saved stays.                                   *)
Fail(r) ==
  /\ call[r].step \in {"find", "create", "claims", "login", "signin"}
  /\ Goto(r, "failed")
  /\ UNCHANGED <<database, cookies, authenticated>>

Callback(r) ==
  \/ \E b \in Browsers : OnGet(r, b)
  \/ FindByLogin(r) \/ CreateUser(r) \/ AddClaims(r) \/ AddLogin(r)
  \/ SignIn(r) \/ Fail(r)

Next ==
  \/ \E b \in Browsers, e \in Externals : Challenge(b, e)
  \/ \E r \in Requests : Callback(r)

Spec == Init /\ [][Next]_vars

-----------------------------------------------------------------------------
(* Properties *)

Steps == {"new", "find", "create", "claims", "login", "signin", "done", "failed"}
Call  == [step : Steps, browser : Browsers \cup {None}, external : Externals \cup {None},
          user : Users \cup {None}]

(* The shape of every variable; claims, logins and callbacks refer to      *)
(* users in the database.                                                  *)
TypeOK ==
  /\ users  \in SUBSET Users
  /\ claims \in SUBSET users
  /\ logins \in [Externals -> users \cup {None}]
  /\ external \in [Browsers -> Externals \cup {None}]
  /\ local    \in [Browsers -> users \cup {None}]
  /\ call \in [Requests -> Call]
  /\ authenticated \in [Browsers -> SUBSET Externals]
  /\ \A r \in Requests :
       /\ At(r, "new") = (call[r].browser = None)
       /\ call[r].step \in {"find", "create", "claims", "login", "signin"} =>
            call[r].external # None
       /\ call[r].user \in users \cup {None}
       /\ call[r].step \in {"claims", "login", "signin"} => call[r].user # None

(* A browser is signed in as a user of an identity the provider vouched    *)
(* for to that browser, whatever other browsers, tabs and callbacks do.    *)
SignedInAsSelf ==
  \A b \in Browsers :
    local[b] # None => \E e \in authenticated[b] : logins[e] = local[b]

(* A callback that failed half way leaves a user behind, but nobody is     *)
(* ever signed in as a half-provisioned user: a user with a login has the  *)
(* claims of its identity.                                                 *)
LoginsAreComplete ==
  \A e \in Externals : logins[e] # None /\ e \in Named => logins[e] \in claims

(* The users with a login are the accounts of a directory with one account *)
(* per identity: the users lost in races and failures are not seen.        *)
Directory == INSTANCE ExternalDirectory WITH account <- logins
DirectorySpec == Directory!Spec
=============================================================================
