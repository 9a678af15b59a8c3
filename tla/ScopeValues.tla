----------------------------- MODULE ScopeValues -----------------------------
(***************************************************************************)
(* The auth_session scope of a token request is read three times, by three *)
(* pieces of code that each parse it their own way: the secret validator   *)
(* from the raw form, ParameterizedScopeParser when the scopes are         *)
(* resolved, and the API controllers from the scope claims of the access   *)
(* token.  This module follows one scope parameter through all three.      *)
(*                                                                         *)
(* A scope value is the sequence of its segments between colons, so that   *)
(* "auth_session:AC7E" has two and so has "auth_session:", the second one  *)
(* empty.  A segment is a sequence of pieces of text, the name being one:  *)
(* a segment can start with the name ("auth_session2") or end in it.       *)
(***************************************************************************)
EXTENDS Naturals, Sequences, FiniteSets

CONSTANTS Pieces,          \* pieces of text, "auth_session" among them
          AuthSessions,    \* the segments GetHexString(32) can return
          AllowedScopes,   \* the names of a client's AllowedScopes (Config.cs)
          ScopeParameters  \* bound: the scope parameters considered, each a
                           \*   sequence of scope values

Segments == Seq(Pieces)
Name     == <<"auth_session">>

ASSUME SegmentAssumption ==
  /\ "auth_session" \in Pieces
  /\ AuthSessions \subseteq Seq(Pieces \ {"auth_session"}) \ {<<>>}
  /\ Name \in AllowedScopes
  /\ \A p \in ScopeParameters :
       p \in Seq(Seq(Segments)) /\ \A i \in DOMAIN p : p[i] # <<>>

(* The elements of a sequence that are in a set, in their order. *)
Only(s, keep) ==
  LET taken[n \in 0 .. Len(s)] ==
        IF n = 0 THEN <<>>
        ELSE IF s[n] \in keep THEN Append(taken[n - 1], s[n]) ELSE taken[n - 1]
  IN  taken[Len(s)]

StartsWithAuthSession(v) == v[1] # <<>> /\ v[1][1] = "auth_session"
HasPrefix(v)             == v[1] = Name /\ Len(v) > 1
EndsInName(segment)      == segment # <<>> /\ segment[Len(segment)] = "auth_session"

(* The last segment of r without the name that it ends in, and the next one *)
(* without a colon between them.                                           *)
Joined(r, segment) == [r EXCEPT ![Len(r)] = SubSeq(@, 1, Len(@) - 1) \o segment]

(* v.Replace("auth_session:", "") removes the name wherever a colon follows, *)
(* and this colon.                                                         *)
WithoutName(v) ==
  LET read[n \in 0 .. Len(v)] ==
        IF n = 0 THEN <<>>
        ELSE IF n > 1 /\ EndsInName(v[n - 1]) THEN Joined(read[n - 1], v[n])
        ELSE Append(read[n - 1], v[n])
  IN  read[Len(v)]

AuthSessionValues(values) ==
  Only(values, {v \in {values[i] : i \in DOMAIN values} : StartsWithAuthSession(v)})

(* FirstOrDefault: the first value that starts with auth_session, stripped. *)
FirstAuthSession(values, default) ==
  LET hits == AuthSessionValues(values)
  IN  IF hits = <<>> THEN default ELSE WithoutName(hits[1])

(* GetAuthSessionRefFromRequestedScope of the secret validator. *)
GetAuthSessionRefFromRequestedScope(values) == FirstAuthSession(values, <<<<>>>>)

(* Mutant: the name is not one of the parts. *)
ParametersAfterName(v) == Only(SubSeq(v, 2, Len(v)), Segments \ {<<>>})

(* ParseScopeValue: a value is plain (any other scope), parameterized,     *)
(* ignored, or an error.                                                   *)
Parameters(v) == Only(v, Segments \ {<<>>})
ParseScopeValue(v) ==
  IF HasPrefix(v)
    THEN IF Len(Parameters(v)) = 2
           THEN [kind |-> "parameterized", name |-> Name, value |-> Parameters(v)[2]]
           ELSE [kind |-> "error", name |-> <<>>, value |-> <<>>]
    ELSE IF v = <<Name>>
           THEN [kind |-> "ignored", name |-> <<>>, value |-> <<>>]
           ELSE [kind |-> "plain", name |-> IF Len(v) = 1 THEN v[1] ELSE <<>>, value |-> <<>>]

(* The request is granted if no value is in error and the client may have  *)
(* every scope that is left (external: the resource validator).            *)
Allowed(v) ==
  LET x == ParseScopeValue(v)
  IN  x.kind # "error" /\ (x.kind # "ignored" => x.name \in AllowedScopes)

(* GetAuthSession of both controllers: from the scope claims.  null stands *)
(* for the missing claim, on which the onboarding controller throws.       *)
Null == <<>>
GetAuthSession(claims) == FirstAuthSession(claims, Null)

-----------------------------------------------------------------------------
VARIABLES scopes,       \* the scope parameter of the token request
          authSession,  \* the device_auth_session of its client assertion
          step,         \* "requested", "authenticated", "granted", "served", "refused"
          claims,       \* the scope claims of the access token
          served        \* the session the API controller served

vars == <<scopes, authSession, step, claims, served>>

Init ==
  /\ scopes \in ScopeParameters
  /\ authSession \in AuthSessions
  /\ step   = "requested"
  /\ claims = <<>>
  /\ served = Null

(* The validator compares the scope's session with the assertion's. *)
Authenticate ==
  /\ step = "requested"
  /\ step' = IF GetAuthSessionRefFromRequestedScope(scopes) = <<authSession>>
               THEN "authenticated" ELSE "refused"
  /\ UNCHANGED <<scopes, authSession, claims, served>>

(* Mutant: the claims are the parsed names, not the values asked for. *)
GrantNames ==
  /\ step = "authenticated"
  /\ IF \A i \in DOMAIN scopes : Allowed(scopes[i])
       THEN /\ step'   = "granted"
            /\ claims' = [i \in DOMAIN scopes |-> <<ParseScopeValue(scopes[i]).name>>]
       ELSE /\ step'   = "refused"
            /\ claims' = claims
  /\ UNCHANGED <<scopes, authSession, served>>

(* What is left of the scope parameter when the ignored values are gone. *)
GrantedValues ==
  Only(scopes, {v \in {scopes[i] : i \in DOMAIN scopes} : ParseScopeValue(v).kind # "ignored"})

(* The scopes are parsed and become claims of the access token. *)
Grant ==
  /\ step = "authenticated"
  /\ IF \A i \in DOMAIN scopes : Allowed(scopes[i])
       THEN /\ step'   = "granted"
            /\ claims' = GrantedValues
       ELSE /\ step'   = "refused"
            /\ claims' = claims
  /\ UNCHANGED <<scopes, authSession, served>>

(* An API controller reads the session from the token. *)
Serve ==
  /\ step = "granted"
  /\ step'   = "served"
  /\ served' = GetAuthSession(claims)
  /\ UNCHANGED <<scopes, authSession, claims>>

Next == Authenticate \/ Grant \/ Serve

Spec == Init /\ [][Next]_vars

-----------------------------------------------------------------------------
(* Properties *)

(* What the TODO at line 78 of the validator leaves to the client: at most *)
(* one value of the parameter is about auth_session.                       *)
OneAuthSession == Len(AuthSessionValues(scopes)) <= 1

(* The shape of the variables; a token carries only scopes that were asked  *)
(* for, as they were asked for.                                            *)
TypeOK ==
  /\ scopes \in Seq(Seq(Segments))
  /\ authSession \in AuthSessions
  /\ step \in {"requested", "authenticated", "granted", "served", "refused"}
  /\ \A i \in DOMAIN claims : \E n \in DOMAIN scopes : claims[i] = scopes[n]
  /\ served \in Seq(Segments)

(* A segment that ends in the name and is longer. *)
LongNamed(v) == \E i \in DOMAIN v : EndsInName(v[i]) /\ v[i] # Name

(* The three readers agree: an API serves a request for the session whose  *)
(* key authenticated the token request, and the session the scope parser   *)
(* attached to the token is that one too, unless a longer segment ends in  *)
(* the name: Replace takes it away, Split does not, and of the value       *)
(* "auth_session:Xauth_session:" the parser alone reads Xauth_session.  In *)
(* particular a token that the validator let through always carries a      *)
(* session, so that the controllers find a claim                           *)
(* (AuthorizationChallengeRequestController.cs:64-65).                     *)
ReadersAgree ==
  step = "served" /\ OneAuthSession =>
    /\ served = <<authSession>>
    /\ \A i \in DOMAIN scopes :
         ParseScopeValue(scopes[i]).kind = "parameterized" /\ ~LongNamed(scopes[i]) =>
           ParseScopeValue(scopes[i]).value = authSession

(* The request of a console program, one plain scope and the session of    *)
(* its assertion (Program.cs:54 and 65), is never refused.                 *)
ConsoleScopesPass ==
  /\ Len(scopes) = 2 /\ Len(scopes[1]) = 1
  /\ scopes[1][1] \in AllowedScopes \ {Name}
  /\ ~StartsWithAuthSession(scopes[1])
  /\ scopes[2] = <<Name, authSession>>
  => step # "refused"
=============================================================================
