------------------------------ MODULE Consent ------------------------------
(***************************************************************************)
(* The three pages on which a signed-in user decides what a client gets:   *)
(* Consent (a web client's request), Device (a user code typed off a       *)
(* device) and Ciba/Consent (a login request sent over the back channel).  *)
(* Their code is the same but for what it reads, how it records the        *)
(* decision and where it goes then, so one module models them, with the    *)
(* kind of the interaction chosen at the start.                            *)
(*                                                                         *)
(* One interaction is open to several tabs, of several users where the     *)
(* kind allows it.  A POST reads the interaction, raises an audit event    *)
(* and records the decision, an await each: in between other POSTs get on, *)
(* the interaction may be used up or expire, and the request may be        *)
(* aborted.                                                                *)
(***************************************************************************)
EXTENDS Naturals

CONSTANTS Tabs, Users,
          UserOf,           \* who is signed in, per tab
          Owner,            \* whom a back-channel request is for
          IdentityScopes, ApiScopes, Required,
          OfflineAccess,    \* the scope offline_access
          Requests,         \* the scopes a client may ask for together
          MaxPosts          \* bound: POSTs in a behaviour

Scopes == IdentityScopes \cup ApiScopes \cup {OfflineAccess}

ASSUME ConsentAssumption ==
  /\ UserOf \in [Tabs -> Users] /\ Owner \in Users
  /\ Required \subseteq IdentityScopes \cup ApiScopes
  /\ IdentityScopes \cap ApiScopes = {}
  /\ OfflineAccess \notin IdentityScopes \cup ApiScopes
  /\ Requests \subseteq SUBSET Scopes
  /\ MaxPosts \in Nat

Kinds == {"consent", "device", "ciba"}

VARIABLES kind,       \* never changes
          optionOn,   \* the kinds with EnableOfflineAccess on, never changes
          requested,  \* the scopes the client asked for, never changes
          posts,      \* POSTs so far
          open,       \* whether the framework still knows the interaction
          recorded,   \* the decision on record, per user who took it
          events,     \* the audit events raised
          page,       \* per tab: what it shows, or where its POST is
          latest,     \* history: the decision each user announced last
          disturbed   \* history: users whose POSTs overlapped or broke off

vars == <<kind, optionOn, requested, posts, open, recorded, events, page, latest, disturbed>>

Undecided == [button |-> "none", scopes |-> {}]
Denial    == [button |-> "no", scopes |-> {}]
Grant(s)  == [button |-> "yes", scopes |-> s]

(* chosen: the boxes of the last POST, all of them before the first;       *)
(* checked: the boxes the form shows checked; decision: what the POST in   *)
(* progress is to record; stored: whether the framework took it.           *)
Page(at, chosen, checked, decision, stored) ==
  [at |-> at, chosen |-> chosen, checked |-> checked, decision |-> decision,
   stored |-> stored]
Plain(at) == Page(at, {}, {}, Undecided, FALSE)

(* The device page filters by the option of the consent page. *)
FilteringKind == IF kind = "device" THEN "consent" ELSE kind

(* The interaction is somebody's request; the options it does not read are *)
(* left out.                                                               *)
Init ==
  /\ kind \in Kinds
  /\ optionOn \in SUBSET {kind, FilteringKind}
  /\ requested \in Requests
  /\ posts     = 0
  /\ open      = TRUE
  /\ recorded  = [u \in Users |-> Undecided]
  /\ events    = {}
  /\ page      = [t \in Tabs |-> Plain("away")]
  /\ latest    = [u \in Users |-> Undecided]
  /\ disturbed = {}

Shows(t, at) == page[t].at = at
Show(t, p)   == page' = [page EXCEPT ![t] = p]

(* Mutant: the login request of anybody. *)
FoundForAnybody(t) == open

(* The context the pages read, not null: for a back-channel request it     *)
(* also has to be the user's own.                                          *)
Found(t) == open /\ (kind = "ciba" => UserOf[t] = Owner)

-----------------------------------------------------------------------------
(* The form *)

(* EnableOfflineAccess of ConsentOptions, DeviceOptions and Ciba's         *)
(* ConsentOptions, fields that anything may set and nothing does.          *)
EnableOfflineAccess(k) == k \in optionOn

(* Mutant: the form offers offline access whatever the option. *)
OfferedRegardless == requested

(* The boxes of the form, and the scopes a POST keeps.                     *)
Offered == IF EnableOfflineAccess(kind) THEN requested ELSE requested \ {OfflineAccess}

Kept(s) ==
  IF EnableOfflineAccess(FilteringKind) THEN s ELSE s \ {OfflineAccess}

(* Mutant: API scopes and offline access tested like identity scopes. *)
RecheckedAll(chosen) ==
  {x \in Offered : x \in Required \/ x \in chosen \/ (chosen = {} /\ kind # "device")}

(* The boxes checked on a form shown again.  Without any box the input has *)
(* no list: for identity scopes Consent and Ciba take that as "all".       *)
Rechecked(chosen) ==
  {x \in Offered : \/ x \in Required \/ x \in chosen
                   \/ x \in IdentityScopes /\ chosen = {} /\ kind # "device"}

FirstForm == Page("form", Offered, Offered, Undecided, FALSE)
FormAgain(chosen) == Page("form", chosen, Rechecked(chosen), Undecided, FALSE)

(* OnGet.  An unknown user code brings the form to type it in again, where *)
(* the device page starts; the other pages go to the error page.           *)
Open(t) ==
  /\ Shows(t, "away")
  /\ Show(t, IF Found(t) THEN FirstForm ELSE Plain(IF kind = "device" THEN "away" ELSE "error"))
  /\ UNCHANGED <<kind, optionOn, requested, posts, open, recorded, events, latest, disturbed>>

-----------------------------------------------------------------------------
(* OnPost *)

(* Mutant: the event of a decision is forgotten. *)
NotAnnounced == "record"

AnnounceFirst == "announce"

Decided(chosen, d) == Page(AnnounceFirst, chosen, {}, d, FALSE)

(* Mutant: recorded without a test for a decision. *)
AnsweredUntested(button, chosen) ==
  Decided(chosen, CASE button = "no"                 -> Denial
                    [] button = "yes" /\ chosen # {} -> Grant(Kept(chosen))
                    [] OTHER                         -> Undecided)

(* What becomes of a POST: a decision, or the form again if no box is      *)
(* checked or the button is another one.                                   *)
Answered(button, chosen) ==
  CASE button = "no"                    -> Decided(chosen, Denial)
    [] button = "yes" /\ chosen # {}    -> Decided(chosen, Grant(Kept(chosen)))
    [] OTHER -> Page("redisplay", chosen, {}, Undecided, FALSE)

(* The user changes boxes and presses a button; the handler reads the      *)
(* interaction.  A required box cannot be unchecked.                       *)
Post(t, button, chosen) ==
  /\ Shows(t, "form")
  /\ chosen \subseteq Offered /\ Required \cap Offered \subseteq chosen
  /\ posts < MaxPosts
  /\ posts' = posts + 1
  /\ Show(t, IF Found(t) THEN Answered(button, chosen) ELSE Plain("error"))
  /\ UNCHANGED <<kind, optionOn, requested, open, recorded, events, latest, disturbed>>

InProgress(u) == {t \in Tabs : UserOf[t] = u /\ Shows(t, "record")}

(* RaiseAsync *)
Announce(t) ==
  LET u == UserOf[t] IN
  /\ Shows(t, "announce")
  /\ events'    = events \cup {[user |-> u, decision |-> page[t].decision]}
  /\ latest'    = [latest EXCEPT ![u] = page[t].decision]
  /\ disturbed' = IF InProgress(u) # {} THEN disturbed \cup {u} ELSE disturbed
  /\ Show(t, [page[t] EXCEPT !.at = "record"])
  /\ UNCHANGED <<kind, optionOn, requested, posts, open, recorded>>

(* Mutant: the pages do not look at what becomes of their call. *)
RefusalIgnored(t) == TRUE

(* Whether a decision that was not taken still leads to the next page: the *)
(* result of HandleRequestAsync is ignored, CompleteLoginRequestAsync      *)
(* throws.                                                                 *)
RefusalPasses(t) == kind = "device"

(* GrantConsentAsync keeps one decision per user, for a request that can   *)
(* be made again; the other two keep one for the interaction, while there  *)
(* is one.                                                                 *)
Takes(t) == kind = "consent" \/ Found(t)
RecordOf(u, d) ==
  [v \in Users |-> IF v = u THEN d ELSE IF kind = "consent" THEN recorded[v] ELSE Undecided]

(* Record the decision and go on: back to the client, to Device/Success or *)
(* to Ciba/All.                                                            *)
Record(t) ==
  LET u == UserOf[t] IN
  /\ Shows(t, "record")
  /\ IF Takes(t)
       THEN /\ recorded' = RecordOf(u, page[t].decision)
            /\ Show(t, [Plain("done") EXCEPT !.stored = TRUE])
            /\ UNCHANGED disturbed
       ELSE /\ Show(t, Plain(IF RefusalPasses(t) THEN "done" ELSE "failed"))
            /\ disturbed' = disturbed \cup {u}
            /\ UNCHANGED recorded
  /\ UNCHANGED <<kind, optionOn, requested, posts, open, events, latest>>

(* BuildViewModelAsync again: the page fails if there is no view model. *)
Redisplay(t) ==
  /\ Shows(t, "redisplay")
  /\ Show(t, IF Found(t) THEN FormAgain(page[t].chosen) ELSE Plain("failed"))
  /\ UNCHANGED <<kind, optionOn, requested, posts, open, recorded, events, latest, disturbed>>

(* The request is aborted, or an event sink throws, at any of the awaits. *)
Abort(t) ==
  /\ page[t].at \in {"announce", "record", "redisplay"}
  /\ Show(t, Plain("failed"))
  /\ disturbed' = IF Shows(t, "record") THEN disturbed \cup {UserOf[t]} ELSE disturbed
  /\ UNCHANGED <<kind, optionOn, requested, posts, open, recorded, events, latest>>

OnPost(t) ==
  \/ \E button \in {"yes", "no", "other"}, chosen \in SUBSET requested : Post(t, button, chosen)
  \/ Announce(t) \/ Record(t) \/ Redisplay(t) \/ Abort(t)

(* The user leaves the page. *)
Leave(t) ==
  /\ page[t].at \in {"form", "error", "failed", "done"}
  /\ Show(t, Plain("away"))
  /\ UNCHANGED <<kind, optionOn, requested, posts, open, recorded, events, latest, disturbed>>

-----------------------------------------------------------------------------
(* The framework *)

(* The authorization or token endpoint takes a decision off the record: an *)
(* authorization request may come again, the others are over.              *)
Use(u) ==
  /\ recorded[u] # Undecided
  /\ recorded' = [recorded EXCEPT ![u] = Undecided]
  /\ open'     = (open /\ kind = "consent")
  /\ UNCHANGED <<kind, optionOn, requested, posts, events, page, latest, disturbed>>

(* The lifetime of a device code or login request ends, or the             *)
(* authorization request is no longer valid.                               *)
Expire ==
  /\ open
  /\ open' = FALSE
  /\ UNCHANGED <<kind, optionOn, requested, posts, recorded, events, page, latest, disturbed>>

Next ==
  \/ \E t \in Tabs : Open(t) \/ OnPost(t) \/ Leave(t)
  \/ \E u \in Users : Use(u)
  \/ Expire

Spec == Init /\ [][Next]_vars

-----------------------------------------------------------------------------
(* Properties *)

Decisions == {Undecided, Denial} \cup {Grant(s) : s \in SUBSET Scopes}
Pages == [at : {"away", "error", "failed", "form", "announce", "record", "redisplay", "done"},
          chosen : SUBSET Scopes, checked : SUBSET Scopes, decision : Decisions,
          stored : BOOLEAN]

(* The record, the events and the pages have the shape the handlers give   *)
(* them, a form has its required boxes checked, and a POST announces and   *)
(* records a decision.                                                     *)
TypeOK ==
  /\ kind      \in Kinds
  /\ optionOn  \in SUBSET Kinds
  /\ requested \in Requests
  /\ posts     \in 0 .. MaxPosts
  /\ open      \in BOOLEAN
  /\ recorded  \in [Users -> Decisions]
  /\ events    \in SUBSET [user : Users, decision : Decisions \ {Undecided}]
  /\ page      \in [Tabs -> Pages]
  /\ latest    \in [Users -> Decisions]
  /\ disturbed \in SUBSET Users
  /\ \A t \in Tabs :
       /\ Shows(t, "form") => Required \cap Offered \subseteq page[t].checked
       /\ page[t].at \in {"announce", "record"} => page[t].decision # Undecided

(* Whatever becomes of the POSTs of all the tabs, a decision on record was *)
(* announced in the audit events before, with the same user, outcome and   *)
(* scopes (Consent/Index.cshtml.cs:61-103).                                *)
DecisionsAreAnnounced ==
  \A u \in Users :
    recorded[u] # Undecided => [user |-> u, decision |-> recorded[u]] \in events

(* The last word in the audit events is the one on record, unless POSTs of *)
(* the same user overlapped or broke off between event and record: then    *)
(* the two may be in different orders (Consent/Index.cshtml.cs:88, 103).   *)
AuditTellsOutcome ==
  \A u \in Users :
    u \notin disturbed /\ InProgress(u) = {} /\ recorded[u] # Undecided =>
      recorded[u] = latest[u]

(* A back-channel login request is shown to, announced for and decided by  *)
(* nobody but the user it is for (Ciba/Consent.cshtml.cs:55, 118).         *)
OnlyTheOwnerIsAsked ==
  kind = "ciba" =>
    /\ \A t \in Tabs :
         page[t].at \in {"form", "announce", "record", "redisplay"} => UserOf[t] = Owner
    /\ \A e \in events : e.user = Owner
    /\ \A u \in Users : recorded[u] # Undecided => u = Owner

(* A grant has a scope left although the list is tested before it is       *)
(* filtered, as long as the form offers by the option the filter goes by;  *)
(* the device page does so only while the two options agree                *)
(* (Device/Index.cshtml.cs:89-100, 165).                                   *)
OptionsDiffer == EnableOfflineAccess(kind) /\ ~EnableOfflineAccess(FilteringKind)
GrantIsNeverEmpty ==
  \A e \in events : e.decision.button = "yes" => e.decision.scopes # {} \/ OptionsDiffer

(* A form that is shown again shows the user's own choice, and never       *)
(* checks an API scope or offline access that the user left unchecked; an  *)
(* identity scope only if the user left all boxes unchecked                *)
(* (Consent/Index.cshtml.cs:117, 148-173).                                 *)
ChoicesAreKept ==
  \A t \in Tabs : Shows(t, "form") =>
    LET own == page[t].chosen \cup (Required \cap Offered) IN
    /\ page[t].checked \ IdentityScopes \subseteq own
    /\ page[t].chosen # {} => page[t].checked = own

(* A POST that ends on the page for success has its decision taken; on the *)
(* device page only, it may also have found the user code gone             *)
(* (Device/Index.cshtml.cs:120, Ciba/Consent.cshtml.cs:105).               *)
SuccessMeansTaken ==
  \A t \in Tabs : Shows(t, "done") => page[t].stored \/ (kind = "device" /\ ~open)
=============================================================================
