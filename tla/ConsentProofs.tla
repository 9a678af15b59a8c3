--------------------------- MODULE ConsentProofs ---------------------------
(***************************************************************************)
(* Proofs about Consent, for any number of tabs, users, scopes and POSTs:  *)
(* its type invariant and the safety properties of its run.                *)
(***************************************************************************)
EXTENDS Consent, TLAPS

(* What is true of a page p in tab t: the choice on a form, the decision   *)
(* on its way, who may see it, and what success stands for.                *)
ShowsChoice(p) ==
  LET own == p.chosen \cup (Required \cap Offered) IN
  /\ Required \cap Offered \subseteq p.checked
  /\ p.checked \ IdentityScopes \subseteq own
  /\ p.chosen # {} => p.checked = own
Substantial(d) == d # Undecided /\ (d.button = "yes" => d.scopes # {} \/ OptionsDiffer)
EventOf(u, d)  == [user |-> u, decision |-> d]

GoodPage(t, p) ==
  /\ p \in Pages
  /\ p.at = "form" => ShowsChoice(p)
  /\ p.at = "redisplay" => p.chosen \subseteq Offered
  /\ p.at \in {"announce", "record"} => Substantial(p.decision)
  /\ kind = "ciba" /\ p.at \in {"form", "announce", "record", "redisplay"} => UserOf[t] = Owner
  /\ p.at = "record" => EventOf(UserOf[t], p.decision) \in events
  /\ p.at = "done" => p.stored \/ (kind = "device" /\ ~open)

Typed ==
  /\ kind \in Kinds /\ optionOn \in SUBSET Kinds /\ requested \in Requests
  /\ posts \in 0 .. MaxPosts /\ open \in BOOLEAN
  /\ recorded  \in [Users -> Decisions]
  /\ page      \in [Tabs -> Pages]
  /\ latest    \in [Users -> Decisions]
  /\ disturbed \in SUBSET Users

GoodPages == \A t \in Tabs : GoodPage(t, page[t])

GoodEvents ==
  \A e \in events : /\ e \in [user : Users, decision : Decisions \ {Undecided}]
                    /\ Substantial(e.decision)
                    /\ kind = "ciba" => e.user = Owner

(* The order of events and records of a user whose POSTs do not overlap:   *)
(* the decision being recorded is the one announced last, and so is the    *)
(* one on record when none is being recorded.                              *)
Recording(t, u) == UserOf[t] = u /\ Shows(t, "record")
InOrder ==
  \A u \in Users \ disturbed :
    /\ \A t \in Tabs : Recording(t, u) => page[t].decision = latest[u]
    /\ \A t, s \in Tabs : Recording(t, u) /\ Recording(s, u) => t = s
    /\ (\A t \in Tabs : ~Recording(t, u)) => recorded[u] \in {Undecided, latest[u]}

IInv == Typed /\ GoodPages /\ GoodEvents /\ DecisionsAreAnnounced /\ InOrder

-----------------------------------------------------------------------------
(* Lemmas *)

(* The pages the handlers build are of the right type. *)
LEMMA PageTypes ==
  /\ \A at \in {"away", "error", "failed", "form", "announce", "record", "redisplay", "done"} :
       Plain(at) \in Pages /\ Plain(at).at = at
  /\ Undecided \in Decisions /\ Denial \in Decisions \ {Undecided}
  /\ \A s \in SUBSET Scopes : Grant(s) \in Decisions \ {Undecided}
BY DEF Plain, Page, Pages, Decisions, Undecided, Denial, Grant

(* What is offered was requested, and a choice among it survives the       *)
(* filter unless the two options differ.                                   *)
LEMMA Offers ==
  ASSUME Typed
  PROVE  /\ Offered \subseteq requested /\ Offered \subseteq Scopes
         /\ \A s : Kept(s) \subseteq s
         /\ \A s : s \subseteq Offered => Kept(s) = s \/ OptionsDiffer
<1>1. requested \subseteq Scopes
  BY ConsentAssumption DEF Typed
<1>2. \A s : s \subseteq Offered => Kept(s) = s \/ OptionsDiffer
  BY DEF Offered, Kept, OptionsDiffer
<1> QED
  BY <1>1, <1>2 DEF Offered, Kept

(* The options never change, so good pages stay good. *)
LEMMA SameOptions ==
  ASSUME UNCHANGED <<kind, optionOn, requested>>
  PROVE  /\ Offered' = Offered
         /\ \A d : Substantial(d)' <=> Substantial(d)
         /\ \A p : ShowsChoice(p)' <=> ShowsChoice(p)
         /\ UNCHANGED events /\ GoodEvents => GoodEvents'
<1>1. Offered' = Offered /\ (OptionsDiffer' <=> OptionsDiffer)
  BY DEF Offered, OptionsDiffer, EnableOfflineAccess, FilteringKind
<1>2. /\ \A d : Substantial(d)' <=> Substantial(d)
      /\ \A p : ShowsChoice(p)' <=> ShowsChoice(p)
  BY <1>1 DEF Substantial, ShowsChoice
<1>3. UNCHANGED events /\ GoodEvents => GoodEvents'
  BY <1>2 DEF GoodEvents
<1> QED
  BY <1>1, <1>2, <1>3

(* A step that only shows another page, of a POST that is not about to     *)
(* record its decision, preserves the invariant if the page is good.       *)
LEMMA ShowPreserves ==
  ASSUME IInv, NEW t \in Tabs, NEW p, GoodPage(t, p),
         p.at # "record", ~Shows(t, "record"), Show(t, p),
         posts' \in 0 .. MaxPosts,
         UNCHANGED <<kind, optionOn, requested, open, recorded, events, latest, disturbed>>
  PROVE  IInv'
<1> USE DEF IInv
<1>1. /\ page' \in [Tabs -> Pages] /\ page'[t] = p
      /\ \A s \in Tabs : s # t => page'[s] = page[s]
  BY DEF Show, Typed, GoodPage
<1>2. \A s \in Tabs : \A q : GoodPage(s, q) => GoodPage(s, q)'
  BY SameOptions DEF GoodPage, EventOf
<1>3. GoodPages'
  BY <1>1, <1>2 DEF GoodPages
<1>4. \A s \in Tabs : \A u : Recording(s, u)' <=> Recording(s, u)
  BY <1>1 DEF Recording, Shows
<1>5. \A s \in Tabs : \A u : Recording(s, u) => page'[s] = page[s]
  BY <1>1 DEF Recording
<1>6. InOrder'
  BY <1>4, <1>5 DEF InOrder
<1> QED
  BY <1>1, <1>3, <1>6, SameOptions DEF Typed, DecisionsAreAnnounced

(* A step that replaces one page by a good one, adds events at most and    *)
(* opens nothing, leaves all pages good.                                   *)
LEMMA PagesStayGood ==
  ASSUME Typed, GoodPages, NEW t \in Tabs, NEW p, Show(t, p), GoodPage(t, p)',
         events \subseteq events', open' => open, UNCHANGED <<kind, optionOn, requested>>
  PROVE  /\ GoodPages' /\ page' \in [Tabs -> Pages] /\ page'[t] = p
         /\ \A s \in Tabs : s # t => page'[s] = page[s]
<1>1. p \in Pages
  BY DEF GoodPage
<1>2. /\ page' \in [Tabs -> Pages] /\ page'[t] = p
      /\ \A s \in Tabs : s # t => page'[s] = page[s]
  BY <1>1 DEF Show, Typed
<1>3. \A s \in Tabs : \A q : GoodPage(s, q) => GoodPage(s, q)'
  BY SameOptions DEF GoodPage, EventOf
<1>4. GoodPages'
  BY <1>2, <1>3 DEF GoodPages
<1> QED
  BY <1>2, <1>4

LEMMA InitHolds == Init => IInv
<1> SUFFICES ASSUME Init PROVE IInv
  OBVIOUS
<1>1. Typed /\ \A t \in Tabs : page[t].at = "away" /\ page[t] \in Pages
  BY PageTypes, ConsentAssumption DEF Init, Typed, FilteringKind, Kinds
<1>2. GoodPages
  BY <1>1 DEF GoodPages, GoodPage
<1>3. InOrder
  BY <1>1 DEF InOrder, Recording, Shows, Init
<1> QED
  BY <1>1, <1>2, <1>3 DEF Init, IInv, GoodEvents, DecisionsAreAnnounced

(* The pages that need no more than their name. *)
LEMMA PlainIsGood ==
  ASSUME NEW t, NEW at \in {"away", "error", "failed"}
  PROVE  GoodPage(t, Plain(at))
BY PageTypes DEF GoodPage

LEMMA OpenPreserves == ASSUME IInv, NEW t \in Tabs, Open(t) PROVE IInv'
<1>1. posts' \in 0 .. MaxPosts /\ ~Shows(t, "record")
  BY DEF Open, IInv, Typed, Shows
<1>2. CASE Found(t)
  <2>1. GoodPage(t, FirstForm)
    <3>1. FirstForm \in Pages
      BY PageTypes, Offers DEF FirstForm, Page, Pages, IInv
    <3>2. ShowsChoice(FirstForm)
      BY Offers, ConsentAssumption
         DEF ShowsChoice, FirstForm, Page, IInv, Typed, Scopes
    <3> QED
      BY <1>2, <3>1, <3>2 DEF GoodPage, FirstForm, Page, Found
  <2> QED
    BY <1>1, <1>2, <2>1, ShowPreserves DEF Open, FirstForm, Page
<1>3. CASE ~Found(t)
  BY <1>1, <1>3, PlainIsGood, PageTypes, ShowPreserves DEF Open
<1> QED
  BY <1>2, <1>3

LEMMA PostPreserves ==
  ASSUME IInv, NEW t \in Tabs, NEW button, NEW chosen \in SUBSET requested, Post(t, button, chosen)
  PROVE  IInv'
<1>1. posts' \in 0 .. MaxPosts /\ ~Shows(t, "record") /\ Shows(t, "form")
  BY ConsentAssumption DEF Post, IInv, Typed, Shows
<1>2. CASE Found(t)
  <2>1. /\ chosen \in SUBSET Scopes /\ chosen \subseteq Offered
        /\ Kept(chosen) \in SUBSET Scopes /\ (Kept(chosen) = chosen \/ OptionsDiffer)
    BY Offers DEF IInv, Post
  <2>2. kind = "ciba" => UserOf[t] = Owner
    BY <1>2 DEF Found
  <2>3. \A d \in Decisions : Substantial(d) => GoodPage(t, Decided(chosen, d))
    BY <2>1, <2>2 DEF GoodPage, Decided, AnnounceFirst, Page, Pages
  <2>4. /\ Denial \in Decisions /\ Substantial(Denial)
        /\ chosen # {} => Grant(Kept(chosen)) \in Decisions /\ Substantial(Grant(Kept(chosen)))
    BY <2>1, PageTypes DEF Substantial, Denial, Grant, Undecided
  <2>5. GoodPage(t, Page("redisplay", chosen, {}, Undecided, FALSE))
    BY <2>1, <2>2, PageTypes DEF GoodPage, Page, Pages
  <2>6. GoodPage(t, Answered(button, chosen)) /\ Answered(button, chosen).at # "record"
    BY <2>3, <2>4, <2>5 DEF Answered, Decided, AnnounceFirst, Page
  <2> QED
    BY <1>1, <1>2, <2>6, ShowPreserves DEF Post
<1>3. CASE ~Found(t)
  BY <1>1, <1>3, PlainIsGood, PageTypes, ShowPreserves DEF Post
<1> QED
  BY <1>2, <1>3

LEMMA RedisplayPreserves == ASSUME IInv, NEW t \in Tabs, Redisplay(t) PROVE IInv'
<1>1. posts' \in 0 .. MaxPosts /\ ~Shows(t, "record")
  BY DEF Redisplay, IInv, Typed, Shows
<1>2. CASE Found(t)
  <2> DEFINE c == page[t].chosen
  <2>1. c \subseteq Offered /\ Offered \subseteq Scopes
    BY Offers DEF Redisplay, Shows, IInv, GoodPages, GoodPage
  <2>2. FormAgain(c) \in Pages
    BY <2>1, PageTypes DEF FormAgain, Page, Pages, Rechecked
  <2>3. ShowsChoice(FormAgain(c))
    BY <2>1 DEF ShowsChoice, FormAgain, Page, Rechecked
  <2>4. GoodPage(t, FormAgain(c)) /\ FormAgain(c).at # "record"
    BY <1>2, <2>2, <2>3 DEF GoodPage, FormAgain, Page, Found
  <2> QED
    BY <1>1, <1>2, <2>4, ShowPreserves DEF Redisplay
<1>3. CASE ~Found(t)
  BY <1>1, <1>3, PlainIsGood, PageTypes, ShowPreserves DEF Redisplay
<1> QED
  BY <1>2, <1>3

LEMMA LeavePreserves == ASSUME IInv, NEW t \in Tabs, Leave(t) PROVE IInv'
<1>1. posts' \in 0 .. MaxPosts /\ ~Shows(t, "record")
  BY DEF Leave, IInv, Typed, Shows
<1> QED
  BY <1>1, PlainIsGood, PageTypes, ShowPreserves DEF Leave

(* A POST that breaks off between event and record leaves its user among   *)
(* the disturbed.                                                          *)
LEMMA AbortPreserves == ASSUME IInv, NEW t \in Tabs, Abort(t) PROVE IInv'
<1>1. CASE ~Shows(t, "record")
  BY <1>1, PlainIsGood, PageTypes, ShowPreserves DEF Abort, IInv, Typed
<1>2. CASE Shows(t, "record")
  <2>1. /\ GoodPages' /\ page' \in [Tabs -> Pages] /\ page'[t] = Plain("failed")
        /\ \A s \in Tabs : s # t => page'[s] = page[s]
    <3>1. GoodPage(t, Plain("failed"))'
      BY PageTypes DEF GoodPage
    <3> QED
      BY <3>1, PagesStayGood DEF Abort, IInv
  <2>2. disturbed' = disturbed \cup {UserOf[t]}
    BY <1>2 DEF Abort
  <2>3. ASSUME NEW u \in Users \ disturbed', NEW s \in Tabs
        PROVE  (Recording(s, u)' <=> Recording(s, u)) /\ (Recording(s, u) => page'[s] = page[s])
    BY <2>1, <2>2 DEF Recording, Shows, Plain, Page
  <2>4. InOrder'
    BY <2>2, <2>3 DEF IInv, InOrder, Abort
  <2> QED
    BY <2>1, <2>2, <2>4, ConsentAssumption, SameOptions
       DEF IInv, Typed, DecisionsAreAnnounced, Abort
<1> QED
  BY <1>1, <1>2

(* The event makes its decision the latest of its user, who had no other   *)
(* POST between event and record or joins the disturbed.                   *)
LEMMA AnnouncePreserves == ASSUME IInv, NEW t \in Tabs, Announce(t) PROVE IInv'
<1> DEFINE u == UserOf[t]
<1>0. PICK p, d : p = [page[t] EXCEPT !.at = "record"] /\ d = page[t].decision
  OBVIOUS
<1>1. /\ page[t] \in Pages /\ u \in Users /\ d \in Decisions /\ Substantial(d)
      /\ kind = "ciba" => u = Owner
  BY <1>0, ConsentAssumption DEF Announce, Shows, IInv, GoodPages, GoodPage, Pages, Typed
<1>2. d # Undecided
  BY <1>1 DEF Substantial
<1>3. p \in Pages /\ p.at = "record" /\ p.decision = d
  BY <1>0, <1>1 DEF Pages
<1>4. /\ events' = events \cup {EventOf(u, d)} /\ latest' = [latest EXCEPT ![u] = d]
      /\ disturbed' = IF InProgress(u) # {} THEN disturbed \cup {u} ELSE disturbed
      /\ Show(t, p)
      /\ UNCHANGED <<kind, optionOn, requested, posts, open, recorded>>
  BY <1>0 DEF Announce, EventOf
<1> HIDE DEF u
<1>5. /\ GoodPages' /\ page' \in [Tabs -> Pages] /\ page'[t] = p
      /\ \A s \in Tabs : s # t => page'[s] = page[s]
  <2>1. GoodPage(t, p)'
    BY <1>1, <1>3, <1>4, SameOptions DEF GoodPage, EventOf, u
  <2> QED
    BY <1>4, <2>1, PagesStayGood DEF IInv
<1>6. Typed'
  BY <1>1, <1>4, <1>5 DEF IInv, Typed
<1>7. GoodEvents' /\ DecisionsAreAnnounced'
  <2>1. GoodEvents'
    BY <1>1, <1>2, <1>4, SameOptions DEF IInv, GoodEvents, EventOf
  <2>2. DecisionsAreAnnounced'
    BY <1>4 DEF IInv, DecisionsAreAnnounced
  <2> QED
    BY <2>1, <2>2
<1>8. InOrder'
  <2> SUFFICES ASSUME NEW v \in Users \ disturbed'
               PROVE  /\ \A s \in Tabs : Recording(s, v)' => page'[s].decision = latest'[v]
                      /\ \A s, r \in Tabs : Recording(s, v)' /\ Recording(r, v)' => s = r
                      /\ (\A s \in Tabs : ~Recording(s, v)')
                           => recorded'[v] \in {Undecided, latest'[v]}
    BY DEF InOrder, Recording, Shows
  <2>1. v \in Users \ disturbed
    BY <1>4
  <2>2. \A s \in Tabs : s # t => (Recording(s, v)' <=> Recording(s, v))
    BY <1>5 DEF Recording, Shows
  <2>3. CASE v = u
    <3>1. \A s \in Tabs : ~Recording(s, v)
      BY <1>4, <2>3 DEF InProgress, Recording
    <3>2. Recording(t, v)' /\ \A s \in Tabs : Recording(s, v)' => s = t
      BY <1>3, <1>5, <2>2, <2>3, <3>1 DEF Recording, Shows, u
    <3>3. latest'[v] = d
      BY <1>4, <2>3 DEF IInv, Typed
    <3> QED
      BY <1>3, <1>5, <3>2, <3>3
  <2>4. CASE v # u
    <3>1. ~Recording(t, v)' /\ ~Recording(t, v)
      BY <2>4 DEF Recording, u
    <3>2. latest'[v] = latest[v] /\ recorded'[v] = recorded[v]
      BY <1>4, <2>4 DEF IInv, Typed
    <3> QED
      BY <1>5, <2>1, <2>2, <3>1, <3>2 DEF IInv, InOrder
  <2> QED
    BY <2>3, <2>4
<1> QED
  BY <1>5, <1>6, <1>7, <1>8 DEF IInv

(* What is recorded was announced when the POST passed its event, and is   *)
(* the latest of its user unless that user is disturbed.                   *)
LEMMA RecordPreserves == ASSUME IInv, NEW t \in Tabs, Record(t) PROVE IInv'
<1>1. /\ page[t] \in Pages /\ page[t].decision \in Decisions /\ UserOf[t] \in Users
      /\ EventOf(UserOf[t], page[t].decision) \in events
  BY ConsentAssumption DEF Record, Shows, IInv, GoodPages, GoodPage, Pages, Typed
<1>2. PICK p : /\ Show(t, p) /\ p.at # "record" /\ GoodPage(t, p)'
  <2>0. PICK q, r : /\ q = [Plain("done") EXCEPT !.stored = TRUE]
                    /\ r = Plain(IF RefusalPasses(t) THEN "done" ELSE "failed")
    OBVIOUS
  <2>1. q \in Pages /\ q.at = "done" /\ q.stored
    BY <2>0, PageTypes DEF Plain, Page, Pages
  <2>2. r \in Pages /\ r.at = IF RefusalPasses(t) THEN "done" ELSE "failed"
    BY <2>0, PageTypes
  <2>3. CASE Takes(t)
    BY <2>0, <2>1, <2>3 DEF Record, GoodPage
  <2>4. CASE ~Takes(t)
    <3>1. ~Found(t) /\ kind' = kind /\ open' = open
      BY <2>4 DEF Takes, Record
    <3>2. r.at = "done" => kind' = "device" /\ ~open'
      BY <2>2, <3>1 DEF RefusalPasses, Found
    <3>3. GoodPage(t, r)' /\ r.at # "record"
      BY <2>2, <3>2 DEF GoodPage
    <3> QED
      BY <2>0, <2>4, <3>3 DEF Record
  <2> QED
    BY <2>3, <2>4
<1>3. /\ GoodPages' /\ page' \in [Tabs -> Pages] /\ page'[t] = p
      /\ \A s \in Tabs : s # t => page'[s] = page[s]
  BY <1>2, PagesStayGood DEF IInv, Record
<1>4. /\ \A u \in Users : recorded'[u] \in {recorded[u], Undecided, page[t].decision}
      /\ \A u \in Users : u # UserOf[t] => recorded'[u] \in {recorded[u], Undecided}
      /\ recorded' \in [Users -> Decisions]
  BY <1>1, PageTypes DEF Record, RecordOf, IInv, Typed
<1>5. \/ disturbed' = disturbed \cup {UserOf[t]}
      \/ disturbed' = disturbed /\ recorded' = RecordOf(UserOf[t], page[t].decision)
  BY DEF Record
<1>6. Typed'
  BY <1>1, <1>3, <1>4, <1>5 DEF Record, IInv, Typed
<1>7. GoodEvents' /\ DecisionsAreAnnounced'
  <2>1. \A u \in Users : \/ recorded'[u] = page[t].decision /\ u = UserOf[t]
                         \/ recorded'[u] \in {recorded[u], Undecided}
    BY <1>4
  <2> QED
    BY <1>1, <2>1, SameOptions DEF Record, IInv, DecisionsAreAnnounced, EventOf
<1>8. InOrder'
  <2> SUFFICES ASSUME NEW v \in Users \ disturbed'
               PROVE  /\ \A s \in Tabs : Recording(s, v)' => page'[s].decision = latest'[v]
                      /\ \A s, r \in Tabs : Recording(s, v)' /\ Recording(r, v)' => s = r
                      /\ (\A s \in Tabs : ~Recording(s, v)')
                           => recorded'[v] \in {Undecided, latest'[v]}
    BY DEF InOrder, Recording, Shows
  <2>1. v \in Users \ disturbed /\ latest' = latest
    BY <1>5 DEF Record
  <2>2. \A s \in Tabs : s # t => (Recording(s, v)' <=> Recording(s, v))
    BY <1>3 DEF Recording, Shows
  <2>3. ~Recording(t, v)'
    BY <1>2, <1>3 DEF Recording, Shows
  <2>4. CASE v = UserOf[t]
    <3>1. Recording(t, v) /\ recorded'[v] = page[t].decision
      BY <1>1, <1>5, <2>4 DEF Recording, Record, RecordOf
    <3>2. page[t].decision = latest[v]
      BY <2>1, <3>1 DEF IInv, InOrder
    <3> QED
      BY <1>3, <2>1, <2>2, <2>3, <3>1, <3>2 DEF IInv, InOrder
  <2>5. CASE v # UserOf[t]
    <3>1. ~Recording(t, v)
      BY <2>5 DEF Recording
    <3> QED
      BY <1>3, <1>4, <2>1, <2>2, <2>3, <2>5, <3>1 DEF IInv, InOrder
  <2> QED
    BY <2>4, <2>5
<1> QED
  BY <1>3, <1>6, <1>7, <1>8 DEF IInv

(* The framework takes decisions away and closes the interaction, and      *)
(* leaves the pages and the events alone.                                  *)
LEMMA FrameworkPreserves ==
  ASSUME IInv, Expire \/ \E u \in Users : Use(u)
  PROVE  IInv'
<1>1. /\ UNCHANGED <<kind, optionOn, requested, posts, events, page, latest, disturbed>>
      /\ open' \in BOOLEAN /\ (open' => open)
  BY DEF Use, Expire, IInv, Typed
<1>2. /\ recorded' \in [Users -> Decisions]
      /\ \A u \in Users : recorded'[u] \in {recorded[u], Undecided}
  BY PageTypes DEF Use, Expire, IInv, Typed
<1>3. GoodPages'
  BY <1>1, SameOptions DEF IInv, GoodPages, GoodPage, EventOf
<1>4. InOrder'
  BY <1>1, <1>2 DEF IInv, InOrder, Recording, Shows
<1> QED
  BY <1>1, <1>2, <1>3, <1>4, SameOptions DEF IInv, Typed, DecisionsAreAnnounced

-----------------------------------------------------------------------------
(* Theorems *)

(* The invariant holds in every state of every behaviour.                  *)
THEOREM Invariance == Spec => []IInv
<1>1. IInv /\ [Next]_vars => IInv'
  <2> SUFFICES ASSUME IInv, [Next]_vars PROVE IInv'
    OBVIOUS
  <2>1. ASSUME NEW t \in Tabs, Open(t) \/ OnPost(t) \/ Leave(t) PROVE IInv'
    <3>1. ASSUME NEW button \in {"yes", "no", "other"}, NEW chosen \in SUBSET requested,
                 Post(t, button, chosen)
          PROVE  IInv'
      BY <3>1, PostPreserves
    <3> QED
      BY <2>1, <3>1, OpenPreserves, AnnouncePreserves, RecordPreserves, RedisplayPreserves,
         AbortPreserves, LeavePreserves DEF OnPost
  <2>2. CASE UNCHANGED vars
    BY <2>2, SameOptions DEF vars, IInv, Typed, GoodPages, GoodPage, EventOf,
                             DecisionsAreAnnounced, InOrder, Recording, Shows
  <2> QED
    BY <2>1, <2>2, FrameworkPreserves DEF Next
<1> QED
  BY <1>1, InitHolds, PTL DEF Spec

(* The record, the events and the pages have the shape the handlers give   *)
(* them, for any number of tabs and users and any scopes.                  *)
THEOREM Typing == Spec => []TypeOK
<1>1. IInv => TypeOK
  BY DEF IInv, Typed, GoodPages, GoodPage, GoodEvents, ShowsChoice, Substantial, Shows, TypeOK
<1> QED
  BY <1>1, Invariance, PTL

(* A decision on record was announced in the audit events before.          *)
THEOREM Announced == Spec => []DecisionsAreAnnounced
<1>1. IInv => DecisionsAreAnnounced
  BY DEF IInv
<1> QED
  BY <1>1, Invariance, PTL

(* The last word in the audit events is the one on record, unless POSTs of *)
(* the same user overlapped or broke off.                                  *)
THEOREM AuditOrder == Spec => []AuditTellsOutcome
<1>1. IInv => AuditTellsOutcome
  BY DEF IInv, InOrder, AuditTellsOutcome, InProgress, Recording
<1> QED
  BY <1>1, Invariance, PTL

(* A back-channel login request is shown to, announced for and decided by  *)
(* nobody but the user it is for.                                          *)
THEOREM OwnersOnly == Spec => []OnlyTheOwnerIsAsked
<1>1. IInv => OnlyTheOwnerIsAsked
  BY DEF IInv, GoodPages, GoodPage, GoodEvents, DecisionsAreAnnounced, OnlyTheOwnerIsAsked
<1> QED
  BY <1>1, Invariance, PTL

(* A grant that is announced has a scope left, unless the form offers by   *)
(* another option than the filter goes by.                                 *)
THEOREM GrantsHaveScopes == Spec => []GrantIsNeverEmpty
<1>1. IInv => GrantIsNeverEmpty
  BY DEF IInv, GoodEvents, Substantial, GrantIsNeverEmpty
<1> QED
  BY <1>1, Invariance, PTL

(* A form that is shown again shows the user's own choice.                 *)
THEOREM FormsKeepChoices == Spec => []ChoicesAreKept
<1>1. IInv => ChoicesAreKept
  BY DEF IInv, GoodPages, GoodPage, ShowsChoice, Shows, ChoicesAreKept
<1> QED
  BY <1>1, Invariance, PTL

(* A POST that ends on the page for success has its decision taken, or has *)
(* found the user code gone.                                               *)
THEOREM SuccessIsHonest == Spec => []SuccessMeansTaken
<1>1. IInv => SuccessMeansTaken
  BY DEF IInv, GoodPages, GoodPage, Shows, SuccessMeansTaken
<1> QED
  BY <1>1, Invariance, PTL
=============================================================================
