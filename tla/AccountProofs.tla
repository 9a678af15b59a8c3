---------------------------- MODULE AccountProofs ----------------------------
(***************************************************************************)
(* Proofs about Account, for any number of tabs, users, clients and        *)
(* sessions: its type invariant, the two safety invariants of its run and  *)
(* the two properties of its steps that are not about liveness.            *)
(***************************************************************************)
EXTENDS Account, TLAPS

GoodSessions == {c \in Sessions : c.user = Nobody => c = NoSession}
Answers == [sets : BOOLEAN, cookie : GoodSessions, page : Pages]

(* What a page p may be in a tab whose task began at b and whose sign-in   *)
(* was cancelled by c.                                                     *)
GoodPage(p, b, c) ==
  /\ p \in Pages
  /\ p.at \in {"login", "challenge", "loading", "callback"} /\ p.target \in Clients => p.target = b
  /\ p.at \in {"login", "challenge"} => p.target # "created"
  /\ p.at \in {"prompt", "consent", "code", "denied", "back"} => p.target = b
  /\ p.at = "prompt" => p.target \in Clients \cup {"none"}
  /\ p.at \in {"upstream", "loggedOut"} => p.target = b \/ (b = "none" /\ p.target = "created")
  /\ p.at \in {"loading", "callback"} /\ p.target \in Clients /\ c # Unasked => p.who = c

(* What an answer a on its way may be, if the sign-out of its tab was      *)
(* asked for by k and carried the session e: it takes the session away     *)
(* only if somebody asked, and does if it leads to LoggedOut.              *)
GoodAnswer(a, b, k, e, c) ==
  /\ GoodPage(a.page, b, c)
  /\ a.sets /\ a.cookie = NoSession => k # "no" /\ e # NoSession
  /\ a.page.at \in {"upstream", "loggedOut", "back"} /\ e # NoSession =>
       a.sets /\ a.cookie = NoSession

GoodTab(p, a, b, k, e, c) ==
  /\ GoodPage(p, b, c) /\ a \in Answers /\ b \in Clients \cup Elsewhere
  /\ k \in {"no", "client", "user"} /\ e \in GoodSessions
  /\ c \in Users \cup {Nobody, Unasked}
  /\ p.at = "waiting" => GoodAnswer(a, b, k, e, c)

Typed ==
  /\ automatic \in BOOLEAN
  /\ cookie    \in GoodSessions
  /\ signIns   \in 0 .. MaxSessions
  /\ page      \in [Tabs -> Pages]
  /\ answer    \in [Tabs -> Answers]
  /\ began     \in [Tabs -> Clients \cup Elsewhere]
  /\ asked     \in [Tabs -> {"no", "client", "user"}]
  /\ ending    \in [Tabs -> GoodSessions]
  /\ cancelled \in [Tabs -> Users \cup {Nobody, Unasked}]
  /\ revived   \in SUBSET (0 .. MaxSessions)

GoodTabs ==
  \A t \in Tabs : GoodTab(page[t], answer[t], began[t], asked[t], ending[t], cancelled[t])

IInv == Typed /\ GoodTabs /\ LoggedOutIsLoggedOut

-----------------------------------------------------------------------------
(* Lemmas *)

LEMMA Sets ==
  /\ NoSession \in GoodSessions /\ GoodSessions \subseteq Sessions
  /\ \A p \in Pages : p.target \in Clients \cup Elsewhere
  /\ Away \in Pages /\ Waiting \in Pages /\ Error \in Pages
  /\ Away.at = "away" /\ Waiting.at = "waiting" /\ Error.at = "error"
  /\ \A p \in Pages : Keeping(p) \in Answers /\ ~Keeping(p).sets /\ Keeping(p).page = p
  /\ \A s \in GoodSessions, p \in Pages :
       /\ Setting(s, p) \in Answers /\ Setting(s, p).sets
       /\ Setting(s, p).cookie = s /\ Setting(s, p).page = p
<1>1. NoSession \in GoodSessions /\ GoodSessions \subseteq Sessions
  BY AccountAssumption DEF NoSession, GoodSessions, Sessions
<1>2. /\ Away \in Pages /\ Waiting \in Pages /\ Error \in Pages
      /\ Away.at = "away" /\ Waiting.at = "waiting" /\ Error.at = "error"
  <2>1. /\ Away.at = "away" /\ Waiting.at = "waiting" /\ Error.at = "error"
        /\ Away \in PageSet /\ Waiting \in PageSet /\ Error \in PageSet
    BY DEF Away, Waiting, Error, Page, PageSet, Elsewhere
  <2> QED
    BY <2>1 DEF Pages
<1>3. \A p \in Pages : p.target \in Clients \cup Elsewhere
  BY DEF Pages, PageSet
<1> QED
  BY <1>1, <1>2, <1>3 DEF Keeping, Setting, Answers

LEMMA InitHolds == Init => IInv
<1> SUFFICES ASSUME Init PROVE IInv
  OBVIOUS
<1>1. Typed
  BY Sets, AccountAssumption DEF Init, Typed, Elsewhere
<1>2. GoodPage(Away, "none", Unasked)
  BY Sets DEF GoodPage
<1>3. GoodTabs
  BY <1>2, Sets DEF Init, GoodTabs, GoodTab, Elsewhere
<1> QED
  BY <1>1, <1>3 DEF IInv, LoggedOutIsLoggedOut, Init

(* A step of one tab that leaves the cookie alone preserves the invariant  *)
(* if it leaves the tab in order.                                          *)
LEMMA TabStepPreserves ==
  ASSUME IInv, NEW t \in Tabs, NEW p, NEW a, NEW b, NEW k, NEW e, NEW c,
         GoodTab(p, a, b, k, e, c),
         p.at \in {"upstream", "loggedOut", "back"} /\ e # NoSession =>
           cookie # e \/ e.id \in revived,
         page'      = [page EXCEPT ![t] = p],
         answer'    = [answer EXCEPT ![t] = a],
         began'     = [began EXCEPT ![t] = b],
         asked'     = [asked EXCEPT ![t] = k],
         ending'    = [ending EXCEPT ![t] = e],
         cancelled' = [cancelled EXCEPT ![t] = c],
         signIns' \in 0 .. MaxSessions,
         UNCHANGED <<automatic, cookie, revived>>
  PROVE  IInv'
<1>1. Typed'
  BY DEF IInv, Typed, GoodTab, GoodPage
<1>2. \A s \in Tabs \ {t} :
        /\ page'[s] = page[s] /\ answer'[s] = answer[s] /\ began'[s] = began[s]
        /\ asked'[s] = asked[s] /\ ending'[s] = ending[s] /\ cancelled'[s] = cancelled[s]
  BY DEF IInv, Typed
<1>3. /\ page'[t] = p /\ answer'[t] = a /\ began'[t] = b
      /\ asked'[t] = k /\ ending'[t] = e /\ cancelled'[t] = c
  BY DEF IInv, Typed
<1>4. GoodTabs'
  BY <1>2, <1>3 DEF IInv, GoodTabs
<1>5. LoggedOutIsLoggedOut'
  BY <1>2, <1>3 DEF IInv, LoggedOutIsLoggedOut
<1> QED
  BY <1>1, <1>4, <1>5 DEF IInv

(* The same for a step that shows a page, and for one that sends a         *)
(* request; either leaves a part of the history alone.                     *)
LEMMA ShowPreserves ==
  ASSUME IInv, NEW t \in Tabs, NEW p, Show(t, p), p.at # "waiting",
         GoodPage(p, began[t], cancelled[t]),
         p.at \in {"upstream", "loggedOut", "back"} /\ ending[t] # NoSession =>
           cookie # ending[t] \/ ending[t].id \in revived,
         UNCHANGED <<automatic, cookie, signIns, history>>
  PROVE  IInv'
<1>1. PICK a, b, k, e, c :
        a = answer[t] /\ b = began[t] /\ k = asked[t] /\ e = ending[t] /\ c = cancelled[t]
  OBVIOUS
<1>2. GoodTab(p, a, b, k, e, c)
  BY <1>1 DEF IInv, Typed, GoodTab
<1>3. page' = [page EXCEPT ![t] = p] /\ UNCHANGED <<automatic, cookie, signIns, revived>>
  BY DEF Show, history
<1>4. answer' = [answer EXCEPT ![t] = a]
  BY <1>1 DEF Show, IInv, Typed
<1>5. /\ began'     = [began EXCEPT ![t] = b]
      /\ asked'     = [asked EXCEPT ![t] = k]
      /\ ending'    = [ending EXCEPT ![t] = e]
      /\ cancelled' = [cancelled EXCEPT ![t] = c]
  BY <1>1 DEF history, IInv, Typed
<1>6. /\ signIns' \in 0 .. MaxSessions
      /\ p.at \in {"upstream", "loggedOut", "back"} /\ e # NoSession =>
           cookie # e \/ e.id \in revived
  BY <1>1, <1>3 DEF IInv, Typed
<1> QED
  BY <1>2, <1>3, <1>4, <1>5, <1>6, TabStepPreserves

LEMMA AwaitPreserves ==
  ASSUME IInv, NEW t \in Tabs, NEW a, Await(t, a), a \in Answers,
         NEW b \in Clients \cup Elsewhere, NEW k \in {"no", "client", "user"},
         NEW e \in GoodSessions, NEW c \in Users \cup {Nobody, Unasked},
         GoodAnswer(a, b, k, e, c),
         began'     = [began EXCEPT ![t] = b],
         asked'     = [asked EXCEPT ![t] = k],
         ending'    = [ending EXCEPT ![t] = e],
         cancelled' = [cancelled EXCEPT ![t] = c],
         signIns' \in 0 .. MaxSessions,
         UNCHANGED <<automatic, cookie, revived>>
  PROVE  IInv'
<1>1. GoodTab(Waiting, a, b, k, e, c)
  BY Sets DEF GoodTab, GoodPage
<1> QED
  BY <1>1, Sets, TabStepPreserves DEF Await

(* Where the handlers send a tab. *)
LEMMA ReturnPages ==
  ASSUME NEW c \in Clients, NEW who \in Users \cup {Nobody, Unasked}, NEW x,
         x # Unasked => who = x
  PROVE  GoodPage(ReturnTo(c, who), c, x) /\ ReturnTo(c, who).at \in {"loading", "callback"}
<1>1. Page("loading", c, who) \in PageSet /\ Page("callback", c, who) \in PageSet
  BY DEF Page, PageSet
<1> QED
  BY <1>1, AccountAssumption
     DEF ReturnTo, RedirectPage, IsLocalUrl, Page, Pages, GoodPage, Error

LEMMA LoginPages ==
  ASSUME NEW url \in Clients \cup (Elsewhere \ {"created"}), NEW u \in Users \cup {Nobody}, NEW b, NEW c,
         url \in Clients => url = b
  PROVE  GoodPage(LoginPage(url, u), b, c) /\ LoginPage(url, u).at \in {"login", "challenge"}
<1>1. Page("challenge", url, Unasked) \in PageSet /\ Page("login", url, u) \in PageSet
  BY DEF Page, PageSet
<1> QED
  BY <1>1, AccountAssumption DEF LoginPage, Page, Pages, GoodPage, Elsewhere

(* Pages that are good in every tab. *)
LEMMA EndPages ==
  ASSUME NEW b, NEW c
  PROVE  /\ GoodPage(Away, b, c) /\ GoodPage(Error, b, c)
         /\ \A at \in {"home", "local"} :
              GoodPage(Page(at, "none", Unasked), b, c) /\ Page(at, "none", Unasked).at = at
         /\ GoodPage(Page("callback", "none", Unasked), b, c)
         /\ Page("callback", "none", Unasked).at = "callback"
<1>1. \A at \in {"home", "local", "callback"} :
        Page(at, "none", Unasked) \in PageSet /\ Page(at, "none", Unasked).at = at
                                              /\ Page(at, "none", Unasked).target = "none"
  BY DEF Page, PageSet, Elsewhere
<1>2. "none" \notin Clients
  BY AccountAssumption DEF Elsewhere
<1> QED
  BY <1>1, <1>2, Sets DEF GoodPage, Pages

LEMMA AfterSignInPages ==
  ASSUME NEW url \in Clients \cup {"local", "none"}, NEW b, url \in Clients => url = b
  PROVE  /\ GoodPage(AfterSignIn(url), b, Unasked)
         /\ AfterSignIn(url).at \in {"loading", "callback", "local", "home"}
<1>1. CASE url \in Clients
  <2>1. AfterSignIn(url) = ReturnTo(url, Unasked)
    BY <1>1, AccountAssumption DEF AfterSignIn, Elsewhere
  <2> QED
    BY <1>1, <2>1, ReturnPages
<1>2. CASE url \notin Clients
  BY <1>2, EndPages DEF AfterSignIn
<1> QED
  BY <1>1, <1>2

-----------------------------------------------------------------------------
(* One lemma per action *)

LEMMA FollowPreserves == ASSUME IInv, NEW t \in Tabs, Follow(t) PROVE IInv'
<1>1. PICK p : p = [page[t] EXCEPT !.at = "callback"]
  OBVIOUS
<1>2. page[t].at = "loading" /\ GoodPage(page[t], began[t], cancelled[t])
  BY DEF Follow, Shows, IInv, GoodTabs, GoodTab
<1>3. p.at = "callback" /\ GoodPage(p, began[t], cancelled[t])
  BY <1>1, <1>2 DEF GoodPage, Pages, PageSet
<1> QED
  BY <1>1, <1>3, ShowPreserves DEF Follow

LEMMA OpenLoginPreserves ==
  ASSUME IInv, NEW t \in Tabs, NEW url, OpenLogin(t, url)
  PROVE  IInv'
<1>1. PICK a, k, e : a = answer[t] /\ k = asked[t] /\ e = ending[t]
  OBVIOUS
<1>2. PICK p : p = LoginPage(url, CookieUser)
  OBVIOUS
<1>3. GoodPage(p, url, Unasked) /\ p.at \in {"login", "challenge"}
  BY <1>2, LoginPages DEF OpenLogin, CookieUser, IInv, Typed, GoodSessions, Sessions
<1>4. GoodTab(p, a, url, k, e, Unasked)
  BY <1>1, <1>3 DEF OpenLogin, GoodTab, IInv, Typed
<1>5. /\ page' = [page EXCEPT ![t] = p] /\ began' = [began EXCEPT ![t] = url]
      /\ cancelled' = [cancelled EXCEPT ![t] = Unasked]
      /\ UNCHANGED <<automatic, cookie, revived>> /\ signIns' \in 0 .. MaxSessions
  BY <1>2 DEF OpenLogin, Show, IInv, Typed
<1>6. answer' = [answer EXCEPT ![t] = a]
  BY <1>1 DEF OpenLogin, Show, IInv, Typed
<1>7. asked' = [asked EXCEPT ![t] = k] /\ ending' = [ending EXCEPT ![t] = e]
  BY <1>1 DEF OpenLogin, IInv, Typed
<1> QED
  BY <1>3, <1>4, <1>5, <1>6, <1>7, TabStepPreserves

(* The task of the tab is the same as before. *)
SameTask == UNCHANGED <<began, asked, ending>>

(* An answer to a request on the login page: it keeps the cookie or sets a *)
(* new session, and does not lead to LoggedOut.                            *)
LEMMA LoginAnswerPreserves ==
  ASSUME IInv, NEW t \in Tabs, NEW a \in Answers, NEW c \in Users \cup {Nobody, Unasked},
         Await(t, a), GoodPage(a.page, began[t], c),
         a.sets => a.cookie # NoSession,
         a.page.at \notin {"upstream", "loggedOut", "back"},
         cancelled' = [cancelled EXCEPT ![t] = c],
         signIns' \in 0 .. MaxSessions, SameTask,
         UNCHANGED <<automatic, cookie, revived>>
  PROVE  IInv'
<1>1. PICK b, k, e : b = began[t] /\ k = asked[t] /\ e = ending[t]
  OBVIOUS
<1>2. /\ b \in Clients \cup Elsewhere /\ k \in {"no", "client", "user"} /\ e \in GoodSessions
      /\ GoodAnswer(a, b, k, e, c)
  BY <1>1 DEF IInv, Typed, GoodAnswer
<1>3. /\ began' = [began EXCEPT ![t] = b] /\ asked' = [asked EXCEPT ![t] = k]
      /\ ending' = [ending EXCEPT ![t] = e]
  BY <1>1 DEF SameTask, IInv, Typed
<1> QED
  BY <1>2, <1>3, AwaitPreserves

LEMMA CancelPreserves == ASSUME IInv, NEW t \in Tabs, Cancel(t) PROVE IInv'
<1>1. PICK c : c = CookieUser
  OBVIOUS
<1>2. c \in Users \cup {Nobody, Unasked}
  BY <1>1 DEF CookieUser, IInv, Typed, GoodSessions, Sessions
<1>3. PICK p : /\ Await(t, Keeping(p)) /\ GoodPage(p, began[t], c)
               /\ p.at \notin {"upstream", "loggedOut", "back"}
  <2>1. CASE page[t].target \in Clients /\ Await(t, Denied(page[t].target))
    <3>1. page[t].target = began[t]
      BY <2>1 DEF Cancel, Shows, IInv, GoodTabs, GoodTab, GoodPage
    <3>2. /\ GoodPage(ReturnTo(page[t].target, c), began[t], c)
          /\ ReturnTo(page[t].target, c).at \in {"loading", "callback"}
      BY <1>2, <2>1, <3>1, ReturnPages
    <3> QED
      BY <1>1, <2>1, <3>2 DEF Denied
  <2>2. CASE Await(t, Keeping(Page("home", "none", Unasked)))
    BY <2>2, EndPages
  <2> QED
    BY <2>1, <2>2 DEF Cancel
<1>4. Keeping(p) \in Answers /\ ~Keeping(p).sets /\ Keeping(p).page = p
  BY <1>3, Sets DEF GoodPage
<1>5. /\ cancelled' = [cancelled EXCEPT ![t] = c] /\ signIns' \in 0 .. MaxSessions
      /\ UNCHANGED <<automatic, cookie, revived>> /\ SameTask
  BY <1>1 DEF Cancel, IInv, Typed, SameTask
<1> QED
  BY <1>2, <1>3, <1>4, <1>5, LoginAnswerPreserves

(* A new session is somebody's. *)
LEMMA SignInPreserves ==
  ASSUME IInv, NEW t \in Tabs, NEW u \in Users, NEW p, SignIn(t, u, p),
         GoodPage(p, began[t], Unasked), p.at \notin {"upstream", "loggedOut", "back"}
  PROVE  IInv'
<1>1. PICK s : s = NewSession(u)
  OBVIOUS
<1>2. s \in GoodSessions /\ s # NoSession /\ signIns' \in 0 .. MaxSessions
  <2>1. signIns + 1 \in 0 .. MaxSessions /\ signIns' = signIns + 1
    BY AccountAssumption DEF SignIn, IInv, Typed
  <2>2. u # Nobody
    BY AccountAssumption
  <2> QED
    BY <1>1, <2>1, <2>2 DEF NewSession, GoodSessions, Sessions, NoSession
<1>3. /\ Setting(s, p) \in Answers /\ Setting(s, p).cookie = s /\ Setting(s, p).page = p
  BY <1>2, Sets DEF GoodPage
<1>4. /\ Await(t, Setting(s, p)) /\ cancelled' = [cancelled EXCEPT ![t] = Unasked]
      /\ UNCHANGED <<automatic, cookie, revived>> /\ SameTask
  BY <1>1 DEF SignIn, SameTask
<1> QED
  BY <1>2, <1>3, <1>4, LoginAnswerPreserves

LEMMA SignInsPreserve ==
  ASSUME IInv, NEW t \in Tabs, NEW u \in Users, PasswordSignIn(t, u) \/ ExternalSignIn(t, u)
  PROVE  IInv'
<1>1. PICK url : url = page[t].target
  OBVIOUS
<1>2. url \in Clients \cup {"local", "none"} /\ (url \in Clients => url = began[t])
  BY <1>1 DEF PasswordSignIn, ExternalSignIn, Shows, IInv, GoodTabs, GoodTab, GoodPage,
              Pages, PageSet, Elsewhere
<1>3. CASE SignIn(t, u, AfterSignIn(url))
  BY <1>2, <1>3, AfterSignInPages, SignInPreserves
<1>4. CASE SignIn(t, u, Page("callback", "none", Unasked))
  BY <1>4, EndPages, SignInPreserves
<1> QED
  BY <1>1, <1>3, <1>4 DEF PasswordSignIn, ExternalSignIn

LEMMA SignInFailsPreserves == ASSUME IInv, NEW t \in Tabs, SignInFails(t) PROVE IInv'
<1>1. PICK p \in {LoginPage(page[t].target, CookieUser), Error} : Await(t, Keeping(p))
  BY DEF SignInFails
<1>2. GoodPage(p, began[t], Unasked) /\ p.at \notin {"upstream", "loggedOut", "back"}
  <2>1. /\ page[t].target \in Clients \cup (Elsewhere \ {"created"})
        /\ page[t].target \in Clients => page[t].target = began[t]
    BY DEF SignInFails, Shows, IInv, GoodTabs, GoodTab, GoodPage, Pages, PageSet
  <2>2. CookieUser \in Users \cup {Nobody}
    BY DEF CookieUser, IInv, Typed, GoodSessions, Sessions
  <2> QED
    BY <1>1, <2>1, <2>2, LoginPages, EndPages, Sets
<1>3. Keeping(p) \in Answers /\ ~Keeping(p).sets /\ Keeping(p).page = p
  BY <1>2, Sets DEF GoodPage
<1>4. /\ cancelled' = [cancelled EXCEPT ![t] = Unasked] /\ signIns' \in 0 .. MaxSessions
      /\ UNCHANGED <<automatic, cookie, revived>> /\ SameTask
  BY DEF SignInFails, IInv, Typed, SameTask
<1> QED
  BY <1>1, <1>2, <1>3, <1>4, LoginAnswerPreserves

LEMMA FormRefusedPreserves == ASSUME IInv, NEW t \in Tabs, FormRefused(t) PROVE IInv'
BY EndPages, Sets, ShowPreserves DEF FormRefused

(* What the authorization endpoint answers to a request of a client. *)
LEMMA AuthorizedPages ==
  ASSUME NEW c \in Clients, NEW who, NEW x
  PROVE  /\ GoodPage(Authorized(c, who), c, x)
         /\ Authorized(c, who).at \in {"denied", "consent", "code", "login", "challenge"}
<1>1. \A at \in {"denied", "consent", "code"} :
        GoodPage(Page(at, c, Unasked), c, x) /\ Page(at, c, Unasked).at = at
  <2>1. \A at \in {"denied", "consent", "code"} : Page(at, c, Unasked) \in PageSet
    BY DEF Page, PageSet
  <2> QED
    BY <2>1 DEF GoodPage, Pages, Page
<1>2. GoodPage(LoginPage(c, Nobody), c, x) /\ LoginPage(c, Nobody).at \in {"login", "challenge"}
  BY LoginPages
<1>3. \/ Authorized(c, who) = LoginPage(c, Nobody)
      \/ \E at \in {"denied", "consent", "code"} : Authorized(c, who) = Page(at, c, Unasked)
  <2>1. CASE DenialCounts(c, who)
    BY <2>1 DEF Authorized
  <2>2. CASE ~DenialCounts(c, who) /\ ~SignedIn
    BY <2>2 DEF Authorized
  <2>3. CASE ~DenialCounts(c, who) /\ SignedIn
    BY <2>3 DEF Authorized
  <2> QED
    BY <2>1, <2>2, <2>3
<1> QED
  BY <1>1, <1>2, <1>3

(* Only a tab that is back from its own sign-in at a client gets an answer *)
(* for that client.                                                        *)
LEMMA AuthorizeCallbackPreserves ==
  ASSUME IInv, NEW t \in Tabs, AuthorizeCallback(t) PROVE IInv'
<1>1. PICK c, who : c = page[t].target /\ who = page[t].who
  OBVIOUS
<1>2. c \in Clients => c = began[t]
  BY <1>1 DEF AuthorizeCallback, Shows, IInv, GoodTabs, GoodTab, GoodPage
<1>3. PICK p : Show(t, p) /\ GoodPage(p, began[t], cancelled[t])
               /\ p.at \in {"denied", "consent", "code", "login", "challenge", "error"}
  <2>1. CASE c \in Clients /\ Show(t, Authorized(c, who))
    BY <1>2, <2>1, AuthorizedPages
  <2>2. CASE Show(t, Error)
    BY <2>2, EndPages, Sets
  <2> QED
    BY <1>1, <2>1, <2>2 DEF AuthorizeCallback
<1> QED
  BY <1>3, ShowPreserves DEF AuthorizeCallback

(* The page LoggedOut, and the way there over the external provider. *)
LEMMA LogoutPages ==
  ASSUME NEW id \in Clients \cup {"none"}, NEW x, NEW at \in {"upstream", "loggedOut"}
  PROVE  /\ GoodPage(Page(at, id, Unasked), id, x) /\ Page(at, id, Unasked).at = at
         /\ /\ GoodPage(Page(at, LogoutContext(id), Unasked), id, x)
            /\ Page(at, LogoutContext(id), Unasked).at = at
<1>1. \A y \in Clients \cup {"none", "created"} : Page(at, y, Unasked) \in PageSet
  BY DEF Page, PageSet, Elsewhere
<1> QED
  BY <1>1 DEF Page, Pages, GoodPage, LogoutContext

(* Whoever is signed in when a sign-out is sent, its answer leads to       *)
(* LoggedOut and takes the session away if there was one, or it failed.    *)
LEMMA SignOutAnswers ==
  ASSUME IInv, NEW id \in Clients \cup {"none"}, NEW x,
         NEW a, \/ a = IF SignedIn THEN SignedOut(id) ELSE Keeping(LoggedOutPage(id))
                \/ a = Keeping(Error)
  PROVE  /\ a \in Answers /\ GoodPage(a.page, id, x)
         /\ a.sets => cookie # NoSession
         /\ a.page.at \in {"upstream", "loggedOut", "back"} /\ cookie # NoSession =>
              a.sets /\ a.cookie = NoSession
<1>0. CASE a = Keeping(Error)
  BY <1>0, EndPages, Sets
<1>1. CASE SignedIn /\ a = SignedOut(id)
  <2>1. PICK at \in {"upstream", "loggedOut"} :
          a = Setting(NoSession, Page(at, LogoutContext(id), Unasked))
    BY <1>1 DEF SignedOut, LoggedOutPage
  <2>2. cookie # NoSession
    BY <1>1 DEF SignedIn, CookieUser, NoSession
  <2>3. /\ GoodPage(Page(at, LogoutContext(id), Unasked), id, x)
        /\ Page(at, LogoutContext(id), Unasked) \in Pages
    BY LogoutPages DEF GoodPage
  <2> QED
    BY <2>1, <2>2, <2>3, Sets
<1>2. CASE ~SignedIn /\ a = Keeping(LoggedOutPage(id))
  <2>1. cookie = NoSession
    BY <1>2 DEF SignedIn, CookieUser, IInv, Typed, GoodSessions
  <2>2. GoodPage(LoggedOutPage(id), id, x) /\ LoggedOutPage(id) \in Pages
    BY LogoutPages DEF GoodPage, LoggedOutPage
  <2> QED
    BY <1>2, <2>1, <2>2, Sets
<1> QED
  BY <1>0, <1>1, <1>2

LEMMA SignOutPreserves ==
  ASSUME IInv, NEW t \in Tabs, NEW id \in Clients \cup {"none"}, NEW k \in {"no", "client", "user"},
         SignOut(t, id), SignedIn => k # "no",
         began' = [began EXCEPT ![t] = id], asked' = [asked EXCEPT ![t] = k]
  PROVE  IInv'
<1>1. PICK a, e, c : /\ \/ a = IF SignedIn THEN SignedOut(id) ELSE Keeping(LoggedOutPage(id))
                        \/ a = Keeping(Error)
                     /\ Await(t, a) /\ e = cookie /\ c = cancelled[t]
  BY DEF SignOut
<1>2. /\ a \in Answers /\ GoodPage(a.page, id, c)
      /\ a.sets => e # NoSession
      /\ a.page.at \in {"upstream", "loggedOut", "back"} /\ e # NoSession =>
           a.sets /\ a.cookie = NoSession
  BY <1>1, SignOutAnswers
<1>3. e # NoSession => k # "no"
  BY <1>1 DEF SignedIn, CookieUser, IInv, Typed, GoodSessions
<1>4. GoodAnswer(a, id, k, e, c)
  BY <1>2, <1>3 DEF GoodAnswer
<1>5. /\ Await(t, a) /\ ending' = [ending EXCEPT ![t] = e] /\ signIns' \in 0 .. MaxSessions
      /\ UNCHANGED <<automatic, cookie, revived>>
  BY <1>1 DEF SignOut, IInv, Typed
<1>6. cancelled' = [cancelled EXCEPT ![t] = c]
  BY <1>1 DEF SignOut, IInv, Typed
<1>7. /\ id \in Clients \cup Elsewhere /\ e \in GoodSessions
      /\ c \in Users \cup {Nobody, Unasked}
  BY <1>1 DEF IInv, Typed, Elsewhere
<1> QED
  BY <1>2, <1>4, <1>5, <1>6, <1>7, AwaitPreserves

LEMMA OpenLogoutPreserves ==
  ASSUME IInv, NEW t \in Tabs, NEW id, OpenLogout(t, id)
  PROVE  IInv'
<1>1. PICK k : k = IF id \in Clients THEN "client" ELSE "no"
  OBVIOUS
<1>2. /\ id \in Clients \cup {"none"} /\ k \in {"no", "client", "user"}
      /\ began' = [began EXCEPT ![t] = id] /\ asked' = [asked EXCEPT ![t] = k]
  BY <1>1 DEF OpenLogout
<1>3. CASE ~PromptNeeded(id) /\ SignOut(t, id)
  <2>1. SignedIn => k # "no"
    BY <1>1, <1>3 DEF PromptNeeded, ShowLogoutPrompt
  <2> QED
    BY <1>2, <1>3, <2>1, SignOutPreserves
<1>4. CASE /\ PromptNeeded(id)
           /\ Show(t, Page("prompt", id, CookieUser))
           /\ UNCHANGED <<automatic, cookie, signIns, ending, cancelled, revived>>
  <2>1. PICK p, a, e, c : /\ p = Page("prompt", id, CookieUser)
                          /\ a = answer[t] /\ e = ending[t] /\ c = cancelled[t]
    OBVIOUS
  <2>2. CookieUser \in Users
    BY <1>4 DEF PromptNeeded, SignedIn, CookieUser, IInv, Typed, GoodSessions, Sessions
  <2>3. p \in PageSet /\ p.at = "prompt" /\ p.target = id /\ p.who \in Users
    BY <1>2, <2>1, <2>2 DEF Page, PageSet, Elsewhere
  <2>4. GoodPage(p, id, c)
    BY <1>2, <2>3 DEF GoodPage, Pages
  <2>5. GoodTab(p, a, id, k, e, c)
    BY <1>2, <2>1, <2>3, <2>4 DEF GoodTab, IInv, Typed, Elsewhere
  <2>6. page' = [page EXCEPT ![t] = p] /\ answer' = [answer EXCEPT ![t] = a]
    BY <1>4, <2>1 DEF Show, IInv, Typed
  <2>7. /\ ending' = [ending EXCEPT ![t] = e] /\ cancelled' = [cancelled EXCEPT ![t] = c]
        /\ UNCHANGED <<automatic, cookie, revived>> /\ signIns' \in 0 .. MaxSessions
    BY <1>4, <2>1 DEF IInv, Typed
  <2> QED
    BY <1>2, <2>3, <2>5, <2>6, <2>7, TabStepPreserves
<1> QED
  BY <1>3, <1>4 DEF OpenLogout

LEMMA ConfirmLogoutPreserves == ASSUME IInv, NEW t \in Tabs, ConfirmLogout(t) PROVE IInv'
<1>1. PICK id, k : id = page[t].target /\ k = "user"
  OBVIOUS
<1>2. id = began[t] /\ id \in Clients \cup {"none"}
  BY <1>1 DEF ConfirmLogout, Shows, IInv, GoodTabs, GoodTab, GoodPage
<1>3. began' = [began EXCEPT ![t] = id] /\ asked' = [asked EXCEPT ![t] = k]
  BY <1>1, <1>2 DEF ConfirmLogout, IInv, Typed
<1> QED
  BY <1>1, <1>2, <1>3, SignOutPreserves DEF ConfirmLogout

LEMMA ReturnFromUpstreamPreserves ==
  ASSUME IInv, NEW t \in Tabs, ReturnFromUpstream(t) PROVE IInv'
<1>1. PICK p : p = LoggedOutPage(page[t].target)
  OBVIOUS
<1>2. page[t].at = "upstream" /\ GoodPage(page[t], began[t], cancelled[t])
  BY DEF ReturnFromUpstream, Shows, IInv, GoodTabs, GoodTab
<1>3. p \in PageSet /\ p.at = "loggedOut" /\ p.target = page[t].target
  BY <1>1, <1>2 DEF LoggedOutPage, Page, PageSet, GoodPage, Pages
<1>4. GoodPage(p, began[t], cancelled[t])
  BY <1>2, <1>3 DEF GoodPage, Pages
<1> QED
  BY <1>1, <1>2, <1>3, <1>4, ShowPreserves DEF ReturnFromUpstream, IInv, LoggedOutIsLoggedOut

LEMMA FollowLinkPreserves == ASSUME IInv, NEW t \in Tabs, FollowLink(t) PROVE IInv'
<1>1. PICK p : p = Page("back", page[t].target, Unasked)
  OBVIOUS
<1>2. page[t].at = "loggedOut" /\ GoodPage(page[t], began[t], cancelled[t])
  BY DEF FollowLink, Shows, IInv, GoodTabs, GoodTab
<1>3. p \in PageSet /\ p.at = "back" /\ p.target = page[t].target
  BY <1>1, <1>2 DEF Page, PageSet, GoodPage, Pages
<1>4. p.target = began[t]
  BY <1>2, <1>3, AccountAssumption DEF FollowLink, HasLink, GoodPage, Elsewhere
<1>5. GoodPage(p, began[t], cancelled[t])
  BY <1>3, <1>4 DEF GoodPage, Pages
<1> QED
  BY <1>1, <1>2, <1>3, <1>5, ShowPreserves DEF FollowLink, IInv, LoggedOutIsLoggedOut

(* The answer of another page may renew the session it was sent with. *)
LEMMA BrowsePreserves == ASSUME IInv, NEW t \in Tabs, Browse(t) PROVE IInv'
<1>1. PICK a, c : a = Setting(cookie, Away) /\ c = cancelled[t]
  OBVIOUS
<1>2. cookie \in GoodSessions /\ cookie # NoSession
  BY DEF Browse, SignedIn, CookieUser, NoSession, IInv, Typed
<1>3. a \in Answers /\ a.cookie # NoSession /\ a.page = Away
  BY <1>1, <1>2, Sets
<1>4. c \in Users \cup {Nobody, Unasked} /\ cancelled' = [cancelled EXCEPT ![t] = c]
  BY <1>1 DEF Browse, history, IInv, Typed
<1>5. /\ Await(t, a) /\ UNCHANGED <<automatic, cookie, revived>> /\ SameTask
      /\ signIns' \in 0 .. MaxSessions
  BY <1>1 DEF Browse, history, SameTask, IInv, Typed
<1>6. GoodPage(a.page, began[t], c) /\ a.page.at \notin {"upstream", "loggedOut", "back"}
  BY <1>3, EndPages, Sets
<1> QED
  BY <1>3, <1>4, <1>5, <1>6, LoginAnswerPreserves

(* A tab that shows an error keeps its task. *)
LEMMA LostPreserves == ASSUME IInv, NEW t \in Tabs, Lost(t) PROVE IInv'
<1>1. PICK a, b, k, e, c : /\ a = Keeping(Away) /\ b = began[t] /\ k = asked[t]
                           /\ e = ending[t] /\ c = cancelled[t]
  OBVIOUS
<1>2. GoodTab(Error, a, b, k, e, c)
  BY <1>1, EndPages, Sets DEF GoodTab, IInv, Typed
<1>3. page' = [page EXCEPT ![t] = Error] /\ answer' = [answer EXCEPT ![t] = a]
  BY <1>1 DEF Lost
<1>4. /\ began'     = [began EXCEPT ![t] = b]
      /\ asked'     = [asked EXCEPT ![t] = k]
      /\ ending'    = [ending EXCEPT ![t] = e]
      /\ cancelled' = [cancelled EXCEPT ![t] = c]
      /\ UNCHANGED <<automatic, cookie, revived>> /\ signIns' \in 0 .. MaxSessions
  BY <1>1 DEF Lost, history, IInv, Typed
<1> QED
  BY <1>2, <1>3, <1>4, Sets, TabStepPreserves

LEMMA LeavePreserves == ASSUME IInv, NEW t \in Tabs, Leave(t) PROVE IInv'
<1>1. PICK a : a = answer[t]
  OBVIOUS
<1>2. GoodTab(Away, a, "none", "no", NoSession, Unasked)
  BY <1>1, EndPages, Sets DEF GoodTab, IInv, Typed, Elsewhere
<1>3. page' = [page EXCEPT ![t] = Away] /\ answer' = [answer EXCEPT ![t] = a]
  BY <1>1 DEF Leave, Show, IInv, Typed
<1>4. /\ began'     = [began EXCEPT ![t] = "none"]
      /\ asked'     = [asked EXCEPT ![t] = "no"]
      /\ ending'    = [ending EXCEPT ![t] = NoSession]
      /\ cancelled' = [cancelled EXCEPT ![t] = Unasked]
      /\ UNCHANGED <<automatic, cookie, revived>> /\ signIns' \in 0 .. MaxSessions
  BY DEF Leave, IInv, Typed
<1> QED
  BY <1>2, <1>3, <1>4, TabStepPreserves

(* The one step that changes the cookie.  Where another tab is on          *)
(* LoggedOut, the new cookie is not the session that tab ended, or that    *)
(* session counts as revived.                                              *)
LEMMA ArrivePreserves == ASSUME IInv, NEW t \in Tabs, Arrive(t) PROVE IInv'
<1>1. PICK a, p : a = answer[t] /\ p = a.page
  OBVIOUS
<1>2. /\ page'   = [page EXCEPT ![t] = p]
      /\ answer' = [answer EXCEPT ![t] = Keeping(Away)]
      /\ cookie' = IF a.sets THEN a.cookie ELSE cookie
      /\ UNCHANGED <<automatic, signIns, began, asked, ending, cancelled>>
  BY <1>1 DEF Arrive
<1>3. /\ a \in Answers /\ p \in Pages
      /\ GoodAnswer(a, began[t], asked[t], ending[t], cancelled[t])
  BY <1>1 DEF Arrive, Shows, IInv, GoodTabs, GoodTab, GoodAnswer, GoodPage
<1>4. cookie' \in GoodSessions
  BY <1>2, <1>3 DEF Answers, IInv, Typed
<1>5. revived' = IF cookie' # cookie /\ \E u \in Tabs : ending[u] = cookie'
                   THEN revived \cup {cookie'.id} ELSE revived
  BY DEF Arrive
<1>6. revived \subseteq revived' /\ revived' \in SUBSET (0 .. MaxSessions)
  BY <1>4, <1>5 DEF IInv, Typed, GoodSessions, Sessions
<1>7. /\ page'[t] = p /\ answer'[t] = Keeping(Away)
      /\ \A s \in Tabs \ {t} : page'[s] = page[s] /\ answer'[s] = answer[s]
  BY <1>2 DEF IInv, Typed
<1>8. Typed'
  <2>1. page' \in [Tabs -> Pages] /\ answer' \in [Tabs -> Answers]
    BY <1>2, <1>3, Sets DEF IInv, Typed
  <2> QED
    BY <1>2, <1>4, <1>6, <2>1 DEF IInv, Typed
<1>9. GoodTabs'
  <2>1. GoodAnswer(Keeping(Away), began[t], asked[t], ending[t], cancelled[t])
    BY EndPages, Sets DEF GoodAnswer
  <2>2. GoodTab(p, Keeping(Away), began[t], asked[t], ending[t], cancelled[t])
    <3>1. GoodPage(p, began[t], cancelled[t])
      BY <1>1, <1>3 DEF GoodAnswer
    <3> QED
      BY <2>1, <3>1, Sets DEF GoodTab, IInv, Typed
  <2>3. \A s \in Tabs \ {t} :
          GoodTab(page'[s], answer'[s], began[s], asked[s], ending[s], cancelled[s])
    BY <1>7 DEF IInv, GoodTabs
  <2> QED
    BY <1>2, <1>7, <2>2, <2>3 DEF GoodTabs
<1>10. LoggedOutIsLoggedOut'
  <2> SUFFICES ASSUME NEW s \in Tabs, ending[s] # NoSession,
                      page'[s].at \in {"upstream", "loggedOut", "back"}
               PROVE  cookie' # ending[s] \/ ending[s].id \in revived'
    BY <1>2 DEF LoggedOutIsLoggedOut
  <2>1. CASE s = t
    <3>1. cookie' = NoSession
      BY <1>1, <1>2, <1>3, <1>7, <2>1 DEF GoodAnswer
    <3> QED
      BY <2>1, <3>1
  <2>2. CASE s # t
    <3>1. cookie # ending[s] \/ ending[s].id \in revived
      BY <1>7, <2>2 DEF IInv, LoggedOutIsLoggedOut
    <3> QED
      BY <1>5, <1>6, <3>1
  <2> QED
    BY <2>1, <2>2
<1> QED
  BY <1>8, <1>9, <1>10 DEF IInv

-----------------------------------------------------------------------------
(* Theorems *)

LEMMA NextPreserves == ASSUME IInv, [Next]_vars PROVE IInv'
<1>1. ASSUME NEW t \in Tabs, UserStep(t) PROVE IInv'
  BY <1>1, OpenLoginPreserves, OpenLogoutPreserves, SignInsPreserve, CancelPreserves,
     SignInFailsPreserves, FormRefusedPreserves, ConfirmLogoutPreserves, FollowLinkPreserves,
     BrowsePreserves, LeavePreserves, LostPreserves DEF UserStep
<1>2. ASSUME NEW t \in Tabs, OwnStep(t) PROVE IInv'
  BY <1>2, ArrivePreserves, FollowPreserves, AuthorizeCallbackPreserves, FollowLinkPreserves
     DEF OwnStep, SigninRedirect, MetaRefresh, SignoutRedirect
<1>3. CASE UNCHANGED vars
  BY <1>3 DEF vars, history, IInv, Typed, GoodTabs, LoggedOutIsLoggedOut
<1> QED
  BY <1>1, <1>2, <1>3, ReturnFromUpstreamPreserves DEF Next

(* The invariant holds in every state of every behaviour.                  *)
THEOREM Invariance == Spec => []IInv
BY InitHolds, NextPreserves, PTL DEF Spec

(* The cookie, the pages and the answers have the shape the handlers give  *)
(* them: only native clients get the redirect page, and only a user who is *)
(* signed in gets the prompt.                                              *)
THEOREM Typing == Spec => []TypeOK
<1>1. Answers \subseteq [sets : BOOLEAN, cookie : Sessions, page : Pages]
  BY Sets DEF Answers
<1>2. IInv => TypeOK
  <2> SUFFICES ASSUME IInv PROVE TypeOK
    OBVIOUS
  <2>1. /\ cookie \in Sessions /\ ending \in [Tabs -> Sessions]
        /\ answer \in [Tabs -> [sets : BOOLEAN, cookie : Sessions, page : Pages]]
    BY <1>1, Sets DEF IInv, Typed
  <2> QED
    BY <2>1 DEF IInv, Typed, TypeOK
<1> QED
  BY <1>2, Invariance, PTL

(* However many tabs share the cookie, each goes back to the client its    *)
(* own sign-in or sign-out began at.                                       *)
THEOREM OwnClient == Spec => []ReturnsToItsClient
<1>1. IInv => ReturnsToItsClient
  <2> SUFFICES ASSUME IInv, NEW t \in Tabs
               PROVE  /\ page[t].at \in {"consent", "code", "denied", "back"} => page[t].target = began[t]
                      /\ Shows(t, "loggedOut") =>
                           IF HasLink(t) THEN page[t].target = began[t]
                                         ELSE began[t] \notin PostLogoutClients
    BY DEF ReturnsToItsClient
  <2>1. GoodPage(page[t], began[t], cancelled[t])
    BY DEF IInv, GoodTabs, GoodTab
  <2>2. {"none", "created"} \cap PostLogoutClients = {}
    BY AccountAssumption DEF Elsewhere
  <2> QED
    BY <2>1, <2>2 DEF GoodPage, Shows, HasLink
<1> QED
  BY <1>1, Invariance, PTL

(* A tab on LoggedOut is right about the session it was asked to end,      *)
(* unless a renewal brought that session back.                             *)
THEOREM LoggedOut == Spec => []LoggedOutIsLoggedOut
<1>1. IInv => LoggedOutIsLoggedOut
  BY DEF IInv
<1> QED
  BY <1>1, Invariance, PTL

(* The browser loses its session only through a sign-out that the user     *)
(* confirmed or a client asked for.                                        *)
THEOREM AskedSignOut == Spec => SignOutIsAsked
<1>1. IInv /\ [Next]_vars =>
        [SignedIn /\ ~SignedIn' =>
           \E t \in Tabs : Shows(t, "waiting") /\ asked[t] # "no" /\ ending[t] # NoSession]_vars
  <2> SUFFICES ASSUME IInv, Next, SignedIn, ~SignedIn'
               PROVE  \E t \in Tabs :
                        Shows(t, "waiting") /\ asked[t] # "no" /\ ending[t] # NoSession
    OBVIOUS
  <2>1. cookie' # cookie
    BY DEF SignedIn, CookieUser
  <2>2. PICK t \in Tabs : Arrive(t)
    BY <2>1 DEF Next, UserStep, OwnStep, OpenLogin, OpenLogout, SignOut, PasswordSignIn, ExternalSignIn,
                SignIn, Cancel, SignInFails, FormRefused, ConfirmLogout, FollowLink, Browse, Leave, Lost,
                SigninRedirect, MetaRefresh, Follow, AuthorizeCallback, SignoutRedirect,
                ReturnFromUpstream
  <2>3. IInv'
    BY NextPreserves
  <2>4. cookie' = NoSession
    BY <2>3 DEF SignedIn, CookieUser, IInv, Typed, GoodSessions
  <2>5. answer[t].sets /\ answer[t].cookie = NoSession
    BY <2>1, <2>2, <2>4 DEF Arrive
  <2>6. Shows(t, "waiting") /\ GoodAnswer(answer[t], began[t], asked[t], ending[t], cancelled[t])
    BY <2>2 DEF Arrive, Shows, IInv, GoodTabs, GoodTab
  <2> QED
    BY <2>5, <2>6 DEF GoodAnswer
<1> QED
  BY <1>1, Invariance, PTL DEF Spec, SignOutIsAsked

(* A user who cancels a sign-in gets the client a denial, if nobody signs  *)
(* in or out in another tab meanwhile: who is not signed in at every       *)
(* client, who is at one that asks for consent.                            *)
THEOREM CancelledIsDenied == Spec => CancelIsHonoured
<1>1. IInv /\ [Next]_vars =>
        [\A t \in Tabs :
           /\ Shows(t, "callback") /\ page'[t] # page[t]
           /\ page[t].target \in Clients /\ cancelled[t] = CookieUser
           /\ SignedIn => page[t].target \in ConsentClients
           => page'[t].at \in {"denied", "error", "away"}]_vars
  <2> SUFFICES ASSUME IInv, Next, NEW t \in Tabs,
                      Shows(t, "callback"), page'[t] # page[t],
                      page[t].target \in Clients, cancelled[t] = CookieUser,
                      SignedIn => page[t].target \in ConsentClients
               PROVE  page'[t].at \in {"denied", "error", "away"}
    OBVIOUS
  <2>1. GoodPage(page[t], began[t], cancelled[t]) /\ page[t].at = "callback"
    BY DEF Shows, IInv, GoodTabs, GoodTab
  <2>2. DenialCounts(page[t].target, page[t].who)
    <3>1. CookieUser # Unasked
      BY AccountAssumption DEF CookieUser, IInv, Typed, GoodSessions, Sessions, Nobody, Unasked
    <3> QED
      BY <2>1, <3>1 DEF GoodPage, DenialCounts
  <2>3. ASSUME AuthorizeCallback(t) PROVE page'[t].at \in {"denied", "error", "away"}
    <3>1. Authorized(page[t].target, page[t].who).at = "denied"
      BY <2>2 DEF Authorized, Page
    <3> QED
      BY <2>3, <3>1, Sets DEF AuthorizeCallback, Show, IInv, Typed
  <2>4. AuthorizeCallback(t) \/ page'[t] = page[t] \/ page'[t] = Away
    <3>1. ASSUME NEW s \in Tabs, UserStep(s) \/ OwnStep(s) \/ ReturnFromUpstream(s), s # t
          PROVE  page'[t] = page[t]
      BY <3>1 DEF UserStep, OwnStep, OpenLogin, OpenLogout, SignOut, PasswordSignIn, ExternalSignIn,
                  SignIn, Cancel, SignInFails, FormRefused, ConfirmLogout, FollowLink, Browse, Leave, Lost,
                  SigninRedirect, MetaRefresh, Follow, AuthorizeCallback, SignoutRedirect,
                  ReturnFromUpstream, Arrive, Show, Await, IInv, Typed
    <3>2. ASSUME UserStep(t) \/ OwnStep(t) \/ ReturnFromUpstream(t)
          PROVE  AuthorizeCallback(t) \/ page'[t] = Away
      BY <2>1, <3>2 DEF UserStep, OwnStep, OpenLogin, OpenLogout, PasswordSignIn, ExternalSignIn,
                  Cancel, SignInFails, FormRefused, ConfirmLogout, FollowLink, Browse, Leave, Lost,
                  SigninRedirect, MetaRefresh, Follow, SignoutRedirect,
                  ReturnFromUpstream, Arrive, Shows, Show, IInv, Typed
    <3> QED
      BY <3>1, <3>2 DEF Next
  <2> QED
    BY <2>2, <2>3, <2>4, Sets
<1> QED
  BY <1>1, Invariance, PTL DEF Spec, CancelIsHonoured
=============================================================================
