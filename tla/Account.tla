------------------------------ MODULE Account ------------------------------
(***************************************************************************)
(* The local account pages of the identity provider: Login, Logout,        *)
(* LoggedOut and Redirect, with the two scripts that send a tab on its     *)
(* way back to the client it came from.                                    *)
(*                                                                         *)
(* One browser has several tabs and one session cookie for all of them.    *)
(* The server keeps nothing between two requests: a handler works with     *)
(* the cookie its request was sent with, and the cookie it sets takes      *)
(* effect when its answer reaches the browser, after whatever other tabs   *)
(* have done in between.                                                   *)
(***************************************************************************)
EXTENDS Naturals

CONSTANTS Tabs, Users,
          Clients,            \* a client stands for its authorization request, too
          NativeClients,      \* clients whose redirect URI is not a web address
          ExternalOnly,       \* clients with no local login and one provider
          ConsentClients,     \* clients that ask for consent with every request
          PostLogoutClients,  \* clients that name where to go after sign-out
          IdpOf,              \* where a user signs in
          MaxSessions         \* bound: sign-ins in a behaviour

(* What a return URL, a logout id or a page is about, if not a client. *)
Elsewhere == {"none", "local", "foreign", "created"}
Nobody    == "nobody"
Unasked   == "unasked"

ASSUME AccountAssumption ==
  /\ Clients \cap Elsewhere = {}
  /\ NativeClients \cup ExternalOnly \cup PostLogoutClients \cup ConsentClients \subseteq Clients
  /\ {Nobody, Unasked} \cap Users = {}
  /\ IdpOf \in [Users -> {"local", "oidc", "other"}]
  /\ MaxSessions \in Nat

VARIABLES automatic,  \* LogoutOptions.AutomaticRedirectAfterSignOut, never assigned
          cookie,     \* the session of the browser
          signIns,    \* sessions handed out so far
          page,       \* per tab: what it shows
          answer,     \* per tab: the answer on its way to it
          began,      \* history: the client the tab's task began at
          asked,      \* history: how the sign-out of a tab was asked for
          ending,     \* history: the session a tab's sign-out request carried
          cancelled,  \* history: who pressed cancel in the tab's sign-in
          revived     \* history: sessions that were over and came back

history == <<began, asked, ending, cancelled, revived>>
vars    == <<automatic, cookie, signIns, page, answer, history>>

NoSession  == [id |-> 0, user |-> Nobody]
CookieUser == cookie.user
SignedIn   == CookieUser # Nobody

(* at: the page; target: the client or place it is about; who: on a form,  *)
(* the user it was made for, and on the way back from a cancelled sign-in, *)
(* the user the denial is stored for.                                      *)
Page(at, target, who) == [at |-> at, target |-> target, who |-> who]
Away    == Page("away", "none", Unasked)
Waiting == Page("waiting", "none", Unasked)
Error   == Page("error", "none", Unasked)

(* An answer: the cookie it sets, if it sets one, and the page. *)
Keeping(p)    == [sets |-> FALSE, cookie |-> NoSession, page |-> p]
Setting(c, p) == [sets |-> TRUE, cookie |-> c, page |-> p]

Init ==
  /\ automatic \in BOOLEAN
  /\ cookie    = NoSession
  /\ signIns   = 0
  /\ page      = [t \in Tabs |-> Away]
  /\ answer    = [t \in Tabs |-> Keeping(Away)]
  /\ began     = [t \in Tabs |-> "none"]
  /\ asked     = [t \in Tabs |-> "no"]
  /\ ending    = [t \in Tabs |-> NoSession]
  /\ cancelled = [t \in Tabs |-> Unasked]
  /\ revived   = {}

Shows(t, at) == page[t].at = at

(* The tab shows p at once. *)
Show(t, p) == page' = [page EXCEPT ![t] = p] /\ UNCHANGED answer

(* The tab has sent a request, and a is the answer to it. *)
Await(t, a) ==
  /\ page'   = [page EXCEPT ![t] = Waiting]
  /\ answer' = [answer EXCEPT ![t] = a]

(* The answer arrives: the browser takes its cookie and shows its page. *)
Arrive(t) ==
  /\ Shows(t, "waiting")
  /\ page'    = [page EXCEPT ![t] = answer[t].page]
  /\ answer'  = [answer EXCEPT ![t] = Keeping(Away)]
  /\ cookie'  = IF answer[t].sets THEN answer[t].cookie ELSE cookie
  /\ revived' = IF cookie' # cookie /\ \E u \in Tabs : ending[u] = cookie'
                  THEN revived \cup {cookie'.id} ELSE revived
  /\ UNCHANGED <<automatic, signIns, began, asked, ending, cancelled>>

(* The request or its answer is lost, or the user does not wait for it:    *)
(* the browser shows an error and takes no cookie.                         *)
Lost(t) ==
  /\ Shows(t, "waiting")
  /\ page'   = [page EXCEPT ![t] = Error]
  /\ answer' = [answer EXCEPT ![t] = Keeping(Away)]
  /\ UNCHANGED <<automatic, cookie, signIns, history>>

(* A form is accepted from the user it was made for only. *)
FormAccepted(t) == page[t].who = CookieUser

-----------------------------------------------------------------------------
(* Redirect/Index and the way back to a client *)

IsLocalUrl(url) == url \in Clients \cup {"local"}

RedirectPage(url, who) == IF IsLocalUrl(url) THEN Page("loading", url, who) ELSE Error

(* Mutant: every client taken for a native one. *)
ReturnToLoading(c, who) == RedirectPage(c, who)

(* LoadingPage for a native client, a redirect for another one. *)
ReturnTo(c, who) ==
  IF c \in NativeClients THEN RedirectPage(c, who) ELSE Page("callback", c, who)

(* signin-redirect.js, and the meta element it reads the URL from: each    *)
(* sends the tab to the return URL.                                        *)
Follow(t) ==
  /\ Shows(t, "loading")
  /\ Show(t, [page[t] EXCEPT !.at = "callback"])
  /\ UNCHANGED <<automatic, cookie, signIns, history>>
SigninRedirect(t) == Follow(t)
MetaRefresh(t)    == Follow(t)

-----------------------------------------------------------------------------
(* Login *)

LoginPage(url, user) ==
  IF url \in ExternalOnly THEN Page("challenge", url, Unasked) ELSE Page("login", url, user)

(* The authorization endpoint sends the tab to the login page, or the user *)
(* opens it, with any return URL.                                          *)
OpenLogin(t, url) ==
  /\ Shows(t, "away")
  /\ url \in Clients \cup (Elsewhere \ {"created"})
  /\ Show(t, LoginPage(url, CookieUser))
  /\ began'     = [began EXCEPT ![t] = url]
  /\ cancelled' = [cancelled EXCEPT ![t] = Unasked]
  /\ UNCHANGED <<automatic, cookie, signIns, asked, ending, revived>>

(* Mutant: back to the client without DenyAuthorizationAsync. *)
DeniedForgotten(url) == Keeping(ReturnTo(url, Unasked))

(* DenyAuthorizationAsync stores the denial for the user of the request. *)
Denied(url) == Keeping(ReturnTo(url, CookieUser))

(* OnPost with the cancel button.  The context is null without a valid     *)
(* authorization request in the return URL.                                *)
Cancel(t) ==
  /\ Shows(t, "login") /\ FormAccepted(t)
  /\ \/ page[t].target \in Clients /\ Await(t, Denied(page[t].target))
     \/ Await(t, Keeping(Page("home", "none", Unasked)))
  /\ cancelled' = [cancelled EXCEPT ![t] = CookieUser]
  /\ UNCHANGED <<automatic, cookie, signIns, began, asked, ending, revived>>

AfterSignIn(url) ==
  CASE url \in Clients -> ReturnTo(url, Unasked)
    [] url = "local"   -> Page("local", "none", Unasked)
    [] url = "none"    -> Page("home", "none", Unasked)

NewSession(u) == [id |-> signIns + 1, user |-> u]

(* The answer to a sign-in that succeeded sets a new session. *)
SignIn(t, u, p) ==
  /\ signIns < MaxSessions
  /\ signIns'   = signIns + 1
  /\ Await(t, Setting(NewSession(u), p))
  /\ cancelled' = [cancelled EXCEPT ![t] = Unasked]
  /\ UNCHANGED <<automatic, cookie, began, asked, ending, revived>>

(* OnPost with name and password.  An authorization request that is no     *)
(* longer valid leaves a local URL, which is followed all the same.        *)
PasswordSignIn(t, u) ==
  LET url == page[t].target IN
  /\ Shows(t, "login") /\ FormAccepted(t)
  /\ IdpOf[u] = "local"
  /\ url # "foreign"
  /\ \/ SignIn(t, u, AfterSignIn(url))
     \/ url \in Clients /\ SignIn(t, u, Page("callback", "none", Unasked))

(* Wrong credentials, and an exception after the sign-in (no user any      *)
(* more, a foreign return URL, a failing event): no cookie is set.         *)
SignInFails(t) ==
  /\ Shows(t, "login") /\ FormAccepted(t)
  /\ \E p \in {LoginPage(page[t].target, CookieUser), Error} : Await(t, Keeping(p))
  /\ cancelled' = [cancelled EXCEPT ![t] = Unasked]
  /\ UNCHANGED <<automatic, cookie, signIns, began, asked, ending, revived>>

(* An external provider, chosen on the page or the only one: Challenge and *)
(* Callback, as in ExternalLogin.tla.                                      *)
ExternalSignIn(t, u) ==
  /\ page[t].at \in {"login", "challenge"}
  /\ IdpOf[u] # "local"
  /\ page[t].target # "foreign"
  /\ SignIn(t, u, AfterSignIn(page[t].target))

(* A form made for somebody else is refused, on both pages. *)
FormRefused(t) ==
  /\ page[t].at \in {"login", "prompt"} /\ ~FormAccepted(t)
  /\ Show(t, Error)
  /\ UNCHANGED <<automatic, cookie, signIns, history>>

(* A denial counts for the user it was stored for: at once where nobody is *)
(* signed in, otherwise where the consent it stands for is asked for.      *)
DenialCounts(c, who) == who = CookieUser /\ (SignedIn => c \in ConsentClients)

Authorized(c, who) ==
  CASE DenialCounts(c, who) -> Page("denied", c, Unasked)
    [] ~DenialCounts(c, who) /\ ~SignedIn -> LoginPage(c, Nobody)
    [] ~DenialCounts(c, who) /\ SignedIn ->
         Page(IF c \in ConsentClients THEN "consent" ELSE "code", c, Unasked)

(* The authorization endpoint, back from the login page: denied, or to the *)
(* login page again, or to Consent (Consent.tla) or the client.  A request *)
(* that is not valid ends there.                                           *)
AuthorizeCallback(t) ==
  LET c == page[t].target IN
  /\ Shows(t, "callback")
  /\ \/ c \in Clients /\ Show(t, Authorized(c, page[t].who))
     \/ Show(t, Error)
  /\ UNCHANGED <<automatic, cookie, signIns, history>>

-----------------------------------------------------------------------------
(* Logout *)

(* Mutant: no prompt unless the client is unknown. *)
NeverPrompt == FALSE

ShowLogoutPrompt == TRUE

(* The prompt is skipped for nobody and for a client's authenticated       *)
(* request.                                                                *)
PromptNeeded(id) == ShowLogoutPrompt /\ SignedIn /\ id \notin Clients

(* Mutant: always a context of its own. *)
AlwaysCreated(id) == "created"

(* LogoutId ??= CreateLogoutContextAsync *)
LogoutContext(id) == IF id = "none" THEN "created" ELSE id

LoggedOutPage(id) == Page("loggedOut", id, Unasked)

(* Mutant: the external provider first, the cookie on the way back. *)
UpstreamFirst(id) ==
  IF IdpOf[CookieUser] = "oidc"
    THEN Keeping(Page("upstream", LogoutContext(id), Unasked))
    ELSE Setting(NoSession, LoggedOutPage(LogoutContext(id)))

(* SignOutAsync, then the provider's sign-out page if it has one. *)
SignedOut(id) ==
  Setting(NoSession,
          IF IdpOf[CookieUser] = "oidc"
            THEN Page("upstream", LogoutContext(id), Unasked)
            ELSE LoggedOutPage(LogoutContext(id)))

(* OnPost, also called by OnGet.  An event that fails after SignOutAsync   *)
(* resets the answer: the session stays.                                   *)
SignOut(t, id) ==
  /\ \/ Await(t, IF SignedIn THEN SignedOut(id) ELSE Keeping(LoggedOutPage(id)))
     \/ SignedIn /\ Await(t, Keeping(Error))
  /\ ending' = [ending EXCEPT ![t] = cookie]
  /\ UNCHANGED <<automatic, cookie, signIns, cancelled, revived>>

(* OnGet: the user follows a link without a logout id, or the end session  *)
(* endpoint has accepted the request of a client.                          *)
OpenLogout(t, id) ==
  /\ Shows(t, "away")
  /\ id \in Clients \cup {"none"}
  /\ began' = [began EXCEPT ![t] = id]
  /\ asked' = [asked EXCEPT ![t] = IF id \in Clients THEN "client" ELSE "no"]
  /\ \/ ~PromptNeeded(id) /\ SignOut(t, id)
     \/ /\ PromptNeeded(id)
        /\ Show(t, Page("prompt", id, CookieUser))
        /\ UNCHANGED <<automatic, cookie, signIns, ending, cancelled, revived>>

(* OnPost from the prompt. *)
ConfirmLogout(t) ==
  /\ Shows(t, "prompt") /\ FormAccepted(t)
  /\ asked' = [asked EXCEPT ![t] = "user"]
  /\ SignOut(t, page[t].target)
  /\ UNCHANGED began

(* The external provider sends the tab back to LoggedOut. *)
ReturnFromUpstream(t) ==
  /\ Shows(t, "upstream")
  /\ Show(t, LoggedOutPage(page[t].target))
  /\ UNCHANGED <<automatic, cookie, signIns, history>>

(* The PostLogoutRedirectUri of the logout context, a link on LoggedOut. *)
HasLink(t) == page[t].target \in PostLogoutClients

FollowLink(t) ==
  /\ Shows(t, "loggedOut") /\ HasLink(t)
  /\ Show(t, Page("back", page[t].target, Unasked))
  /\ UNCHANGED <<automatic, cookie, signIns, history>>

(* Mutant: the test for the link the wrong way round. *)
SignoutRedirectInverted(t) ==
  /\ automatic /\ Shows(t, "loggedOut") /\ ~HasLink(t)
  /\ Show(t, Error)
  /\ UNCHANGED <<automatic, cookie, signIns, history>>

(* signout-redirect.js, on a page that has it *)
SignoutRedirect(t) == automatic /\ FollowLink(t)

-----------------------------------------------------------------------------
(* The rest of the site and of the browser *)

(* Any other page: the answer may renew the session its request came with. *)
Browse(t) ==
  /\ Shows(t, "away")
  /\ SignedIn
  /\ Await(t, Setting(cookie, Away))
  /\ UNCHANGED <<automatic, cookie, signIns, history>>

(* The user leaves the page, or closes the tab and opens another. *)
Leave(t) ==
  /\ page[t].at \notin {"away", "waiting"}
  /\ Show(t, Away)
  /\ began'     = [began EXCEPT ![t] = "none"]
  /\ asked'     = [asked EXCEPT ![t] = "no"]
  /\ ending'    = [ending EXCEPT ![t] = NoSession]
  /\ cancelled' = [cancelled EXCEPT ![t] = Unasked]
  /\ UNCHANGED <<automatic, cookie, signIns, revived>>

UserStep(t) ==
  \/ \E url \in Clients \cup Elsewhere : OpenLogin(t, url) \/ OpenLogout(t, url)
  \/ \E u \in Users : PasswordSignIn(t, u) \/ ExternalSignIn(t, u)
  \/ Cancel(t) \/ SignInFails(t) \/ FormRefused(t)
  \/ ConfirmLogout(t) \/ FollowLink(t) \/ Browse(t) \/ Leave(t) \/ Lost(t)

OwnStep(t) ==
  \/ Arrive(t) \/ SigninRedirect(t) \/ MetaRefresh(t)
  \/ AuthorizeCallback(t) \/ SignoutRedirect(t)

Next == \E t \in Tabs : UserStep(t) \/ OwnStep(t) \/ ReturnFromUpstream(t)

(* Answers, endpoints and scripts go on by themselves; the user and the    *)
(* external provider need not.                                             *)
Spec == Init /\ [][Next]_vars /\ \A t \in Tabs : WF_vars(OwnStep(t))

-----------------------------------------------------------------------------
(* Properties *)

Sessions == [id : 0 .. MaxSessions, user : Users \cup {Nobody}]
PageSet  == [at : {"away", "waiting", "error", "home", "local", "login",
                   "challenge", "loading", "callback", "consent", "code", "denied", "prompt",
                   "upstream", "loggedOut", "back"},
             target : Clients \cup Elsewhere,
             who : Users \cup {Nobody, Unasked}]
Pages    == {p \in PageSet : /\ p.at \in {"consent", "code", "denied"} => p.target \in Clients
                             /\ p.at = "loading" => p.target \in NativeClients
                             /\ p.at = "prompt" => p.who \in Users}

(* The cookie, the pages and the answers have the shape the handlers give  *)
(* them: only native clients get the redirect page, and only a user who is *)
(* signed in gets the prompt.                                              *)
TypeOK ==
  /\ automatic \in BOOLEAN
  /\ cookie    \in Sessions
  /\ signIns   \in 0 .. MaxSessions
  /\ page      \in [Tabs -> Pages]
  /\ answer    \in [Tabs -> [sets : BOOLEAN, cookie : Sessions, page : Pages]]
  /\ began     \in [Tabs -> Clients \cup Elsewhere]
  /\ asked     \in [Tabs -> {"no", "client", "user"}]
  /\ ending    \in [Tabs -> Sessions]
  /\ cancelled \in [Tabs -> Users \cup {Nobody, Unasked}]
  /\ revived   \in SUBSET (0 .. MaxSessions)

(* However many tabs share the cookie, each goes back to the client its    *)
(* own sign-in or sign-out began at: with a code or a denial after login,  *)
(* and on LoggedOut with a link to that client, if it names one, and to no *)
(* other (Login/Index.cshtml.cs:72-109, Logout/Index.cshtml.cs:70-98).     *)
ReturnsToItsClient ==
  \A t \in Tabs :
    /\ page[t].at \in {"consent", "code", "denied", "back"} => page[t].target = began[t]
    /\ Shows(t, "loggedOut") =>
         IF HasLink(t) THEN page[t].target = began[t] ELSE began[t] \notin PostLogoutClients

(* A tab that says "You are now logged out" after a sign-out, or is at the *)
(* external provider to go on with it, is right about the session it was   *)
(* asked to end, whatever sign-ins answer in between; only the renewal of  *)
(* that very session, sent before and answered after, brings it back       *)
(* (LoggedOut.cshtml:7, Logout/Index.cshtml.cs:73).                        *)
LoggedOutIsLoggedOut ==
  \A t \in Tabs :
    page[t].at \in {"upstream", "loggedOut", "back"} /\ ending[t] # NoSession =>
      cookie # ending[t] \/ ending[t].id \in revived

(* The browser loses its session only through a sign-out that the user     *)
(* confirmed on the prompt or a client asked for, sent while signed in     *)
(* (Logout/Index.cshtml.cs:36-58).                                         *)
SignOutIsAsked ==
  [][SignedIn /\ ~SignedIn' =>
       \E t \in Tabs : Shows(t, "waiting") /\ asked[t] # "no" /\ ending[t] # NoSession]_vars

(* A user who cancels a sign-in gets the client an access denied error,    *)
(* and neither another login or consent page nor a code, unless somebody   *)
(* signs in or out in another tab before this one is back: for a user who  *)
(* is not signed in at every client, for one who is where consent is asked *)
(* for (Login/Index.cshtml.cs:67-82).                                      *)
CancelIsHonoured ==
  [][\A t \in Tabs :
       /\ Shows(t, "callback") /\ page'[t] # page[t]
       /\ page[t].target \in Clients /\ cancelled[t] = CookieUser
       /\ SignedIn => page[t].target \in ConsentClients
       => page'[t].at \in {"denied", "error", "away"}]_vars

(* Nobody is left on a page that only passes through: an answer arrives,   *)
(* the redirect page goes on, and LoggedOut returns to the client where    *)
(* the script is on (signin-redirect.js, signout-redirect.js).             *)
InTransit(t) ==
  \/ page[t].at \in {"waiting", "loading", "callback"}
  \/ automatic /\ Shows(t, "loggedOut") /\ HasLink(t)
NobodyIsStranded == \A t \in Tabs : InTransit(t) ~> ~InTransit(t)
=============================================================================
