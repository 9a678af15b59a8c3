# OAuthClientAssertionsPerInstance in TLA+

The repository implements OAuth client authentication with one key per
application instance. A console program generates a key, registers the public
key with the identity provider (`Idp`), gets an `auth_session` for it, and from
then on authenticates its token requests with client assertions signed with
that key and naming that session. This directory models the protocol and the
server code it runs through, the pages of the identity provider included,
model-checks it with TLC and proves its invariants with TLAPS.

## 1. Inventory

Paths are relative to the repository's `src/` directory.

| Component | State | Operations | Talks to |
|---|---|---|---|
| `Idp/PublicKeyService.cs` | one static `Dictionary` from session to (key, alg), shared by all requests, never cleaned | `CreateSession`, `GetPublicKey`, `GetPublicSecurityKey` | called by the registration controller, the secret validator, the onboarding service |
| `Idp/Controllers/DeviceRegistrationController.cs` | none of its own | `CreateAuthSessionAsync` (three guards, session, signed token, response), error response | store; answers the console programs |
| `ConsolePerInstanceAssertionES256`, `..RS256`: `KeySessionService`, `Program`, `ClientAssertionService` | static cache (session, signing key); client scopes fixed at startup | `CreateGetSessionAsync`, `CreateHostBuilder`, `GetClientAssertionAsync` | registration endpoint, discovery, token endpoint |
| same: `DPoPClient` | none | request loop: onboarding call, values call, 5 s pause | token endpoint, both APIs |
| `Idp/PerInstancePrivateKeyJwtSecretValidator.cs` | the framework's replay cache | `ValidateAsync` | store, form scope, replay cache |
| `Idp/ParameterizedScopeParser.cs`, `Idp/Config.cs` | none | `ParseScopeValue`; clients and scopes | the framework's resource validation |
| `Idp/Controllers/AuthorizationChallengeRequestController.cs`, `Idp/OnboardingUserService.cs` | none (the database is a TODO) | the three onboarding steps | store, access token |
| `DPoPApiDefault` | two static header policies, built on first use | `GET api/values` | access token |
| `Idp/Pages/ExternalLogin` | ASP.NET Identity's database, two cookies | `Challenge`, `Callback` | external provider, the framework |
| `Idp/Pages/Account`, `Idp/Pages/Redirect`, `Idp/wwwroot/js` | the session cookie of the browser | login, cancel, logout, the way back to a client | the framework, external provider, scripts in the browser |
| `Idp/Pages/Consent`, `Idp/Pages/Device`, `Idp/Pages/Ciba` | the framework's interactions: authorization request, device code, login request | show the scopes, record a decision | the framework, audit events |
| `Idp/Pages/Grants`, `Home`, `Diagnostics`, `Idp/CustomTokenCreationService.cs`, hosting, migrations, `GenerateCertificate` | - | - | - |

What makes each of them correct:

* the store: a session is found with the key it was created for, never with
  another, until the process stops;
* registration: device and provider agree on which key a session stands for,
  no two devices share a session, and starting a device does not hang;
* token requests: scope, assertion and stored key speak of one session, the
  key read early is still right when used late, and an assertion once
  recorded is never accepted again;
* scopes: the three parsers of the `auth_session` scope agree;
* the running device: the APIs serve it for its own key only, and no failure
  stops its loop;
* external login: one account per external identity, and nobody is signed in
  as a half-provisioned user;
* header policies: a half-built policy is completed, whoever builds it, unless
  two requests insert into it at the same time;
* local login and logout: every tab returns to the client it came from, a
  sign-out ends the session it was asked to end and happens only when asked
  for, a cancelled sign-in gets the client a denial, and no tab is stranded;
* consent: what is recorded was announced, by and for the right user, a grant
  is not empty, and the form shows what the user chose.

What is hard: requests of ASP.NET Core run in parallel on one unsynchronised
static cache, a `Dictionary` that is not made for it; handlers await between reading and using shared state; the
provider's memory, sessions and replay cache alike, is lost in a restart while
clients go on; answers are lost, late or duplicated; entries expire while
requests are in progress; the tabs of a browser share one cookie, which changes
when an answer arrives, not when it is made. `PROJECT.json` lists each hazard at its line.

## 2. Modules

| Module | What it is |
|---|---|
| `SessionStore` | abstract specification: what the rest of the provider relies on |
| `PublicKeyService` | the store at the grain of the steps of `Dictionary.Add`, with buckets, chains and growth; refines `SessionStore` as long as no requests have overlapped |
| `Enrolment` | abstract specification: a device gets its session in one step |
| `DeviceRegistration` | console programs, network and registration controller; uses `SessionStore` through INSTANCE; refines `Enrolment` |
| `ClientAuthentication` | abstract specification: a token request is granted in one step |
| `TokenEndpoint` | secret validator, replay cache, clock, restarts; uses `SessionStore` through INSTANCE; refines `ClientAuthentication` |
| `ScopeValues` | one scope parameter through validator, scope parser and API controllers |
| `DeviceFlow` | the running device: request loop, token cache, both APIs, restarts on both sides; uses `SessionStore` through INSTANCE |
| `ExternalDirectory` | abstract specification: one account per external identity |
| `ExternalLogin` | challenge, callback and provisioning; refines `ExternalDirectory` |
| `SecurityHeaders` | the lazily built header policy under overlapping requests, with the slots of its `Dictionary` |
| `Account` | Login, Logout, LoggedOut and Redirect with their scripts: several tabs, one cookie |
| `Consent` | the consent, device and back-channel login pages: several tabs and users, one interaction |
| `PublicKeyServiceProofs`, `DeviceRegistrationProofs`, `TokenEndpointProofs`, `DeviceFlowProofs`, `ExternalLoginProofs`, `ValuesApiProofs` (of `ScopeValues` and `SecurityHeaders`), `AccountProofs`, `ConsentProofs` | theorems |
| `MC*` | model-checking definitions: symmetry, values of structured constants |

### PublicKeyService

A *thread* is a request inside `CreateSession`. What is found afterwards depends
on the `Dictionary` behind it, so the model has its parts: an array of entries
with a length, a `next` field in each entry, an array of buckets with the heads
of the chains, and the count. A growth makes new arrays, which are named by the
session whose `Add` made them; calls that hold references to old arrays go on
writing to those.

* `BeginAdd` draws the session, takes the references and walks the chain of the
  bucket (in a ring, `Ends`, the real one throws and the request fails; nothing
  changes, so the action is just not enabled).
* `PickSlot` takes the slot after the count it reads, and decides whether to grow.
* `GrowCopy` and `GrowPublish` are the two halves of `Resize`: copy the entries
  and publish *empty* buckets; link the copies to the buckets in use and publish
  the entries.
* `PublishCount` publishes the count and takes the array in use by then; a slot
  beyond its end throws.
* `WriteKey` writes link and key of the entry, `WriteValue` its value and the
  head of its bucket, and returns.
* `GetPublicKey` walks the chain of the session's bucket. `Chain` is the least
  set of slots closed under the links.

Between these steps other threads run. The outcomes: two calls in one slot, a
key with another call's value, a count that goes backwards, an entry in an array
no longer in use, a chain cut or closed to a ring because two calls that share a
slot leave two bucket heads pointing at one entry with one link. So an entry that
was stored without any overlap can become unfindable through a race of two later
calls. What such a race cannot take from it is its slot and its key
(`UncontendedEntryStays`), and the next growth that overlaps nothing links all
entries anew (`GrowthMends`). The history variables `returned`, `overlapped` and
`serial` remember which sessions were returned, which calls overlapped others,
and whether any did since the process started. `StoreWhileSerial` is the
refinement: until the first overlap every step is a step of `SessionStore` or a
stutter, a call counting as `Create` when it returns.

Coarser than the code: the second half of `Resize` is one step, and so are link
and key of an entry. Not in the model: the hash codes within a bucket, the free
list (nothing is ever removed), and the `Alg` component of the value, which is
stored and never read. `BucketOf` and `Expand` are any hash function and any
sequence of lengths. The other modules use the atomic `SessionStore`: what they
show is about a provider whose registrations come one at a time, and a lookup in
the middle of a growth, which may miss every session for a moment, is in this
module only.

### DeviceRegistration

Each device is an installation of a console program; `Alg` says which of the
two. `proc` is the process (`off`, `starting` while `CreateHostBuilder` blocks,
`running`), `call` its run of `CreateGetSessionAsync`, `cached` the static
cache, `scope` the session in the configured client scopes. `Start` ...
`ConfigureClients` follow the code up to the next await; every failure is an
exception that nobody catches, hence `Ends`. On the server, `RefuseRegistration`
is the three guards, `CreateSession` the part before the await of the signing
credentials, `Respond` and `Abort` what can follow it. An *attempt* stands for
one run of the client's random generators: key, state and nonce are named by
it. Of the signed token the model keeps session and nonce; its signature is
trusted, its validity period is the nondeterminism of `DiscoveryFails`.

The network never removes a message, so any message may be lost, late,
duplicated, or delivered to a call it was not meant for. This allows more than
HTTP connections do; what holds here holds for them. `OtherPost` is any other
program that posts to the open endpoint.

`Enrolment` is what all of this amounts to. A device generates one key per
process (`Generate`), the provider creates sessions for keys that somebody
generated (`CreateFor`), and a device enrols once, for a session created for the
key its process holds (`Enrol`); a key that ended with its process (`Leave`) is
nobody's, so late answers to it are void. `RegistersAtOnce` is the refinement:
`KeyOf` is the key of the call, then that of the cache, `Enrol` takes place when
`Discovered` fills the cache, and messages, handlers and rejected answers are
not seen.

### TokenEndpoint

A request goes `received` (l. 54-68), `keyed` (key selected, scope compared, up
to the await of the issuer name), `validated` (token validated), `new` (lookup
done) and `accepted`; `refused` is the validator's `fail`, `failed` an exception
or a stopped process. Assertions are signed by anyone for any session with any
key; `wellFormed` is the rest of the claims. The clock moves with `Tick`.
`MaxDelay` is an assumption about the run time: the lookup comes at most that
long after the validation. `TimeAssumption` asks for
`ClockSkew + MaxDelay < ReplayGrace`; in the code 10 s plus the delay against
5 minutes. Clocks of client and server are one; an assertion may name any
expiry up to the lifetime. A restart empties sessions and replay cache together,
because both live in the process (`IReplayCache` is the framework's default
over an in-memory distributed cache).

`ClientAuthentication` has sessions that come and go (`StoreStep`) and tokens:
`Grant` gives a request, once, a token for a session and the key it is bound to
at that moment. `AnswersAtOnce` is the refinement: the accepted requests are
the tokens, and `RecordJti` is `Grant`, although the key was read three awaits
earlier. It is a refinement because nothing but a restart takes a session from
the store, and a restart takes the requests in progress along; an eviction of
sessions would break it (the mutant `RestartBelowRequests`).

### ScopeValues

Scope values are sequences of the segments between colons, and a segment is a
sequence of pieces of text, one of which is the name `auth_session`: a segment
can start with it or end in it. The validator and the controllers take the first
value that *starts with* `auth_session` and delete the text `auth_session:`
wherever it stands (`WithoutName`), so also the end of a longer segment together
with its colon (`Joined`). The scope parser splits at colons, drops empty parts
and wants exactly two. All three pick values by a condition (`Only`). `Grant`
stands for the framework: values in error or outside the client's allowed scopes
end the request, the others become scope claims as they were written.
`ReadersAgree` is claimed for parameters with at most one `auth_session` value,
which the TODO at line 78 of the validator leaves to the client. One exception is
in it: of a value like `auth_session:AC7Eauth_session:` the validator and the
controllers read `AC7E`, the scope parser `AC7Eauth_session` (`LongNamed`).

### DeviceFlow

A *run* is one process of a device, with the key it drew. `Boot` is startup with
a successful registration (`DeviceRegistration` has the ways it fails). The loop
of `ExecuteAsync` makes two calls, and each goes `token` (the HTTP client looks
for a cached token), `sent`, and, when the API rejects it, `renew` and `resent`:
one retry with a renewed token. `Authenticates` is what `TokenEndpoint` says
about a device's own assertion. `Continue` ignores what the answers were, as the
code does; an exception is `Stop`, because a failing background service stops
its host. `CreateGetSessionAsync` at the top of each turn finds its cache filled
and changes nothing. `Onboard` covers the steps of the onboarding API that the
console programs do not call. An access token names the session in its scope
claim and is valid until it expires, also after a restart of the provider. The
grant of a token and its arrival at the device are one step (`RequestToken`): a
token that was granted before a restart and arrives after it is, here, one that
arrived before.

### ExternalLogin

A *request* is one run of `Callback.OnGet`, a user is named by its GUID. `Init`
... `SignIn` follow the code from one database call to the next; each save is
one transaction (`UserManager`), the sequence of them is not. `AddLogin` fails
when the login exists, because `(LoginProvider, ProviderKey)` is the primary key
of `AspNetUserLogins`. `Fail` is the exception after any unsuccessful save, the
aborted request, the lost response or the end of the process: what was saved
stays. Both cookies change in the browser when the response arrives. `Challenge`
includes the provider's answer; a second tab may replace the temporary cookie at
any time, which is why `OnGet` reads it into the call. The repository configures
no external provider; the module is about the pages with any provider. Left out:
the email, the tokens and the session id kept for logout, and the return URL.

### SecurityHeaders

A policy is named by the request that created it. `Create` assigns the static
field a policy with the headers of the first chain of calls (`base`). The two
statements that add a header to it read the field again (`ReadField`), and
insert into a `Dictionary`, as `Add` of the session store does: look for the
header (`Find`), take the slot after the count (`TakeSlot`), count it
(`CountSlot`), fill it (`WriteSlot`). Two requests that do this to one policy at
a time can share a slot, and the header that is overwritten is lost for good:
from then on the policy is in `raced`, and its chains may lead a lookup astray,
for which `Find` allows every outcome. `PolicyIsCompleted` is about the policies
without such a race: there, replacing each other's policies and adding to them in
turn does no lasting harm. `Apply` stands for the middleware, which enumerates
the slots in use and may throw when one is filled meanwhile or not filled yet.
The dictionary does not grow here: the eight headers of the first chain leave it
17 entries, and two for each of the requests of a run fit in. The classes for the
API and for Swagger have the same statements.

### Account

A *tab* is one window of the browser; all tabs share `cookie`. The server keeps
nothing between two requests of these pages, so a handler is one step: `Await`
puts its answer on the way (page and, if it sets one, the new cookie), `Arrive`
delivers it, after whatever other tabs did meanwhile, or it is `Lost`: the tab
shows an error and no cookie is set. A page is named by what it
is (`at`), the client or place it is about (`target`: return URL, logout id), and
for whom it was made (`who`: a form is accepted from that user only, a denial
counts for that user only). `OpenLogin` is the authorization endpoint's redirect
or the user's own visit, with any return URL; `Cancel`, `PasswordSignIn` and
`SignInFails` are `OnPost`, with the exceptions after a sign-in (no user found, a
foreign return URL, a failing event sink) among the failures: they set no cookie.
`OpenLogout` is `OnGet` of Logout, which calls `OnPost` (`SignOut`) when there is
nothing to ask; `ConfirmLogout` is the post from the prompt; a logout event that
fails after `SignOutAsync` is an error page without a new cookie.
`AuthorizeCallback` is the framework: a stored denial counts at once where nobody
is signed in, and for a signed-in user where the consent it stands for is asked
for (`DenialCounts`, `ConsentClients`); otherwise such a user gets a code. `SigninRedirect` and
`MetaRefresh` (Redirect/Index) and `SignoutRedirect` are the scripts in the
browser; `LogoutOptions.AutomaticRedirectAfterSignOut` is a static field that the
code never assigns, and the model takes both values, although it is never on
today. `Browse` is any other page,
whose answer may renew the session (sliding expiration): sent before a sign-out
and answered after it, it brings the session back, which `revived` remembers and
`LoggedOutIsLoggedOut` excepts. Left out: lockout, the remembered login and the
expiry of the cookie (ASP.NET Identity); the sign-out iframe, which only delays the
load event that `SignoutRedirect` waits for.

### Consent

One interaction, of one of three `kind`s, is open to several tabs and users. A
POST reads the interaction (`Post`, with `Found` for what the page tests), raises
its event (`Announce`) and records its decision (`Record`), an await each;
without a decision it goes to `Redisplay`. The pages differ in what they look up,
in what `RecordOf` the framework keeps, and in what they make of a refusal
(`RefusalPasses`). `Use` and `Expire` are the framework: the decision is taken
off the record, the interaction ends. `Abort` is the aborted request or the
failing event sink at any await. Offered and filtered scopes go by the options of
the three pages (`EnableOfflineAccess`), static fields that a host may set and
that are on by default: `optionOn` is the set of pages whose option is on, any
set. The device page offers by its own option and filters by that of the consent
page (`FilteringKind`). An unknown user code brings the form to type it in again,
where the device page starts; the other pages go to the error page.
`Rechecked` is the form after a POST without a decision. History: `latest`, the
decision a user announced last, and `disturbed`, the users whose POSTs overlapped
or broke off between event and record. The repository configures no client for
these pages yet; the module is about the pages with any client. Left out:
remembering the consent, descriptions, resource indicators.

## 3. Runs

| Run | Shows |
|---|---|
| `store_overlap` | 4 sessions of which 2 requests may be in progress, 2 buckets, arrays of 0, 2 and 5 slots: the entry of a call that overlapped no other stays, growth makes it findable again, and before the first overlap the dictionary implements `SessionStore` |
| `store_lost` (violation) | 2 overlapping requests: a returned session is not found |
| `registration` | 2 devices, 3 startups, 2 sessions, forms of others: agreement on keys, assertions match scopes, `Enrolment` is implemented, startup ends |
| `token_endpoint` | 2 requests, 1 assertion that may come twice, 2 sessions and keys, clock to 5: no late acceptance of a recorded assertion, accepted requests are the device's, `ClientAuthentication` is implemented |
| `token_duplicates` (violation) | two overlapping requests with one assertion are both accepted |
| `scope_readers` | scope parameters of one or two values of up to three segments, with and without the name at either end of one: the readers agree |
| `device_flow` | 2 devices, 2 runs, 2 sessions: requests are served for the run that sent them and its key; a lost session stays lost and its device ends without tokens; the loop goes on |
| `external_login` | 3 callbacks, 2 identities, 2 browsers: browsers are signed in as themselves, logins are complete, the directory is implemented |
| `headers_completion` | 3 first requests: the policy in the field is completed unless two insert into it at a time |
| `headers_responses` (violation) | a response without all headers |
| `account` | 2 tabs, 2 users (local, and of a provider that supports sign-out), 3 clients (web, native with consent, external provider only), 2 sign-ins: where tabs end up, what becomes of the session, cancelled means denied, nobody is stranded |
| `consent` | 3 POSTs of 3 tabs, 2 users, either of two requests for scopes, all three pages, options on or off: events, decisions and records agree; forms keep choices; success is honest |

Bounds. Two overlapping actors suffice for every race here, and a third (or a
later call, session or attempt) shows what remains after the race. In
`store_overlap` the sessions are one that is settled alone, two that race for a
slot from different buckets and so cut the chain of the first, and one whose call
makes the dictionary grow afterwards; three sessions have one bucket, so that there
are chains to cut. In `headers_completion` each of three requests can add two
headers, which fit into six slots. Three
startups give one device a late answer of its own earlier process while another
device is up. The clock of `token_endpoint` reaches beyond expiry plus grace of
an assertion signed at the start (1 + 3 < 5), so that an entry expires while a
second request is around. Two runs in `device_flow` are two devices, or one that
starts again, on either side of a restart of the provider. In `external_login`
one identity has a name claim and one has none; a third callback comes after two
that met. In `account` one tab is between its answers while the other signs in
or out; with two sessions an old one can come back after a newer one. In
`consent` three POSTs are two that overlap and one before or after; the tabs of
one user are symmetric, the third tab is the other user's, and the scopes are one
of each sort, a required one among them. Symmetry is used for invariants and
action properties only.

Fairness. `DeviceRegistration`: weak fairness of a device's own next step,
justified by the timeout of `HttpClient` (both the post and the fetch of the
discovery document end by themselves); none of the network, the provider or
restarts. `DeviceFlow`: the same for the loop, and every access token expires,
because it has a lifetime; startups, restarts and other programs owe nothing.
`Account`: weak fairness of what goes on without the user (an answer
arrives or is given up, an endpoint of the provider answers, a script or meta element runs); the
user and the external provider owe nothing. The other modules need none.

`CHECK_DEADLOCK` is off where devices run out of attempts, or requests and
sessions are bounded: a bounded system may stop. `account` and `consent` check
it, a tab can always be left.

## 4. Proofs

`PublicKeyServiceProofs`. `Typing` proves `TypeOK`. `UncontendedEntries` proves
that an entry stored by a call that no other overlapped stays, for any number of
threads, slots, buckets and growths. The property is not inductive: the invariant
`IInv` adds that a session belongs to one call or one entry (`OneOwner`), that a
call not overlapped is the only one and nobody touched what it wrote
(`Undisturbed`), that settled entries lie below the count and below every slot a
call can still write to, in every array that is or may come into use
(`EntriesStay`), and that a copy under way has them all (`Copied`); `EntriesStay`
is what survives a count that goes backwards. `Mending` proves `GrowthMends` from
the same invariant and two lemmas about linking entries one after the other: the
chain of a bucket then has all of its entries (`ChainHasAll`) and no others
(`ChainHasOnly`), so the walk finds what a scan of the slots would
(`LookupIsScan`). `ImplementsStore` proves the refinement: `SInv` says that before
the first overlap the entries are linked in their order (`InOrder`), the heads
are the last ones of their buckets, and the call in progress writes to the slot
after them (`Orderly`). What the lookups find is then what a scan of the linked
entries finds (`Bindings`); `WriteValue` is `Create`, `Restart` is `Forget` and
the other steps stutter, the two halves of a growth included. Assumptions:
`CapacityAssumption`, `NullAssumption`, `BucketAssumption`, `ExpandAssumption`.

`DeviceRegistrationProofs`. `Typing` proves `TypeOK` (with
`RunningIsRegistered`, which the type of assertions rests on: a running program
never registers again). `CacheIsRight`, `SessionsAreNotShared` and
`AssertionsAreRight` prove the three safety properties, for any number of
devices, attempts and sessions. None is inductive: a cached session is right
because the answer was, and the answer because the request was. `IInv` follows
that chain: requests carry the secrets of one run of the generators
(`RequestsMatch`), answers name a session created for the key that came with
their state and nonce (`AnswersMatch`), a call past its answer and a cache hold
such a session and a key the device itself drew (`CallsMatch`, `CachesMatch`),
and the provider's store holds the key of a session or none (`StoreMatches`).
Late and misdelivered messages cost nothing in the proof, because sessions and
runs of the generators, once drawn, never change hands (`HistoryGrows`).
`ImplementsEnrolment` proves `RegistersAtOnce`. `EInv` adds that the keys in
requests were generated and that a call has nothing cached yet
(`RegistersOnce`); each step of a device or of the provider is then a step of
`Enrolment` or a stutter, by a lemma each. Assumptions: `AlgAssumption`,
`NullAssumption`.

`TokenEndpointProofs`. `Typing` proves `TypeOK`, `KeyStaysCurrent` and
`TokensForTheDevice` the two invariants, `ReplayNeverPasses` the action property
`RecordedNeverPasses`, for any number of sessions, keys, assertions and
requests and any times allowed by `TimeAssumption`. `IInv`: a session with a key
has the one it was drawn for (`KeysAreOrigins`); a request with a key in hand
holds its session's key and asked for that session (`KeyInHand`); a validated
request was validated within the skew and not long ago (`ValidatedInTime`); a
recorded assertion has its replay entry, or names a session lost in a restart
(`RecordedIsKept`). For the action property, the last two give
`now <= exp + ClockSkew + MaxDelay < exp + ReplayGrace`, so the entry is still
found. `ImplementsAuthentication` proves `AnswersAtOnce`: by `KeyInHand` the key
in hand is the one the store has when the request is answered
(`RecordJtiGrants`), and no other step changes what was granted (`OtherSteps`).
Assumptions: `TimeAssumption`, `NullAssumption`.

`ExternalLoginProofs`. `Typing`, `BrowsersAreThemselves` and
`NobodyIsHalfProvisioned` prove the three invariants, `ImplementsDirectory` the
refinement, for any number of browsers, callbacks, identities and users.
`IInv`: a user that is being provisioned belongs to one callback and has no
login (`ProvisionedAlone`), has its claims before its login (`ClaimsFirst`), a
callback signs in the user with the login of its identity (`SignsInItsUser`),
identities do not share users (`OneIdentity`), and every identity a browser or a
callback works with was given to that browser (`GivenIdentities`). Only
`AddLogin` and `SignIn` are steps of the directory, everything else stutters: a
user left behind by a lost race or a failure is invisible there. Assumptions:
`NamedAssumption`, `NoneAssumption`.

`DeviceFlowProofs`. `Typing`, `OwnKey` and `NoWayBack` prove `TypeOK`,
`ServedForOwnKey` and `LossIsForGood`, for any number of devices, runs and
sessions. `IInv` adds that a running device's session was drawn for its own run
(`OwnSessions`), its tokens are for that session (`OwnTokens`), and a session is
bound to the run it was drawn for or to none (`Bindings`); so what is served to a
token is served to its run, however old the token is. Assumption:
`NullAssumption`.

`ValuesApiProofs`. `Typing`, `Agreement` and `ConsolePasses` prove the three
invariants of `ScopeValues` for scope parameters of any length, with values of
any number of segments. The invariant `IInv` follows the request (`Trace`): past
the validator its scope has the session of its assertion, the claims are
`GrantedValues` of the parameter, and what was served is read from them. The rest
is about `Only`, which picks the elements of a sequence that satisfy a condition,
and `WithoutName`, which reads a value segment by segment. Both are recursive
functions over a length, and what they return is proved without an induction over
data. For `Only`: if `NoneLeft` failed for some length, it would fail for a
least one (`LeastNumber`, from the well-foundedness of `<` on the naturals), and
the step of the function leads to a smaller one. From this: what `Only` returns
are elements that satisfy the condition (`OnlyReturns`, `OnlyElements`), it
leaves a sequence alone if all do (`OnlyAll`), and is empty if none does
(`OnlyNone`). What `WithoutName` reads exists for every length
(`ReadExists`), and a value that it strips to a session alone, and that has no
longer segment ending in the name, is the name and nothing else up to its last
segment, the session (`StrippedToSession`). `HeadersTyping` and
`HeadersCompletion` prove the two invariants of `SecurityHeaders` for any number of
requests and slots in either environment. The invariant `HeadersInv` adds that a
request adds to the field's policy while it is its creator (`OwnPolicy`), and that
into a policy without races one call inserts at a time, at the end (`Unraced`).
Assumptions: `SegmentAssumption`, `NoneAssumption`, `IsDevAssumption`,
`CapacityAssumption`.

`AccountProofs`. `Typing`, `OwnClient`, `LoggedOut`, `AskedSignOut` and
`CancelledIsDenied` prove everything the run checks but liveness, for any number
of tabs, users, clients and sessions. None is inductive, because what a tab shows
was decided when its answer was made: `GoodTab` says of the page of a tab and of
the answer on its way (`GoodPage`, `GoodAnswer`) that they are about the client
the task began at, that the denial is stored for the user who cancelled, which
with `DenialCounts` makes the endpoint deny, and that an answer takes the session away only if somebody asked, and always on the
way to LoggedOut. `TabStepPreserves` covers all steps that leave the cookie
alone, `ArrivePreserves` the one that does not. Assumption: `AccountAssumption`.

`ConsentProofs`. `Typing`, `Announced`, `AuditOrder`, `OwnersOnly`,
`GrantsHaveScopes`, `FormsKeepChoices` and `SuccessIsHonest` prove all
properties of the run, for any number of tabs, users, scopes and POSTs. `IInv`
says what is true of a page at each point of a POST (`GoodPage`), of the events
(`GoodEvents`), and, for users who are not disturbed, that at most one tab is
recording, that it records what was announced last, and that otherwise this is
on record (`InOrder`). `Offers` is about the filter: it takes nothing
from a choice among the scopes offered, unless the two options differ
(`OptionsDiffer`). Assumption: `ConsentAssumption`.

Every invariant, every action property and every refinement of the passing runs
is a theorem. `SessionsAreNotShared` and `KeyStaysCurrent` are theorems without a
run: TLC checks the refinements that imply them (two devices that enrol hold
different keys, hence sessions; a token is granted with the key of the moment). Only model-checked: liveness (`StartupEnds`, `LostIsCutOff`,
`LoopGoesOn`, `NobodyIsStranded`), because the prover has
neither ENABLED nor a rule for fairness; and the violations, for which TLC's
counterexamples are the proof.

## 5. Findings

1. `PublicKeyService.cs:16`: concurrent `Dictionary.Add` loses or mixes entries
   (`store_lost`). A race can also hide sessions that were stored before it, until
   the dictionary next grows, and close a chain to a ring, after which
   registrations in that bucket fail; a lookup during a growth may miss any
   session. What does hold is that entries stored alone stay, and that an
   undisturbed growth mends the chains (`store_overlap`).
2. `PerInstancePrivateKeyJwtSecretValidator.cs:187-194`: lookup and record of
   the jti are not atomic (`token_duplicates`). What does hold, and is checked
   by `token_endpoint`, is that a *recorded* jti never passes again, even after
   the entry expired and after restarts.
3. `SecurityHeadersDefinitionsAPI.cs:13`: the policy is in the static field
   before it is complete (`headers_responses`), and two requests that add to it at
   the same time may lose a header for good. What does hold
   (`headers_completion`): without such a race it is complete once its creator is
   done, although requests replace each other's policies and add to them.

Read in the code, without a run of their own:

* `DeviceRegistrationController.cs:124`: the method takes (reason, error), its
  callers pass the code first; `error` and `error_description` are swapped.
* Sessions have no lifespan, although a comment promises 10 minutes
  (`PublicKeyService.cs:14`).
* The onboarding steps check neither the stored session nor the verified email
  their comments speak of (`AuthorizationChallengeRequestController.cs:36`); the
  service behind them is a TODO.
* After a restart of the provider a running program is cut off from both APIs
  until somebody starts it again, because it registers only when its cache is
  empty (`device_flow`, `LostIsCutOff`).
* A session that was signed out comes back when the answer that renews it was on
  its way (`account`, the exception in `LoggedOutIsLoggedOut`).
* A denial after cancel is stored for the user signed in at that moment; a
  sign-in in another tab makes it void. A comment promises the client an access
  denied error "even if this client does not require consent"
  (`Login/Index.cshtml.cs:69-71`); for a user who is signed in already, at a client
  without consent, the framework does not look at the denial, and the client gets a
  code (`account`, the exceptions in `CancelIsHonoured`).
* The device page goes to its success page also when the user said no, or when
  the user code had expired (`Device/Index.cshtml.cs:120`; `SuccessMeansTaken`
  has the exception).
* Consent and CIBA check all identity scopes again after a POST without any box
  (`Consent/Index.cshtml.cs:148`; `ChoicesAreKept` has the exception), Device does
  not.
* The device page filters by `ConsentOptions` and displays by `DeviceOptions`
  (lines 92 and 165). The two agree by default; if a host switches the first off
  only, a user who checks nothing but offline access grants nothing, and this is
  announced and recorded as a grant (`consent`, the exception `OptionsDiffer` in
  `GrantIsNeverEmpty`).
* If the interaction ends between a POST and the form shown again, the page is
  rendered without its view model and fails (`Consent/Index.cshtml.cs:117`;
  `Redisplay`).

## 6. Not modelled

* `CustomTokenCreationService`: adds one constant claim that nothing reads.
* Hosting: registrations and the middleware pipeline; the lifetimes of the
  services are in the modules that depend on them.
* Migrations and data model: generated; the keys `ExternalLogin` relies on are
  modelled, `DeviceDetails` is used nowhere.
* Grants, home, diagnostics and error pages, `Ciba/Index` and `Ciba/All`: they
  display what the framework stores, Grants revokes through one call of it.
* `GenerateCertificate`: a tool run by hand that writes key files.
* `wwwroot/lib`: vendored libraries.
* The framework (Duende IdentityServer, ASP.NET Core) is external: the modules
  have what the code under `src/` relies on.
