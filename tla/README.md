# A formal model of sso-backend

TLA+ modules that model the single sign-on service in this repository, TLC
configurations that check them on small instances, and TLAPS proofs of their
safety properties for every instance. `PROJECT.json` links every definition to
the source lines it models and lists runs, theorems, findings and hazards.

## 1. Inventory: the system

The service is a FastAPI application over MongoDB. Every request is a coroutine;
state lives only in MongoDB collections. A single document update is atomic, no
multi-document transaction is used, so **every `await` of a database call is a
point where any other request may run, and where a crash may stop this one**.

| Part | State it keeps | Operations | Talks to | Must hold |
|---|---|---|---|---|
| Refresh token store (`app/models/refresh_token.py`) | `refresh_tokens`: one record per token, grouped in families (sessions, OAuth grants) | insert, find, claim, adopt, revoke by family / user / client, sweep | used by all services | a record is rotated once and never changes owner or deadline |
| Sessions (`auth_service.py` 194-408, `api/auth.py`, `jwt_auth.py`) | families of first-party records; cookies in browsers | login, refresh, /session, logout, revoke one / others | store, users, audit | one login, one session, one owner, fixed deadline; an ended session stays ended; replay detected |
| OAuth / OIDC provider (`oauth_service.py`, `models/oauth.py`, `api/oauth.py`) | `oauth_codes`, `oauth_requests`, `oauth_consents`, OAuth refresh records | authorize, consent, token (code, refresh), revoke, userinfo, end_session | sessions (via `resolve_session`, `family_is_active`), clients | a code works once, a replay kills its grant, grants never outgrow consent or outlive their session |
| Accounts (`auth_service.py` 418-814, `models/token.py`, `models/user.py`) | `users`, verification / reset / e-mail-change tokens, known devices | signup, login check, verify, forgot / reset / change password, change e-mail | rate limits, mail, sessions | one-time tokens work once; a new password ends the sessions of the old |
| Administration (`admin_service.py`, `role.py`, `owner.py`) | `roles`, `clients`, `users.role_id`, `users.app_roles` | change role, set app roles, edit user, create / update / delete client, rotate secret | sessions, OAuth | there is always an owner; grants only of roles an application defines |
| Rate limits (`models/rate_limit.py`) | counters per action, key and window | hit, peek, reset | accounts | no burst slips past a limit |
| Clean-up (`cleanup_tokens.py`, `cron/`, TTL indexes) | none | nightly deletion of what expired | every collection | only expired documents go, and they do go |
| Browser SDK (`sdk/web/sso-client.ts`), cookies, CSRF | single-flight promises, cookies, cross-tab events | getSession, refresh, logout | /session, /refresh, /logout | a signed-in user is not shown signed out, nor the reverse |
| Python SDK (`sdk/python/karan_sso`) | identity cache (30 s), key set cache | verify token, live identity | /me, JWKS | an outage is a 503, a revocation is seen within the cache time |
| Keys, JWT (`utils/keys.py`, `utils/security.py`) | key files | sign, publish, rotate, withdraw | everything | a withdrawn key stops being trusted |
| Mail (`utils/email.py`) | background tasks | send beside the request, or wait for it | accounts, administration | the link that works is one that was mailed |
| Audit, devices | append-only records | record | - | nothing reads them back to decide |
| Bootstrap (`bootstrap.py`), configuration | environment, first owner | seed roles, applications, owner at every start; mark `OWNER_EMAIL` verified | administration, accounts | a start-up cut short is made good by the next, and puts back nothing an administrator changed but that `OWNER_EMAIL` is verified |

### What is hard here

* **The rotation window.** A refresh marks the old record rotated
  (`claim_rotation`) and stores the successor two awaits later. In between the
  session has no current record; everyone who asks `family_is_active` or
  `find_session` then is told the session ended.
* **In-flight writers.** A refresh that passed its claim stores its successor
  whatever happened to the session since: logout, revocation, password reset.
* **Parallel refreshes** of one cookie (tabs, sibling apps) are normal; the grace
  window turns the losers into siblings, and later presentations into theft.
* **Retries and crashes.** A lost answer is retried with a rotated token; a
  process that dies between claim and insert leaves only that token.
* **Codes** can be replayed while the first exchange is still running.
* **Check, then act.** `users` and `clients` are read in one call and written in
  a later one: the last owner is counted before the role is written, a user's
  whole `app_roles` map is written back, an address is looked up before it is
  taken. Only unique indexes and `find_one_and_*` decide at the moment of the write.
* **A changed credential and the sessions of the old one.** The password or
  address is written first and the sessions are deleted one or two calls later,
  while logins that read the old document are still running.
* **Links and the documents behind them.** A re-sent mail keeps the token document and
  replaces its link; resets by the user and by an administrator share documents. The mail goes out beside
  the request (`send_background`), after the write, and a failure to send is swallowed.
* **Two caches in the Python SDK.** Answers of SSO are kept for a while, arrive
  in any order and may not arrive; the keys that decide which tokens count are
  fetched behind a lock, late, or not at all.

The full list, line by line, is under `hazards` in `PROJECT.json`.

## 2. Modules

| Module | Models | Checked by |
|---|---|---|
| `RefreshTokenStore` | `RefreshTokenModel`: each query and update as an operator on a store; the grace rule | the runs of both services |
| `SessionContract` | abstract: what a session may do, whoever acts on it | `SessionsEnd` (`KeepsContract`) |
| `Sessions` | `AuthService` sessions with the routes and `require_auth` in front of them | `Sessions*` |
| `OAuthGrants` | codes, consent, token endpoint, revoke, client removal; sessions are those of the contract | `Grants*` |
| `AdminRoles` | roles, app roles, applications, the start-up that seeds them | `AdminRoles` |
| `Accounts` | sign-up, login check, one-time links and their mails, passwords, addresses, the administrator's edits, the start-up's writes to `users` | `Accounts*` |
| `LiveIdentity` | the Python SDK: key set cache, token check, live answers; SSO as it sees it | `LiveIdentity` |
| `BrowserClient` | the browser SDK in the tabs of an application, the cookies of the browser | `BrowserClient` |
| `SessionsProofs`, `ContractProofs` | theorems about `Sessions`; that it implements `SessionContract` | TLAPS |
| `OAuthGrantsProofs`, `AccountsProofs`, `AdminRolesProofs`, `LiveIdentityProofs`, `BrowserClientProofs` | theorems about the module each is named after | TLAPS |
| `MC*` | instances: starting stores, symmetry | |

**State and code.** `store` maps a token to its record or `NoDoc`. A request in
flight is a slot `req[r]`; its `pc` names the database call it awaits next and
the other fields are the handler's local variables. One action is one database
call together with the synchronous code around it, so between two actions of a
request any other may run. `Arrive(r)` starts a handler, `Step(r)` continues it,
`Abort(r)` ends it anywhere (crash, cancelled request, database error; response
lost). `minted` / `drawn` record random names, which never repeat; `delivered`
holds the tokens some response carried, the only ones a client can present;
`access[s]` the user named by access tokens of session `s`.

**How the parts compose.** `Sessions` and `OAuthGrants` use the same store
operators. `OAuthGrants` does not repeat the session handlers: its variable
`session` moves as `SessionContract` allows, and `KeepsContract` checks that the
handlers of `Sessions` allow no more, which is also proved. `AdminRoles` and `OAuthGrants` share
`delete_client`: the first has its application and app roles, the second its
tokens and consents. `Accounts` needs of a session only that it is there, whose
it is and what its login verified. `LiveIdentity` has SSO as one role, one
session and the published keys, `BrowserClient` as the sessions of one browser, with a refresh in two steps, as in the contract. In the contract a session is `live` (it has a current
token), `rotating` (records, none current), `ending` (no record, but a refresh
past its claim), `over`, or `unborn`.

**Naming.** A family is named by its first token instead of a random id. That
loses nothing (ids are only compared) and lets the model say "the token the
exchange itself stored" (`grant_id`). `family_id = Nil` is a record that
predates families; the code falls back to its `_id`, the model to its token.

**Abstractions.** Device, address and remember-me fields, audit records and mails
that only notify are left out. `delete_many` is one step, though MongoDB deletes document by
document; a refresh caught in the middle has then already claimed or not, cases
the single step has too. The clock advances in whole units; a handler's `utcnow()` is
read with the call it precedes, and `now` is then kept while the clock moves on,
as in the code. Access tokens never expire in the model: this only adds
requests. Users are never deleted by the code, so its "User not found" branches
are unreachable and the user lookup before an insert is not a step. Whether a
token is fresh, a PKCE proof fits, `prompt=login` or `max_age` asks for a new
login, or a scope is too wide is a nondeterministic choice. Scopes are two
values; the parameter checks before `resolve_session` stand behind the choice of
a valid request, since a refused one changes nothing.

* `AdminRoles`: a find and an insert under a unique index are one step, since
  the index refuses what the find missed. `app_roles` maps an absent key to `{}`. The
  owner's permission is checked when a request arrives. `tainted` and
  `overlapped` are history: which app roles a stale write or a dead request left, and
  whether two role changes were ever in flight together.
* `Accounts`: there is no clock. A link may turn out to have expired whenever a
  request looks at it, and expired or used documents may go at any time.
  Verification before login is on, its default. A link is
  numbered in the order drawn, so `find_latest_for_user` finds the highest.
  `late`, `proven`, `excused` and `spent` are history, and so is the address of a verification
  document. A link's mail is on its way (`Post`) once the request has written the link; it arrives or is
  lost whenever it likes (`Deliver`), and is also lost with a process or a request that died before
  sending it. The administrator's reset waits for its mail, and hands the link over in
  the answer if it was lost (`HandOver`). Only a link that arrived is ever presented. The start-up marks the account of
  `Owner` as verified, or creates it, at any time: another instance, or the old one, may be serving
  requests. An administrator who gives a verified account another address vouches for that address (`proven`).
* `LiveIdentity`: times are ages, counted up to the largest value still told
  apart, so the module has no clock that runs out. A call to SSO reads SSO's
  state in one step (keys) or two (session, then role), and then waits to be
  delivered; `Flight` bounds the whole call. `httpx` bounds each of its phases, so
  `Flight` is an assumption about a server that does not trickle its answer. Tokens that
  are forged, expired or lack a claim are refused in one place and are left out;
  so is the purge of more than 5000 answers, which drops only those that have ended.
* `BrowserClient`: at SSO a refresh is its claim and the insert of its successor, a logout the look for its
  session and the end of it. A session may end and come back between the two, and any ended one may be brought
  back by a refresh that no tab waits for any more. Which of a session's
  tokens the cookies hold is left out: those of a session that lives on are good, those of one that has ended
  may be good or not after it came back. The cookies are those of one session or none, and
  those of an answer are stored when the page sees it. A refused call and one
  that never arrives are the same: nothing happened at SSO. A logout whose answer its tab gave up may still end
  the session (`EndSession`). Tabs of other applications, which share the cookies but not the
  channel, are left out. `lastSessionId` is always also
  what the page was last given, so it stands for both. A page is not left while it waits for
  its logout (`docs/SSO_CONTRACT.md:135`). `ended`, `left`, `raced` and `crossed` are history.

## 3. Runs

| Run | Question | Instance |
|---|---|---|
| `SessionsRotate` | racing refreshes and `/session`, requests dying anywhere, clean-up; recent or pre-family records, an OAuth record beside them | 4 tokens, 2 requests, clock 0..2, grace 1, stored deadline 3 |
| `SessionsEnd` | two users, all ways to start and end sessions; the contract | 3 tokens, 2 requests, clock 0..1, sessions of length 1 |
| `SessionsLive` | replay takes the session down, expired records go | 2 tokens, clock 0..3, grace 1 |
| `GrantsCode` | one code issued, exchanged twice, replayed, expired, purged, its token refreshed | 3 tokens, 2 requests, clock 0..2, code lives 1, kept 2 |
| `GrantsRefresh` | racing refreshes, `/revoke`, sign-out, session moves, dying requests | 3 tokens, 2 requests, clock 0..2 |
| `GrantsConsent` | authorize and consent decisions, or two exchanges of one code, race the removal of the client; under fairness a replay takes the grant down | 2 codes, 2 tokens, 1 consent request, 2 scope sets, clock 0..1 |
| `GrantsEnded` | violated: a grant refused for its session has lost it | |
| `AdminRoles` | role changes, app roles and applications, two requests at once, dying anywhere, restarts | 2 users, 2 seeded applications, 1 app role, 2 roles |
| `AccountsPassword` | logins, resets by user and administrator, password change, verification; dying requests, lost mails | 1 account, 2 passwords, 2 sessions, 2 links, a document sent at most twice |
| `AccountsEmail` | sign-up, verification, change of address by user and administrator, start-ups | 2 accounts, 2 addresses, one of them `OWNER_EMAIL`, 1 session, 1 link |
| `LiveIdentity` | a backend asking SSO while keys rotate, calls fail or are slow, the process restarts | 2 requests, 2 keys, 2 tokens; an answer is kept 1, keys 1, a call takes 1 |
| `BrowserClient` | lookups, logouts and messages of tabs cross each other and a new login | 2 tabs, 2 logins, 1 message waiting per tab; a page begins a call while fewer than 3 calls and tabs with messages are pending |

**Why the bounds suffice.** Every race in this code is between a handler and
another one that changes what it read, so two requests in flight meet each
other at every pair of awaits, and requests follow each other without limit in
a slot until the tokens run out. With a token in store, one successor and one sibling is the
smallest case that tells the winner of a claim from the loser, and a third or fourth token
allows a rotation of a successor. Between them the
runs let the clock pass the grace window (1), a deadline (`SessionsEnd`,
`SessionsLive`, `GrantsCode`) and, for codes, expiry and purge. `SessionsEnd` needs two users so that
touching the other one's session is possible. `AccountsPassword` needs two
sessions, so that one is kept while the other goes, and two sends to reach the
limit; `AccountsEmail` two accounts for one address. One link is enough there: no operation of that run starts
a session, so an account that signs up verifies and one with a session asks for a change, never both, and two
requests race for the link or for what it leads to; the theorems cover any number. `AdminRoles` needs a
second user for a second owner and a second application for the map that is written back
whole. In `LiveIdentity` an answer can be as old as a call and a cache time, and a key
older than the time it is kept, since ages are counted past both. `BrowserClient` needs a second tab to tell and a second
login for an answer to be about a session that was replaced; three things pending are a refresh, a logout that ends its
session and a message or lookup beside them. Deadlock is checked where requests
cannot run out of names; the configurations that switch it off do so because an
instance really stops once all tokens are used and the clock is at its bound.

**Fairness.** In `Sessions` and `OAuthGrants`, `FairSpec` gives weak fairness to each request's next call: the
event loop resumes a coroutine whose database call has returned, and the
drivers time out rather than hang. `Sessions` also assumes the nightly clean-up,
which is scheduled and recurs. The liveness runs leave out `Abort`, as a request
that dies finishes nothing. No fairness is assumed of clients or the clock.

### What the violated run shows

**Rotation is not atomic** (`auth_service.py:259` and `:287`). `GrantsEnded`:
an OAuth refresh between the two calls finds no current token and
revokes the grant of a live session for good, "The session behind this grant has
ended". More follows from the same window: the docstring's "exactly one
record per family has `rotated_at: None`" fails, `require_auth` answers 401
to a signed-in user, a code exchange gets no refresh token although
`offline_access` was granted, and a consent decision stamps its code with the
present instead of the session's start (`oauth_service.py:420`).

### What the passing properties leave open

They state exactly how far the code goes, and some of it is less than its documents say.

* **A refresh in flight outlives what ended its session**: it claims, logout
  deletes the family, it inserts. The same holds of a replayed code; the re-check
  in `_exchange_code` covers the exchange (`ReplayedTokenGone`), not a refresh of
  the grant. `DeadStaysDead` and `GrantStaysDead` say that only a request already past its
  claim can do this.
* **The last owner can go** (`admin_service.py:162`) despite "Cannot remove the last
  owner": two requests demote the two owners, each counting the other before either
  writes. After that nobody can administer, as bootstrap leaves an account that exists
  alone. `OwnerKept` says that this takes two role changes in flight at once.
* **A late answer beats a login or a logout.** `/session` and `/logout` answers clear the cookies whatever
  session they hold by then, so one that crosses a login can undo it, against
  "apps never show a signed-in user as signed out" (`README.md:77`); and an answer given
  before a logout shows the old user to a tab that has handled the logout, until its next
  lookup. `raced` and `crossed` name these two cases.
* **A logout is undone in the browser too.** When the refresh of the first item is a tab's lookup, its answer signs the tab
  in again, with fresh cookies, after it handled the logout; and if the logout's answer comes last, or
  another tab's lookup was refused in between, the cookies of the session that came back go while it
  lives. `LogoutFollowed` speaks of sessions that were not brought back, `CookiesCurrent` and `SignedInStays` of
  a session that has not been ended yet.
* `logout()` tells every tab "signed out" even if SSO refused it or was not reached.
* **A login in flight outlives the change of its password.** `SessionsCurrent`
  admits the session of a login that had read the account before the change.
* **A link to an old address can verify the new one** when its mail, or the request it starts, crosses the
  administrator's change (`excused`).
* **`OWNER_EMAIL` is verified at every start**, whoever signed up with it and whatever an administrator
  set (`bootstrap.py:35`). `VerifiedProven` makes this one exception.
* **A lost mail counts.** A mail that could not be sent uses up `MAX_EMAILS_PER_TOKEN` like any other, and the
  link before it is gone: if it was the last one, the user has none that works until the document expires.
  `LastLinkMailed` says that nothing but the loss of that very mail does this.
* **An administrator's link can be dead on arrival**: a `forgot_password` between its creation and its mail
  replaces it. The user has been mailed the newer one.
* **App roles come back** when a copy of the map read earlier is written over a newer one
  (`OtherAppsKept`, `DefinedOnly` name the stale write), and stay when `delete_client` dies
  between its calls.
* **A deleted client leaves something behind** when a consent or a refresh was in
  flight: a consent, or a token nobody can use until the name is registered again.
* An administrator's reset that meets a `forgot_password` at its limit ends in
  `assert plain is not None`, with the pending links gone (`auth_service.py:640`).
* With an outage, a request with a **new key answers 401 rather than 503** as
  long as older keys are held; `RefusalFounded` names this one exception.
* "Logged out *n* other session(s)" counts records, rotated ones included
  (`refresh_token.py:127`). Siblings added in the grace window stay current after
  it. `docs/SSO_CONTRACT.md` says `prompt=login` ends the current session,
  which `authorize` deliberately does not (comment at `oauth_service.py:305`).

## 4. Proofs

Every safety property of the passing runs is a theorem, for any numbers of users,
tokens, clients, requests, roles, links, keys and tabs, any lifetimes and windows, and any
sound starting stores:

| Module | Theorem | States |
|---|---|---|
| `SessionsProofs` | `BaseInvariant` | `Spec => []Base` |
| | `TypeCorrect` | `Spec => []TypeOK` |
| | `RecordsWrittenOnce` | `Spec => WriteOnce` |
| | `EndedSessionsStayEnded` | `Spec => DeadStaysDead` |
| | `SuccessorsOnlyInGrace` | `Spec => []SuccessorInGrace` |
| | `SessionsAgree` | `Spec => []OneSession` |
| `ContractProofs` | `SessionsKeepContract` | `Spec => KeepsContract`: `Sessions` implements `SessionContract` |
| | `RequestsEndOwnSessions` | `Spec => EndsOwnOnly` |
| `OAuthGrantsProofs` | `BaseInvariant`, `TypeCorrect` | `Spec => []Base`, `Spec => []TypeOK` |
| | `OneCodeOneGrant` | `Spec => []OneGrant` |
| | `GrantsBound` | `Spec => []BoundToSession` |
| | `RefreshInGrace` | `Spec => []GrantInGrace` |
| | `DeadGrantsStayDead` | `Spec => GrantStaysDead` |
| | `EndedSessionsIssueNothing` | `Spec => OverIssuesNothing` |
| | `ConsentNeeded` | `Spec => []CodesConsented` |
| | `DecisionsFinal` | `Spec => []OneDecision` |
| | `ReplayedTokensGone` | `~Aborts => (Spec => []ReplayedTokenGone)` |
| `AccountsProofs` | `BaseInvariant`, `TypeCorrect` | `Spec => []Base`, `Spec => []TypeOK` |
| | `AddressesUnique` | `Spec => []UniqueEmail` |
| | `CredentialsCurrent` | `Spec => []SessionsCurrent` |
| | `OneLinkOneDocument`, `FoundHeld` | `Spec => []LinksOnce`, `Spec => []Holding` |
| | `ResetLinksSingleUse` | `Spec => []SingleUse` |
| | `WorkingLinkMailed` | `Spec => []LastLinkMailed` |
| | `VerifiedForCause` | `Spec => []VerifiedProven` |
| `AdminRolesProofs` | `RolesTypeCorrect` | `Spec => []TypeOK` |
| | `AnOwnerRemains` | `Spec => OwnerKept` |
| | `OtherApplicationsUntouched` | `Spec => OtherAppsKept` |
| | `RolesAreDefined` | `Spec => []DefinedOnly` |
| `LiveIdentityProofs` | `TypeCorrect` | `Spec => []TypeOK` |
| | `KeysFetchedSpaced` | `Spec => FetchesSpaced` |
| | `WithdrawnKeysDistrusted` | `Spec => KeyTrusted` |
| | `PrivilegesFresh` | `Spec => GrantFresh` |
| | `RefusalsFounded` | `Spec => RefusalFounded` |
| `BrowserClientProofs` | `TypeCorrect` | `Spec => []TypeOK` |
| | `LogoutsFollowed` | `Spec => []LogoutFollowed` |
| | `CookiesOfLastLogin` | `Spec => []CookiesCurrent` |
| | `SignedInStaysShown` | `Spec => SignedInStays` |

**Assumptions** are those the modules declare, and the runs evaluate them: names are
disjoint from `Nil`, from each other where the code draws them from different sources,
and records from `NoDoc`; tokens of `Sessions` are finitely many; times are numbers. The
starting stores are sound, which means:

* `Sessions`: records of a family agree, records before families were never rotated.
* `OAuthGrants`: an open session has an owner, a start and a deadline; the records of a
  grant agree, and fit the session they name unless it is over; the token that names a grant belongs to it;
  an unspent code names no grant, a third-party code is consented to, the token of a replayed one is gone.
* `Accounts`: addresses are unique (there is a unique index); a session is that of a login with what the account
  says, or of one the account has changed since (`late`); `OWNER_EMAIL` is an address or not set.
* `AdminRoles`: the seeded roles contain the owner's and the default one, which differ, and
  users are finitely many (`CountOwners` counts). `LiveIdentity`: keys may be asked for again
  before they are too old to use.

**Why `~Aborts` in `ReplayedTokensGone`.** A replay flags the code and revokes in two calls
(`oauth_service.py:600`), and the exchange that re-checks the flag revokes in another. A request
cut off in between leaves the token until the code is presented again. This is
what the code does, so the theorem says: when no request is cut off. All other
theorems hold with requests dying anywhere.

### Arguments

The properties themselves are seldom inductive. The modules end with the inductive
invariants their proofs need (those of `AdminRoles` are in its proofs); they are state predicates,
which TLC finds to hold on the instances of section 3. The recurring pattern is that
what a property says of the collections must also be said of the copies that handlers
carry from one call to the next.

**Sessions.** A handler's
local variables must be known to speak of the family its token belongs to. `Base`
adds this: every stored token and family name was generated (`Named`), and a
rotating handler's `sid`, `user` and snapshot fit its token (`LocalOK`). For
`SuccessorInGrace` the invariant also says that a snapshot showing a rotation
shows the one on record (`SnapshotRotation`), because `rotated_at` is written
once. For `OneSession` it also follows what handlers will answer with
(`SpokenFor`): a handler on its way to a reply agrees with the collection on the
session's user, so the access token it issues does.

**The contract.** `KeepsContract` is a step simulation: under the mapping of `Sessions` to the contract
(phase, owner, start and deadline of each family) initial states map to initial states and every
step moves each session as the contract allows, or not at all. `OneSession` makes
owner, start and deadline of a family well defined: its records and the copies that refreshes past their claim
will store agree (`Seen`). A session that has neither can only be one nobody revives. `EndsOwnOnly` needs `LogoutsOwn`: the family a logout is about to
delete was read under the caller's user, and nothing gives it another.

**OAuth grants.** `Base` says what each handler may rely on at each call (`LocalOK`) and that names in use were drawn.
Then: the grant an exchange drew is in nobody else's hands (`FreshGrants`), a rotation
works on the grant its token belongs to (`OwnGrants`), copies of a grant agree like its records
(`CopiesAgree`), and all of them fit their session (`AllBound`). `ReplayedTokenGone` follows from
`Chased`: whenever the token of a replayed code is in store, a request presenting that code is still
on its way to the re-check or the revocation, which is why the order "flag, then
revoke" against "store, then re-check" works. `CodesConsented` needs the consent of codes about to be
issued (`IssuesConsented`), `OneDecision` that a consent request is pending, in the hands of one
decision, or decided (`OneDecider`).

**Accounts.** `Base` gives the types and what a handler's locals say at each call (`Local`). Sorting the
steps by what they write (`Kinds`) leaves few that matter to each property. `SessionsCurrent` is proved
for addresses and passwords apart, since a change of password that keeps a session makes
good its password only: whoever writes a credential goes on to sign the user out (`Rewrites`, `ChangeGoesOn`).
Links rest on `LinksOnce`: a document has one link and no link is in two documents, so claiming by link marks
the one document there is. `Holding` says that a document found before a write is still of that user and
kind when it is written. `LastLinkMailed` rests on `LinksOnce` alone: whoever draws a link puts its mail on its way in the
step that writes it, or is the administrator's reset, which holds the link until it has mailed it or died.
`VerifiedProven` needs `Verifications`: a link that still verifies a user went to the address the user has, and no
administrator is replacing that address, because `update_user` drops the links before it writes. The start-up's mark is
good as long as the address stays `OWNER_EMAIL`, and whoever gives the account another one proves or vouches for that.

**Roles.** `TypeOK` needs what a handler knows of the collections
between two calls (`Local`: the role it is about to write was found, and roles and
users are never removed) and that the seeds are there once the start-up has
passed them. `OwnerKept` follows from `OneByOne`: unless two changes of a
role overlapped, at most one is in flight, and one that is about to demote an
owner has seen another, whom nothing else can demote meanwhile. `Covered` says that every
pair `DefinedOnly` leaves over is in the list of the request that prunes it, or
will be once that list is read. It survives a stale write because the
pairs such a write touches are set apart in `tainted`, and those only.

**Python SDK.** Ages replace a clock, so the invariants compare ages. `KeysRecent`: the keys held, or on their way,
differ from those published only in a key that changed since they were read. `AnswersFounded`:
an answer in the cache or on its way is true, or what it says changed no longer ago than
the answer is old. Both move with the clock, and a slow call is covered by the bound on its length. `FetchDue`: who
holds the lock of the key set found a fetch due after taking it.

**Browser SDK.** Sessions are met in the order of their logins (`OnlyMet`), and one that a logout ended is over
until a refresh brings it back, which takes it off `left` (`LeftForGood`). `LogoutFollowed` must also be said of
the answer a tab is about to get (`AnswersFollowed`). For `CookiesCurrent`, the session of the last login lives until
it is ended (`CurrentLives`), so no lookup of it is refused, and every call begun since that login is about it and leaves its
cookies alone (`CallsCurrent`), unless that login crossed a call (`raced`).

**Only model-checked:** the liveness properties `ReplayEndsSession`, `ExpiredSwept` and `ReplayRevokes`,
because neither fairness nor `ENABLED` is in the prover's reach, and `EndedMeansEnded`, which is violated.

## 5. Plan

1. **`OAuthGrants`** continued: `end_session`, changed client settings, a client
   registered again under the name of one that is being deleted.
2. **`RateLimits`**: fixed windows, hit before check, reset by a success.
3. **Proofs**: the store operators of `RefreshTokenStore` as lemmas of their own, cited by the proofs of both services.

**Not modelled:** JWT encoding (a cryptographic library), the audit trail, known
devices and notices by mail (append-only output), settings and the database connection,
listings, `userinfo` and the parameter checks of `authorize` (they read and refuse
only), client secrets and redirect addresses, the CSRF middlewares and the
HS256 branch of the SDK (checks of one request, without state), and rate limits (planned).
