----------------------------- MODULE LiveIdentity -----------------------------
(***************************************************************************)
(* An application's backend asking who signed in (sdk/python/karan_sso).   *)
(*                                                                         *)
(* Two caches stand between SSO and a protected route: the signing keys    *)
(* (verifier.py, JwksCache) and the answers of GET /me (live.py).  A       *)
(* request runs alone until it awaits: `pc` names what it awaits, and SSO  *)
(* changes meanwhile.  Times are ages and time left, in ticks, counted up  *)
(* to the largest value that is still told apart.                          *)
(***************************************************************************)
EXTENDS Naturals, FiniteSets

CONSTANTS
  Kid,          \* signing keys SSO may come to use
  FirstKid,     \* the one it starts with
  Token,        \* access tokens of one session of one user
  KeyOf,        \* the key that signs each
  Req,          \* request slots
  TTL,          \* SSO_LIVE_CHECK_CACHE_SECONDS
  MinRefresh,   \* SSO_JWKS_MIN_REFRESH_SECONDS
  MaxAge,       \* SSO_JWKS_MAX_AGE_SECONDS
  Flight,       \* longest call to SSO (SSO_HTTP_TIMEOUT_SECONDS)
  Nil

ASSUME KeyAssumption == KeyOf \in [Token -> Kid] /\ FirstKid \in Kid
ASSUME TimeAssumption == /\ {TTL, MaxAge} \subseteq Nat \ {0}
                         /\ {MinRefresh, Flight} \subseteq Nat
                         /\ MinRefresh < MaxAge
ASSUME NilAssumption == Nil \notin Req

Past == TTL + Flight            \* ages of the role and the session
KeyPast == MaxAge + Flight + 1  \* and of a key

Code == {"ok", "unauthorized", "forbidden", "unavailable"}
Answer == {"admin", "user", "gone"}     \* GET /me: the role, or 401

Entry == [value : Answer, left : 0 .. TTL]
None == [value |-> "gone", left |-> 0]  \* no entry, or one that has ended

Request == [pc : {"idle", "keys", "lock", "fetch", "fetched",
                  "sent", "checked", "answered", "done"},
            token  : Token \cup {Nil},
            age    : 0 .. Flight,           \* of the call in flight
            jwks   : SUBSET Kid,            \* the keys the call brings
            me     : Answer \cup {Nil},     \* the answer it brings
            code   : Code \cup {Nil}]

Idle == [pc |-> "idle", token |-> Nil, age |-> 0, jwks |-> {},
         me |-> Nil, code |-> Nil]

VARIABLES
  \* SSO
  role,       \* the user's role now
  session,    \* whether the session lives
  published,  \* the keys of /.well-known/jwks.json
  signed,     \* the keys that ever signed,
  active,     \* and the one that signs now
  roleAge, sessionAge, keyAge,   \* history: ticks since each last changed
  \* the backend process
  keys, fetchAge,   \* _keys, and the age of _fetched_at
  lock,             \* who holds the lock of the fetch, or Nil
  cache,            \* _cache of the live answers
  req

sso == <<role, session, published, signed, active>>
ages == <<roleAge, sessionAge, keyAge>>
backend == <<keys, fetchAge, lock, cache>>
vars == <<sso, ages, backend, req>>
-----------------------------------------------------------------------------
NoAnswers == [t \in Token |-> None]

Init ==
  /\ role \in {"admin", "user"} /\ session = TRUE
  /\ published = {FirstKid} /\ signed = {FirstKid} /\ active = FirstKid
  /\ roleAge = Past /\ sessionAge = Past /\ keyAge = [k \in Kid |-> KeyPast]
  /\ keys = {} /\ fetchAge = MaxAge + 1
  /\ lock = Nil
  /\ cache = NoAnswers
  /\ req = [r \in Req |-> Idle]

Awaits(r, pc) == req[r].pc = pc
Signer(q) == KeyOf[q.token]

\* The route's answer: the error mapping of identity and live_identity.
Responded(code) == [Idle EXCEPT !.pc = "done", !.code = code]

\* require, require_admin and require_owner on the live role; None is a 401.
Decided(value) ==
  Responded(CASE value = "gone" -> "unauthorized"
              [] value = "user" -> "forbidden"
              [] value = "admin" -> "ok")

Hit(t) == cache[t].left > 0

\* The start of LiveUserClient.fetch: an answer that is kept, or a call.
LookedUp(q) ==
  IF Hit(q.token) THEN Decided(cache[q.token].value)
                  ELSE [q EXCEPT !.pc = "sent", !.age = 0, !.jwks = {}]

\* The end of JwksCache.get with the keys held then, and jwt.decode.
\* (A token that is forged or past its end is refused whatever the keys are.)
Verified(q, held) ==
  IF Signer(q) \notin held
    THEN Responded("unauthorized")
    ELSE LookedUp(q)
-----------------------------------------------------------------------------
(* Verifying the token *)

\* A token that SSO signed: browsers keep it when its key is withdrawn.
Arrive(r, t) ==
  /\ req[r] = Idle
  /\ KeyOf[t] \in signed
  /\ req' = [req EXCEPT ![r] = [Idle EXCEPT !.pc = "keys", !.token = t]]
  /\ UNCHANGED <<sso, ages, backend>>

\* Fault: keys once known are never fetched again.
StaleNever == FALSE

Stale == fetchAge > MaxAge
MayRefetch == fetchAge > MinRefresh \/ keys = {}

CheckKeys(r) ==
  /\ Awaits(r, "keys")
  /\ req' = [req EXCEPT ![r] =
       IF Stale \/ (Signer(@) \notin keys /\ MayRefetch)
         THEN [@ EXCEPT !.pc = "lock"]
         ELSE Verified(@, keys)]
  /\ UNCHANGED <<sso, ages, backend>>

\* Fault: the age is not read again under the lock.
RefetchesAlways(r) == TRUE

\* Under the lock the age is read again: another request may have fetched.
Refetches(r) == MayRefetch

TakeLock(r) ==
  /\ Awaits(r, "lock") /\ lock = Nil
  /\ IF Refetches(r)
       THEN /\ lock' = r
            /\ req' = [req EXCEPT ![r].pc = "fetch", ![r].age = 0]
       ELSE /\ lock' = Nil
            /\ req' = [req EXCEPT ![r] = Verified(@, keys)]
  /\ UNCHANGED <<sso, ages, keys, fetchAge, cache>>

\* SSO answers with the keys published at that moment.
SendKeys(r) ==
  /\ Awaits(r, "fetch")
  /\ req' = [req EXCEPT ![r].pc = "fetched", ![r].jwks = published]
  /\ UNCHANGED <<sso, ages, backend>>

Fetched(r) ==
  /\ Awaits(r, "fetched")
  /\ keys' = req[r].jwks /\ fetchAge' = 0
  /\ lock' = Nil
  /\ req' = [req EXCEPT ![r] = Verified(@, @.jwks)]
  /\ UNCHANGED <<sso, ages, cache>>

\* Fault: the lock is not released when the fetch fails.
FetchFailsLocked(r) ==
  /\ req[r].pc \in {"fetch", "fetched"}
  /\ req' = [req EXCEPT ![r] = Responded("unavailable")]
  /\ UNCHANGED <<sso, ages, backend>>

\* An outage or a timeout: the keys held are kept, however old.
FetchFails(r) ==
  /\ req[r].pc \in {"fetch", "fetched"}
  /\ lock' = Nil
  /\ req' = [req EXCEPT ![r] =
       IF keys = {} THEN Responded("unavailable") ELSE Verified(@, keys)]
  /\ UNCHANGED <<sso, ages, keys, fetchAge, cache>>
-----------------------------------------------------------------------------
(* The live check *)

\* GET /me at SSO: first the token and its session, then the user's role.
CheckSession(r) ==
  /\ Awaits(r, "sent")
  /\ req' = [req EXCEPT ![r] =
       IF session /\ Signer(@) \in published
         THEN [@ EXCEPT !.pc = "checked"]
         ELSE [@ EXCEPT !.pc = "answered", !.me = "gone"]]
  /\ UNCHANGED <<sso, ages, backend>>

ReadRole(r) ==
  /\ Awaits(r, "checked")
  /\ req' = [req EXCEPT ![r].pc = "answered", ![r].me = role]
  /\ UNCHANGED <<sso, ages, backend>>

\* Fault: a second answer extends the time of the first.
StoreExtends(t, value) ==
  [cache EXCEPT ![t] = [value |-> value, left |-> @.left + TTL]]

\* A full cache first drops the answers that have ended: None already.
Store(t, value) == [cache EXCEPT ![t] = [value |-> value, left |-> TTL]]

Answered(r) ==
  /\ Awaits(r, "answered")
  /\ cache' = Store(req[r].token, req[r].me)
  /\ req' = [req EXCEPT ![r] = Decided(@.me)]
  /\ UNCHANGED <<sso, ages, keys, fetchAge, lock>>

\* Fault: an outage of the live check is a refusal.
CallFailsForbidden(r) ==
  /\ req[r].pc \in {"sent", "checked", "answered"}
  /\ req' = [req EXCEPT ![r] = Responded("forbidden")]
  /\ UNCHANGED <<sso, ages, backend>>

\* An outage, a timeout or any other status: nothing is kept.
CallFails(r) ==
  /\ req[r].pc \in {"sent", "checked", "answered"}
  /\ req' = [req EXCEPT ![r] = Responded("unavailable")]
  /\ UNCHANGED <<sso, ages, backend>>

Leave(r) ==
  /\ Awaits(r, "done")
  /\ req' = [req EXCEPT ![r] = Idle]
  /\ UNCHANGED <<sso, ages, backend>>
-----------------------------------------------------------------------------
(* SSO, the clock and the process *)

ChangeRole ==
  /\ role' = IF role = "admin" THEN "user" ELSE "admin"
  /\ roleAge' = 0
  /\ UNCHANGED <<session, published, signed, active, sessionAge, keyAge, backend, req>>

Revoke ==
  /\ session /\ session' = FALSE
  /\ sessionAge' = 0
  /\ UNCHANGED <<role, published, signed, active, roleAge, keyAge, backend, req>>

\* The new key signs; the old one stays among the previous public keys.
Rotate(k) ==
  /\ k \notin signed
  /\ signed' = signed \cup {k} /\ published' = published \cup {k} /\ active' = k
  /\ keyAge' = [keyAge EXCEPT ![k] = 0]
  /\ UNCHANGED <<role, session, roleAge, sessionAge, backend, req>>

Withdraw(k) ==
  /\ k \in published \ {active}
  /\ published' = published \ {k}
  /\ keyAge' = [keyAge EXCEPT ![k] = 0]
  /\ UNCHANGED <<role, session, signed, active, roleAge, sessionAge, backend, req>>

Older(a, most) == IF a < most THEN a + 1 ELSE most
InFlight(r) == req[r].pc \in {"fetch", "fetched", "sent", "checked", "answered"}

\* A call that reached its timeout ends before time goes on.
Tick ==
  /\ \A r \in Req : InFlight(r) => req[r].age < Flight
  /\ req' = [r \in Req |->
       IF InFlight(r) THEN [req[r] EXCEPT !.age = @ + 1] ELSE req[r]]
  /\ roleAge' = Older(roleAge, Past)
  /\ sessionAge' = Older(sessionAge, Past)
  /\ keyAge' = [k \in Kid |-> Older(keyAge[k], KeyPast)]
  /\ fetchAge' = Older(fetchAge, MaxAge + 1)
  /\ cache' = [t \in Token |->
       IF cache[t].left > 1 THEN [cache[t] EXCEPT !.left = @ - 1] ELSE None]
  /\ UNCHANGED <<sso, keys, lock>>

\* The backend process is replaced: its memory and its requests are gone.
Restart ==
  /\ keys' = {} /\ fetchAge' = MaxAge + 1 /\ lock' = Nil /\ cache' = NoAnswers
  /\ req' = [r \in Req |-> Idle]
  /\ UNCHANGED <<sso, ages>>

Next ==
  \/ \E r \in Req : \/ \E t \in Token : Arrive(r, t)
                    \/ CheckKeys(r) \/ TakeLock(r) \/ Leave(r)
                    \/ SendKeys(r) \/ Fetched(r) \/ FetchFails(r)
                    \/ CheckSession(r) \/ ReadRole(r) \/ Answered(r) \/ CallFails(r)
  \/ ChangeRole \/ Revoke
  \/ \E k \in Kid : Rotate(k) \/ Withdraw(k)
  \/ Tick \/ Restart

Spec == Init /\ [][Next]_vars
-----------------------------------------------------------------------------
(* Properties *)

\* The values of every variable; whoever holds the lock is fetching.
TypeOK ==
  /\ role \in {"admin", "user"} /\ session \in BOOLEAN
  /\ published \subseteq Kid /\ active \in published
  /\ published \subseteq signed /\ signed \subseteq Kid
  /\ roleAge \in 0 .. Past /\ sessionAge \in 0 .. Past
  /\ keyAge \in [Kid -> 0 .. KeyPast]
  /\ keys \subseteq Kid /\ fetchAge \in 0 .. MaxAge + 1
  /\ cache \in [Token -> Entry]
  /\ req \in [Req -> Request]
  /\ \A r \in Req : lock = r <=> req[r].pc \in {"fetch", "fetched"}

\* What may still be believed of SSO: it held less than a call ago, plus the
\* time an answer is kept.
Recent(age) == age < TTL + Flight

Ends(r, code) == /\ req[r].pc # "done"
                 /\ req'[r].pc = "done" /\ req'[r].code = code
Accepted(r) == /\ req[r].pc \in {"keys", "lock", "fetch", "fetched"}
               /\ req'[r].pc = "sent" \/ Ends(r, "ok") \/ Ends(r, "forbidden")

\* "Demotions and revocations apply immediately", up to the 30 s cache: a
\* privileged route opens only to a role and a session that SSO still had
\* within the time an answer is kept and one call, whatever slower answers
\* overwrite in the cache and however the keys had to be fetched first.
GrantFresh ==
  [][\A r \in Req : Ends(r, "ok") =>
       /\ role = "admin" \/ Recent(roleAge)
       /\ session \/ Recent(sessionAge)]_vars

\* "SSO outages surface as 503, never as 403": a 403 or a 401 is never the
\* effect of an outage.  A 403 follows a role that SSO had within that time;
\* a 401 an ended session, or a key that was not published, or that
\* appeared within one refresh interval - or, alone, a failed fetch while
\* older keys are held.
RefusalFounded ==
  [][\A r \in Req :
       /\ Ends(r, "forbidden") => role = "user" \/ Recent(roleAge)
       /\ Ends(r, "unauthorized") =>
            \/ ~session
            \/ Signer(req[r]) \notin published
            \/ keyAge[Signer(req[r])] <= MinRefresh + Flight
            \/ FetchFails(r)]_vars

\* A key withdrawn from the published set is trusted no longer than the keys
\* are kept and one fetch, unless SSO could not be asked.
KeyTrusted ==
  [][\A r \in Req : Accepted(r) =>
       \/ Signer(req[r]) \in published
       \/ keyAge[Signer(req[r])] <= MaxAge + Flight
       \/ FetchFails(r)]_vars

\* A burst of requests with an unknown key fetches the keys once per refresh
\* interval, not once each: those that waited for the lock use what the first
\* one brought.
FetchesSpaced ==
  [][\A r \in Req : lock = r /\ lock' = Nil /\ fetchAge' = 0 =>
       fetchAge > MinRefresh \/ keys = {} \/ FetchFails(r)]_vars
-----------------------------------------------------------------------------
(* The inductive invariants behind the theorems of LiveIdentityProofs *)

\* What a request under way carries: a token SSO signed, and SSO's answer.
Carries ==
  \A r \in Req :
    /\ req[r].pc \notin {"idle", "done"} => req[r].token \in Token /\ Signer(req[r]) \in signed
    /\ req[r].pc = "answered" => req[r].me \in Answer

\* Whoever fetches the keys found that they may be.
FetchDue == lock # Nil => MayRefetch

\* Keys held, or brought by a call, differ from those published only in a key
\* that changed since they were read.
Differs(held, k) == ~(k \in held <=> k \in published)

KeysRecent ==
  \A k \in Kid :
    /\ Differs(keys, k) => keyAge[k] <= fetchAge + Flight
    /\ \A r \in Req :
         Awaits(r, "fetched") /\ Differs(req[r].jwks, k) => keyAge[k] <= req[r].age

\* An answer given an age ago: what it says of the role and the session is so, or
\* changed since; that nobody is signed in stays so.
Founded(t, value, age) ==
  IF value = "gone" THEN ~session \/ KeyOf[t] \in signed \ published
  ELSE /\ role = value \/ roleAge <= age
       /\ session \/ sessionAge <= age

AnswersFounded ==
  /\ \A t \in Token : Hit(t) => Founded(t, cache[t].value, TTL - cache[t].left + Flight)
  /\ \A r \in Req :
       /\ Awaits(r, "checked") => session \/ sessionAge <= req[r].age
       /\ Awaits(r, "answered") => Founded(req[r].token, req[r].me, req[r].age)
=============================================================================
