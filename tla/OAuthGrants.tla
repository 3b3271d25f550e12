----------------------------- MODULE OAuthGrants -----------------------------
(***************************************************************************)
(* The OAuth provider (app/services/oauth_service.py): authorization codes *)
(* and consent, the token endpoint, revocation, and what removing a client *)
(* takes with it.                                                          *)
(*                                                                         *)
(* As in Sessions, a request is a slot of `req`, its pc names the call it  *)
(* awaits next and other requests run in between.  `store` holds the OAuth *)
(* refresh tokens; the SSO sessions they are bound to are the sessions of  *)
(* SessionContract, which the handlers of module Sessions implement.       *)
(***************************************************************************)
EXTENDS RefreshTokenStore, FiniteSets

CONSTANTS
  Sid,        \* SSO sessions
  Code,       \* authorization codes
  Ask,        \* authorize requests waiting for consent
  Scope,
  Offline,    \* the scope offline_access
  ScopeSets,  \* what clients ask for, within their allowed_scopes
  FirstParty, \* clients that need no consent
  Lifetime, CodeTTL, PurgeAfter, AskTTL,
  Boot,       \* what the service may be started on: sessions, tokens and codes
  Req, MaxTime, Ops, Aborts   \* as in Sessions

ASSUME ScopeAssumption == ScopeSets \subseteq SUBSET Scope /\ Offline \in Scope
ASSUME FirstPartyAssumption == FirstParty \subseteq Client
ASSUME TimeAssumption == {Lifetime, CodeTTL, PurgeAfter, AskTTL, MaxTime} \subseteq Nat
ASSUME NameAssumption ==
  /\ Nil \notin Sid \cup Code \cup Ask
  /\ Token \cap (Sid \cup Code \cup Ask) = {} /\ Code \cap Ask = {}

GrantDoc == [user_id    : User,
             family_id  : Token,          \* grant_id
             expires_at : Nat,
             created_at : Nat,
             rotated_at : Nat \cup {Nil},
             client_id  : Client,
             session_id : Sid,
             scopes     : SUBSET Scope,
             auth_time  : Nat]

CodeDoc == [client_id   : Client,
            user_id     : User,
            sid         : Sid,
            scopes      : SUBSET Scope,
            auth_time   : Nat,
            expires_at  : Nat,
            purge_at    : Nat,
            consumed_at : Nat \cup {Nil},
            grant_id    : Token \cup {Nil},
            replayed    : BOOLEAN,             \* replayed_at is set
            ask         : Ask \cup {Nil}]      \* history: the request it decides

AskDoc == [user_id : User, client_id : Client, scopes : SUBSET Scope, expires_at : Nat]

ASSUME NoGrantAssumption == NoDoc \notin GrantDoc \cup CodeDoc \cup AskDoc

PCs == {"idle", "resolve", "authTime", "covered", "ask", "issue",
        "take", "decide", "grant", "decideTime",
        "consume", "check", "parent", "store", "recheck", "undo", "answer",
        "replay", "mark", "revokeGrant",
        "find", "expired", "claim", "reread", "reuse", "active", "ended", "insert",
        "revokeFind", "dropTokens", "dropConsents"}

Request == [pc      : PCs,
            client  : Client \cup {Nil},
            user    : User \cup {Nil},
            sid     : Sid \cup {Nil},
            scopes  : SUBSET Scope,
            auth    : Nat \cup {Nil},      \* auth_time
            now     : Nat,
            prompt  : BOOLEAN,             \* prompt=consent
            ask     : Ask \cup {Nil},
            approve : BOOLEAN,
            code    : Code \cup {Nil},
            grant   : Token \cup {Nil},
            tok     : Token \cup {Nil},    \* refresh token presented
            doc     : GrantDoc \cup {NoDoc},
            new     : Token \cup {Nil}]    \* refresh token to answer with

Idle == [pc |-> "idle", client |-> Nil, user |-> Nil, sid |-> Nil, scopes |-> {},
         auth |-> Nil, now |-> 0, prompt |-> FALSE, ask |-> Nil, approve |-> FALSE,
         code |-> Nil, grant |-> Nil, tok |-> Nil, doc |-> NoDoc, new |-> Nil]

VARIABLES
  clock,
  session,    \* the SSO sessions, as SessionContract sees them
  store,      \* refresh_tokens: the OAuth records
  codes,      \* oauth_codes
  asks,       \* oauth_requests
  consents,   \* oauth_consents: scopes granted to each client by each user
  clients,    \* registered clients
  req,
  drawn,      \* random names handed out so far; none is drawn twice
  delivered   \* OAuth refresh tokens some response has carried

data == <<store, codes, asks, consents>>
vars == <<clock, session, data, clients, req, drawn, delivered>>

Contract == INSTANCE SessionContract

Unborn == [phase |-> "unborn", owner |-> Nil, start |-> Nil, deadline |-> Nil]
Over   == [Unborn EXCEPT !.phase = "over"]

SameGrant(d, e) == [d EXCEPT !.rotated_at = Nil] = [e EXCEPT !.rotated_at = Nil]

\* An open session has an owner, a start and a deadline.
Owned(a) ==
  Contract!Open(a) => a.owner \in User /\ a.start \in Nat /\ a.deadline \in Nat

\* Collections the service can be started on: open sessions have owners; the
\* records of a grant agree, carry the owner and the deadline of its session
\* unless that is over, and the one that names the grant belongs to it;
\* third-party codes are consented to, and the token of a replayed one is gone.
\* No decision is remembered from before.
Sound(b) ==
  /\ \A s \in Sid : Owned(b.session[s])
  /\ \A t, x \in Records(b.store) :
       FamilyOf(b.store, t) = FamilyOf(b.store, x) => SameGrant(b.store[t], b.store[x])
  /\ \A t \in Records(b.store) :
       LET s == b.session[b.store[t].session_id] IN
       /\ s.phase # "unborn"
       /\ Contract!Open(s) => /\ s.owner = b.store[t].user_id
                              /\ s.deadline = b.store[t].expires_at
  /\ \A k \in {x \in Code : b.codes[x] # NoDoc} :
       LET cd == b.codes[k] IN
       /\ cd.ask = Nil
       /\ cd.replayed => cd.grant_id \notin Records(b.store)
       /\ cd.consumed_at = Nil => cd.grant_id = Nil
       /\ cd.grant_id \in Records(b.store) => FamilyOf(b.store, cd.grant_id) = cd.grant_id
       /\ cd.client_id \notin FirstParty =>
            cd.scopes \subseteq b.consents[<<cd.user_id, cd.client_id>>]

\* The names the records of b use.
NamesIn(b) ==
  {k \in Code : b.codes[k] # NoDoc}
    \cup (UNION {{t, FamilyOf(b.store, t)} : t \in Records(b.store)})
    \cup {g \in Token : \E k \in Code : b.codes[k] # NoDoc /\ b.codes[k].grant_id = g}

\* used: every name given out before, those of records long removed included.
ASSUME BootAssumption ==
  \A b \in Boot : /\ b \in [session  : [Sid -> Contract!State],
                             store    : [Token -> GrantDoc \cup {NoDoc}],
                             codes    : [Code -> CodeDoc \cup {NoDoc}],
                             consents : [User \X Client -> SUBSET Scope],
                             used     : SUBSET (Token \cup Code)]
                  /\ NamesIn(b) \subseteq b.used
                  /\ Sound(b)
-----------------------------------------------------------------------------
Init ==
  /\ clock = 0
  /\ \E b \in Boot : /\ session = b.session /\ store = b.store /\ codes = b.codes
                     /\ consents = b.consents /\ drawn = b.used
  /\ asks = [a \in Ask |-> NoDoc]
  /\ clients = Client
  /\ req = [r \in Req |-> Idle]
  /\ delivered = Records(store)

Begin(r, op, call) ==
  /\ op \in Ops
  /\ req[r] = Idle
  /\ req' = [req EXCEPT ![r] = call]

Finish(r) == req' = [req EXCEPT ![r] = Idle]

Goto(r, pc) == req' = [req EXCEPT ![r].pc = pc]

Await(r, pc) == req[r].pc = pc

\* A call that writes none of the collections.
Reads == UNCHANGED <<clock, session, data, clients, drawn, delivered>>

\* family_is_active and find_session of an SSO session.
Active(s, now) == session[s].phase = "live" /\ session[s].deadline > now
HasCurrent(u, s) == session[s].phase = "live" /\ session[s].owner = u
-----------------------------------------------------------------------------
(* authorize *)

Authorize(r, c, scopes, prompt) ==
  /\ c \in clients
  /\ Begin(r, "authorize", [Idle EXCEPT !.pc = "resolve", !.client = c,
                                        !.scopes = scopes, !.prompt = prompt])
  /\ Reads

\* resolve_session: nobody is signed in, or the session of this browser.
ResolveBrowser(r) ==
  /\ Await(r, "resolve")
  /\ \/ Finish(r)
     \/ \E s \in Sid :
          /\ Active(s, clock)
          /\ req' = [req EXCEPT ![r].pc = "authTime", ![r].sid = s,
                                ![r].user = session[s].owner]
  /\ Reads

\* No current record, prompt=login or an exceeded max_age: log in again.
AuthTime(r) ==
  LET q == req[r] IN
  /\ Await(r, "authTime")
  /\ \/ Finish(r)
     \/ /\ HasCurrent(q.user, q.sid)
        /\ req' = [req EXCEPT ![r].auth = session[q.sid].start, ![r].now = clock,
                              ![r].pc = IF q.client \in FirstParty THEN "issue"
                                                                   ELSE "covered"]
  /\ Reads

\* Fault: any earlier consent covers the request.
CoveredByAny(r) ==
  LET q == req[r] IN
  /\ Await(r, "covered")
  /\ IF ~q.prompt /\ consents[<<q.user, q.client>>] # {}
     THEN Goto(r, "issue") ELSE Goto(r, "ask")
  /\ Reads

Covered(r) ==
  LET q == req[r]
      granted == consents[<<q.user, q.client>>] IN
  /\ Await(r, "covered")
  /\ IF ~q.prompt /\ granted # {} /\ q.scopes \subseteq granted
     THEN Goto(r, "issue")
     ELSE Goto(r, "ask") \/ Finish(r)    \* prompt=none: consent_required
  /\ Reads

AskConsent(r, a) ==
  LET q == req[r] IN
  /\ Await(r, "ask")
  /\ a \notin drawn
  /\ asks' = [asks EXCEPT ![a] = [user_id |-> q.user, client_id |-> q.client,
                                  scopes |-> q.scopes, expires_at |-> q.now + AskTTL]]
  /\ drawn' = drawn \cup {a}
  /\ Finish(r)
  /\ UNCHANGED <<clock, session, store, codes, consents, clients, delivered>>

\* _issue_code, the last call of authorize and of decide_consent.
IssueCode(r, k) ==
  LET q == req[r] IN
  /\ Await(r, "issue")
  /\ k \notin drawn
  /\ codes' = [codes EXCEPT ![k] =
       [client_id |-> q.client, user_id |-> q.user, sid |-> q.sid, scopes |-> q.scopes,
        auth_time |-> IF q.auth = Nil THEN clock ELSE q.auth,
        expires_at |-> clock + CodeTTL, purge_at |-> clock + PurgeAfter,
        consumed_at |-> Nil, grant_id |-> Nil, replayed |-> FALSE, ask |-> q.ask]]
  /\ drawn' = drawn \cup {k}
  /\ Finish(r)
  /\ UNCHANGED <<clock, session, store, asks, consents, clients, delivered>>
-----------------------------------------------------------------------------
(* decide_consent, behind require_auth *)

Decide(r, a, s, approve) ==
  /\ Active(s, clock)
  /\ Begin(r, "consent", [Idle EXCEPT !.pc = "take", !.ask = a, !.approve = approve,
                            !.sid = s, !.user = session[s].owner, !.now = clock])
  /\ Reads

Pending(a, u, now) == /\ asks[a] # NoDoc
                      /\ asks[a].user_id = u
                      /\ asks[a].expires_at > now

\* Fault: the request is read, not taken.
TakeCopy(r) ==
  LET q == req[r] IN
  /\ Await(r, "take")
  /\ IF Pending(q.ask, q.user, q.now)
     THEN req' = [req EXCEPT ![r].pc = "decide", ![r].client = asks[q.ask].client_id,
                             ![r].scopes = asks[q.ask].scopes]
     ELSE Finish(r)
  /\ Reads

Take(r) ==
  LET q == req[r] IN
  /\ Await(r, "take")
  /\ IF Pending(q.ask, q.user, q.now)
     THEN /\ req' = [req EXCEPT ![r].pc = "decide", ![r].client = asks[q.ask].client_id,
                                ![r].scopes = asks[q.ask].scopes]
          /\ asks' = [asks EXCEPT ![q.ask] = NoDoc]
     ELSE Finish(r) /\ UNCHANGED asks
  /\ UNCHANGED <<clock, session, store, codes, consents, clients, drawn, delivered>>

\* The client may be gone, its redirect_uri no longer registered, or the user
\* may refuse.
DecideClient(r) ==
  LET q == req[r] IN
  /\ Await(r, "decide")
  /\ \/ Finish(r)
     \/ q.client \in clients /\ q.approve /\ Goto(r, "grant")
  /\ Reads

GrantConsent(r) ==
  LET q == req[r] IN
  /\ Await(r, "grant")
  /\ consents' = [consents EXCEPT ![<<q.user, q.client>>] = @ \cup q.scopes]
  /\ Goto(r, "decideTime")
  /\ UNCHANGED <<clock, session, store, codes, asks, clients, drawn, delivered>>

\* Without a current record _issue_code takes the present for auth_time.
DecideTime(r) ==
  LET q == req[r] IN
  /\ Await(r, "decideTime")
  /\ req' = [req EXCEPT ![r].pc = "issue",
               ![r].auth = IF HasCurrent(q.user, q.sid) THEN session[q.sid].start ELSE Nil]
  /\ Reads
-----------------------------------------------------------------------------
(* token: authorization_code *)

\* authenticate_client; the grant is named before the code is looked at.
Exchange(r, c, k, g) ==
  /\ c \in clients
  /\ g \notin drawn
  /\ Begin(r, "exchange", [Idle EXCEPT !.pc = "consume", !.client = c, !.code = k,
                                       !.grant = g, !.now = clock])
  /\ drawn' = drawn \cup {g}
  /\ UNCHANGED <<clock, session, data, clients, delivered>>

CanConsume(k, c) == /\ codes[k] # NoDoc
                    /\ codes[k].client_id = c
                    /\ codes[k].consumed_at = Nil

\* proof: redirect_uri and code_verifier match; the code is spent either way.
Consume(r, proof) ==
  LET q == req[r]
      cd == codes[q.code] IN
  /\ Await(r, "consume")
  /\ IF CanConsume(q.code, q.client)
     THEN /\ codes' = [codes EXCEPT ![q.code].consumed_at = q.now,
                                    ![q.code].grant_id = q.grant]
          /\ IF cd.expires_at <= q.now \/ ~proof
             THEN Finish(r)
             ELSE req' = [req EXCEPT ![r] =
                    [q EXCEPT !.pc = "check", !.user = cd.user_id, !.sid = cd.sid,
                              !.scopes = cd.scopes, !.auth = cd.auth_time]]
     ELSE Goto(r, "replay") /\ UNCHANGED codes
  /\ UNCHANGED <<clock, session, store, asks, consents, clients, drawn, delivered>>

CheckSession(r) ==
  LET q == req[r] IN
  /\ Await(r, "check")
  /\ IF Active(q.sid, q.now)
     THEN Goto(r, IF Offline \in q.scopes THEN "parent" ELSE "answer")
     ELSE Finish(r)
  /\ Reads

\* Fault: the refresh token gets a lifetime of its own.
FirstRecordOwnLife(q, deadline) ==
  [user_id |-> q.user, family_id |-> q.grant, expires_at |-> q.now + Lifetime,
   created_at |-> q.now, rotated_at |-> Nil, client_id |-> q.client,
   session_id |-> q.sid, scopes |-> q.scopes, auth_time |-> q.auth]

\* The first refresh token of a grant lives as long as the session.
FirstRecord(q, deadline) ==
  [user_id |-> q.user, family_id |-> q.grant, expires_at |-> deadline,
   created_at |-> q.now, rotated_at |-> Nil, client_id |-> q.client,
   session_id |-> q.sid, scopes |-> q.scopes, auth_time |-> q.auth]

\* Without a current record of the session the answer has no refresh token.
FindParent(r) ==
  LET q == req[r] IN
  /\ Await(r, "parent")
  /\ IF HasCurrent(q.user, q.sid)
     THEN req' = [req EXCEPT ![r].pc = "store",
                             ![r].doc = FirstRecord(q, session[q.sid].deadline)]
     ELSE Goto(r, "answer")
  /\ Reads

InsertFirst(r) ==
  LET q == req[r] IN
  /\ Await(r, "store")
  /\ store' = InsertRecord(store, q.grant, q.doc)
  /\ req' = [req EXCEPT ![r].pc = "recheck", ![r].new = q.grant]
  /\ UNCHANGED <<clock, session, codes, asks, consents, clients, drawn, delivered>>

\* Fault: the answer leaves without looking at the code again.
RecheckNothing(r) == Await(r, "recheck") /\ Goto(r, "answer") /\ Reads

\* A replay that raced this exchange may have revoked before the insert.
Recheck(r) ==
  LET cd == codes[req[r].code] IN
  /\ Await(r, "recheck")
  /\ Goto(r, IF cd # NoDoc /\ cd.replayed THEN "undo" ELSE "answer")
  /\ Reads

\* Fault: an answer without a refresh token counts as one with a token.
AnswerNil(r) ==
  /\ Await(r, "answer")
  /\ delivered' = delivered \cup {req[r].new}
  /\ Finish(r)
  /\ UNCHANGED <<clock, session, data, clients, drawn>>

Answer(r) ==
  /\ Await(r, "answer")
  /\ delivered' = delivered \cup ({req[r].new} \ {Nil})
  /\ Finish(r)
  /\ UNCHANGED <<clock, session, data, clients, drawn>>

\* Fault: the replaying request revokes the grant it drew itself.
FindReplayedOwn(r) ==
  LET q == req[r]
      cd == codes[q.code] IN
  /\ Await(r, "replay")
  /\ Goto(r, IF cd # NoDoc /\ cd.consumed_at # Nil /\ cd.client_id = q.client
             THEN "mark" ELSE "answer")
  /\ Reads

\* _handle_code_replay: flag first, then revoke.
FindReplayed(r) ==
  LET q == req[r]
      cd == codes[q.code] IN
  /\ Await(r, "replay")
  /\ IF cd # NoDoc /\ cd.consumed_at # Nil /\ cd.client_id = q.client
     THEN req' = [req EXCEPT ![r].pc = "mark", ![r].grant = cd.grant_id]
     ELSE Finish(r)
  /\ Reads

MarkReplayed(r) ==
  LET k == req[r].code IN
  /\ Await(r, "mark")
  /\ codes' = IF codes[k] = NoDoc THEN codes ELSE [codes EXCEPT ![k].replayed = TRUE]
  /\ Goto(r, "revokeGrant")
  /\ UNCHANGED <<clock, session, store, asks, consents, clients, drawn, delivered>>

\* revoke_family of the grant, for whatever reason.
RevokeGrant(r) ==
  /\ req[r].pc \in {"undo", "revokeGrant", "expired", "reuse", "ended"}
  /\ store' = RevokeFamily(store, req[r].grant)
  /\ Finish(r)
  /\ UNCHANGED <<clock, session, codes, asks, consents, clients, drawn, delivered>>
-----------------------------------------------------------------------------
(* token: refresh_token *)

Refresh(r, c, tok) ==
  /\ c \in clients
  /\ Begin(r, "refresh", [Idle EXCEPT !.pc = "find", !.client = c, !.tok = tok,
                                      !.now = clock])
  /\ Reads

IsOf(t, c) == t \in Records(store) /\ store[t].client_id = c

\* The rotation rules name the next call of a session refresh; a grant looks at
\* its session before it inserts.
AfterGrantRead(now, rotated_at) ==
  LET pc == AfterRead(now, rotated_at) IN IF pc = "insert" THEN "active" ELSE pc

FindGrant(r) ==
  LET q == req[r]
      doc == store[q.tok] IN
  /\ Await(r, "find")
  /\ IF IsOf(q.tok, q.client)
     THEN req' = [req EXCEPT ![r] =
            [q EXCEPT !.doc = doc, !.user = doc.user_id, !.sid = doc.session_id,
                      !.grant = FamilyOf(store, q.tok),
                      !.pc = IF doc.expires_at <= q.now THEN "expired"
                             ELSE AfterGrantRead(q.now, doc.rotated_at)]]
     ELSE Finish(r)
  /\ Reads

ClaimGrant(r) ==
  LET q == req[r] IN
  /\ Await(r, "claim")
  /\ store' = ClaimRotation(store, q.tok, q.now)
  /\ Goto(r, IF CanClaim(store, q.tok) THEN "active" ELSE "reread")
  /\ UNCHANGED <<clock, session, codes, asks, consents, clients, drawn, delivered>>

\* Fault: a record that is gone counts as just rotated.
ReReadGrantTrusting(r) ==
  LET q == req[r] IN
  /\ Await(r, "reread")
  /\ Goto(r, IF q.tok \in Records(store)
             THEN AfterGrantRead(q.now, store[q.tok].rotated_at) ELSE "active")
  /\ Reads

ReReadGrant(r) ==
  LET q == req[r] IN
  /\ Await(r, "reread")
  /\ IF q.tok \in Records(store) /\ store[q.tok].rotated_at # Nil
     THEN Goto(r, AfterGrantRead(q.now, store[q.tok].rotated_at))
     ELSE Finish(r)
  /\ Reads

\* Fault: the session behind the grant is not looked at.
RefreshActiveBlind(r) == Await(r, "active") /\ Goto(r, "insert") /\ Reads

\* A scope beyond the grant is refused after the rotation.
RefreshActive(r) ==
  LET q == req[r] IN
  /\ Await(r, "active")
  /\ \/ Finish(r)
     \/ Goto(r, IF Active(q.sid, q.now) THEN "insert" ELSE "ended")
  /\ Reads

\* Fault: the successor keeps the time of the refresh as its auth_time.
NextRecordReauth(q) == [q.doc EXCEPT !.rotated_at = Nil, !.auth_time = q.now]

\* Fault: the successor gets a lifetime of its own.
NextRecordOwnLife(q) == [q.doc EXCEPT !.rotated_at = Nil, !.expires_at = q.now + Lifetime]

NextRecord(q) == [q.doc EXCEPT !.rotated_at = Nil]

InsertNext(r, t) ==
  /\ Await(r, "insert")
  /\ t \notin drawn
  /\ store' = InsertRecord(store, t, NextRecord(req[r]))
  /\ drawn' = drawn \cup {t}
  /\ req' = [req EXCEPT ![r].pc = "answer", ![r].new = t]
  /\ UNCHANGED <<clock, session, codes, asks, consents, clients, delivered>>
-----------------------------------------------------------------------------
(* revoke *)

Revoke(r, c, tok) ==
  /\ c \in clients
  /\ Begin(r, "revoke", [Idle EXCEPT !.pc = "revokeFind", !.client = c, !.tok = tok])
  /\ Reads

RevokeFind(r) ==
  LET q == req[r] IN
  /\ Await(r, "revokeFind")
  /\ IF IsOf(q.tok, q.client)
     THEN req' = [req EXCEPT ![r].pc = "revokeGrant",
                             ![r].grant = FamilyOf(store, q.tok)]
     ELSE Finish(r)
  /\ Reads
-----------------------------------------------------------------------------
(* Administration of clients *)

DeleteClient(r, c) ==
  /\ c \in clients
  /\ Begin(r, "delete", [Idle EXCEPT !.pc = "dropTokens", !.client = c])
  /\ clients' = clients \ {c}
  /\ UNCHANGED <<clock, session, data, drawn, delivered>>

DropTokens(r) ==
  /\ Await(r, "dropTokens")
  /\ store' = DeleteForClient(store, req[r].client)
  /\ Goto(r, "dropConsents")
  /\ UNCHANGED <<clock, session, codes, asks, consents, clients, drawn, delivered>>

DropConsents(r) ==
  /\ Await(r, "dropConsents")
  /\ consents' = [uc \in User \X Client |->
                    IF uc[2] = req[r].client THEN {} ELSE consents[uc]]
  /\ Finish(r)
  /\ UNCHANGED <<clock, session, store, codes, asks, clients, drawn, delivered>>
-----------------------------------------------------------------------------
(* The sessions, time, clean-up and failures *)

Login(s, u) ==
  /\ session[s] = Unborn
  /\ session' = [session EXCEPT ![s] = [phase |-> "live", owner |-> u, start |-> clock,
                                        deadline |-> clock + Lifetime]]
  /\ UNCHANGED <<clock, data, clients, req, drawn, delivered>>

\* What module Sessions does to a session: rotate it, end it, revive it.
MoveTo(a, phase) == IF phase = "over" THEN Over ELSE [a EXCEPT !.phase = phase]

SessionMoves(s, phase) ==
  /\ Contract!Open(session[s])
  /\ session' = [session EXCEPT ![s] = MoveTo(@, phase)]
  /\ UNCHANGED <<clock, data, clients, req, drawn, delivered>>

\* delete_all_for_user: sign out everywhere, revoke the other sessions, change
\* or reset the password.  OAuth grants are records of the user too, and never
\* of the session that is kept.
SignOut(u, keep, end) ==
  /\ "signout" \in Ops
  /\ store' = DeleteAllForUser(store, u, keep)
  /\ session' = [s \in Sid |->
       IF Contract!Open(session[s]) /\ session[s].owner = u /\ s # keep
       THEN MoveTo(session[s], end[s]) ELSE session[s]]
  /\ UNCHANGED <<clock, codes, asks, consents, clients, req, drawn, delivered>>

Tick ==
  /\ clock < MaxTime
  /\ clock' = clock + 1
  /\ UNCHANGED <<session, data, clients, req, drawn, delivered>>

\* TTL indexes and the nightly job remove what has expired, record by record.
Expire(t) ==
  /\ t \in Expired(store, clock)
  /\ store' = Without(store, {t})
  /\ UNCHANGED <<clock, session, codes, asks, consents, clients, req, drawn, delivered>>

PurgeCode(k) ==
  /\ codes[k] # NoDoc /\ codes[k].purge_at <= clock
  /\ codes' = [codes EXCEPT ![k] = NoDoc]
  /\ UNCHANGED <<clock, session, store, asks, consents, clients, req, drawn, delivered>>

DropAsk(a) ==
  /\ asks[a] # NoDoc /\ asks[a].expires_at <= clock
  /\ asks' = [asks EXCEPT ![a] = NoDoc]
  /\ UNCHANGED <<clock, session, store, codes, consents, clients, req, drawn, delivered>>

Abort(r) ==
  /\ Aborts
  /\ req[r].pc # "idle"
  /\ Finish(r)
  /\ Reads
-----------------------------------------------------------------------------
Arrive(r) ==
  \/ \E c \in Client :
       \/ \E scopes \in ScopeSets, prompt \in BOOLEAN : Authorize(r, c, scopes, prompt)
       \/ \E k \in drawn \cap Code, g \in Token : Exchange(r, c, k, g)
       \/ \E tok \in delivered : Refresh(r, c, tok) \/ Revoke(r, c, tok)
       \/ DeleteClient(r, c)
  \/ \E a \in drawn \cap Ask, s \in Sid, approve \in BOOLEAN : Decide(r, a, s, approve)

Step(r) ==
  \/ ResolveBrowser(r) \/ AuthTime(r) \/ Covered(r)
  \/ (\E a \in Ask : AskConsent(r, a)) \/ (\E k \in Code : IssueCode(r, k))
  \/ Take(r) \/ DecideClient(r) \/ GrantConsent(r) \/ DecideTime(r)
  \/ \E proof \in BOOLEAN : Consume(r, proof)
  \/ CheckSession(r) \/ FindParent(r) \/ InsertFirst(r) \/ Recheck(r) \/ Answer(r)
  \/ FindReplayed(r) \/ MarkReplayed(r) \/ RevokeGrant(r)
  \/ FindGrant(r) \/ ClaimGrant(r) \/ ReReadGrant(r) \/ RefreshActive(r)
  \/ \E t \in Token : InsertNext(r, t)
  \/ RevokeFind(r) \/ DropTokens(r) \/ DropConsents(r)

Environment ==
  \/ \E s \in Sid, u \in User : Login(s, u)
  \/ \E s \in Sid : \E phase \in Contract!OpenPhases \cup {"over"} : SessionMoves(s, phase)
  \/ \E u \in User, keep \in Sid \cup {Nil}, end \in [Sid -> {"ending", "over"}] :
        SignOut(u, keep, end)
  \/ Tick
  \/ \E t \in Token : Expire(t)
  \/ \E k \in Code : PurgeCode(k)
  \/ \E a \in Ask : DropAsk(a)

Next == Environment \/ \E r \in Req : Arrive(r) \/ Step(r) \/ Abort(r)

Spec == Init /\ [][Next]_vars

FairSpec == Spec /\ \A r \in Req : WF_vars(Step(r))
-----------------------------------------------------------------------------
(* Properties *)

\* Type correctness of the collections and of every handler's locals.
TypeOK ==
  /\ clock \in Nat
  /\ session \in [Sid -> Contract!State]
  /\ store \in [Token -> GrantDoc \cup {NoDoc}]
  /\ codes \in [Code -> CodeDoc \cup {NoDoc}]
  /\ asks \in [Ask -> AskDoc \cup {NoDoc}]
  /\ consents \in [User \X Client -> SUBSET Scope]
  /\ clients \subseteq Client
  /\ req \in [Req -> Request]
  /\ drawn \subseteq Token \cup Code \cup Ask
  /\ delivered \subseteq drawn \cap Token

\* Requests holding a copy of a record of their grant.
HoldsDoc(r) == req[r].doc # NoDoc

\* One code, one grant: all its refresh tokens, those about to be stored
\* included, carry the same user, client, session, scopes, auth_time and
\* deadline.  A refresh widens and renews nothing.
OneGrant ==
  /\ \A t, x \in Records(store) :
        FamilyOf(store, t) = FamilyOf(store, x) => SameGrant(store[t], store[x])
  /\ \A r \in Req : HoldsDoc(r) =>
        \A t \in Family(store, req[r].grant) : SameGrant(req[r].doc, store[t])

\* A grant belongs to the user of the session that authorized it and expires
\* with that session ("OAuth refresh tokens never outlive that session").
BoundToSession ==
  \A t \in Records(store) :
    LET s == session[store[t].session_id] IN
    Contract!Open(s) => /\ store[t].user_id = s.owner
                        /\ store[t].expires_at = s.deadline

\* A refresh about to look at its session, or to store a successor, holds a
\* token that was rotated no longer than the grace window ago.
GrantInGrace ==
  \A r \in Req : req[r].pc \in {"active", "insert"} /\ req[r].tok \in Records(store) =>
    /\ store[req[r].tok].rotated_at # Nil
    /\ InGrace(req[r].now, store[req[r].tok].rotated_at)

WorksOn(r, k) == req[r].code = k

\* Once a code is marked replayed and every request presenting it has ended,
\* the refresh token its exchange stored is gone, whichever of the two calls
\* of the exchange and of the replay came first.
ReplayedTokenGone ==
  \A k \in Code : codes[k] # NoDoc /\ codes[k].replayed /\ (\A r \in Req : ~WorksOn(r, k))
     => codes[k].grant_id \notin Records(store)

\* Requests that can still store a record of grant g.
MayAdd(r, g) ==
  /\ req[r].grant = g
  /\ req[r].pc \in {"consume", "check", "parent", "store", "active", "insert"}

DeadGrant(g) ==
  g \in drawn /\ Family(store, g) = {} /\ \A r \in Req : ~MayAdd(r, g)

\* A grant that was revoked, replayed or swept stays so, unless an exchange or
\* a refresh was already past its checks.
GrantStaysDead == [][\A g \in Token : DeadGrant(g) => DeadGrant(g)']_vars

\* Nobody is about to store a token for session s, which is over.
Quiet(s) == /\ session[s].phase = "over"
            /\ \A r \in Req : ~(req[r].sid = s /\ req[r].pc \in {"store", "insert"})

\* "Ending that session invalidates the grant": no refresh token is stored for
\* a session that is over, unless its request had found the session active.
OverIssuesNothing ==
  [][\A s \in Sid : Quiet(s) =>
       /\ Quiet(s)'
       /\ \A t \in Records(store') \ Records(store) : store'[t].session_id # s]_vars

\* A third-party client holds no code for scopes its user has not consented to.
CodesConsented ==
  \A k \in Code :
    codes[k] # NoDoc /\ codes[k].client_id \in clients \ FirstParty =>
      codes[k].scopes \subseteq consents[<<codes[k].user_id, codes[k].client_id>>]

\* "A decision is final": however often it is sent, a consent decision yields
\* at most one code.
OneDecision ==
  \A k, l \in {x \in Code : codes[x] # NoDoc} :
    codes[k].ask = codes[l].ask /\ codes[k].ask # Nil => k = l

\* A request presents again a code that was spent.
Replayed(k) ==
  \E r \in Req : /\ Await(r, "replay") /\ WorksOn(r, k)
                /\ codes[k] # NoDoc /\ codes[k].client_id = req[r].client
                /\ codes[k].consumed_at # Nil

\* Presenting a spent code takes its grant down, while the code is remembered.
ReplayRevokes ==
  \A k \in Code :
    Replayed(k) ~> codes[k] = NoDoc \/ Family(store, codes[k].grant_id) = {}
-----------------------------------------------------------------------------
(* The inductive invariants behind the theorems of OAuthGrantsProofs *)

Owners == \A s \in Sid : Owned(session[s])

\* Every name in use was drawn, and is never drawn again.
Named ==
  /\ \A t \in Records(store) : t \in drawn /\ FamilyOf(store, t) \in drawn
  /\ \A k \in Code : codes[k] # NoDoc =>
        k \in drawn /\ {codes[k].grant_id, codes[k].ask} \subseteq drawn \cup {Nil}
  /\ \A a \in Ask : asks[a] # NoDoc => a \in drawn
  /\ \A r \in Req :
        {req[r].ask, req[r].code, req[r].grant, req[r].tok, req[r].new}
          \subseteq drawn \cup {Nil}

SignedInPCs == {"authTime", "covered", "ask", "issue", "take", "decide", "grant",
                "decideTime", "check", "parent"}

\* An exchange that has not stored its refresh token, and what follows it.
ExchangePCs == {"consume", "check", "parent", "store"}

RotationPCs == {"expired", "claim", "reread", "reuse", "active", "ended", "insert"}

\* What a handler may rely on at each of its calls.
LocalOK(q) ==
  /\ q.pc \notin {"idle", "take"} => q.client \in Client
  /\ q.pc \in SignedInPCs => q.user \in User /\ q.sid \in Sid
  /\ q.pc \in {"resolve", "authTime", "covered", "ask"} => q.ask = Nil
  /\ q.pc \in {"take", "decide", "grant", "decideTime"} => q.ask # Nil
  /\ q.pc \in {"check", "parent"} => q.auth \in Nat
  /\ q.pc \in ExchangePCs => q.grant # Nil /\ q.tok = Nil /\ q.new = Nil
  /\ q.pc \in ExchangePCs \cup {"recheck", "replay", "mark"} => q.code # Nil
  /\ q.pc \in {"store"} \cup RotationPCs => q.doc # NoDoc
  /\ q.doc # NoDoc => /\ q.pc \in {"store", "recheck", "undo", "answer"} \cup RotationPCs
                      /\ q.doc.family_id = q.grant /\ q.doc.session_id = q.sid
  /\ q.pc \in {"dropTokens", "dropConsents"} => q.client \notin clients
  /\ q.pc = "revokeFind" => q.code = Nil

Locals == \A r \in Req : LocalOK(req[r])

Base == TypeOK /\ Owners /\ Named /\ Locals

Exchanging(r) == req[r].pc \in ExchangePCs

\* The grant an exchange drew is in nobody else's hands, its name is the one
\* its code remembers, and no token of it exists.
FreshGrants ==
  \A r \in Req : Exchanging(r) =>
    LET g == req[r].grant IN
    /\ g \notin delivered \cup Records(store)
    /\ Family(store, g) = {}
    /\ \A p \in Req \ {r} :
          /\ g \notin {req[p].tok, req[p].new}
          /\ HoldsDoc(p) \/ Exchanging(p) => req[p].grant # g
    /\ \A k \in Code : codes[k] # NoDoc /\ codes[k].grant_id = g =>
          req[r].code = k /\ ~Await(r, "consume")

\* A rotation works on the grant its token belongs to.
OwnGrants ==
  \A r \in Req : req[r].pc \in RotationPCs /\ req[r].tok \in Records(store) =>
    FamilyOf(store, req[r].tok) = req[r].grant

\* Copies of one grant that handlers hold agree like the records themselves.
CopiesAgree ==
  \A r, p \in Req : HoldsDoc(r) /\ HoldsDoc(p) /\ req[r].grant = req[p].grant =>
    SameGrant(req[r].doc, req[p].doc)

\* What BoundToSession says of a record, of a session that was born.
Bound(doc) ==
  LET s == session[doc.session_id] IN
  /\ s.phase # "unborn"
  /\ Contract!Open(s) => doc.user_id = s.owner /\ doc.expires_at = s.deadline

AllBound ==
  /\ \A t \in Records(store) : Bound(store[t])
  /\ \A r \in Req : HoldsDoc(r) => Bound(req[r].doc)

\* What a code remembers: unspent ones name no grant, and the token that names
\* a grant belongs to it.
CodeGrants ==
  \A k \in Code : codes[k] # NoDoc =>
    LET g == codes[k].grant_id IN
    /\ codes[k].consumed_at = Nil => g = Nil
    /\ g \in Records(store) => FamilyOf(store, g) = g
    /\ \A r \in Req : WorksOn(r, k) /\ req[r].pc \in {"mark", "revokeGrant"} =>
          codes[k].consumed_at # Nil /\ req[r].grant = g

\* A request is about to take the token of a replayed code down.
Chased ==
  \A k \in Code : /\ codes[k] # NoDoc /\ codes[k].replayed
                  /\ codes[k].grant_id \in Records(store)
    => \E r \in Req : /\ WorksOn(r, k) /\ req[r].grant = codes[k].grant_id
                      /\ req[r].pc \in {"recheck", "undo", "revokeGrant"}

\* A code about to be issued is consented to.
IssuesConsented ==
  \A r \in Req : LET q == req[r] IN
    q.pc \in {"decideTime", "issue"} /\ q.client \in clients \ FirstParty =>
      q.scopes \subseteq consents[<<q.user, q.client>>]

\* Requests that took the consent request they decide.
Deciding(r, a) ==
  req[r].ask = a /\ req[r].pc \in {"decide", "grant", "decideTime", "issue"}

Decided(a) == \E k \in Code : codes[k] # NoDoc /\ codes[k].ask = a

\* A consent request is pending, being decided by one request, or decided.
OneDecider ==
  \A a \in Ask :
    /\ asks[a] # NoDoc => ~Decided(a) /\ \A r \in Req : ~Deciding(r, a)
    /\ \A r \in Req : Deciding(r, a) =>
          ~Decided(a) /\ \A p \in Req \ {r} : ~Deciding(p, a)
-----------------------------------------------------------------------------
(* What the documentation says and the code does not do; see the README. *)

\* oauth_service.py: a grant refused with "The session behind this grant has
\* ended" belongs to a session that has.
EndedMeansEnded ==
  \A r \in Req : Await(r, "ended") =>
    LET s == session[req[r].sid] IN
    s.phase \in {"ending", "over"} \/ s.deadline <= req[r].now
=============================================================================
