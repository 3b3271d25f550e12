------------------------------ MODULE Sessions ------------------------------
(***************************************************************************)
(* The session half of AuthService (app/services/auth_service.py): login,  *)
(* rotation with its reuse grace window, /session, logout and revocation.  *)
(*                                                                         *)
(* Every handler is a coroutine: between two awaited MongoDB calls any     *)
(* other request may run.  A request is a slot of `req`; its pc names the  *)
(* call it awaits next, the other fields are the handler's locals.         *)
(***************************************************************************)
EXTENDS RefreshTokenStore, FiniteSets

CONSTANTS
  Req,        \* slots for requests in flight
  Lifetimes,  \* session lifetimes (remember me, short)
  MaxTime,    \* bound on the clock
  Boot,       \* stores the service may be started on
  Ops,        \* entry points this instance exercises
  Aborts      \* may a request die between two calls?

ASSUME TokenAssumption == IsFiniteSet(Token)
ASSUME LifetimesAssumption == Lifetimes \subseteq Nat
ASSUME MaxTimeAssumption == MaxTime \in Nat

PCs == {"idle", "retireFind", "retireRevoke", "resolve", "find", "expired",
        "adopt", "claim", "reread", "reuse", "insert", "reply",
        "logoutFind", "logoutEnd", "revokeFind", "revokeTarget",
        "endOthers", "counted"}

Request == [pc    : PCs,
            tok   : Token \cup {Nil},    \* refresh cookie presented
            user  : User \cup {Nil},
            sid   : Token \cup {Nil},    \* session the handler works on
            now   : Nat,                 \* utcnow() read by the handler
            rec   : Doc \cup {NoDoc},    \* record read by find_by_hash
            new   : Token \cup {Nil},    \* token issued by this request
            all   : BOOLEAN,             \* logout everywhere
            count : Nat,                 \* deleted_count of revoke-others
            named : SUBSET Token]        \* history: the sessions it ended

Idle == [pc |-> "idle", tok |-> Nil, user |-> Nil, sid |-> Nil, now |-> 0,
         rec |-> NoDoc, new |-> Nil, all |-> FALSE, count |-> 0, named |-> {}]

VARIABLES
  clock,
  store,      \* the refresh_tokens collection
  req,
  minted,     \* tokens generated so far; create_refresh_token never repeats
  delivered,  \* refresh tokens some response has carried
  access      \* access[s]: user of the access tokens issued with sid s, or Nil

vars == <<clock, store, req, minted, delivered, access>>

(***************************************************************************)
(* A store the service can be started on: records of one family agree, and *)
(* records that predate families were never rotated.                       *)
(***************************************************************************)
SameSession(d, e) == /\ d.user_id    = e.user_id
                     /\ d.expires_at = e.expires_at
                     /\ d.created_at = e.created_at
                     /\ d.client_id  = e.client_id

Sound(st) ==
  /\ \A t, x \in Records(st) :
        FamilyOf(st, t) = FamilyOf(st, x) => SameSession(st[t], st[x])
  /\ \A t \in Records(st) : st[t].family_id = Nil => st[t].rotated_at = Nil

ASSUME BootAssumption == \A st \in Boot : st \in Store /\ Sound(st)
-----------------------------------------------------------------------------
Init ==
  /\ clock = 0
  /\ store \in Boot
  /\ req = [r \in Req |-> Idle]
  /\ minted = Records(store) \cup {FamilyOf(store, t) : t \in Records(store)}
  /\ delivered = Records(store)
  /\ access = [s \in Token |-> Nil]

Cookie == delivered \cup {Nil}

SidOfAccessToken == {s \in Token : access[s] # Nil}

Begin(r, op, call) ==
  /\ op \in Ops
  /\ req[r] = Idle
  /\ req' = [req EXCEPT ![r] = call]

Finish(r) == req' = [req EXCEPT ![r] = Idle]

Goto(r, pc) == req' = [req EXCEPT ![r].pc = pc]

Await(r, pc) == req[r].pc = pc

\* What find_by_hash returned: a first-party record, a rotated one.
HasSession(t) == t \in Records(store) /\ store[t].client_id = Nil
IsRotated(t)  == t \in Records(store) /\ store[t].rotated_at # Nil

TokensUnchanged == UNCHANGED <<minted, delivered, access>>
-----------------------------------------------------------------------------
(* Login: _start_session, then retire_session for the browser's old cookie *)

NewSession(u, t, lifetime) ==
  [user_id |-> u, family_id |-> t, expires_at |-> clock + lifetime,
   created_at |-> clock, rotated_at |-> Nil, client_id |-> Nil, session_id |-> Nil]

StartSession(r, u, t, tok, lifetime) ==
  /\ t \notin minted
  /\ Begin(r, "login",
       [Idle EXCEPT !.pc = IF tok = Nil THEN "reply" ELSE "retireFind",
                    !.tok = tok, !.user = u, !.sid = t, !.new = t])
  /\ store' = InsertRecord(store, t, NewSession(u, t, lifetime))
  /\ minted' = minted \cup {t}
  /\ UNCHANGED <<clock, delivered, access>>

RetireFind(r) ==
  LET old == req[r].tok IN
  /\ Await(r, "retireFind")
  /\ IF HasSession(old) /\ FamilyOf(store, old) # req[r].sid
     THEN req' = [req EXCEPT ![r].pc = "retireRevoke", ![r].rec = store[old]]
     ELSE Goto(r, "reply")
  /\ UNCHANGED <<clock, store>> /\ TokensUnchanged

\* The session a handler's own record belongs to (family_of(record)).
OwnFamily(q) == IF q.rec.family_id = Nil THEN q.tok ELSE q.rec.family_id

RetireRevoke(r) ==
  /\ Await(r, "retireRevoke")
  /\ store' = RevokeFamily(store, OwnFamily(req[r]))
  /\ Goto(r, "reply")
  /\ UNCHANGED clock /\ TokensUnchanged

\* The response leaves with the refresh token and an access token.
Reply(r) ==
  /\ Await(r, "reply")
  /\ delivered' = delivered \cup {req[r].new}
  /\ access' = [access EXCEPT ![req[r].sid] = req[r].user]
  /\ Finish(r)
  /\ UNCHANGED <<clock, store, minted>>
-----------------------------------------------------------------------------
(* refresh_tokens, also the last step of resolve_session *)

Refreshing(tok) == [Idle EXCEPT !.pc = "find", !.tok = tok, !.now = clock]

BeginRefresh(r, tok) ==
  /\ Begin(r, "refresh", Refreshing(tok))
  /\ UNCHANGED <<clock, store>> /\ TokensUnchanged

\* /session with an access token; one without goes straight to the refresh.
BeginResolve(r, s, tok) ==
  /\ Begin(r, "session", [Idle EXCEPT !.pc = "resolve", !.tok = tok, !.sid = s])
  /\ UNCHANGED <<clock, store>> /\ TokensUnchanged

\* fresh: the access token is not about to expire.
ResolveCheck(r, fresh) ==
  LET q == req[r]
      active == FamilyIsActive(store, q.sid, clock) IN
  /\ Await(r, "resolve")
  /\ IF q.tok = Nil \/ (active /\ fresh)
     THEN Finish(r)
     ELSE req' = [req EXCEPT ![r] = Refreshing(q.tok)]
  /\ UNCHANGED <<clock, store>> /\ TokensUnchanged

FindRecord(r) ==
  LET q == req[r]
      doc == store[q.tok] IN
  /\ Await(r, "find")
  /\ \/ ~HasSession(q.tok) /\ Finish(r)
     \/ /\ HasSession(q.tok)
        /\ req' = [req EXCEPT ![r] =
             [q EXCEPT !.rec = doc, !.user = doc.user_id,
                       !.sid = FamilyOf(store, q.tok),
                       !.pc = IF doc.expires_at <= q.now THEN "expired"
                              ELSE IF doc.family_id = Nil THEN "adopt"
                              ELSE AfterRead(q.now, doc.rotated_at)]]
  /\ UNCHANGED <<clock, store>> /\ TokensUnchanged

\* revoke_family of an expired or a replayed token's session.
RevokeOwn(r) ==
  /\ req[r].pc \in {"expired", "reuse"}
  /\ store' = RevokeFamily(store, req[r].sid)
  /\ Finish(r)
  /\ UNCHANGED clock /\ TokensUnchanged

AdoptFamily(r) ==
  LET q == req[r] IN
  /\ Await(r, "adopt")
  /\ store' = SetFamily(store, q.tok, q.sid)
  /\ Goto(r, AfterRead(q.now, q.rec.rotated_at))
  /\ UNCHANGED clock /\ TokensUnchanged

\* Fault: the winner answers without storing the successor.
ClaimAndReply(r) ==
  LET q == req[r] IN
  /\ Await(r, "claim")
  /\ store' = ClaimRotation(store, q.tok, q.now)
  /\ Goto(r, IF CanClaim(store, q.tok) THEN "reply" ELSE "reread")
  /\ UNCHANGED clock /\ TokensUnchanged

Claim(r) ==
  LET q == req[r] IN
  /\ Await(r, "claim")
  /\ store' = ClaimRotation(store, q.tok, q.now)
  /\ Goto(r, IF CanClaim(store, q.tok) THEN "insert" ELSE "reread")
  /\ UNCHANGED clock /\ TokensUnchanged

\* Fault: a record that is gone after the lost race counts as just rotated.
ReReadTrusting(r) ==
  LET q == req[r] IN
  /\ Await(r, "reread")
  /\ Goto(r, IF IsRotated(q.tok) THEN AfterRead(q.now, store[q.tok].rotated_at)
                                ELSE "insert")
  /\ UNCHANGED <<clock, store>> /\ TokensUnchanged

ReRead(r) ==
  LET q == req[r] IN
  /\ Await(r, "reread")
  /\ \/ ~IsRotated(q.tok) /\ Finish(r)
     \/ /\ IsRotated(q.tok)
        /\ Goto(r, AfterRead(q.now, store[q.tok].rotated_at))
  /\ UNCHANGED <<clock, store>> /\ TokensUnchanged

\* Fault: every rotation renews the deadline.
SlidingSuccessor(q) ==
  [q.rec EXCEPT !.family_id = q.sid, !.rotated_at = Nil, !.expires_at = q.now + 3]

Successor(q) == [q.rec EXCEPT !.family_id = q.sid, !.rotated_at = Nil]

InsertSuccessor(r, t) ==
  /\ Await(r, "insert")
  /\ t \notin minted
  /\ store' = InsertRecord(store, t, Successor(req[r]))
  /\ minted' = minted \cup {t}
  /\ req' = [req EXCEPT ![r].pc = "reply", ![r].new = t]
  /\ UNCHANGED <<clock, delivered, access>>
-----------------------------------------------------------------------------
(* logout *)

BeginLogout(r, tok, s, all) ==
  /\ tok # Nil \/ s # Nil
  /\ Begin(r, "logout",
       [Idle EXCEPT !.pc = IF tok = Nil THEN "logoutEnd" ELSE "logoutFind",
                    !.tok = tok, !.sid = s, !.all = all,
                    !.user = IF s = Nil THEN Nil ELSE access[s]])
  /\ UNCHANGED <<clock, store>> /\ TokensUnchanged

\* Fault: the cookie's user with the access token's session.
LogoutFindMixed(r) ==
  LET q == req[r]
      found == q.tok \in Records(store) IN
  /\ Await(r, "logoutFind")
  /\ \/ /\ found
        /\ req' = [req EXCEPT ![r] =
             [q EXCEPT !.pc = "logoutEnd", !.user = store[q.tok].user_id,
                       !.sid = IF q.sid = Nil THEN FamilyOf(store, q.tok) ELSE q.sid]]
     \/ ~found /\ q.sid # Nil /\ Goto(r, "logoutEnd")
     \/ ~found /\ q.sid = Nil /\ Finish(r)
  /\ UNCHANGED <<clock, store>> /\ TokensUnchanged

\* The refresh cookie names the session; the access token is the fallback.
LogoutFind(r) ==
  LET q == req[r]
      found == q.tok \in Records(store) IN
  /\ Await(r, "logoutFind")
  /\ \/ /\ found
        /\ req' = [req EXCEPT ![r] =
             [q EXCEPT !.pc = "logoutEnd", !.user = store[q.tok].user_id,
                       !.sid = FamilyOf(store, q.tok)]]
     \/ ~found /\ q.sid # Nil /\ Goto(r, "logoutEnd")
     \/ ~found /\ q.sid = Nil /\ Finish(r)
  /\ UNCHANGED <<clock, store>> /\ TokensUnchanged

LogoutEnd(r) ==
  LET q == req[r] IN
  /\ Await(r, "logoutEnd")
  /\ store' = IF q.all THEN DeleteAllForUser(store, q.user, Nil)
                       ELSE RevokeFamily(store, q.sid)
  /\ Finish(r)
  /\ UNCHANGED clock /\ TokensUnchanged
-----------------------------------------------------------------------------
(* Signed-in calls: require_auth, then the handler *)

\* require_auth lets a call through while the access token's session is active.
Authorized(s) == s \in SidOfAccessToken /\ FamilyIsActive(store, s, clock)

BeginRevoke(r, s, target) ==
  /\ Authorized(s)
  /\ Begin(r, "revoke",
       [Idle EXCEPT !.pc = "revokeFind", !.user = access[s], !.sid = target])
  /\ UNCHANGED <<clock, store>> /\ TokensUnchanged

RevokeFind(r) ==
  /\ Await(r, "revokeFind")
  /\ IF FindSession(store, req[r].user, req[r].sid) = {}
     THEN Finish(r)
     ELSE Goto(r, "revokeTarget")
  /\ UNCHANGED <<clock, store>> /\ TokensUnchanged

RevokeTarget(r) ==
  /\ Await(r, "revokeTarget")
  /\ store' = RevokeSession(store, req[r].user, req[r].sid)
  /\ Finish(r)
  /\ UNCHANGED clock /\ TokensUnchanged

BeginEndOthers(r, s) ==
  /\ Authorized(s)
  /\ Begin(r, "others",
       [Idle EXCEPT !.pc = "endOthers", !.user = access[s], !.sid = s])
  /\ UNCHANGED <<clock, store>> /\ TokensUnchanged

\* revoke_other_sessions, and the last write of change_password.
EndOthers(r) ==
  LET q == req[r]
      gone == UserRecordsBut(store, q.user, q.sid) IN
  /\ Await(r, "endOthers")
  /\ store' = DeleteAllForUser(store, q.user, q.sid)
  /\ req' = [req EXCEPT ![r].pc = "counted", ![r].count = Cardinality(gone),
                        ![r].named = {FamilyOf(store, t) : t \in gone}]
  /\ UNCHANGED clock /\ TokensUnchanged

ReplyCount(r) ==
  /\ Await(r, "counted")
  /\ Finish(r)
  /\ UNCHANGED <<clock, store>> /\ TokensUnchanged

\* reset_password (by mail or by an administrator) signs the user out.
ResetSignsOut(u) ==
  /\ "reset" \in Ops
  /\ store' = DeleteAllForUser(store, u, Nil)
  /\ UNCHANGED <<clock, req>> /\ TokensUnchanged
-----------------------------------------------------------------------------
(* Time, housekeeping and failures *)

Tick ==
  /\ clock < MaxTime
  /\ clock' = clock + 1
  /\ UNCHANGED <<store, req>> /\ TokensUnchanged

\* The nightly job.
Cleanup ==
  /\ Expired(store, clock) # {}
  /\ store' = DeleteExpired(store, clock)
  /\ UNCHANGED <<clock, req>> /\ TokensUnchanged

\* The TTL index removes expired records one by one, in any order.
TTLExpire(t) ==
  /\ t \in Expired(store, clock)
  /\ store' = Without(store, {t})
  /\ UNCHANGED <<clock, req>> /\ TokensUnchanged

\* A request dies: process restart, failed call, client gone.
Abort(r) ==
  /\ Aborts
  /\ req[r].pc # "idle"
  /\ Finish(r)
  /\ UNCHANGED <<clock, store>> /\ TokensUnchanged
-----------------------------------------------------------------------------
Arrive(r) ==
  \/ \E u \in User, t \in Token, tok \in Cookie, l \in Lifetimes :
        StartSession(r, u, t, tok, l)
  \/ \E tok \in delivered : BeginRefresh(r, tok)
  \/ \E s \in SidOfAccessToken, tok \in Cookie : BeginResolve(r, s, tok)
  \/ \E tok \in Cookie, s \in SidOfAccessToken \cup {Nil}, all \in BOOLEAN :
        BeginLogout(r, tok, s, all)
  \/ \E s \in SidOfAccessToken, target \in minted : BeginRevoke(r, s, target)
  \/ \E s \in SidOfAccessToken : BeginEndOthers(r, s)

\* The next call of a request in flight.
Step(r) ==
  \/ RetireFind(r) \/ RetireRevoke(r) \/ Reply(r)
  \/ \E fresh \in BOOLEAN : ResolveCheck(r, fresh)
  \/ FindRecord(r) \/ RevokeOwn(r) \/ AdoptFamily(r) \/ Claim(r) \/ ReRead(r)
  \/ \E t \in Token : InsertSuccessor(r, t)
  \/ LogoutFind(r) \/ LogoutEnd(r)
  \/ RevokeFind(r) \/ RevokeTarget(r) \/ EndOthers(r) \/ ReplyCount(r)

Next ==
  \/ \E r \in Req : Arrive(r) \/ Step(r) \/ Abort(r)
  \/ \E u \in User : ResetSignsOut(u)
  \/ Tick
  \/ Cleanup
  \/ \E t \in Token : TTLExpire(t)

Spec == Init /\ [][Next]_vars

\* The event loop keeps running handlers, and the clean-up job recurs.
FairSpec == Spec /\ \A r \in Req : WF_vars(Step(r)) /\ WF_vars(Cleanup)
-----------------------------------------------------------------------------
(* Properties *)

\* Type correctness of the collection, of every handler's locals and of what
\* browsers hold.
TypeOK ==
  /\ clock \in Nat
  /\ store \in Store
  /\ req \in [Req -> Request]
  /\ minted \subseteq Token
  /\ delivered \subseteq minted
  /\ access \in [Token -> User \cup {Nil}]

\* Requests that work from a record read by refresh_tokens.
RotatingPCs == {"expired", "adopt", "claim", "reread", "reuse", "insert"}

Rotating(r) == req[r].pc \in RotatingPCs

\* One login, one session: all records of a family, those that handlers still
\* hold copies of included, name one user, one deadline ("absolute session
\* lifetime is fixed at login") and one start; and access tokens issued for
\* the session name that user.
OneSession ==
  /\ \A t, x \in Records(store) :
        FamilyOf(store, t) = FamilyOf(store, x) => SameSession(store[t], store[x])
  /\ \A r \in Req : Rotating(r) =>
        /\ \A t \in Family(store, req[r].sid) : SameSession(req[r].rec, store[t])
        /\ \A p \in Req : Rotating(p) /\ req[p].sid = req[r].sid
                            => SameSession(req[r].rec, req[p].rec)
        /\ access[req[r].sid] \in {Nil, req[r].rec.user_id}
  /\ \A t \in Records(store) : access[FamilyOf(store, t)] \in {Nil, store[t].user_id}

\* A request about to issue a successor holds a token that was rotated, and
\* was rotated no more than the grace window before the request began, by
\* whichever of the racing requests won claim_rotation.
SuccessorInGrace ==
  \A r \in Req : Await(r, "insert") /\ req[r].tok \in Records(store) =>
    /\ store[req[r].tok].rotated_at # Nil
    /\ InGrace(req[r].now, store[req[r].tok].rotated_at)

\* The record a stored token names never changes but for two writes, each made
\* once: rotated_at when it is rotated, family_id when an old record is adopted
\* into its own family.
RecordsKept ==
  \A t \in Records(store) \cap Records(store') :
    /\ SameSession(store[t], store'[t])
    /\ FamilyOf(store', t) = FamilyOf(store, t)
    /\ store[t].rotated_at # Nil => store'[t].rotated_at = store[t].rotated_at

WriteOnce == [][RecordsKept]_vars

\* Requests that can still add a record to session s: they passed the claim or
\* the grace check and have nothing left to read before the insert.
MayInsert(r, s) ==
  /\ req[r].sid = s
  /\ \/ Await(r, "insert")
     \/ Await(r, "adopt") /\ req[r].rec.rotated_at # Nil

Dead(s) == /\ s \in minted
           /\ Family(store, s) = {}
           /\ \A r \in Req : ~MayInsert(r, s)

\* Whatever ended a session (logout, revocation, replay, expiry, a password
\* reset), it stays ended, unless a refresh had already claimed its token.
DeadStaysDead == [][\A s \in Token : Dead(s) => Dead(s)']_vars

\* A snapshot that shows a rotation shows the one the collection still has.
SnapshotRotation ==
  \A r \in Req : /\ Rotating(r) /\ req[r].rec.rotated_at # Nil
                 /\ req[r].tok \in Records(store)
                 => store[req[r].tok].rotated_at = req[r].rec.rotated_at

\* A request removes only records of the user it acts for, or, when a login
\* replaces the session of its browser, of the session whose cookie it was sent.
EndsOwnOnly ==
  [][\A r \in Req : req'[r] # req[r] =>
       \A t \in Records(store) \ Records(store') :
         \/ store[t].user_id = req[r].user
         \/ /\ Await(r, "retireRevoke")
            /\ FamilyOf(store, t) = OwnFamily(req[r])]_vars

\* The sessions of this module, as SessionContract sees them.
Copies(s) == {store[t] : t \in Family(store, s)}
               \cup {req[r].rec : r \in {p \in Req : MayInsert(p, s)}}

AsSession(s) ==
  LET copies == Copies(s)
      open == s \in minted /\ copies # {}
      d == CHOOSE x \in copies : TRUE IN
  [phase    |-> IF s \notin minted THEN "unborn"
                ELSE IF ~open THEN "over"
                ELSE IF Current(store, s) # {} THEN "live"
                ELSE IF Family(store, s) # {} THEN "rotating" ELSE "ending",
   owner    |-> IF open THEN d.user_id ELSE Nil,
   start    |-> IF open THEN d.created_at ELSE Nil,
   deadline |-> IF open THEN d.expires_at ELSE Nil]

Contract == INSTANCE SessionContract
              WITH Sid <- Token, session <- [s \in Token |-> AsSession(s)]

\* Every behaviour of the handlers is one the contract allows.
KeepsContract == Contract!Spec

(* The inductive invariant behind the theorems of SessionsProofs *)

\* Every stored token was generated here, and so was the name of its family.
Named == \A t \in Records(store) : t \in minted /\ FamilyOf(store, t) \in minted

\* What the locals of a handler promise about the collection: a rotating one
\* works on the family its token belongs to, if that token is still stored.
LocalOK(q) ==
  /\ q.pc \in RotatingPCs =>
       /\ q.rec \in Doc /\ q.tok \in minted /\ q.sid \in minted
       /\ q.sid = OwnFamily(q) /\ q.user = q.rec.user_id
       /\ q.tok \in Records(store) => FamilyOf(store, q.tok) = q.sid
  /\ q.pc \in {"retireFind", "retireRevoke", "reply"} =>
       q.new \in minted /\ q.sid \in minted /\ q.user \in User

Locals == \A r \in Req : LocalOK(req[r])

\* Requests whose sid and user assert who owns a session: the rotating ones and
\* those on their way to a reply.
SpeakingPCs == RotatingPCs \cup {"retireFind", "retireRevoke", "reply"}

Speaking(r) == req[r].pc \in SpeakingPCs

\* They never disagree with the collection, with each other or with the access
\* tokens already issued.
SpokenFor ==
  /\ \A s \in Token : access[s] # Nil => s \in minted
  /\ \A r \in Req : Speaking(r) =>
       /\ \A t \in Family(store, req[r].sid) : store[t].user_id = req[r].user
       /\ \A p \in Req : Speaking(p) /\ req[p].sid = req[r].sid
                           => req[p].user = req[r].user
       /\ access[req[r].sid] \in {Nil, req[r].user}

\* A logout acts for the user whose session it names.
LogoutsOwn ==
  \A r \in Req : req[r].pc \in {"logoutFind", "logoutEnd"} /\ req[r].sid # Nil =>
    /\ req[r].sid \in minted
    /\ \A t \in Family(store, req[r].sid) : store[t].user_id = req[r].user
    /\ \A p \in Req : Speaking(p) /\ req[p].sid = req[r].sid
                        => req[p].user = req[r].user

Base == TypeOK /\ Named /\ Locals

Replay(r, s) ==
  LET q == req[r] IN
  /\ Await(r, "find")
  /\ q.tok \in Family(store, s)
  /\ HasSession(q.tok)
  /\ store[q.tok].rotated_at # Nil
  /\ ~InGrace(q.now, store[q.tok].rotated_at)

\* Theft detection: once a token rotated before the grace window is presented
\* to refresh, the whole session is at some point revoked.
ReplayEndsSession ==
  \A r \in Req, s \in Token : Replay(r, s) ~> Family(store, s) = {}

\* An expired record does not stay in the collection.
ExpiredSwept == \A t \in Token : t \in Expired(store, clock) ~> t \notin Records(store)
=============================================================================
