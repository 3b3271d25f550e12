------------------------- MODULE OAuthGrantsProofs -------------------------
(***************************************************************************)
(* Theorems about OAuthGrants, for any number of clients, codes, tokens,   *)
(* sessions and requests, any scopes and any lifetimes.                    *)
(***************************************************************************)
EXTENDS OAuthGrants, TLAPS

-----------------------------------------------------------------------------
(* The store's writes, on the records of grants *)

GrantStore == [Token -> GrantDoc \cup {NoDoc}]

LEMMA GrantIsDoc ==
  ASSUME NEW st \in GrantStore, NEW t \in Records(st)
  PROVE  /\ t \in Token /\ st[t] \in GrantDoc
         /\ FamilyOf(st, t) = st[t].family_id /\ FamilyOf(st, t) \in Token
BY NilAssumption DEF Records, GrantStore, GrantDoc, FamilyOf

LEMMA GrantWithout ==
  ASSUME NEW st \in GrantStore, NEW gone
  PROVE  /\ Without(st, gone) \in GrantStore
         /\ Records(Without(st, gone)) = Records(st) \ gone
         /\ \A t \in Records(Without(st, gone)) : Without(st, gone)[t] = st[t]
BY DEF Without, Records, GrantStore

LEMMA GrantInsert ==
  ASSUME NEW st \in GrantStore, NEW t \in Token, NEW doc \in GrantDoc
  PROVE  /\ InsertRecord(st, t, doc) \in GrantStore
         /\ Records(InsertRecord(st, t, doc)) = Records(st) \cup {t}
         /\ InsertRecord(st, t, doc)[t] = doc
         /\ \A x \in Token \ {t} : InsertRecord(st, t, doc)[x] = st[x]
BY NoGrantAssumption DEF InsertRecord, GrantStore, Records

\* Claiming a token changes its rotated_at, and that only if it had none.
LEMMA GrantClaim ==
  ASSUME NEW st \in GrantStore, NEW t, NEW n \in Nat
  PROVE  LET new == ClaimRotation(st, t, n) IN
         /\ new \in GrantStore
         /\ Records(new) = Records(st)
         /\ \A x \in Records(st) :
               /\ SameGrant(st[x], new[x])
               /\ new[x].family_id = st[x].family_id
               /\ new[x].session_id = st[x].session_id
               /\ new[x].user_id = st[x].user_id
               /\ new[x].expires_at = st[x].expires_at
               /\ st[x].rotated_at # Nil => new[x] = st[x]
         /\ CanClaim(st, t) => new[t].rotated_at = n
<1>1. CASE ~CanClaim(st, t)
  BY <1>1 DEF ClaimRotation, SameGrant
<1>2. CASE CanClaim(st, t)
  <2> DEFINE d == [st[t] EXCEPT !.rotated_at = n]
             new == ClaimRotation(st, t, n)
  <2>1. t \in Token /\ st[t] \in GrantDoc /\ st[t].rotated_at = Nil /\ t \in Records(st)
    BY <1>2 DEF CanClaim, Records, GrantStore
  <2>2. /\ d \in GrantDoc /\ d.rotated_at = n /\ d.family_id = st[t].family_id
        /\ d.session_id = st[t].session_id /\ d.user_id = st[t].user_id
        /\ d.expires_at = st[t].expires_at
    BY <2>1 DEF GrantDoc
  <2>3. SameGrant(st[t], d)
    BY <2>1 DEF GrantDoc, SameGrant
  <2>4. new = [st EXCEPT ![t] = d]
    BY <1>2 DEF ClaimRotation
  <2>5. new[t] = d /\ \A x \in Token \ {t} : new[x] = st[x]
    BY <2>1, <2>4 DEF GrantStore
  <2>6. new \in GrantStore /\ Records(new) = Records(st)
    BY <2>1, <2>2, <2>4, <2>5, NoGrantAssumption DEF Records, GrantStore
  <2> HIDE DEF new, d
  <2>7. \A x \in Records(st) : x \in Token /\ (x # t => new[x] = st[x])
    BY <2>5 DEF Records
  <2> QED
    BY <1>2, <2>1, <2>2, <2>3, <2>5, <2>6, <2>7 DEF SameGrant, new
<1> QED BY <1>1, <1>2

LEMMA SameGrantFacts ==
  /\ \A d, e, f : SameGrant(d, e) /\ SameGrant(e, f) => SameGrant(d, f)
  /\ \A d, e : SameGrant(d, e) => SameGrant(e, d)
  /\ \A d : SameGrant(d, d)
BY DEF SameGrant
-----------------------------------------------------------------------------
(* Types, and what the collections hold *)

LEMMA RequestType ==
  ASSUME TypeOK, NEW r \in Req
  PROVE  /\ req[r] \in Request
         /\ req[r].client \in Client \cup {Nil} /\ req[r].user \in User \cup {Nil}
         /\ req[r].sid \in Sid \cup {Nil}       /\ req[r].scopes \in SUBSET Scope
         /\ req[r].auth \in Nat \cup {Nil}      /\ req[r].now \in Nat
         /\ req[r].ask \in Ask \cup {Nil}       /\ req[r].code \in Code \cup {Nil}
         /\ req[r].grant \in Token \cup {Nil}   /\ req[r].tok \in Token \cup {Nil}
         /\ req[r].doc \in GrantDoc \cup {NoDoc} /\ req[r].new \in Token \cup {Nil}
BY DEF TypeOK, Request

\* Base, but for the requests.
Data ==
  /\ clock \in Nat
  /\ session \in [Sid -> Contract!State] /\ Owners
  /\ store \in GrantStore
  /\ codes \in [Code -> CodeDoc \cup {NoDoc}]
  /\ asks \in [Ask -> AskDoc \cup {NoDoc}]
  /\ consents \in [User \X Client -> SUBSET Scope]
  /\ clients \subseteq Client
  /\ drawn \subseteq Token \cup Code \cup Ask
  /\ delivered \subseteq drawn \cap Token
  /\ \A t \in Records(store) : t \in drawn /\ store[t].family_id \in drawn
  /\ \A k \in Code : codes[k] # NoDoc =>
        k \in drawn /\ {codes[k].grant_id, codes[k].ask} \subseteq drawn \cup {Nil}
  /\ \A a \in Ask : asks[a] # NoDoc => a \in drawn

Names(q) == {q.ask, q.code, q.grant, q.tok, q.new}

LEMMA BaseParts ==
  Base <=> /\ Data /\ Locals /\ req \in [Req -> Request]
           /\ \A r \in Req : Names(req[r]) \subseteq drawn \cup {Nil}
<1>1. ASSUME store \in GrantStore
      PROVE  (\A t \in Records(store) : t \in drawn /\ FamilyOf(store, t) \in drawn)
               <=> (\A t \in Records(store) : t \in drawn /\ store[t].family_id \in drawn)
  BY <1>1, GrantIsDoc
<1> QED BY <1>1 DEF Base, Data, TypeOK, Named, Names, GrantStore

Parts == /\ Data /\ Locals /\ req \in [Req -> Request]
         /\ \A r \in Req : Names(req[r]) \subseteq drawn \cup {Nil}

LEMMA PartsMakeBase == Parts => Base
BY BaseParts DEF Parts

LEMMA CodeIsDoc ==
  ASSUME Base, NEW k \in Code, codes[k] # NoDoc
  PROVE  codes[k] \in CodeDoc
BY DEF Base, TypeOK

\* What a call does to the store.
StoreWrite ==
  \/ store' = store
  \/ \E gone : store' = Without(store, gone)
  \/ \E r \in Req : /\ ClaimGrant(r)
                    /\ store' = ClaimRotation(store, req[r].tok, req[r].now)
  \/ \E r \in Req : /\ InsertFirst(r) /\ Await(r, "store")
                    /\ store' = InsertRecord(store, req[r].grant, req[r].doc)
  \/ \E r \in Req, t \in Token \ drawn :
        /\ InsertNext(r, t) /\ Await(r, "insert") /\ drawn' = drawn \cup {t}
        /\ store' = InsertRecord(store, t, NextRecord(req[r]))

LEMMA StepStoreWrite ==
  ASSUME Next
  PROVE  StoreWrite
<1> USE DEF StoreWrite
<1>1. CASE store' = store
  BY <1>1
<1>2. ASSUME NEW r \in Req, Arrive(r) PROVE store' = store
  BY <1>2 DEF Arrive, Authorize, Exchange, Refresh, Revoke, DeleteClient, Decide, Reads,
              data
<1>3. ASSUME NEW r \in Req, Step(r) \/ Abort(r) PROVE StoreWrite
  <2>1. CASE ClaimGrant(r)
    BY <2>1 DEF ClaimGrant
  <2>2. CASE InsertFirst(r)
    BY <2>2 DEF InsertFirst
  <2>3. CASE \E t \in Token : InsertNext(r, t)
    BY <2>3 DEF InsertNext
  <2>4. CASE RevokeGrant(r) \/ DropTokens(r)
    BY <2>4 DEF RevokeGrant, RevokeFamily, DropTokens, DeleteForClient
  <2>5. CASE \/ ResolveBrowser(r) \/ AuthTime(r) \/ Covered(r)
             \/ (\E a \in Ask : AskConsent(r, a)) \/ (\E k \in Code : IssueCode(r, k))
             \/ Take(r) \/ DecideClient(r) \/ GrantConsent(r) \/ DecideTime(r)
             \/ \E proof \in BOOLEAN : Consume(r, proof)
    BY <2>5 DEF ResolveBrowser, AuthTime, Covered, AskConsent, IssueCode, Take,
                DecideClient, GrantConsent, DecideTime, Consume, Reads, data
  <2>6. CASE \/ CheckSession(r) \/ FindParent(r) \/ Recheck(r) \/ Answer(r)
             \/ FindReplayed(r) \/ MarkReplayed(r) \/ FindGrant(r) \/ ReReadGrant(r)
             \/ RefreshActive(r) \/ RevokeFind(r) \/ DropConsents(r) \/ Abort(r)
    BY <2>6 DEF CheckSession, FindParent, Recheck, Answer, FindReplayed, MarkReplayed,
                FindGrant, ReReadGrant, RefreshActive, RevokeFind, DropConsents, Abort,
                Reads, data
  <2> QED BY <1>3, <2>1, <2>2, <2>3, <2>4, <2>5, <2>6 DEF Step
<1>4. ASSUME Environment PROVE StoreWrite
  BY <1>4 DEF Environment, Login, SessionMoves, SignOut, DeleteAllForUser, Tick, Expire,
              PurgeCode, DropAsk, data
<1> QED BY <1>2, <1>3, <1>4 DEF Next

LEMMA HolderFacts ==
  ASSUME Base, NEW r \in Req, HoldsDoc(r)
  PROVE  LET q == req[r] IN
         /\ q.doc \in GrantDoc
         /\ q.doc.family_id = q.grant /\ q.doc.session_id = q.sid
         /\ q.grant \in Token /\ q.sid \in Sid
         /\ NextRecord(q) \in GrantDoc
         /\ SameGrant(q.doc, NextRecord(q))
         /\ NextRecord(q).family_id = q.grant /\ NextRecord(q).session_id = q.sid
         /\ NextRecord(q).user_id = q.doc.user_id
         /\ NextRecord(q).expires_at = q.doc.expires_at
<1>1. req[r].doc \in GrantDoc
  BY RequestType DEF Base, HoldsDoc
<1>2. req[r].doc.family_id = req[r].grant /\ req[r].doc.session_id = req[r].sid
  BY DEF Base, Locals, LocalOK, HoldsDoc
<1>3. SameGrant(req[r].doc, NextRecord(req[r]))
  BY <1>1 DEF SameGrant, NextRecord, GrantDoc
<1> QED BY <1>1, <1>2, <1>3 DEF NextRecord, GrantDoc

\* The requests that write the store hold what they need.
LEMMA WriterFacts ==
  ASSUME Base, NEW r \in Req
  PROVE  /\ req[r].pc \in {"store"} \cup RotationPCs => HoldsDoc(r)
         /\ Exchanging(r) => /\ req[r].grant \in Token /\ req[r].grant \in drawn
                             /\ req[r].code \in Code /\ req[r].tok = Nil /\ req[r].new = Nil
<1>1. LocalOK(req[r]) /\ Names(req[r]) \subseteq drawn \cup {Nil}
  BY BaseParts DEF Locals
<1> QED BY <1>1, RequestType DEF LocalOK, HoldsDoc, Exchanging, Names, Base

LEMMA StoreStep ==
  ASSUME Base, Next
  PROVE  /\ store' \in GrantStore
         /\ \A t \in Records(store') :
              \/ /\ t \in Records(store)
                 /\ SameGrant(store[t], store'[t])
                 /\ store'[t].family_id = store[t].family_id
                 /\ store'[t].session_id = store[t].session_id
                 /\ store'[t].user_id = store[t].user_id
                 /\ store'[t].expires_at = store[t].expires_at
                 /\ store[t].rotated_at # Nil => store'[t] = store[t]
              \/ \E r \in Req : /\ InsertFirst(r) /\ Await(r, "store")
                                /\ t = req[r].grant /\ store'[t] = req[r].doc
              \/ \E r \in Req : /\ InsertNext(r, t) /\ Await(r, "insert") /\ t \notin drawn
                                /\ store'[t] = NextRecord(req[r]) /\ t \in drawn'
<1>a. store \in GrantStore
  BY DEF Base, TypeOK, GrantStore
<1> USE SameGrantFacts
<1>1. CASE store' = store
  BY <1>a, <1>1
<1>2. CASE \E gone : store' = Without(store, gone)
  BY <1>a, <1>2, GrantWithout
<1>3. CASE \E r \in Req : /\ ClaimGrant(r)
                          /\ store' = ClaimRotation(store, req[r].tok, req[r].now)
  <2>1. PICK r \in Req : store' = ClaimRotation(store, req[r].tok, req[r].now)
    BY <1>3
  <2>2. req[r].now \in Nat
    BY RequestType DEF Base
  <2> QED BY <2>1, <2>2, <1>a, GrantClaim
<1>4. CASE \E r \in Req : /\ InsertFirst(r) /\ Await(r, "store")
                          /\ store' = InsertRecord(store, req[r].grant, req[r].doc)
  <2>1. PICK r \in Req : /\ InsertFirst(r) /\ Await(r, "store")
                         /\ store' = InsertRecord(store, req[r].grant, req[r].doc)
    BY <1>4
  <2>2. req[r].grant \in Token /\ req[r].doc \in GrantDoc
    BY <2>1, WriterFacts, HolderFacts DEF Await
  <2>3. /\ store' \in GrantStore /\ Records(store') = Records(store) \cup {req[r].grant}
        /\ store'[req[r].grant] = req[r].doc
        /\ \A x \in Records(store) \ {req[r].grant} : store'[x] = store[x]
    BY <2>1, <2>2, <1>a, GrantInsert DEF Records
  <2> QED BY <2>1, <2>3
<1>5. CASE \E r \in Req, t \in Token \ drawn :
             /\ InsertNext(r, t) /\ Await(r, "insert") /\ drawn' = drawn \cup {t}
             /\ store' = InsertRecord(store, t, NextRecord(req[r]))
  <2>1. PICK r \in Req, t \in Token \ drawn :
             /\ InsertNext(r, t) /\ Await(r, "insert") /\ drawn' = drawn \cup {t}
             /\ store' = InsertRecord(store, t, NextRecord(req[r]))
    BY <1>5
  <2>2. NextRecord(req[r]) \in GrantDoc
    BY <2>1, WriterFacts, HolderFacts DEF Await, RotationPCs
  <2>3. /\ store' \in GrantStore /\ Records(store') = Records(store) \cup {t}
        /\ store'[t] = NextRecord(req[r])
        /\ \A x \in Records(store) \ {t} : store'[x] = store[x]
    BY <2>1, <2>2, <1>a, GrantInsert DEF Records
  <2> QED BY <2>1, <2>3
<1> QED BY <1>1, <1>2, <1>3, <1>4, <1>5, StepStoreWrite DEF StoreWrite

\* Nothing drawn is forgotten, no client comes back.
LEMMA StepKeepsNames ==
  ASSUME Next
  PROVE  drawn \subseteq drawn' /\ clients' \subseteq clients
<1>1. ASSUME NEW r \in Req, Arrive(r) PROVE drawn \subseteq drawn' /\ clients' \subseteq clients
  BY <1>1 DEF Arrive, Authorize, Exchange, Refresh, Revoke, DeleteClient, Decide, Reads
<1>2. ASSUME NEW r \in Req, Step(r) \/ Abort(r)
      PROVE  drawn \subseteq drawn' /\ clients' \subseteq clients
  BY <1>2 DEF Step, Abort, ResolveBrowser, AuthTime, Covered, AskConsent, IssueCode, Take,
     DecideClient, GrantConsent, DecideTime, Consume, CheckSession, FindParent, InsertFirst,
     Recheck, Answer, FindReplayed, MarkReplayed, RevokeGrant, FindGrant, ClaimGrant,
     ReReadGrant, RefreshActive, InsertNext, RevokeFind, DropTokens, DropConsents, Reads
<1>3. ASSUME Environment PROVE drawn \subseteq drawn' /\ clients' \subseteq clients
  BY <1>3 DEF Environment, Login, SessionMoves, SignOut, Tick, Expire, PurgeCode, DropAsk
<1> QED BY <1>1, <1>2, <1>3 DEF Next

LEMMA StoreNames ==
  ASSUME Base, Next, NEW t \in Records(store')
  PROVE  t \in drawn' /\ store'[t].family_id \in drawn'
<1>1. \A r \in Req : HoldsDoc(r) => req[r].grant \in drawn /\ req[r].doc.family_id = req[r].grant
                                    /\ NextRecord(req[r]).family_id = req[r].grant
  BY HolderFacts, BaseParts, NilAssumption DEF Names
<1>2. \A x \in Records(store) : x \in drawn /\ store[x].family_id \in drawn
  BY BaseParts DEF Data
<1> QED BY <1>1, <1>2, StoreStep, StepKeepsNames, WriterFacts DEF Await, RotationPCs

\* Which calls write which collection.
LEMMA OnlyWriters ==
  ASSUME Next
  PROVE  /\ \/ codes' = codes
            \/ \E r \in Req, k \in Code : IssueCode(r, k)
            \/ \E r \in Req, proof \in BOOLEAN : Consume(r, proof)
            \/ \E r \in Req : MarkReplayed(r)
            \/ \E k \in Code : PurgeCode(k)
         /\ \/ asks' = asks
            \/ \E r \in Req : Take(r) \/ \E a \in Ask : AskConsent(r, a)
            \/ \E a \in Ask : DropAsk(a)
         /\ consents' = consents \/ \E r \in Req : GrantConsent(r) \/ DropConsents(r)
         /\ delivered' = delivered \/ \E r \in Req : Answer(r)
         /\ \/ drawn' = drawn
            \/ \E r \in Req, a \in Ask : AskConsent(r, a)
            \/ \E r \in Req, k \in Code : IssueCode(r, k)
            \/ \E r \in Req, t \in Token : InsertNext(r, t)
            \/ \E r \in Req, c \in Client, k \in drawn \cap Code, g \in Token :
                  Exchange(r, c, k, g)
         /\ session' = session \/ Environment
         /\ clock' = clock \/ Tick
<1>1. ASSUME NEW r \in Req, Arrive(r)
      PROVE  /\ codes' = codes /\ asks' = asks /\ consents' = consents
             /\ delivered' = delivered /\ session' = session /\ clock' = clock
             /\ drawn' = drawn \/ \E c \in Client, k \in drawn \cap Code, g \in Token :
                                     Exchange(r, c, k, g)
  BY <1>1 DEF Arrive, Authorize, Exchange, Refresh, Revoke, DeleteClient, Decide, Reads, data
<1>2. ASSUME NEW r \in Req, Step(r) \/ Abort(r)
      PROVE  /\ session' = session /\ clock' = clock
             /\ \/ codes' = codes \/ \E k \in Code : IssueCode(r, k)
                \/ MarkReplayed(r) \/ \E proof \in BOOLEAN : Consume(r, proof)
             /\ asks' = asks \/ Take(r) \/ \E a \in Ask : AskConsent(r, a)
             /\ consents' = consents \/ GrantConsent(r) \/ DropConsents(r)
             /\ delivered' = delivered \/ Answer(r)
             /\ \/ drawn' = drawn \/ \E a \in Ask : AskConsent(r, a)
                \/ \E k \in Code : IssueCode(r, k)
                \/ \E t \in Token : InsertNext(r, t)
  <2>1. CASE \E a \in Ask : AskConsent(r, a)
    BY <2>1 DEF AskConsent
  <2>2. CASE \E k \in Code : IssueCode(r, k)
    BY <2>2 DEF IssueCode
  <2>3. CASE \E t \in Token : InsertNext(r, t)
    BY <2>3 DEF InsertNext
  <2>4. CASE Take(r) \/ GrantConsent(r) \/ DropConsents(r) \/ Answer(r) \/ MarkReplayed(r)
    BY <2>4 DEF Take, GrantConsent, DropConsents, Answer, MarkReplayed, data
  <2>5. CASE \E proof \in BOOLEAN : Consume(r, proof)
    BY <2>5 DEF Consume
  <2>6. CASE \/ ResolveBrowser(r) \/ AuthTime(r) \/ Covered(r) \/ DecideClient(r)
             \/ DecideTime(r) \/ CheckSession(r) \/ FindParent(r) \/ InsertFirst(r)
             \/ Recheck(r)
    BY <2>6 DEF ResolveBrowser, AuthTime, Covered, DecideClient, DecideTime, CheckSession,
                FindParent, InsertFirst, Recheck, Reads, data
  <2>7. CASE \/ FindReplayed(r) \/ RevokeGrant(r) \/ FindGrant(r) \/ ClaimGrant(r)
             \/ ReReadGrant(r) \/ RefreshActive(r) \/ RevokeFind(r) \/ DropTokens(r)
             \/ Abort(r)
    BY <2>7 DEF FindReplayed, RevokeGrant, FindGrant, ClaimGrant, ReReadGrant,
                RefreshActive, RevokeFind, DropTokens, Abort, Reads, data
  <2> QED BY <1>2, <2>1, <2>2, <2>3, <2>4, <2>5, <2>6, <2>7 DEF Step
<1>3. ASSUME Environment
      PROVE  /\ codes' = codes \/ \E k \in Code : PurgeCode(k)
             /\ asks' = asks \/ \E a \in Ask : DropAsk(a)
             /\ consents' = consents /\ delivered' = delivered /\ drawn' = drawn
             /\ clock' = clock \/ Tick
  BY <1>3 DEF Environment, Login, SessionMoves, SignOut, Tick, Expire, PurgeCode, DropAsk,
              data
<1> QED BY <1>1, <1>2, <1>3 DEF Next

\* A session's moves: born with an owner, then only rotated, revived or ended.
LEMMA SessionStep ==
  ASSUME Data, Next, NEW s \in Sid
  PROVE  /\ session' \in [Sid -> Contract!State]
         /\ Owned(session'[s])
         /\ \/ session'[s] = session[s]
            \/ session[s].phase = "unborn" /\ session'[s].phase = "live"
            \/ /\ Contract!Open(session[s])
               /\ \/ session'[s] = Over
                  \/ /\ session'[s].owner = session[s].owner
                     /\ session'[s].deadline = session[s].deadline
                     /\ Contract!Open(session'[s])
<1>a. /\ session \in [Sid -> Contract!State] /\ clock \in Nat
      /\ \A x \in Sid : Owned(session[x]) /\ session[x] \in Contract!State
  BY DEF Data, Owners
<1>b. Over \in Contract!State /\ Over.phase = "over" /\ ~Contract!Open(Over)
      /\ Unborn.phase = "unborn"
  BY DEF Over, Unborn, Contract!State, Contract!Open, Contract!OpenPhases
<1>c. ASSUME NEW a \in Contract!State, Contract!Open(a), Owned(a),
             NEW phase \in Contract!OpenPhases \cup {"over"}
      PROVE  /\ MoveTo(a, phase) \in Contract!State /\ Owned(MoveTo(a, phase))
             /\ \/ MoveTo(a, phase) = Over
                \/ /\ MoveTo(a, phase).owner = a.owner
                   /\ MoveTo(a, phase).deadline = a.deadline
                   /\ Contract!Open(MoveTo(a, phase))
  <2>1. CASE phase = "over"
    BY <1>b, <2>1 DEF MoveTo, Owned
  <2>2. CASE phase # "over"
    BY <1>c, <2>2 DEF MoveTo, Owned, Contract!State, Contract!Open, Contract!OpenPhases
  <2> QED BY <2>1, <2>2
<1>1. CASE session' = session
  BY <1>1, <1>a
<1>2. ASSUME NEW x \in Sid, NEW u \in User, Login(x, u)
      PROVE  /\ session' \in [Sid -> Contract!State]
             /\ Owned(session'[s])
             /\ \/ session'[s] = session[s]
                \/ session[s].phase = "unborn" /\ session'[s].phase = "live"
  <2> DEFINE a == [phase |-> "live", owner |-> u, start |-> clock,
                   deadline |-> clock + Lifetime]
  <2>1. a \in Contract!State /\ Owned(a) /\ a.phase = "live"
    BY <1>a, TimeAssumption DEF Contract!State, Contract!OpenPhases, Owned
  <2>2. session' = [session EXCEPT ![x] = a] /\ session[x].phase = "unborn"
    BY <1>2, <1>b DEF Login
  <2> HIDE DEF a
  <2> QED BY <1>a, <2>1, <2>2
<1>3. ASSUME NEW x \in Sid, NEW phase \in Contract!OpenPhases \cup {"over"},
             SessionMoves(x, phase)
      PROVE  /\ session' \in [Sid -> Contract!State]
             /\ Owned(session'[s])
             /\ \/ session'[s] = session[s]
                \/ /\ Contract!Open(session[s])
                   /\ \/ session'[s] = Over
                      \/ /\ session'[s].owner = session[s].owner
                         /\ session'[s].deadline = session[s].deadline
                         /\ Contract!Open(session'[s])
  BY <1>3, <1>a, <1>c DEF SessionMoves
<1>4. ASSUME NEW u \in User, NEW keep \in Sid \cup {Nil},
             NEW end \in [Sid -> {"ending", "over"}], SignOut(u, keep, end)
      PROVE  /\ session' \in [Sid -> Contract!State]
             /\ Owned(session'[s])
             /\ \/ session'[s] = session[s]
                \/ /\ Contract!Open(session[s])
                   /\ \/ session'[s] = Over
                      \/ /\ session'[s].owner = session[s].owner
                         /\ session'[s].deadline = session[s].deadline
                         /\ Contract!Open(session'[s])
  <2>1. \A x \in Sid : end[x] \in Contract!OpenPhases \cup {"over"}
    BY DEF Contract!OpenPhases
  <2>2. session' = [x \in Sid |->
          IF Contract!Open(session[x]) /\ session[x].owner = u /\ x # keep
          THEN MoveTo(session[x], end[x]) ELSE session[x]]
    BY <1>4 DEF SignOut
  <2> QED BY <2>1, <2>2, <1>a, <1>c
<1>5. ASSUME Environment
      PROVE  \/ session' = session
             \/ \E x \in Sid, u \in User : Login(x, u)
             \/ \E x \in Sid, phase \in Contract!OpenPhases \cup {"over"} :
                   SessionMoves(x, phase)
             \/ \E u \in User, keep \in Sid \cup {Nil}, end \in [Sid -> {"ending", "over"}] :
                   SignOut(u, keep, end)
  BY <1>5 DEF Environment, Tick, Expire, PurgeCode, DropAsk
<1> QED BY <1>1, <1>2, <1>3, <1>4, <1>5, OnlyWriters

LEMMA RequestFacts ==
  ASSUME Base, NEW r \in Req
  PROVE  /\ LocalOK(req[r]) /\ Names(req[r]) \subseteq drawn \cup {Nil}
         /\ req \in [Req -> Request] /\ Data
         /\ req[r].pc \in SignedInPCs => /\ req[r].user \in User /\ req[r].sid \in Sid
                                         /\ req[r].pc # "take" => req[r].client \in Client
BY BaseParts DEF Locals, LocalOK, SignedInPCs

\* How a code changes: it is issued under a fresh name, spent once for the
\* grant the exchange drew, marked, or purged.
LEMMA CodeStep ==
  ASSUME Base, Next, NEW k \in Code
  PROVE  /\ codes' \in [Code -> CodeDoc \cup {NoDoc}]
         /\ \/ codes'[k] = NoDoc \/ codes'[k] = codes[k]
            \/ \E r \in Req :
                 /\ IssueCode(r, k) /\ codes'[k].grant_id = Nil
                 /\ codes'[k].ask = req[r].ask /\ k \in drawn' /\ k \notin drawn
                 /\ codes'[k].consumed_at = Nil /\ ~codes'[k].replayed
                 /\ codes'[k].client_id = req[r].client /\ codes'[k].user_id = req[r].user
                 /\ codes'[k].scopes = req[r].scopes
            \/ /\ codes[k] # NoDoc
               /\ codes'[k].ask = codes[k].ask
               /\ codes'[k].client_id = codes[k].client_id
               /\ codes'[k].user_id = codes[k].user_id
               /\ codes'[k].scopes = codes[k].scopes
               /\ \/ \E r \in Req :
                       /\ Await(r, "consume") /\ WorksOn(r, k)
                       /\ codes'[k].consumed_at # Nil
                       /\ CanConsume(k, req[r].client)
                       /\ \E proof \in BOOLEAN : Consume(r, proof)
                       /\ codes'[k].grant_id = req[r].grant
                       /\ codes'[k].replayed = codes[k].replayed
                  \/ /\ \E r \in Req : MarkReplayed(r) /\ WorksOn(r, k)
                     /\ codes'[k].grant_id = codes[k].grant_id
                     /\ codes'[k].consumed_at = codes[k].consumed_at
<1>a. codes \in [Code -> CodeDoc \cup {NoDoc}] /\ clock \in Nat
  BY DEF Base, TypeOK
<1>1. CASE codes' = codes
  BY <1>1, <1>a
<1>2. ASSUME NEW r \in Req, NEW x \in Code, IssueCode(r, x)
      PROVE  /\ codes' \in [Code -> CodeDoc \cup {NoDoc}]
             /\ x # k => codes'[k] = codes[k]
             /\ x = k => /\ codes'[k].grant_id = Nil
                         /\ codes'[k].ask = req[r].ask /\ k \in drawn' /\ k \notin drawn
                         /\ codes'[k].consumed_at = Nil /\ ~codes'[k].replayed
                         /\ codes'[k].client_id = req[r].client
                         /\ codes'[k].user_id = req[r].user
                         /\ codes'[k].scopes = req[r].scopes
  <2> DEFINE q == req[r]
             d == [client_id |-> q.client, user_id |-> q.user, sid |-> q.sid,
                   scopes |-> q.scopes,
                   auth_time |-> IF q.auth = Nil THEN clock ELSE q.auth,
                   expires_at |-> clock + CodeTTL, purge_at |-> clock + PurgeAfter,
                   consumed_at |-> Nil, grant_id |-> Nil, replayed |-> FALSE, ask |-> q.ask]
  <2>1. q.client \in Client /\ q.user \in User /\ q.sid \in Sid
    BY <1>2, RequestFacts DEF IssueCode, Await, SignedInPCs
  <2>2. q.scopes \in SUBSET Scope /\ q.auth \in Nat \cup {Nil} /\ q.ask \in Ask \cup {Nil}
    BY RequestType DEF Base
  <2>3. d \in CodeDoc
    BY <2>1, <2>2, <1>a, TimeAssumption DEF CodeDoc
  <2>4. /\ codes' = [codes EXCEPT ![x] = d] /\ x \notin drawn /\ drawn' = drawn \cup {x}
    BY <1>2 DEF IssueCode
  <2>5. /\ d.grant_id = Nil /\ d.ask = q.ask /\ d.consumed_at = Nil /\ ~d.replayed
        /\ d.client_id = q.client /\ d.user_id = q.user /\ d.scopes = q.scopes
    OBVIOUS
  <2> HIDE DEF d
  <2> QED BY <2>3, <2>4, <2>5, <1>a
<1>3. ASSUME NEW r \in Req, NEW proof \in BOOLEAN, Consume(r, proof), codes' # codes
      PROVE  /\ codes' \in [Code -> CodeDoc \cup {NoDoc}]
             /\ ~WorksOn(r, k) => codes'[k] = codes[k]
             /\ WorksOn(r, k) =>
                  /\ codes[k] # NoDoc
                  /\ Await(r, "consume") /\ CanConsume(k, req[r].client)
                  /\ codes'[k] = [codes[k] EXCEPT !.consumed_at = req[r].now,
                                                  !.grant_id = req[r].grant]
                  /\ codes'[k].ask = codes[k].ask
                  /\ codes'[k].client_id = codes[k].client_id
                  /\ codes'[k].user_id = codes[k].user_id
                  /\ codes'[k].scopes = codes[k].scopes
                  /\ codes'[k].consumed_at # Nil
                  /\ codes'[k].grant_id = req[r].grant
                  /\ codes'[k].replayed = codes[k].replayed
  <2> DEFINE x == req[r].code
             d == [codes[x] EXCEPT !.consumed_at = req[r].now, !.grant_id = req[r].grant]
  <2>1. Await(r, "consume") /\ CanConsume(x, req[r].client)
    BY <1>3 DEF Consume
  <2>2. x \in Code /\ codes[x] # NoDoc /\ codes[x] \in CodeDoc
    BY <2>1, <1>a, WriterFacts DEF Exchanging, ExchangePCs, Await, CanConsume
  <2>3. codes' = [codes EXCEPT ![x] = d]
    BY <1>3, <2>1, <2>2, <1>a DEF Consume
  <2>4. req[r].now \in Nat /\ req[r].now # Nil /\ req[r].grant \in Token \cup {Nil}
    BY RequestType, NilAssumption DEF Base
  <2>5. /\ d \in CodeDoc /\ d.ask = codes[x].ask /\ d.client_id = codes[x].client_id
        /\ d.user_id = codes[x].user_id /\ d.scopes = codes[x].scopes
        /\ d.consumed_at # Nil /\ d.grant_id = req[r].grant
        /\ d.replayed = codes[x].replayed
    BY <2>2, <2>4 DEF CodeDoc
  <2>6. codes' \in [Code -> CodeDoc \cup {NoDoc}]
    BY <2>2, <2>3, <2>5, <1>a
  <2>7. WorksOn(r, k) => codes'[k] = d
    BY <2>2, <2>3, <1>a DEF WorksOn
  <2>8. ~WorksOn(r, k) => codes'[k] = codes[k]
    BY <2>2, <2>3, <1>a DEF WorksOn
  <2> QED BY <2>1, <2>2, <2>5, <2>6, <2>7, <2>8 DEF WorksOn
<1>4. ASSUME NEW r \in Req, MarkReplayed(r), codes' # codes
      PROVE  /\ codes' \in [Code -> CodeDoc \cup {NoDoc}]
             /\ ~WorksOn(r, k) => codes'[k] = codes[k]
             /\ WorksOn(r, k) =>
                  /\ codes[k] # NoDoc
                  /\ codes'[k].ask = codes[k].ask
                  /\ codes'[k].client_id = codes[k].client_id
                  /\ codes'[k].user_id = codes[k].user_id
                  /\ codes'[k].scopes = codes[k].scopes
                  /\ codes'[k].grant_id = codes[k].grant_id
                  /\ codes'[k].consumed_at = codes[k].consumed_at
  <2> DEFINE x == req[r].code
             d == [codes[x] EXCEPT !.replayed = TRUE]
  <2>1. codes[x] # NoDoc /\ codes' = [codes EXCEPT ![x] = d]
    BY <1>4 DEF MarkReplayed
  <2>2. x \in Code /\ codes[x] \in CodeDoc
    <3>1. x \in Code \cup {Nil} /\ x # Nil
      BY <1>4, RequestType, RequestFacts DEF MarkReplayed, Await, LocalOK, Base
    <3> QED BY <2>1, <3>1, <1>a
  <2>3. /\ d \in CodeDoc /\ d.ask = codes[x].ask /\ d.client_id = codes[x].client_id
        /\ d.user_id = codes[x].user_id /\ d.scopes = codes[x].scopes
        /\ d.grant_id = codes[x].grant_id /\ d.consumed_at = codes[x].consumed_at
    BY <2>2 DEF CodeDoc
  <2>6. codes' \in [Code -> CodeDoc \cup {NoDoc}]
    BY <2>1, <2>2, <2>3, <1>a
  <2>7. WorksOn(r, k) => codes'[k] = d
    BY <2>1, <2>2, <1>a DEF WorksOn
  <2>8. ~WorksOn(r, k) => codes'[k] = codes[k]
    BY <2>1, <2>2, <1>a DEF WorksOn
  <2> QED BY <2>1, <2>3, <2>6, <2>7, <2>8 DEF WorksOn
<1>5. CASE \E x \in Code : PurgeCode(x)
  BY <1>5, <1>a DEF PurgeCode
<1> QED BY <1>1, <1>2, <1>3, <1>4, <1>5, OnlyWriters

\* A consent request is stored under a fresh name, taken or dropped.
LEMMA AskStep ==
  ASSUME Base, Next, NEW a \in Ask
  PROVE  /\ asks' \in [Ask -> AskDoc \cup {NoDoc}]
         /\ \/ asks'[a] = asks[a] \/ asks'[a] = NoDoc
            \/ a \notin drawn /\ a \in drawn'
<1>a. asks \in [Ask -> AskDoc \cup {NoDoc}]
  BY DEF Base, TypeOK
<1>1. ASSUME NEW r \in Req, Take(r)
      PROVE  /\ asks' \in [Ask -> AskDoc \cup {NoDoc}]
             /\ asks'[a] = asks[a] \/ asks'[a] = NoDoc
  BY <1>1, <1>a DEF Take
<1>2. ASSUME NEW r \in Req, NEW x \in Ask, AskConsent(r, x)
      PROVE  /\ asks' \in [Ask -> AskDoc \cup {NoDoc}]
             /\ asks'[a] = asks[a] \/ (a \notin drawn /\ a \in drawn')
  <2> DEFINE d == [user_id |-> req[r].user, client_id |-> req[r].client,
                   scopes |-> req[r].scopes, expires_at |-> req[r].now + AskTTL]
  <2>1. req[r].client \in Client /\ req[r].user \in User
    BY <1>2, RequestFacts DEF AskConsent, Await, SignedInPCs
  <2>2. req[r].scopes \in SUBSET Scope /\ req[r].now \in Nat
    BY RequestType DEF Base
  <2>3. d \in AskDoc
    BY <2>1, <2>2, TimeAssumption DEF AskDoc
  <2>4. asks' = [asks EXCEPT ![x] = d] /\ x \notin drawn /\ drawn' = drawn \cup {x}
    BY <1>2 DEF AskConsent
  <2> HIDE DEF d
  <2> QED BY <2>3, <2>4, <1>a
<1>3. CASE \E x \in Ask : DropAsk(x)
  BY <1>3, <1>a DEF DropAsk
<1> QED BY <1>1, <1>2, <1>3, <1>a, OnlyWriters

\* Consents grow until their client is gone.
LEMMA ConsentStep ==
  ASSUME Base, Next
  PROVE  /\ consents' \in [User \X Client -> SUBSET Scope]
         /\ \A u \in User, c \in clients : consents[<<u, c>>] \subseteq consents'[<<u, c>>]
<1>a. consents \in [User \X Client -> SUBSET Scope] /\ clients \subseteq Client
  BY DEF Base, TypeOK
<1>1. ASSUME NEW r \in Req, GrantConsent(r)
      PROVE  /\ consents' \in [User \X Client -> SUBSET Scope]
             /\ \A u \in User, c \in Client : consents[<<u, c>>] \subseteq consents'[<<u, c>>]
  <2> DEFINE uc == <<req[r].user, req[r].client>>
  <2>1. uc \in User \X Client /\ req[r].scopes \in SUBSET Scope
    BY <1>1, RequestFacts, RequestType DEF GrantConsent, Await, SignedInPCs, Base
  <2>2. consents' = [consents EXCEPT ![uc] = consents[uc] \cup req[r].scopes]
    BY <1>1 DEF GrantConsent
  <2> HIDE DEF uc
  <2>3. \A x \in User \X Client : consents[x] \subseteq consents'[x]
    BY <2>1, <2>2, <1>a
  <2>4. consents' \in [User \X Client -> SUBSET Scope]
    BY <2>1, <2>2, <1>a
  <2> QED BY <2>3, <2>4
<1>2. ASSUME NEW r \in Req, DropConsents(r)
      PROVE  /\ consents' \in [User \X Client -> SUBSET Scope]
             /\ \A u \in User, c \in clients : consents[<<u, c>>] \subseteq consents'[<<u, c>>]
  <2>1. req[r].client \notin clients
    BY <1>2, RequestFacts DEF DropConsents, Await, LocalOK
  <2>2. consents' = [uc \in User \X Client |->
                       IF uc[2] = req[r].client THEN {} ELSE consents[uc]]
    BY <1>2 DEF DropConsents
  <2> QED BY <2>1, <2>2, <1>a
<1> QED BY <1>1, <1>2, <1>a, OnlyWriters

LEMMA NameStep ==
  ASSUME Base, Next
  PROVE  /\ drawn' \subseteq Token \cup Code \cup Ask
         /\ delivered' \subseteq drawn' \cap Token
         /\ delivered' \subseteq delivered \cup {req[r].new : r \in Req}
<1>a. /\ drawn \subseteq Token \cup Code \cup Ask /\ delivered \subseteq drawn \cap Token
      /\ drawn \subseteq drawn'
  BY StepKeepsNames DEF Base, TypeOK
<1>1. drawn' \subseteq Token \cup Code \cup Ask
  BY <1>a, OnlyWriters DEF AskConsent, IssueCode, InsertNext, Exchange
<1>2. ASSUME NEW r \in Req, Answer(r)
      PROVE  /\ delivered' \subseteq drawn' \cap Token
             /\ delivered' \subseteq delivered \cup {req[r].new}
  <2>1. req[r].new \in Token \cup {Nil} /\ req[r].new \in drawn \cup {Nil}
    BY RequestType, RequestFacts DEF Names, Base
  <2> QED BY <1>2, <1>a, <2>1 DEF Answer
<1> QED BY <1>a, <1>1, <1>2, OnlyWriters

LEMMA DataStep ==
  ASSUME Base, Next
  PROVE  Data'
<1>a. Data /\ drawn \subseteq drawn' /\ clients' \subseteq clients
  BY BaseParts, StepKeepsNames
<1>1. clock' \in Nat
  BY <1>a, OnlyWriters DEF Data, Tick
<1>2. session' \in [Sid -> Contract!State] /\ Owners'
  <2>1. CASE Sid = {}
    <3>1. session' = session \/ Environment
      BY OnlyWriters
    <3>2. session' \in [Sid -> Contract!State]
      BY <1>a, <2>1, <3>1 DEF Environment, Login, SessionMoves, SignOut, Tick, Expire,
         PurgeCode, DropAsk, Data
    <3> QED BY <2>1, <3>2 DEF Owners
  <2>2. CASE Sid # {}
    BY <1>a, <2>2, SessionStep DEF Owners
  <2> QED BY <2>1, <2>2
<1>3. /\ store' \in GrantStore
      /\ \A t \in Records(store') : t \in drawn' /\ store'[t].family_id \in drawn'
  BY StoreStep, StoreNames
<1>4. consents' \in [User \X Client -> SUBSET Scope] /\ clients' \subseteq Client
  BY <1>a, ConsentStep DEF Data
<1>5. ASSUME NEW k \in Code, codes'[k] # NoDoc
      PROVE  k \in drawn' /\ {codes'[k].grant_id, codes'[k].ask} \subseteq drawn' \cup {Nil}
  BY <1>a, <1>5, CodeStep, RequestFacts DEF Data, Names, Await
<1>6. codes' \in [Code -> CodeDoc \cup {NoDoc}]
  <2>1. CASE Code = {}
    BY <1>a, <2>1, OnlyWriters, RequestFacts, RequestType
       DEF Data, MarkReplayed, Consume, Base, WorksOn, LocalOK, Await, CanConsume
  <2> QED BY <2>1, CodeStep
<1>7. ASSUME NEW a \in Ask, asks'[a] # NoDoc PROVE a \in drawn'
  BY <1>a, <1>7, AskStep DEF Data
<1>8. asks' \in [Ask -> AskDoc \cup {NoDoc}]
  <2>1. CASE Ask = {}
    BY <1>a, <2>1, OnlyWriters DEF Data, Take
  <2> QED BY <2>1, AskStep
<1> QED BY <1>1, <1>2, <1>3, <1>4, <1>5, <1>6, <1>7, <1>8, NameStep DEF Data
-----------------------------------------------------------------------------
(* Type correctness *)

LEMMA LocalStays ==
  ASSUME Base, Next, NEW r \in Req
  PROVE  /\ LocalOK(req[r]) /\ clients' \subseteq clients
         /\ \A q : clients' \subseteq clients /\ LocalOK(q) => LocalOK(q)'
         /\ Names(req[r]) \subseteq drawn' \cup {Nil}
<1>1. \A q : clients' \subseteq clients /\ LocalOK(q) => LocalOK(q)'
  BY DEF LocalOK
<1> QED BY <1>1, RequestFacts, StepKeepsNames

\* One request's part of Base after its own step, given where the step leads.
LEMMA BaseStep ==
  ASSUME Base, Next, NEW r \in Req, NEW q \in Request,
         req' = [req EXCEPT ![r] = q],
         Names(q) \subseteq drawn' \cup {Nil}, LocalOK(q)'
  PROVE  Base'
<1>a. req \in [Req -> Request]
  BY DEF Base, TypeOK
<1>1. req' \in [Req -> Request] /\ req'[r] = q /\ \A p \in Req \ {r} : req'[p] = req[p]
  BY <1>a
<1>2. ASSUME NEW p \in Req
      PROVE  LocalOK(req[p])' /\ Names(req'[p]) \subseteq drawn' \cup {Nil}
  <2>1. CASE p = r
    BY <1>1, <2>1 DEF LocalOK
  <2>2. CASE p # r
    BY <1>1, <2>2, LocalStays DEF LocalOK
  <2> QED BY <2>1, <2>2
<1>3. Parts'
  BY <1>1, <1>2, DataStep DEF Parts, Locals
<1> QED BY <1>3, PartsMakeBase, PTL

\* A handler's locals with another copy or another new token are locals still.
LEMMA RequestWithDoc ==
  ASSUME NEW q \in Request, NEW pc \in PCs, NEW doc \in GrantDoc
  PROVE  [q EXCEPT !.pc = pc, !.doc = doc] \in Request
BY DEF Request

LEMMA RequestWithTimes ==
  ASSUME NEW q \in Request, NEW pc \in PCs, NEW auth \in Nat \cup {Nil}, NEW now \in Nat
  PROVE  [q EXCEPT !.auth = auth, !.now = now, !.pc = pc] \in Request
BY ZenonT(60) DEF Request

LEMMA RequestWithNew ==
  ASSUME NEW q \in Request, NEW pc \in PCs, NEW t \in Token \cup {Nil}
  PROVE  [q EXCEPT !.pc = pc, !.new = t] \in Request
BY ZenonT(60) DEF Request

LEMMA IdleOK == Idle \in Request /\ LocalOK(Idle)' /\ Names(Idle) = {Nil}
BY DEF Idle, Request, PCs, LocalOK, SignedInPCs, ExchangePCs, RotationPCs, Names

LEMMA FinishStep ==
  ASSUME Base, Next, NEW r \in Req, Finish(r)
  PROVE  Base'
BY IdleOK, BaseStep DEF Finish

\* A request that only moves on to another call, with the copy it holds.
LEMMA GotoStep ==
  ASSUME Base, Next, NEW r \in Req, NEW pc \in PCs, Goto(r, pc),
         pc \notin {"idle", "take", "check", "parent", "consume", "store", "resolve",
                    "authTime", "covered", "revokeFind"},
         pc = "ask" => req[r].pc = "covered",
         req[r].pc \notin {"idle", "take"},
         pc \in SignedInPCs => req[r].pc \in SignedInPCs,
         pc \in {"decide", "grant", "decideTime"} => req[r].ask # Nil,
         pc \in {"recheck", "replay", "mark"} => req[r].code # Nil,
         pc \in RotationPCs => req[r].doc # NoDoc,
         req[r].doc # NoDoc => pc \in {"undo", "answer", "recheck"} \cup RotationPCs,
         pc \in {"dropTokens", "dropConsents"} => req[r].client \notin clients
  PROVE  Base'
<1> PICK q : q = [req[r] EXCEPT !.pc = pc]
  OBVIOUS
<1>1. /\ LocalOK(req[r]) /\ clients' \subseteq clients
      /\ Names(req[r]) \subseteq drawn' \cup {Nil}
      /\ req[r] \in Request /\ req \in [Req -> Request]
  BY LocalStays, RequestType DEF Base, TypeOK
<1>2. /\ q \in Request /\ q.pc = pc /\ Names(q) = Names(req[r])
      /\ q.client = req[r].client /\ q.user = req[r].user /\ q.sid = req[r].sid
      /\ q.ask = req[r].ask /\ q.code = req[r].code /\ q.grant = req[r].grant
      /\ q.doc = req[r].doc
  BY <1>1 DEF Request, Names
<1>3. req' = [req EXCEPT ![r] = q]
  BY <1>1 DEF Goto
<1>4. LocalOK(q)'
  BY <1>1, <1>2 DEF LocalOK, SignedInPCs, ExchangePCs, RotationPCs
<1> QED BY <1>1, <1>2, <1>3, <1>4, BaseStep

LEMMA ArriveKeepsBase ==
  ASSUME Base, Next, NEW r \in Req, Arrive(r)
  PROVE  Base'
<1>a. /\ TypeOK /\ clock \in Nat /\ clients \subseteq Client
      /\ session \in [Sid -> Contract!State]
      /\ drawn \subseteq drawn' /\ \A s \in Sid : Owned(session[s])
      /\ delivered \subseteq drawn \cap Token
  BY StepKeepsNames DEF Base, TypeOK, Owners
<1>1. ASSUME NEW c \in Client, NEW scopes \in ScopeSets, NEW prompt \in BOOLEAN,
             Authorize(r, c, scopes, prompt)
      PROVE  Base'
  <2> PICK q : q = [Idle EXCEPT !.pc = "resolve", !.client = c,
                                !.scopes = scopes, !.prompt = prompt]
    OBVIOUS
  <2>1. q \in Request
    BY ScopeAssumption DEF Idle, Request, PCs
  <2>2. Names(q) \subseteq drawn' \cup {Nil} /\ LocalOK(q)'
    BY DEF Idle, LocalOK, SignedInPCs, ExchangePCs, RotationPCs, Names
  <2>3. req' = [req EXCEPT ![r] = q]
    BY <1>1 DEF Authorize, Begin
  <2> QED BY <2>1, <2>2, <2>3, BaseStep
<1>2. ASSUME NEW c \in Client, NEW k \in drawn \cap Code, NEW g \in Token,
             Exchange(r, c, k, g)
      PROVE  Base'
  <2> PICK q : q = [Idle EXCEPT !.pc = "consume", !.client = c, !.code = k,
                                !.grant = g, !.now = clock]
    OBVIOUS
  <2>1. q \in Request
    BY <1>a DEF Idle, Request, PCs
  <2>2. drawn' = drawn \cup {g}
    BY <1>2 DEF Exchange
  <2>3. Names(q) \subseteq drawn' \cup {Nil} /\ LocalOK(q)'
    BY <2>2, <1>a, NilAssumption, NameAssumption
       DEF Idle, LocalOK, SignedInPCs, ExchangePCs, RotationPCs, Names
  <2>4. req' = [req EXCEPT ![r] = q]
    BY <1>2 DEF Exchange, Begin
  <2> QED BY <2>1, <2>3, <2>4, BaseStep
<1>3. ASSUME NEW c \in Client, NEW tok \in delivered, Refresh(r, c, tok)
      PROVE  Base'
  <2> PICK q : q = [Idle EXCEPT !.pc = "find", !.client = c, !.tok = tok, !.now = clock]
    OBVIOUS
  <2>1. q \in Request
    BY <1>a DEF Idle, Request, PCs
  <2>2. Names(q) \subseteq drawn' \cup {Nil}
    BY <1>a DEF Idle, Names
  <2>3. LocalOK(q)'
    BY DEF Idle, LocalOK, SignedInPCs, ExchangePCs, RotationPCs
  <2>4. req' = [req EXCEPT ![r] = q]
    BY <1>3 DEF Refresh, Begin
  <2> QED BY <2>1, <2>2, <2>3, <2>4, BaseStep
<1>4. ASSUME NEW c \in Client, NEW tok \in delivered, Revoke(r, c, tok)
      PROVE  Base'
  <2> PICK q : q = [Idle EXCEPT !.pc = "revokeFind", !.client = c, !.tok = tok]
    OBVIOUS
  <2>1. q \in Request
    <3>1. "revokeFind" \in PCs
      BY DEF PCs
    <3> QED BY <1>a, <3>1 DEF Idle, Request
  <2>2. Names(q) \subseteq drawn' \cup {Nil}
    BY <1>a DEF Idle, Names
  <2>3. LocalOK(q)'
    BY DEF Idle, LocalOK, SignedInPCs, ExchangePCs, RotationPCs
  <2>4. req' = [req EXCEPT ![r] = q]
    BY <1>4 DEF Revoke, Begin
  <2> QED BY <2>1, <2>2, <2>3, <2>4, BaseStep
<1>5. ASSUME NEW c \in Client, DeleteClient(r, c)
      PROVE  Base'
  <2> PICK q : q = [Idle EXCEPT !.pc = "dropTokens", !.client = c]
    OBVIOUS
  <2>1. q \in Request /\ Names(q) \subseteq drawn' \cup {Nil}
    BY DEF Idle, Request, PCs, Names
  <2>2. LocalOK(q)'
    BY <1>5 DEF DeleteClient, Idle, LocalOK, SignedInPCs, ExchangePCs, RotationPCs
  <2>3. req' = [req EXCEPT ![r] = q]
    BY <1>5 DEF DeleteClient, Begin
  <2> QED BY <2>1, <2>2, <2>3, BaseStep
<1>6. ASSUME NEW a \in drawn \cap Ask, NEW s \in Sid, NEW approve \in BOOLEAN,
             Decide(r, a, s, approve)
      PROVE  Base'
  <2> PICK q : q = [Idle EXCEPT !.pc = "take", !.ask = a, !.approve = approve,
                      !.sid = s, !.user = session[s].owner, !.now = clock]
    OBVIOUS
  <2>1. session[s].owner \in User
    BY <1>6, <1>a DEF Decide, Active, Owned, Contract!Open, Contract!OpenPhases
  <2>2. q \in Request
    <3>1. "take" \in PCs
      BY DEF PCs
    <3> QED BY <1>a, <2>1, <3>1 DEF Idle, Request
  <2>3. Names(q) \subseteq drawn' \cup {Nil} /\ LocalOK(q)'
    BY <2>1, <1>a, NameAssumption
       DEF Idle, LocalOK, SignedInPCs, ExchangePCs, RotationPCs, Names
  <2>4. req' = [req EXCEPT ![r] = q]
    BY <1>6 DEF Decide, Begin
  <2> QED BY <2>2, <2>3, <2>4, BaseStep
<1> QED BY <1>1, <1>2, <1>3, <1>4, <1>5, <1>6 DEF Arrive

\* authorize and the consent decision.
LEMMA ConsentKeepsBase ==
  ASSUME Base, Next, NEW r \in Req,
         \/ ResolveBrowser(r) \/ AuthTime(r) \/ Covered(r)
         \/ (\E a \in Ask : AskConsent(r, a)) \/ (\E k \in Code : IssueCode(r, k))
         \/ Take(r) \/ DecideClient(r) \/ GrantConsent(r) \/ DecideTime(r)
  PROVE  Base'
<1>a. /\ LocalOK(req[r]) /\ clients' \subseteq clients
      /\ Names(req[r]) \subseteq drawn' \cup {Nil}
  BY LocalStays
<1>b. /\ TypeOK /\ clock \in Nat /\ req[r] \in Request /\ req \in [Req -> Request]
      /\ \A s \in Sid : Owned(session[s])
  BY RequestType DEF Base, TypeOK, Owners
<1>c. req[r].pc \in SignedInPCs =>
        /\ req[r].user \in User /\ req[r].sid \in Sid
        /\ req[r].pc # "take" => req[r].client \in Client
        /\ req[r].doc = NoDoc
  BY <1>a DEF LocalOK, SignedInPCs, RotationPCs
<1>d. /\ req[r].pc = "resolve" => req[r].client \in Client /\ req[r].doc = NoDoc
      /\ req[r].pc \in {"resolve", "authTime"} => req[r].ask = Nil
  BY <1>a DEF LocalOK, RotationPCs
<1>0. CASE Finish(r)
  BY <1>0, FinishStep
<1>1. CASE ResolveBrowser(r) /\ ~Finish(r)
  <2>1. PICK s \in Sid : /\ Active(s, clock)
                         /\ req' = [req EXCEPT ![r].pc = "authTime", ![r].sid = s,
                                               ![r].user = session[s].owner]
    BY <1>1 DEF ResolveBrowser
  <2> PICK q : q = [req[r] EXCEPT !.pc = "authTime", !.sid = s, !.user = session[s].owner]
    OBVIOUS
  <2>2. session[s].owner \in User
    BY <1>b, <2>1 DEF Active, Owned, Contract!Open, Contract!OpenPhases
  <2>3. /\ q \in Request /\ q.pc = "authTime" /\ q.user \in User /\ q.sid \in Sid
        /\ q.client = req[r].client /\ q.doc = req[r].doc /\ Names(q) = Names(req[r])
        /\ q.ask = req[r].ask
    <3>1. "authTime" \in PCs
      BY DEF PCs
    <3> QED BY <1>b, <2>2, <3>1 DEF Request, Names
  <2>4. req[r].pc = "resolve"
    BY <1>1 DEF ResolveBrowser, Await
  <2>5. LocalOK(q)'
    BY <1>d, <2>3, <2>4 DEF LocalOK, SignedInPCs, ExchangePCs, RotationPCs
  <2>6. req' = [req EXCEPT ![r] = q]
    BY <1>b, <2>1
  <2> QED BY <1>a, <2>3, <2>5, <2>6, BaseStep
<1>2. CASE AuthTime(r) /\ ~Finish(r)
  <2>1. PICK pc \in {"issue", "covered"} :
          /\ HasCurrent(req[r].user, req[r].sid) /\ req[r].pc = "authTime"
          /\ req' = [req EXCEPT ![r].auth = session[req[r].sid].start, ![r].now = clock,
                                ![r].pc = pc]
    BY <1>2 DEF AuthTime, Await
  <2> PICK q : q = [req[r] EXCEPT !.auth = session[req[r].sid].start, !.now = clock,
                                  !.pc = pc]
    OBVIOUS
  <2>2. req[r].sid \in Sid /\ session[req[r].sid].start \in Nat
    BY <1>b, <1>c, <2>1 DEF HasCurrent, Owned, Contract!Open, Contract!OpenPhases, SignedInPCs
  <2>6. q \in Request
    <3>1. /\ req[r] \in Request /\ pc \in PCs /\ session[req[r].sid].start \in Nat \cup {Nil}
          /\ clock \in Nat
      BY <1>b, <2>2 DEF PCs
    <3> QED BY <3>1, RequestWithTimes
  <2>3. /\ q.pc \in {"issue", "covered"} /\ q.ask = req[r].ask
        /\ q.user = req[r].user /\ q.sid = req[r].sid
        /\ q.client = req[r].client /\ q.doc = req[r].doc /\ Names(q) = Names(req[r])
    BY <1>b DEF Request, Names
  <2>4. LocalOK(q)'
    BY <1>c, <1>d, <2>1, <2>3 DEF LocalOK, SignedInPCs, ExchangePCs, RotationPCs
  <2>5. req' = [req EXCEPT ![r] = q]
    BY <1>b, <2>1
  <2> QED BY <1>a, <2>3, <2>4, <2>5, <2>6, BaseStep
<1>3. CASE Covered(r) /\ ~Finish(r)
  <2>1. PICK pc \in {"issue", "ask"} : Goto(r, pc)
    BY <1>3 DEF Covered
  <2>2. req[r].pc = "covered" /\ pc \in PCs
    BY <1>3 DEF Covered, Await, PCs
  <2> QED BY <1>c, <2>1, <2>2, GotoStep DEF SignedInPCs, RotationPCs
<1>4. CASE (\E a \in Ask : AskConsent(r, a)) \/ (\E k \in Code : IssueCode(r, k))
  BY <1>4, <1>0 DEF AskConsent, IssueCode
<1>5. CASE Take(r) /\ ~Finish(r)
  <2> DEFINE d == asks[req[r].ask]
  <2>1. /\ req[r].pc = "take" /\ d # NoDoc
        /\ req' = [req EXCEPT ![r].pc = "decide", ![r].client = d.client_id,
                              ![r].scopes = d.scopes]
    BY <1>5 DEF Take, Await, Pending
  <2>2. req[r].ask \in Ask /\ req[r].ask # Nil
    BY <1>a, <1>b, <2>1, RequestType DEF LocalOK
  <2>3. d.client_id \in Client /\ d.scopes \in SUBSET Scope
    BY <2>1, <2>2, <1>b DEF TypeOK, AskDoc
  <2> HIDE DEF d
  <2> PICK q : q = [req[r] EXCEPT !.pc = "decide", !.client = d.client_id,
                                  !.scopes = d.scopes]
    OBVIOUS
  <2>4. /\ q \in Request /\ q.pc = "decide" /\ q.client \in Client
        /\ q.user = req[r].user /\ q.sid = req[r].sid /\ q.ask = req[r].ask
        /\ q.doc = req[r].doc /\ Names(q) = Names(req[r])
    <3>1. "decide" \in PCs
      BY DEF PCs
    <3> QED BY <1>b, <2>3, <3>1 DEF Request, Names
  <2>5. LocalOK(q)'
    BY <1>c, <2>1, <2>2, <2>4 DEF LocalOK, SignedInPCs, ExchangePCs, RotationPCs
  <2>6. req' = [req EXCEPT ![r] = q]
    BY <1>b, <2>1
  <2> QED BY <1>a, <2>4, <2>5, <2>6, BaseStep
<1>6. CASE DecideClient(r) /\ ~Finish(r)
  <2>1. Goto(r, "grant") /\ req[r].pc = "decide"
    BY <1>6 DEF DecideClient, Await
  <2> QED BY <1>a, <1>c, <2>1, GotoStep DEF LocalOK, SignedInPCs, RotationPCs, PCs
<1>7. CASE GrantConsent(r)
  <2>1. Goto(r, "decideTime") /\ req[r].pc = "grant"
    BY <1>7 DEF GrantConsent, Await
  <2> QED BY <1>a, <1>c, <2>1, GotoStep DEF LocalOK, SignedInPCs, RotationPCs, PCs
<1>8. CASE DecideTime(r)
  <2> DEFINE auth == IF HasCurrent(req[r].user, req[r].sid)
                     THEN session[req[r].sid].start ELSE Nil
  <2>1. /\ req[r].pc = "decideTime"
        /\ req' = [req EXCEPT ![r].pc = "issue", ![r].auth = auth]
    BY <1>8 DEF DecideTime, Await
  <2>2. auth \in Nat \cup {Nil}
    BY <1>b, <1>c, <2>1 DEF HasCurrent, Owned, Contract!Open, Contract!OpenPhases, SignedInPCs
  <2> HIDE DEF auth
  <2> PICK q : q = [req[r] EXCEPT !.pc = "issue", !.auth = auth]
    OBVIOUS
  <2>3. /\ q \in Request /\ q.pc = "issue" /\ q.user = req[r].user /\ q.sid = req[r].sid
        /\ q.client = req[r].client /\ q.doc = req[r].doc /\ Names(q) = Names(req[r])
    <3>1. "issue" \in PCs
      BY DEF PCs
    <3> QED BY <1>b, <2>2, <3>1 DEF Request, Names
  <2>4. LocalOK(q)'
    BY <1>c, <2>1, <2>3 DEF LocalOK, SignedInPCs, ExchangePCs, RotationPCs
  <2>5. req' = [req EXCEPT ![r] = q]
    BY <1>b, <2>1
  <2> QED BY <1>a, <2>3, <2>4, <2>5, BaseStep
<1> QED BY <1>0, <1>1, <1>2, <1>3, <1>4, <1>5, <1>6, <1>7, <1>8

\* The token endpoint, authorization_code.
LEMMA ExchangeKeepsBase ==
  ASSUME Base, Next, NEW r \in Req,
         \/ \E proof \in BOOLEAN : Consume(r, proof)
         \/ CheckSession(r) \/ FindParent(r) \/ InsertFirst(r) \/ Recheck(r) \/ Answer(r)
         \/ FindReplayed(r) \/ MarkReplayed(r) \/ RevokeGrant(r)
  PROVE  Base'
<1>a. /\ LocalOK(req[r]) /\ clients' \subseteq clients
      /\ Names(req[r]) \subseteq drawn' \cup {Nil} /\ drawn \subseteq drawn'
  BY LocalStays, StepKeepsNames
<1>b. /\ TypeOK /\ req[r] \in Request /\ req \in [Req -> Request]
      /\ session \in [Sid -> Contract!State] /\ \A s \in Sid : Owned(session[s])
      /\ codes \in [Code -> CodeDoc \cup {NoDoc}]
  BY RequestType DEF Base, TypeOK, Owners
<1>0. CASE Finish(r)
  BY <1>0, FinishStep
<1>1. ASSUME NEW proof \in BOOLEAN, Consume(r, proof), ~Finish(r)
      PROVE  Base'
  <2> DEFINE cd == codes[req[r].code]
  <2>1. req[r].pc = "consume" /\ req[r].doc = NoDoc /\ req[r].code \in Code
    BY <1>1, <1>a, <1>b, RequestType
       DEF Consume, Await, LocalOK, RotationPCs, ExchangePCs
  <2>2. CASE Goto(r, "replay")
    BY <2>1, <2>2, <1>a, GotoStep DEF LocalOK, SignedInPCs, RotationPCs, ExchangePCs, PCs
  <2>3. CASE ~Goto(r, "replay")
    <3>1. /\ cd # NoDoc
          /\ req' = [req EXCEPT ![r] =
                       [req[r] EXCEPT !.pc = "check", !.user = cd.user_id, !.sid = cd.sid,
                                      !.scopes = cd.scopes, !.auth = cd.auth_time]]
      BY <1>1, <2>3 DEF Consume, CanConsume
    <3>2. /\ cd.user_id \in User /\ cd.sid \in Sid /\ cd.scopes \in SUBSET Scope
          /\ cd.auth_time \in Nat
      BY <1>b, <2>1, <3>1 DEF CodeDoc
    <3> HIDE DEF cd
    <3> PICK q : q = [req[r] EXCEPT !.pc = "check", !.user = cd.user_id, !.sid = cd.sid,
                                    !.scopes = cd.scopes, !.auth = cd.auth_time]
      OBVIOUS
    <3>3. /\ q \in Request /\ q.pc = "check" /\ q.client = req[r].client
          /\ q.user \in User /\ q.sid \in Sid /\ q.auth \in Nat /\ q.doc = req[r].doc
          /\ q.grant = req[r].grant /\ q.tok = req[r].tok /\ q.new = req[r].new
          /\ q.code = req[r].code /\ Names(q) = Names(req[r])
      <4>1. "check" \in PCs
        BY DEF PCs
      <4> QED BY <1>b, <3>2, <4>1 DEF Request, Names
    <3>4. LocalOK(q)'
      BY <1>a, <2>1, <3>3 DEF LocalOK, SignedInPCs, ExchangePCs, RotationPCs
    <3>5. req' = [req EXCEPT ![r] = q]
      BY <3>1
    <3> QED BY <1>a, <3>3, <3>4, <3>5, BaseStep
  <2> QED BY <2>2, <2>3
<1>2. CASE CheckSession(r) /\ ~Finish(r)
  <2>1. PICK pc \in {"parent", "answer"} : Goto(r, pc)
    BY <1>2 DEF CheckSession
  <2>2. req[r].pc = "check" /\ req[r].doc = NoDoc
    BY <1>2, <1>a DEF CheckSession, Await, LocalOK, RotationPCs
  <2> PICK q : q = [req[r] EXCEPT !.pc = pc]
    OBVIOUS
  <2>3. /\ q \in Request /\ q.pc = pc /\ q.client = req[r].client
        /\ q.user = req[r].user /\ q.sid = req[r].sid /\ q.auth = req[r].auth
        /\ q.doc = req[r].doc /\ q.grant = req[r].grant /\ q.tok = req[r].tok
        /\ q.new = req[r].new /\ q.code = req[r].code /\ Names(q) = Names(req[r])
    BY <1>b DEF Request, PCs, Names
  <2>4. LocalOK(q)'
    BY <1>a, <2>2, <2>3 DEF LocalOK, SignedInPCs, ExchangePCs, RotationPCs
  <2>5. req' = [req EXCEPT ![r] = q]
    BY <2>1 DEF Goto
  <2> QED BY <1>a, <2>3, <2>4, <2>5, BaseStep
<1>3. CASE FindParent(r)
  <2>1. /\ req[r].pc = "parent" /\ req[r].doc = NoDoc /\ req[r].client \in Client
        /\ req[r].user \in User /\ req[r].sid \in Sid /\ req[r].auth \in Nat
        /\ req[r].grant \in Token /\ req[r].scopes \in SUBSET Scope /\ req[r].now \in Nat
    BY <1>3, <1>a, <1>b, RequestType
       DEF FindParent, Await, LocalOK, SignedInPCs, RotationPCs, ExchangePCs
  <2>2. CASE Goto(r, "answer")
    BY <2>1, <2>2, GotoStep DEF SignedInPCs, RotationPCs, PCs
  <2>3. CASE ~Goto(r, "answer")
    <3> PICK doc : doc = FirstRecord(req[r], session[req[r].sid].deadline)
      OBVIOUS
    <3>1. /\ HasCurrent(req[r].user, req[r].sid)
          /\ req' = [req EXCEPT ![r].pc = "store", ![r].doc = doc]
      BY <1>3, <2>3 DEF FindParent
    <3>2. session[req[r].sid].deadline \in Nat
      BY <1>b, <2>1, <3>1 DEF HasCurrent, Owned, Contract!Open, Contract!OpenPhases
    <3>3. /\ doc \in GrantDoc /\ doc.family_id = req[r].grant
          /\ doc.session_id = req[r].sid
      BY <2>1, <3>2 DEF FirstRecord, GrantDoc
    <3>4. doc # NoDoc
      BY <3>3, NoGrantAssumption
    <3> PICK q : q = [req[r] EXCEPT !.pc = "store", !.doc = doc]
      OBVIOUS
    <3>8. q \in Request
      BY <1>b, <3>3, RequestWithDoc DEF PCs
    <3>5. /\ q.pc = "store" /\ q.client = req[r].client
          /\ q.sid = req[r].sid /\ q.doc = doc /\ q.grant = req[r].grant
          /\ q.tok = req[r].tok /\ q.new = req[r].new /\ q.code = req[r].code
          /\ Names(q) = Names(req[r])
      BY <1>b DEF Request, Names
    <3>6. LocalOK(q)'
      BY <1>a, <2>1, <3>3, <3>4, <3>5 DEF LocalOK, SignedInPCs, ExchangePCs, RotationPCs
    <3>7. req' = [req EXCEPT ![r] = q]
      BY <1>b, <3>1
    <3> QED BY <1>a, <3>5, <3>6, <3>7, <3>8, BaseStep
  <2> QED BY <2>2, <2>3
<1>4. CASE InsertFirst(r)
  <2>1. /\ req[r].pc = "store" /\ req[r].doc # NoDoc
        /\ req' = [req EXCEPT ![r].pc = "recheck", ![r].new = req[r].grant]
    BY <1>4, <1>a DEF InsertFirst, Await, LocalOK
  <2> PICK q : q = [req[r] EXCEPT !.pc = "recheck", !.new = req[r].grant]
    OBVIOUS
  <2>5. q \in Request
    BY <1>b, RequestType, RequestWithNew DEF PCs
  <2>2. /\ q.pc = "recheck" /\ q.client = req[r].client
        /\ q.sid = req[r].sid /\ q.doc = req[r].doc /\ q.grant = req[r].grant
        /\ q.code = req[r].code /\ Names(q) \subseteq Names(req[r])
    BY <1>b DEF Request, Names
  <2>3. LocalOK(q)'
    BY <1>a, <2>1, <2>2 DEF LocalOK, SignedInPCs, ExchangePCs, RotationPCs
  <2>4. req' = [req EXCEPT ![r] = q]
    BY <1>b, <2>1
  <2> QED BY <1>a, <2>2, <2>3, <2>4, <2>5, BaseStep
<1>5. CASE Recheck(r)
  <2>1. PICK pc \in {"undo", "answer"} : Goto(r, pc)
    BY <1>5 DEF Recheck
  <2>2. req[r].pc = "recheck"
    BY <1>5 DEF Recheck, Await
  <2> QED BY <2>1, <2>2, GotoStep DEF SignedInPCs, RotationPCs, PCs
<1>6. CASE FindReplayed(r) /\ ~Finish(r)
  <2> DEFINE cd == codes[req[r].code]
  <2>1. /\ req[r].pc = "replay" /\ req[r].doc = NoDoc /\ req[r].code \in Code
        /\ cd # NoDoc /\ req' = [req EXCEPT ![r].pc = "mark", ![r].grant = cd.grant_id]
    BY <1>6, <1>a, <1>b, RequestType DEF FindReplayed, Await, LocalOK, RotationPCs
  <2>2. cd.grant_id \in Token \cup {Nil} /\ cd.grant_id \in drawn' \cup {Nil}
    BY <1>a, <1>b, <2>1, RequestFacts DEF CodeDoc, Data
  <2> HIDE DEF cd
  <2> PICK q : q = [req[r] EXCEPT !.pc = "mark", !.grant = cd.grant_id]
    OBVIOUS
  <2>3. /\ q \in Request /\ q.pc = "mark" /\ q.client = req[r].client
        /\ q.doc = req[r].doc /\ q.code = req[r].code
        /\ Names(q) \subseteq Names(req[r]) \cup {cd.grant_id}
    <3>1. "mark" \in PCs
      BY DEF PCs
    <3> QED BY <1>b, <2>2, <3>1 DEF Request, Names
  <2>4. LocalOK(q)'
    BY <1>a, <2>1, <2>3 DEF LocalOK, SignedInPCs, ExchangePCs, RotationPCs
  <2>5. req' = [req EXCEPT ![r] = q]
    BY <1>b, <2>1
  <2> QED BY <1>a, <2>2, <2>3, <2>4, <2>5, BaseStep
<1>7. CASE MarkReplayed(r)
  <2>1. Goto(r, "revokeGrant") /\ req[r].pc = "mark" /\ req[r].doc = NoDoc
    BY <1>7, <1>a DEF MarkReplayed, Await, LocalOK, RotationPCs
  <2> QED BY <2>1, GotoStep DEF SignedInPCs, RotationPCs, PCs
<1>8. CASE Answer(r) \/ RevokeGrant(r)
  BY <1>8, <1>0 DEF Answer, RevokeGrant
<1> QED BY <1>0, <1>1, <1>2, <1>3, <1>4, <1>5, <1>6, <1>7, <1>8

\* The token endpoint, refresh_token; revoke; and the deletion of a client.
LEMMA RefreshKeepsBase ==
  ASSUME Base, Next, NEW r \in Req,
         \/ FindGrant(r) \/ ClaimGrant(r) \/ ReReadGrant(r) \/ RefreshActive(r)
         \/ \E t \in Token : InsertNext(r, t)
         \/ RevokeFind(r) \/ DropTokens(r) \/ DropConsents(r) \/ Abort(r)
  PROVE  Base'
<1>a. /\ LocalOK(req[r]) /\ clients' \subseteq clients
      /\ Names(req[r]) \subseteq drawn' \cup {Nil} /\ drawn \subseteq drawn'
  BY LocalStays, StepKeepsNames
<1>b. /\ req[r] \in Request /\ req \in [Req -> Request] /\ store \in GrantStore
  BY RequestType DEF Base, TypeOK, GrantStore
<1>c. req[r].pc \in RotationPCs => req[r].doc # NoDoc
  BY <1>a DEF LocalOK
<1>d. \A n, at : AfterRead(n, at) \in {"claim", "insert", "reuse"}
                 /\ AfterGrantRead(n, at) \in {"claim", "active", "reuse"}
  BY DEF AfterRead, AfterGrantRead
<1>0. CASE Finish(r)
  BY <1>0, FinishStep
<1>1. CASE FindGrant(r) /\ ~Finish(r)
  <2> DEFINE d == store[req[r].tok]
             pc == IF d.expires_at <= req[r].now THEN "expired"
                   ELSE AfterGrantRead(req[r].now, d.rotated_at)
  <2>0. pc \in {"expired", "claim", "active", "reuse"}
    BY <1>d
  <2>1. /\ req[r].pc = "find" /\ IsOf(req[r].tok, req[r].client)
        /\ req' = [req EXCEPT ![r] =
                [req[r] EXCEPT !.doc = d, !.user = d.user_id, !.sid = d.session_id,
                               !.grant = FamilyOf(store, req[r].tok), !.pc = pc]]
    BY <1>1 DEF FindGrant, Await
  <2> HIDE DEF pc
  <2>2. req[r].tok \in Records(store)
    BY <2>1 DEF IsOf
  <2>3. /\ d \in GrantDoc /\ d # NoDoc /\ d.user_id \in User /\ d.session_id \in Sid
        /\ FamilyOf(store, req[r].tok) = d.family_id /\ d.family_id \in Token
    BY <1>b, <2>2, GrantIsDoc DEF GrantDoc, Records
  <2>4. d.family_id \in drawn'
    BY <1>a, <2>2, BaseParts DEF Data
  <2> HIDE DEF d
  <2> PICK q : q = [req[r] EXCEPT !.doc = d, !.user = d.user_id, !.sid = d.session_id,
                                  !.grant = d.family_id, !.pc = pc]
    OBVIOUS
  <2>5. q \in Request
    <3>1. pc \in PCs
      BY <2>0 DEF PCs
    <3> QED BY <1>b, <2>0, <2>3, <3>1 DEF Request
  <2>6. /\ q.pc = pc /\ q.client = req[r].client /\ q.doc = d /\ q.grant = d.family_id
        /\ q.sid = d.session_id /\ q.user = d.user_id
        /\ Names(q) \subseteq Names(req[r]) \cup {d.family_id}
    BY <1>b DEF Request, Names
  <2>7. LocalOK(q)'
    BY <1>a, <2>0, <2>1, <2>3, <2>6 DEF LocalOK, SignedInPCs, ExchangePCs, RotationPCs
  <2>8. req' = [req EXCEPT ![r] = q]
    BY <1>b, <2>1, <2>3
  <2> QED BY <1>a, <2>4, <2>5, <2>6, <2>7, <2>8, BaseStep
<1>2. CASE (ClaimGrant(r) \/ ReReadGrant(r) \/ RefreshActive(r)) /\ ~Finish(r)
  <2>1. PICK pc \in {"active", "reread", "claim", "reuse", "insert", "ended"} : Goto(r, pc)
    BY <1>2, <1>d DEF ClaimGrant, ReReadGrant, RefreshActive
  <2>2. req[r].pc \in {"claim", "reread", "active"}
    BY <1>2 DEF ClaimGrant, ReReadGrant, RefreshActive, Await
  <2> QED BY <1>c, <2>1, <2>2, GotoStep DEF SignedInPCs, RotationPCs, PCs
<1>3. ASSUME NEW t \in Token, InsertNext(r, t)
      PROVE  Base'
  <2>1. /\ req[r].pc = "insert" /\ t \in drawn'
        /\ req' = [req EXCEPT ![r].pc = "answer", ![r].new = t]
    BY <1>3 DEF InsertNext, Await
  <2> PICK q : q = [req[r] EXCEPT !.pc = "answer", !.new = t]
    OBVIOUS
  <2>2. q \in Request
    BY <1>b, RequestWithNew DEF PCs
  <2>3. /\ q.pc = "answer" /\ q.client = req[r].client
        /\ q.sid = req[r].sid /\ q.doc = req[r].doc /\ q.grant = req[r].grant
        /\ Names(q) \subseteq Names(req[r]) \cup {t}
    BY <1>b DEF Request, Names
  <2>4. LocalOK(q)'
    BY <1>a, <2>1, <2>3 DEF LocalOK, SignedInPCs, ExchangePCs, RotationPCs
  <2>5. req' = [req EXCEPT ![r] = q]
    BY <1>b, <2>1
  <2> QED BY <1>a, <2>1, <2>2, <2>3, <2>4, <2>5, BaseStep
<1>4. CASE RevokeFind(r) /\ ~Finish(r)
  <2> DEFINE g == FamilyOf(store, req[r].tok)
  <2>1. /\ req[r].pc = "revokeFind" /\ req[r].tok \in Records(store)
        /\ req' = [req EXCEPT ![r].pc = "revokeGrant", ![r].grant = g]
    BY <1>4 DEF RevokeFind, Await, IsOf
  <2>2. g \in Token /\ g \in drawn'
    BY <1>a, <1>b, <2>1, GrantIsDoc, BaseParts DEF Data
  <2>3. req[r].doc = NoDoc
    BY <1>a, <2>1 DEF LocalOK, RotationPCs
  <2> HIDE DEF g
  <2> PICK q : q = [req[r] EXCEPT !.pc = "revokeGrant", !.grant = g]
    OBVIOUS
  <2>4. q \in Request
    <3>1. "revokeGrant" \in PCs
      BY DEF PCs
    <3> QED BY <1>b, <2>2, <3>1 DEF Request
  <2>5. /\ q.pc = "revokeGrant" /\ q.client = req[r].client /\ q.doc = req[r].doc
        /\ Names(q) \subseteq Names(req[r]) \cup {g}
    BY <1>b DEF Request, Names
  <2>6. LocalOK(q)'
    BY <1>a, <2>1, <2>3, <2>5 DEF LocalOK, SignedInPCs, ExchangePCs, RotationPCs
  <2>7. req' = [req EXCEPT ![r] = q]
    BY <1>b, <2>1
  <2> QED BY <1>a, <2>2, <2>4, <2>5, <2>6, <2>7, BaseStep
<1>5. CASE DropTokens(r)
  <2>1. Goto(r, "dropConsents") /\ req[r].pc = "dropTokens" /\ req[r].doc = NoDoc
        /\ req[r].client \notin clients
    BY <1>5, <1>a DEF DropTokens, Await, LocalOK, RotationPCs
  <2> QED BY <2>1, GotoStep DEF SignedInPCs, RotationPCs, PCs
<1>6. CASE DropConsents(r) \/ Abort(r)
  BY <1>6, <1>0 DEF DropConsents, Abort
<1> QED BY <1>0, <1>1, <1>2, <1>3, <1>4, <1>5, <1>6

LEMMA EnvironmentKeepsBase ==
  ASSUME Base, Next, Environment
  PROVE  Base'
<1>1. req' = req
  BY DEF Environment, Login, SessionMoves, SignOut, Tick, Expire, PurgeCode, DropAsk
<1>2. \A r \in Req : LocalOK(req[r])' /\ Names(req[r])' \subseteq drawn' \cup {Nil}
  BY <1>1, LocalStays DEF LocalOK
<1>3. Parts'
  BY <1>1, <1>2, DataStep, BaseParts DEF Parts, Locals, Names
<1> QED BY <1>3, PartsMakeBase, PTL

LEMMA InitBase == Init => Base
<1> SUFFICES ASSUME Init PROVE Base
  OBVIOUS
<1>1. PICK b \in Boot : /\ session = b.session /\ store = b.store /\ codes = b.codes
                        /\ consents = b.consents /\ drawn = b.used
  BY DEF Init
<1>2. /\ b \in [session  : [Sid -> Contract!State],
                store    : [Token -> GrantDoc \cup {NoDoc}],
                codes    : [Code -> CodeDoc \cup {NoDoc}],
                consents : [User \X Client -> SUBSET Scope],
                used     : SUBSET (Token \cup Code)]
      /\ NamesIn(b) \subseteq b.used /\ Sound(b)
  BY BootAssumption
<1>n. /\ \A t \in Records(b.store) : {t, FamilyOf(b.store, t)} \subseteq b.used
      /\ \A k \in Code : b.codes[k] # NoDoc => k \in b.used
      /\ \A k \in Code : b.codes[k] # NoDoc /\ b.codes[k].grant_id \in Token =>
            b.codes[k].grant_id \in b.used
  <2>1. \A t \in Records(b.store) : {t, FamilyOf(b.store, t)} \subseteq NamesIn(b)
    BY DEF NamesIn
  <2>2. \A k \in Code : b.codes[k] # NoDoc => k \in NamesIn(b)
    BY DEF NamesIn
  <2>3. \A k \in Code : b.codes[k] # NoDoc /\ b.codes[k].grant_id \in Token =>
           b.codes[k].grant_id \in NamesIn(b)
    BY DEF NamesIn
  <2> QED BY <1>2, <2>1, <2>2, <2>3
<1>3. TypeOK
  <2>1. \A t \in Records(store) : t \in drawn
    BY <1>1, <1>n
  <2>2. Records(store) \subseteq Token
    BY DEF Records
  <2>3. req \in [Req -> Request]
    BY IdleOK DEF Init
  <2>4. delivered \subseteq drawn \cap Token
    BY <2>1, <2>2 DEF Init
  <2>5. /\ session \in [Sid -> Contract!State]
        /\ store \in [Token -> GrantDoc \cup {NoDoc}]
        /\ codes \in [Code -> CodeDoc \cup {NoDoc}]
        /\ consents \in [User \X Client -> SUBSET Scope]
        /\ drawn \subseteq Token \cup Code
    BY <1>1, <1>2
  <2> QED BY <2>3, <2>4, <2>5 DEF TypeOK, Init
<1>4. Owners
  BY <1>1, <1>2 DEF Owners, Sound
<1>5. Named
  <2>1. \A t \in Records(store) : t \in drawn /\ FamilyOf(store, t) \in drawn
    BY <1>1, <1>n
  <2>2. \A k \in Code : codes[k] # NoDoc =>
           /\ k \in drawn /\ codes[k].ask = Nil
           /\ codes[k].grant_id \in Token \cup {Nil}
           /\ codes[k].grant_id \in Token => codes[k].grant_id \in drawn
    BY <1>1, <1>2, <1>3, <1>n DEF Sound, TypeOK, CodeDoc
  <2>3. \A r \in Req : req[r] = Idle
    BY DEF Init
  <2> QED BY <2>1, <2>2, <2>3 DEF Named, Init, Idle
<1>6. Locals
  BY DEF Init, Locals, Idle, LocalOK, SignedInPCs, ExchangePCs, RotationPCs
<1> QED BY <1>3, <1>4, <1>5, <1>6 DEF Base

LEMMA NextBase == Base /\ [Next]_vars => Base'
<1>1. ASSUME Base, UNCHANGED vars PROVE Base'
  <2> USE <1>1 DEF vars, data
  <2>1. TypeOK' /\ Owners'
    BY DEF Base, TypeOK, Owners
  <2>2. Named' /\ Locals'
    BY DEF Base, Named, Locals, LocalOK
  <2> QED BY <2>1, <2>2 DEF Base
<1>2. ASSUME Base, Next, NEW r \in Req, Step(r) \/ Abort(r) PROVE Base'
  BY <1>2, ConsentKeepsBase, ExchangeKeepsBase, RefreshKeepsBase DEF Step
<1>3. ASSUME Base, Next, NEW r \in Req, Arrive(r) PROVE Base'
  BY <1>3, ArriveKeepsBase
<1>4. ASSUME Base, Next, Environment PROVE Base'
  BY <1>4, EnvironmentKeepsBase
<1> QED BY <1>1, <1>2, <1>3, <1>4 DEF Next

\* The inductive invariant: types, names never drawn twice, and handlers of
\* oauth_service.py whose locals agree with what they read.
THEOREM BaseInvariant == Spec => []Base
BY InitBase, NextBase, PTL DEF Spec

\* The collections and every handler of the provider always hold values of
\* their types; a response carries only tokens that were drawn.
THEOREM TypeCorrect == Spec => []TypeOK
<1>1. Base => TypeOK
  BY DEF Base
<1> QED BY <1>1, BaseInvariant, PTL
-----------------------------------------------------------------------------
(* How a handler's locals change *)

\* A call that leaves alone what names and describes the grant it works on.
KeepsGrant(r) ==
  LET q == req[r]
      n == req'[r] IN
  /\ n.grant = q.grant /\ n.tok = q.tok /\ n.code = q.code /\ n.doc = q.doc
  /\ n.new = q.new
  /\ q.doc # NoDoc => n.sid = q.sid /\ n.now = q.now

\* A request begins: an exchange draws its grant, the others name none.
Begins(r) ==
  LET n == req'[r] IN
  /\ req[r] = Idle /\ n.doc = NoDoc /\ n.new = Nil
  /\ UNCHANGED <<store, codes, delivered, session>>
  /\ \/ /\ n.pc = "consume" /\ n.tok = Nil
        /\ n.grant \in Token /\ n.grant \notin drawn /\ n.grant \in drawn'
     \/ /\ n.pc \in {"resolve", "take", "find", "revokeFind", "dropTokens"}
        /\ n.tok \in delivered \cup {Nil} /\ n.code = Nil /\ n.grant = Nil

\* The calls up to the answer, but for those that store or look for a record.
Proceeds(r) ==
  LET pc == req[r].pc
      next == req'[r].pc IN
  /\ KeepsGrant(r)
  /\ \/ <<pc, next>> \in {<<"resolve", "authTime">>, <<"authTime", "issue">>,
                          <<"authTime", "covered">>, <<"covered", "issue">>,
                          <<"covered", "ask">>, <<"take", "decide">>,
                          <<"decide", "grant">>, <<"grant", "decideTime">>,
                          <<"decideTime", "issue">>, <<"dropTokens", "dropConsents">>}
     \/ /\ pc = "consume" /\ next \in {"check", "replay"}
        /\ \E proof \in BOOLEAN : Consume(r, proof)
     \/ pc = "check" /\ next \in {"parent", "answer"}
     \/ pc = "parent" /\ next = "answer"
     \/ pc = "recheck" /\ next \in {"undo", "answer"} /\ Recheck(r)
     \/ pc = "mark" /\ next = "revokeGrant"
     \/ pc = "claim" /\ next \in {"active", "reread"} /\ ClaimGrant(r)
     \/ pc = "reread" /\ next \in {"claim", "active", "reuse"} /\ ReReadGrant(r)
     \/ pc = "active" /\ next \in {"insert", "ended"} /\ RefreshActive(r)

\* The calls that change the grant a handler works on or the copy it holds.
TakesUp(r) ==
  LET q == req[r]
      n == req'[r] IN
  \/ /\ FindParent(r) /\ HasCurrent(q.user, q.sid)
     /\ n = [q EXCEPT !.pc = "store",
                      !.doc = FirstRecord(q, session[q.sid].deadline)]
  \/ InsertFirst(r) /\ n = [q EXCEPT !.pc = "recheck", !.new = q.grant]
  \/ /\ FindGrant(r) /\ q.tok \in Records(store)
     /\ n.doc = store[q.tok] /\ n.sid = store[q.tok].session_id
     /\ n.grant = FamilyOf(store, q.tok)
     /\ n.tok = q.tok /\ n.code = q.code /\ n.new = q.new /\ n.now = q.now
     /\ n.pc \in {"expired", "claim", "active", "reuse"}
     /\ n.pc = "active" => AfterGrantRead(q.now, store[q.tok].rotated_at) = "active"
  \/ \E t \in Token : InsertNext(r, t) /\ n = [q EXCEPT !.pc = "answer", !.new = t]
  \/ /\ FindReplayed(r) /\ codes[q.code] # NoDoc /\ codes[q.code].consumed_at # Nil
     /\ n = [q EXCEPT !.pc = "mark", !.grant = codes[q.code].grant_id]
  \/ /\ RevokeFind(r) /\ q.tok \in Records(store)
     /\ n = [q EXCEPT !.pc = "revokeGrant", !.grant = FamilyOf(store, q.tok)]

\* A step moves one handler; the others stay where they are.
LEMMA OnlyMover ==
  ASSUME Base, Next, NEW r \in Req
  PROVE  \/ req' = req
         \/ /\ Arrive(r) \/ Step(r) \/ Abort(r)
            /\ \A p \in Req \ {r} : req'[p] = req[p]
         \/ \E p \in Req \ {r} : /\ Arrive(p) \/ Step(p) \/ Abort(p)
                                 /\ \A x \in Req \ {p} : req'[x] = req[x]
<1>a. req \in [Req -> Request]
  BY DEF Base, TypeOK
<1>1. ASSUME NEW p \in Req, Arrive(p) PROVE \A x \in Req \ {p} : req'[x] = req[x]
  BY <1>1, <1>a DEF Arrive, Authorize, Exchange, Refresh, Revoke, DeleteClient, Decide, Begin
<1>2. ASSUME NEW p \in Req,
             \/ ResolveBrowser(p) \/ AuthTime(p) \/ Covered(p)
             \/ (\E a \in Ask : AskConsent(p, a)) \/ (\E k \in Code : IssueCode(p, k))
             \/ Take(p) \/ DecideClient(p) \/ GrantConsent(p) \/ DecideTime(p)
             \/ (\E proof \in BOOLEAN : Consume(p, proof))
      PROVE  \A x \in Req \ {p} : req'[x] = req[x]
  BY <1>2, <1>a DEF ResolveBrowser, AuthTime, Covered, AskConsent, IssueCode, Take,
     DecideClient, GrantConsent, DecideTime, Consume, Goto, Finish
<1>3. ASSUME NEW p \in Req,
             \/ CheckSession(p) \/ FindParent(p) \/ InsertFirst(p) \/ Recheck(p) \/ Answer(p)
             \/ FindReplayed(p) \/ MarkReplayed(p) \/ RevokeGrant(p)
      PROVE  \A x \in Req \ {p} : req'[x] = req[x]
  BY <1>3, <1>a DEF CheckSession, FindParent, InsertFirst, Recheck, Answer, FindReplayed,
     MarkReplayed, RevokeGrant, Goto, Finish
<1>4. ASSUME NEW p \in Req,
             \/ FindGrant(p) \/ ClaimGrant(p) \/ ReReadGrant(p) \/ RefreshActive(p)
             \/ (\E t \in Token : InsertNext(p, t)) \/ RevokeFind(p) \/ DropTokens(p)
             \/ DropConsents(p) \/ Abort(p)
      PROVE  \A x \in Req \ {p} : req'[x] = req[x]
  BY <1>4, <1>a DEF FindGrant, ClaimGrant, ReReadGrant, RefreshActive, InsertNext,
     RevokeFind, DropTokens, DropConsents, Abort, Goto, Finish
<1>5. ASSUME Environment PROVE req' = req
  BY <1>5 DEF Environment, Login, SessionMoves, SignOut, Tick, Expire, PurgeCode, DropAsk
<1>6. ASSUME NEW p \in Req, Step(p) PROVE \A x \in Req \ {p} : req'[x] = req[x]
  BY <1>2, <1>3, <1>4, <1>6 DEF Step
<1> QED BY <1>1, <1>4, <1>5, <1>6 DEF Next

LEMMA ArriveShape ==
  ASSUME Base, NEW r \in Req, Arrive(r)
  PROVE  Begins(r)
<1>a. req \in [Req -> Request] /\ Data
  BY RequestFacts
<1> USE DEF Begins, Begin, Idle
<1>1. CASE \E c \in Client, scopes \in ScopeSets, prompt \in BOOLEAN :
             Authorize(r, c, scopes, prompt)
  BY <1>1, <1>a DEF Authorize, Reads, data
<1>4. CASE \E c \in Client, tok \in delivered : Refresh(r, c, tok)
  BY <1>4, <1>a DEF Refresh, Reads, data
<1>5. CASE \E c \in Client, tok \in delivered : Revoke(r, c, tok)
  BY <1>5, <1>a DEF Revoke, Reads, data
<1>6. CASE \E c \in Client : DeleteClient(r, c)
  BY <1>6, <1>a DEF DeleteClient, data
<1>2. CASE \E c \in Client, k \in drawn \cap Code, g \in Token : Exchange(r, c, k, g)
  BY <1>2, <1>a DEF Exchange, data
<1>3. CASE \E a \in drawn \cap Ask, s \in Sid, approve \in BOOLEAN : Decide(r, a, s, approve)
  BY <1>3, <1>a DEF Decide, Reads, data
<1> QED BY <1>1, <1>2, <1>3, <1>4, <1>5, <1>6 DEF Arrive

LEMMA StepShape ==
  ASSUME Base, NEW r \in Req, Step(r) \/ Abort(r)
  PROVE  req'[r] = Idle \/ Proceeds(r) \/ TakesUp(r)
<1>a. /\ req \in [Req -> Request] /\ req[r] \in Request
      /\ req[r].pc \in SignedInPCs \cup {"resolve", "consume"} => req[r].doc = NoDoc
  BY RequestType, RequestFacts DEF Base, TypeOK, LocalOK, SignedInPCs, RotationPCs
<1>b. \A n, at : AfterGrantRead(n, at) \in {"claim", "active", "reuse"}
  BY DEF AfterRead, AfterGrantRead
<1>0. CASE Finish(r)
  BY <1>0, <1>a DEF Finish
<1>c. \A pc : Goto(r, pc) => req'[r].pc = pc /\ KeepsGrant(r)
  BY <1>a DEF Goto, KeepsGrant, Request
<1>1. CASE ResolveBrowser(r) /\ ~Finish(r)
  <2>1. PICK s \in Sid : req' = [req EXCEPT ![r].pc = "authTime", ![r].sid = s,
                                           ![r].user = session[s].owner]
    BY <1>1 DEF ResolveBrowser
  <2>2. req[r].pc = "resolve" /\ req[r].doc = NoDoc
    BY <1>1, <1>a DEF ResolveBrowser, Await
  <2>3. req'[r].pc = "authTime" /\ KeepsGrant(r)
    BY <1>a, <2>1, <2>2 DEF KeepsGrant, Request
  <2> QED BY <2>2, <2>3 DEF Proceeds
<1>11. CASE AuthTime(r)
  <2>1. CASE req[r].client \in FirstParty
    BY <1>11, <2>1, <1>0, <1>a DEF AuthTime, Await, Proceeds, KeepsGrant, SignedInPCs, Request
  <2>2. CASE req[r].client \notin FirstParty
    BY <1>11, <2>2, <1>0, <1>a DEF AuthTime, Await, Proceeds, KeepsGrant, SignedInPCs, Request
  <2> QED BY <2>1, <2>2
<1>12. CASE Covered(r)
  BY <1>12, <1>0, <1>c DEF Covered, Await, Proceeds
<1>13. CASE (\E a \in Ask : AskConsent(r, a)) \/ (\E k \in Code : IssueCode(r, k))
  BY <1>13, <1>0 DEF AskConsent, IssueCode
<1>2. CASE Take(r) \/ DecideClient(r) \/ GrantConsent(r) \/ DecideTime(r)
  BY <1>2, <1>0, <1>a DEF Take, DecideClient, GrantConsent, DecideTime, Goto,
     Await, Proceeds, KeepsGrant, SignedInPCs, Request
<1>3. ASSUME NEW proof \in BOOLEAN, Consume(r, proof)
      PROVE  req'[r] = Idle \/ Proceeds(r) \/ TakesUp(r)
  <2>1. Await(r, "consume")
    BY <1>3 DEF Consume
  <2>2. CASE Goto(r, "replay")
    BY <1>3, <1>c, <2>1, <2>2 DEF Await, Proceeds
  <2>3. CASE ~Finish(r) /\ ~Goto(r, "replay")
    <3> DEFINE cd == codes[req[r].code]
    <3>2. req' = [req EXCEPT ![r] =
                   [req[r] EXCEPT !.pc = "check", !.user = cd.user_id, !.sid = cd.sid,
                                  !.scopes = cd.scopes, !.auth = cd.auth_time]]
      BY <1>3, <2>3 DEF Consume
    <3> HIDE DEF cd
    <3>3. req[r].pc = "consume" /\ req[r].doc = NoDoc
      BY <1>a, <2>1 DEF Await
    <3>1. req'[r].pc = "check" /\ KeepsGrant(r)
      BY <3>2, <3>3, <1>a DEF KeepsGrant, Request
    <3> QED BY <1>3, <2>1, <3>1 DEF Await, Proceeds
  <2> QED BY <1>0, <2>2, <2>3
<1>4. CASE CheckSession(r) \/ Recheck(r) \/ MarkReplayed(r) \/ DropTokens(r)
  BY <1>4, <1>0, <1>a DEF CheckSession, Recheck, MarkReplayed, DropTokens, Goto, Await,
     Proceeds, KeepsGrant, Request
<1>5. CASE ClaimGrant(r) \/ ReReadGrant(r) \/ RefreshActive(r)
  BY <1>5, <1>0, <1>a, <1>b DEF ClaimGrant, ReReadGrant, RefreshActive, Goto, Await,
     Proceeds, KeepsGrant, Request
<1>6. CASE FindParent(r)
  <2>1. CASE HasCurrent(req[r].user, req[r].sid)
    BY <1>6, <2>1, <1>a DEF FindParent, TakesUp
  <2>2. CASE ~HasCurrent(req[r].user, req[r].sid)
    BY <1>6, <2>2, <1>a DEF FindParent, Goto, Await, Proceeds, KeepsGrant, Request
  <2> QED BY <2>1, <2>2
<1>7. CASE InsertFirst(r) \/ \E t \in Token : InsertNext(r, t)
  BY <1>7, <1>a DEF InsertFirst, InsertNext, TakesUp
<1>8. CASE FindGrant(r) /\ ~Finish(r)
  <2> DEFINE d == store[req[r].tok]
             pc == IF d.expires_at <= req[r].now THEN "expired"
                   ELSE AfterGrantRead(req[r].now, d.rotated_at)
  <2>1. /\ pc \in {"expired", "claim", "active", "reuse"}
        /\ pc = "active" => AfterGrantRead(req[r].now, d.rotated_at) = "active"
    BY <1>b
  <2>2. /\ IsOf(req[r].tok, req[r].client)
        /\ req' = [req EXCEPT ![r] =
                [req[r] EXCEPT !.doc = d, !.user = d.user_id, !.sid = d.session_id,
                               !.grant = FamilyOf(store, req[r].tok), !.pc = pc]]
    BY <1>8 DEF FindGrant, Await
  <2> HIDE DEF pc
  <2> QED BY <1>8, <1>a, <2>1, <2>2 DEF TakesUp, IsOf, Request
<1>9. CASE (FindReplayed(r) \/ RevokeFind(r)) /\ ~Finish(r)
  BY <1>9, <1>a DEF FindReplayed, RevokeFind, TakesUp, IsOf
<1>10. CASE Answer(r) \/ RevokeGrant(r) \/ DropConsents(r) \/ Abort(r)
  BY <1>10, <1>0 DEF Answer, RevokeGrant, DropConsents, Abort
<1> QED BY <1>0, <1>1, <1>2, <1>3, <1>4, <1>5, <1>6, <1>7, <1>8, <1>9, <1>10,
   <1>11, <1>12, <1>13 DEF Step

\* What a step does to one handler.
LEMMA RequestStep ==
  ASSUME Base, Next, NEW r \in Req
  PROVE  \/ req'[r] = req[r] \/ req'[r] = Idle
         \/ /\ Begins(r) \/ Proceeds(r) \/ TakesUp(r)
            /\ \A p \in Req \ {r} : req'[p] = req[p]
BY OnlyMover, ArriveShape, StepShape

\* An exchange draws the grant it works on when it begins.
LEMMA ExchangingStep ==
  ASSUME Base, Next, NEW r \in Req, Exchanging(r)'
  PROVE  \/ /\ Exchanging(r) /\ req'[r].grant = req[r].grant /\ req'[r].code = req[r].code
            /\ req'[r].pc = "consume" => req'[r] = req[r]
         \/ /\ req[r] = Idle /\ req'[r].pc = "consume"
            /\ req'[r].grant \in Token /\ req'[r].grant \notin drawn
            /\ store' = store /\ codes' = codes /\ delivered' = delivered
            /\ \A p \in Req \ {r} : req'[p] = req[p]
<1>a. req[r] \in Request
  BY RequestType DEF Base
<1> USE DEF Exchanging, ExchangePCs
<1>1. CASE req'[r] = req[r]
  BY <1>1
<1>2. CASE req'[r] = Idle
  BY <1>2 DEF Idle
<1>3. CASE Begins(r) /\ \A p \in Req \ {r} : req'[p] = req[p]
  BY <1>3 DEF Begins
<1>4. CASE Proceeds(r)
  BY <1>4 DEF Proceeds, KeepsGrant
<1>5. CASE TakesUp(r)
  <2>1. CASE FindParent(r) /\ req'[r] = [req[r] EXCEPT !.pc = "store",
                             !.doc = FirstRecord(req[r], session[req[r].sid].deadline)]
    BY <2>1, <1>a DEF FindParent, Await, Request
  <2>2. CASE ~(FindParent(r) /\ req'[r] = [req[r] EXCEPT !.pc = "store",
                             !.doc = FirstRecord(req[r], session[req[r].sid].deadline)])
    BY <2>2, <1>5, <1>a, ZenonT(40) DEF TakesUp, Request
  <2> QED BY <2>1, <2>2
<1> QED BY <1>1, <1>2, <1>3, <1>4, <1>5, RequestStep

\* How a handler comes by its copy of a record.
LEMMA HolderStep ==
  ASSUME Base, Next, NEW r \in Req, HoldsDoc(r)'
  PROVE  \/ /\ HoldsDoc(r) /\ req'[r].doc = req[r].doc /\ req'[r].grant = req[r].grant
            /\ req'[r].sid = req[r].sid
         \/ /\ FindParent(r) /\ HasCurrent(req[r].user, req[r].sid)
            /\ req'[r].doc = FirstRecord(req[r], session[req[r].sid].deadline)
            /\ req'[r].grant = req[r].grant /\ req'[r].sid = req[r].sid
            /\ store' = store /\ session' = session
            /\ \A p \in Req \ {r} : req'[p] = req[p]
         \/ /\ FindGrant(r) /\ req[r].tok \in Records(store)
            /\ req'[r].doc = store[req[r].tok]
            /\ req'[r].grant = FamilyOf(store, req[r].tok)
            /\ req'[r].sid = store[req[r].tok].session_id
            /\ store' = store /\ session' = session
            /\ \A p \in Req \ {r} : req'[p] = req[p]
<1>a. req[r] \in Request
  BY RequestType DEF Base
<1> USE DEF HoldsDoc
<1>1. CASE req'[r] = req[r]
  BY <1>1
<1>2. CASE req'[r] = Idle
  BY <1>2 DEF Idle
<1>3. CASE Begins(r)
  BY <1>3 DEF Begins
<1>4. CASE Proceeds(r)
  BY <1>4 DEF Proceeds, KeepsGrant
<1>5. CASE TakesUp(r) /\ \A p \in Req \ {r} : req'[p] = req[p]
  <2>1. CASE /\ FindParent(r) /\ HasCurrent(req[r].user, req[r].sid)
             /\ req'[r] = [req[r] EXCEPT !.pc = "store",
                             !.doc = FirstRecord(req[r], session[req[r].sid].deadline)]
    BY <2>1, <1>5, <1>a DEF FindParent, Reads, data, Request
  <2>2. CASE \/ InsertFirst(r) /\ req'[r] = [req[r] EXCEPT !.pc = "recheck",
                                                           !.new = req[r].grant]
             \/ \E t \in Token : InsertNext(r, t) /\ req'[r] = [req[r] EXCEPT !.pc = "answer",
                                                                             !.new = t]
    BY <2>2, <1>a DEF Request
  <2>3. CASE \/ /\ FindReplayed(r)
                /\ req'[r] = [req[r] EXCEPT !.pc = "mark",
                                            !.grant = codes[req[r].code].grant_id]
             \/ /\ RevokeFind(r)
                /\ req'[r] = [req[r] EXCEPT !.pc = "revokeGrant",
                                            !.grant = FamilyOf(store, req[r].tok)]
    <3>1. req[r].doc = NoDoc
      BY <2>3, RequestFacts DEF FindReplayed, RevokeFind, Await, LocalOK, RotationPCs
    <3> QED BY <2>3, <3>1, <1>a DEF Request
  <2>4. CASE FindGrant(r) /\ req[r].tok \in Records(store)
             /\ req'[r].doc = store[req[r].tok] /\ req'[r].sid = store[req[r].tok].session_id
             /\ req'[r].grant = FamilyOf(store, req[r].tok)
    BY <2>4, <1>5 DEF FindGrant, Reads, data
  <2> QED BY <2>1, <2>2, <2>3, <2>4, <1>5 DEF TakesUp
<1> QED BY <1>1, <1>2, <1>3, <1>4, <1>5, RequestStep

\* Where the tokens a handler names come from.
LEMMA TokenStep ==
  ASSUME Base, Next, NEW r \in Req
  PROVE  /\ req'[r].tok \in {req[r].tok, Nil} \cup delivered
         /\ \/ req'[r].new \in {req[r].new, Nil}
            \/ InsertFirst(r) /\ Await(r, "store") /\ req'[r].new = req[r].grant
            \/ req'[r].new \notin drawn
<1>a. req[r] \in Request
  BY RequestType DEF Base
<1>1. CASE req'[r] = req[r]
  BY <1>1
<1>2. CASE req'[r] = Idle
  BY <1>2 DEF Idle
<1>3. CASE Begins(r)
  BY <1>3 DEF Begins
<1>4. CASE Proceeds(r)
  BY <1>4 DEF Proceeds, KeepsGrant
<1>5. CASE TakesUp(r)
  BY <1>5, <1>a DEF TakesUp, Request, InsertFirst, InsertNext
<1> QED BY <1>1, <1>2, <1>3, <1>4, <1>5, RequestStep
-----------------------------------------------------------------------------
(* The grants that exchanges draw *)

LEMMA InitFresh == Init => FreshGrants /\ OwnGrants
BY DEF Init, FreshGrants, OwnGrants, Exchanging, ExchangePCs, RotationPCs, Idle

LEMMA FreshStep ==
  ASSUME Base, FreshGrants, Next
  PROVE  FreshGrants'
<1> SUFFICES ASSUME NEW r \in Req, Exchanging(r)'
             PROVE  LET g == req'[r].grant IN
                    /\ g \notin delivered' \cup Records(store')
                    /\ Family(store', g) = {}
                    /\ \A p \in Req \ {r} :
                          /\ g \notin {req'[p].tok, req'[p].new}
                          /\ HoldsDoc(p)' \/ Exchanging(p)' => req'[p].grant # g
                    /\ \A k \in Code : codes'[k] # NoDoc /\ codes'[k].grant_id = g =>
                          req'[r].code = k /\ ~Await(r, "consume")'
  BY DEF FreshGrants
<1> DEFINE g == req'[r].grant
<1>a. store \in GrantStore /\ Data
  BY RequestFacts DEF Data
<1>b. \A p \in Req : Names(req[p]) \subseteq drawn \cup {Nil}
  BY RequestFacts
<1>1. CASE /\ req'[r].grant \in Token /\ req'[r].grant \notin drawn
           /\ store' = store /\ codes' = codes /\ delivered' = delivered
           /\ \A p \in Req \ {r} : req'[p] = req[p]
  <2>1. g \in Token /\ g \notin drawn /\ g # Nil
    BY <1>1, NilAssumption
  <2>2. g \notin delivered' \cup Records(store') /\ Family(store', g) = {}
    BY <1>1, <1>a, <2>1, GrantIsDoc DEF Data, Family
  <2>3. \A k \in Code : codes'[k] # NoDoc => codes'[k].grant_id # g
    BY <1>1, <1>a, <2>1 DEF Data
  <2>4. \A p \in Req \ {r} : g \notin {req'[p].tok, req'[p].new} /\ req'[p].grant # g
    BY <1>1, <1>b, <2>1 DEF Names
  <2> QED BY <2>2, <2>3, <2>4
<1>2. CASE /\ Exchanging(r) /\ req'[r].grant = req[r].grant
           /\ req'[r].code = req[r].code
           /\ req'[r].pc = "consume" => req'[r] = req[r]
  <2>1. /\ g = req[r].grant /\ g \in Token /\ g \in drawn /\ g # Nil
        /\ req[r].tok = Nil /\ req[r].new = Nil
    BY <1>2, WriterFacts, NilAssumption
  <2>2. /\ g \notin delivered \cup Records(store)
        /\ Family(store, g) = {}
        /\ \A p \in Req \ {r} :
              /\ g \notin {req[p].tok, req[p].new}
              /\ HoldsDoc(p) \/ Exchanging(p) => req[p].grant # g
        /\ \A k \in Code : codes[k] # NoDoc /\ codes[k].grant_id = g =>
              req[r].code = k /\ ~Await(r, "consume")
    BY <1>2, <2>1 DEF FreshGrants
  <2> HIDE DEF g
  <2>3. g \notin delivered'
    BY <2>1, <2>2, NameStep
  <2>4. \A p \in Req : Await(p, "store") => p = r \/ req[p].grant # g
    BY <2>2 DEF Await, Exchanging, ExchangePCs
  <2>5. ~InsertFirst(r)
    <3>1. InsertFirst(r) => req'[r].pc = "recheck"
      BY RequestType, RequestFacts DEF InsertFirst, Base, Request
    <3> QED BY <3>1 DEF Exchanging, ExchangePCs
  <2>6. ~\E t \in Token : InsertNext(r, t)
    <3>1. ~Await(r, "insert")
      BY <1>2 DEF Exchanging, ExchangePCs, Await
    <3> QED BY <3>1 DEF InsertNext
  <2>7. ASSUME NEW t \in Records(store')
        PROVE  t # g /\ FamilyOf(store', t) # g
    <3>1. store' \in GrantStore /\ FamilyOf(store', t) = store'[t].family_id
      BY StoreStep, GrantIsDoc
    <3>2. CASE t \in Records(store) /\ store'[t].family_id = store[t].family_id
      BY <1>a, <2>2, <3>1, <3>2, GrantIsDoc DEF Family
    <3>3. ASSUME NEW p \in Req, InsertFirst(p), Await(p, "store"), t = req[p].grant,
                 store'[t] = req[p].doc
          PROVE  t # g /\ FamilyOf(store', t) # g
      <4>1. p # r /\ req[p].grant # g /\ HoldsDoc(p)
        BY <2>4, <2>5, <3>3, WriterFacts DEF Await
      <4> QED BY <3>1, <3>3, <4>1, HolderFacts
    <3>4. ASSUME NEW p \in Req, InsertNext(p, t), Await(p, "insert"), t \notin drawn,
                 store'[t] = NextRecord(req[p])
          PROVE  t # g /\ FamilyOf(store', t) # g
      <4>1. p # r /\ HoldsDoc(p) /\ t # g
        BY <2>1, <3>4, <1>2, WriterFacts DEF Await, RotationPCs, Exchanging, ExchangePCs
      <4> QED BY <2>2, <3>1, <3>4, <4>1, HolderFacts
    <3> QED BY <3>2, <3>3, <3>4, StoreStep
  <2>8. ASSUME NEW p \in Req \ {r}
        PROVE  g \notin {req'[p].tok, req'[p].new}
    BY <2>1, <2>2, <2>4, TokenStep
  <2>9. ASSUME NEW p \in Req \ {r}, HoldsDoc(p)'
        PROVE  req'[p].grant # g
    <3>1. CASE HoldsDoc(p) /\ req'[p].grant = req[p].grant
      BY <2>2, <3>1
    <3>2. CASE FindParent(p) /\ req'[p].grant = req[p].grant
      BY <2>2, <3>2 DEF FindParent, Await, Exchanging, ExchangePCs
    <3>3. CASE req[p].tok \in Records(store) /\ req'[p].grant = FamilyOf(store, req[p].tok)
      BY <2>2, <3>3 DEF Family
    <3> QED BY <2>9, <3>1, <3>2, <3>3, HolderStep
  <2>10. ASSUME NEW p \in Req \ {r}, Exchanging(p)'
         PROVE  req'[p].grant # g
    BY <2>1, <2>2, <2>10, ExchangingStep
  <2>11. ASSUME NEW k \in Code, codes'[k] # NoDoc, codes'[k].grant_id = g
         PROVE  req'[r].code = k /\ ~Await(r, "consume")'
    <3>1. CASE codes'[k] = codes[k] \/ (codes[k] # NoDoc /\ codes[k].grant_id = g)
      BY <1>2, <2>2, <2>11, <3>1 DEF Await
    <3>2. ASSUME NEW p \in Req, Await(p, "consume"), WorksOn(p, k),
                 codes'[k].grant_id = req[p].grant, NEW proof \in BOOLEAN, Consume(p, proof)
          PROVE  req'[r].code = k /\ ~Await(r, "consume")'
      <4>1. p = r
        BY <2>2, <2>11, <3>2 DEF Exchanging, ExchangePCs, Await
      <4>2. req'[r].pc # "consume"
        <5>1. req[r] \in Request /\ req \in [Req -> Request]
          BY RequestType DEF Base, TypeOK
        <5>2. CASE Finish(r) \/ Goto(r, "replay")
          BY <5>1, <5>2 DEF Goto, Finish, Idle, Request
        <5>3. CASE ~Finish(r) /\ ~Goto(r, "replay")
          <6> DEFINE cd == codes[req[r].code]
          <6>1. req' = [req EXCEPT ![r] =
                   [req[r] EXCEPT !.pc = "check", !.user = cd.user_id, !.sid = cd.sid,
                                  !.scopes = cd.scopes, !.auth = cd.auth_time]]
            BY <3>2, <4>1, <5>3 DEF Consume
          <6> HIDE DEF cd
          <6> QED BY <5>1, <6>1 DEF Request
        <5> QED BY <5>2, <5>3
      <4> QED BY <1>2, <3>2, <4>1, <4>2 DEF WorksOn, Await
    <3> QED BY <2>1, <2>11, <3>1, <3>2, CodeStep
  <2> QED BY <2>3, <2>7, <2>8, <2>9, <2>10, <2>11 DEF Family, g
<1> QED BY <1>1, <1>2, ExchangingStep
-----------------------------------------------------------------------------
(* Rotations *)

\* A rotation works on one token throughout.
LEMMA RotationStep ==
  ASSUME Base, Next, NEW r \in Req, req'[r].pc \in RotationPCs
  PROVE  \/ /\ req[r].pc \in RotationPCs
            /\ req'[r].tok = req[r].tok /\ req'[r].grant = req[r].grant
            /\ req'[r].now = req[r].now /\ req'[r].sid = req[r].sid
            /\ \/ req'[r].pc = req[r].pc
               \/ ClaimGrant(r) \/ ReReadGrant(r) \/ req[r].pc = "active"
         \/ /\ FindGrant(r) /\ store' = store /\ req[r].tok \in Records(store)
            /\ req'[r].tok = req[r].tok /\ req'[r].now = req[r].now
            /\ req'[r].grant = FamilyOf(store, req[r].tok)
            /\ req'[r].pc \in {"expired", "claim", "active", "reuse"}
            /\ req'[r].pc = "active" =>
                 AfterGrantRead(req[r].now, store[req[r].tok].rotated_at) = "active"
<1>a. req[r] \in Request /\ (req[r].pc \in RotationPCs => req[r].doc # NoDoc)
  BY RequestType, RequestFacts DEF Base, LocalOK
<1>1. CASE req'[r] = req[r]
  BY <1>1
<1>2. CASE req'[r] = Idle
  BY <1>2 DEF Idle, RotationPCs
<1>3. CASE Begins(r)
  BY <1>3 DEF Begins, RotationPCs
<1>4. CASE Proceeds(r)
  BY <1>4, <1>a DEF Proceeds, KeepsGrant, RotationPCs
<1>5. CASE TakesUp(r)
  <2>1. CASE FindGrant(r)
    <3>1. req[r].pc = "find"
      BY <2>1 DEF FindGrant, Await
    <3>2. store' = store
      BY <2>1 DEF FindGrant, Reads, data
    <3>3. /\ ~FindParent(r) /\ ~InsertFirst(r) /\ ~FindReplayed(r) /\ ~RevokeFind(r)
          /\ \A t \in Token : ~InsertNext(r, t)
      BY <3>1 DEF FindParent, InsertFirst, InsertNext, FindReplayed, RevokeFind, Await
    <3> QED BY <1>5, <2>1, <3>2, <3>3 DEF TakesUp
  <2>2. CASE ~FindGrant(r)
    BY <1>5, <2>2, <1>a, ZenonT(40) DEF TakesUp, RotationPCs, Request
  <2> QED BY <2>1, <2>2
<1> QED BY <1>1, <1>2, <1>3, <1>4, <1>5, RequestStep

\* Nobody stores a record under a token that was handed out, so the record a
\* rotation looks at is the one it read, or gone.
LEMMA RotatedStays ==
  ASSUME Base, FreshGrants, Next, NEW r \in Req,
         req[r].pc \in RotationPCs \cup {"find"}, req[r].tok \in Records(store')
  PROVE  /\ req[r].tok \in Records(store)
         /\ FamilyOf(store', req[r].tok) = FamilyOf(store, req[r].tok)
         /\ store[req[r].tok].rotated_at # Nil => store'[req[r].tok] = store[req[r].tok]
<1> DEFINE t == req[r].tok
<1>a. store \in GrantStore /\ store' \in GrantStore
  BY RequestFacts, StoreStep DEF Data
<1>b. t \in drawn
  BY RequestFacts, NilAssumption DEF Names, Records
<1>1. ASSUME NEW p \in Req, InsertFirst(p), Await(p, "store"), t = req[p].grant
      PROVE  FALSE
  <2>1. p # r /\ Exchanging(p)
    BY <1>1 DEF Await, Exchanging, ExchangePCs, RotationPCs
  <2> QED BY <1>1, <2>1 DEF FreshGrants
<1>2. /\ t \in Records(store) /\ store'[t].family_id = store[t].family_id
      /\ store[t].rotated_at # Nil => store'[t] = store[t]
  BY <1>b, <1>1, StoreStep
<1> QED BY <1>a, <1>2, GrantIsDoc

LEMMA OwnStep ==
  ASSUME Base, FreshGrants, OwnGrants, Next
  PROVE  OwnGrants'
<1> SUFFICES ASSUME NEW r \in Req, req'[r].pc \in RotationPCs, req'[r].tok \in Records(store')
             PROVE  FamilyOf(store', req'[r].tok) = req'[r].grant
  BY DEF OwnGrants
<1>1. CASE /\ req[r].pc \in RotationPCs
           /\ req'[r].tok = req[r].tok /\ req'[r].grant = req[r].grant
  BY <1>1, RotatedStays DEF OwnGrants
<1>2. CASE /\ store' = store /\ req'[r].tok = req[r].tok
           /\ req'[r].grant = FamilyOf(store, req[r].tok)
  BY <1>2
<1> QED BY <1>1, <1>2, RotationStep

LEMMA GraceStep ==
  ASSUME Base, FreshGrants, GrantInGrace, Next
  PROVE  GrantInGrace'
<1> SUFFICES ASSUME NEW r \in Req, req'[r].pc \in {"active", "insert"},
                    req'[r].tok \in Records(store')
             PROVE  /\ store'[req'[r].tok].rotated_at # Nil
                    /\ InGrace(req'[r].now, store'[req'[r].tok].rotated_at)
  BY DEF GrantInGrace
<1> DEFINE t == req[r].tok
<1>a. req[r] \in Request /\ req \in [Req -> Request] /\ req[r].now \in Nat
      /\ store \in GrantStore
  BY RequestType, RequestFacts DEF Base, Data
<1>b. \A n, at : AfterGrantRead(n, at) = "active" => at # Nil /\ InGrace(n, at)
  BY DEF AfterGrantRead, AfterRead
<1>c. req'[r].pc \in RotationPCs
  BY DEF RotationPCs
<1>1. CASE /\ req[r].pc \in {"active", "insert"}
           /\ req'[r].tok = t /\ req'[r].now = req[r].now
  <2>1. t \in Records(store) /\ (store[t].rotated_at # Nil => store'[t] = store[t])
    BY <1>1, RotatedStays DEF RotationPCs
  <2> QED BY <1>1, <2>1 DEF GrantInGrace
<1>2. CASE ClaimGrant(r) /\ req'[r].tok = t /\ req'[r].now = req[r].now
  <2>1. CanClaim(store, t)
    BY <1>2, <1>a DEF ClaimGrant, Goto, Request
  <2>2. store'[t].rotated_at = req[r].now
    BY <1>2, <1>a, <2>1, GrantClaim DEF ClaimGrant
  <2> QED BY <1>2, <1>a, <2>2, NilAssumption, GraceAssumption DEF InGrace
<1>3. CASE ReReadGrant(r) /\ req'[r].tok = t /\ req'[r].now = req[r].now
  <2>1. /\ store' = store /\ AfterGrantRead(req[r].now, store[t].rotated_at) = "active"
    <3>1. AfterGrantRead(req[r].now, store[t].rotated_at) \in {"claim", "active", "reuse"}
      BY DEF AfterGrantRead, AfterRead
    <3> QED BY <1>3, <1>a, <3>1 DEF ReReadGrant, Goto, Finish, Idle, Request, Reads, data
  <2> QED BY <1>3, <1>b, <2>1
<1>4. CASE /\ store' = store /\ req'[r].tok = t /\ req'[r].now = req[r].now
           /\ req'[r].pc \in {"expired", "claim", "active", "reuse"}
           /\ req'[r].pc = "active" =>
                AfterGrantRead(req[r].now, store[req[r].tok].rotated_at) = "active"
  BY <1>4, <1>b
<1> QED BY <1>c, <1>1, <1>2, <1>3, <1>4, RotationStep
-----------------------------------------------------------------------------
(* One grant per code, bound to its session *)

LEMMA OneStep ==
  ASSUME Base, FreshGrants, OneGrant, CopiesAgree, Next
  PROVE  OneGrant' /\ CopiesAgree'
<1> USE DEF HoldsDoc
<1>a. store \in GrantStore /\ store' \in GrantStore
  BY BaseParts, StoreStep DEF Data
<1>b. \A t, x \in Records(store) :
         store[t].family_id = store[x].family_id => SameGrant(store[t], store[x])
  BY <1>a, GrantIsDoc DEF OneGrant
<1>c. \A r \in Req : HoldsDoc(r) =>
        \A t \in Records(store) : store[t].family_id = req[r].grant =>
           SameGrant(req[r].doc, store[t])
  BY <1>a, GrantIsDoc DEF OneGrant, Family
<1>d. \A t \in Records(store) : FamilyOf(store, t) = store[t].family_id
  BY <1>a, GrantIsDoc
  \* A record after the step is one from before, or a handler's copy.
<1>1. ASSUME NEW t \in Records(store')
      PROVE  \/ /\ t \in Records(store) /\ SameGrant(store[t], store'[t])
                /\ store'[t].family_id = store[t].family_id
             \/ \E p \in Req : /\ HoldsDoc(p) /\ SameGrant(req[p].doc, store'[t])
                               /\ store'[t].family_id = req[p].grant
  BY StoreStep, WriterFacts, HolderFacts, SameGrantFacts DEF Await, RotationPCs
<1>2. ASSUME NEW t \in Records(store'), NEW x \in Records(store'),
             store'[t].family_id = store'[x].family_id
      PROVE  SameGrant(store'[t], store'[x])
  BY <1>b, <1>c, <1>1, <1>2, SameGrantFacts DEF CopiesAgree
  \* A copy after the step is one from before, that of a new grant, or a record.
<1>3. ASSUME NEW r \in Req, HoldsDoc(r)'
      PROVE  \/ /\ HoldsDoc(r) /\ req'[r].doc = req[r].doc /\ req'[r].grant = req[r].grant
             \/ /\ Exchanging(r) /\ req'[r].grant = req[r].grant /\ store' = store
                /\ \A p \in Req \ {r} : req'[p] = req[p]
             \/ /\ store' = store /\ \A p \in Req \ {r} : req'[p] = req[p]
                /\ \E t \in Records(store) : /\ req'[r].doc = store[t]
                                             /\ req'[r].grant = store[t].family_id
  <2>1. FindParent(r) => Exchanging(r)
    BY DEF FindParent, Await, Exchanging, ExchangePCs
  <2> QED BY <1>3, <1>d, <2>1, HolderStep
<1>4. ASSUME NEW r \in Req, HoldsDoc(r)', NEW t \in Records(store'),
             store'[t].family_id = req'[r].grant
      PROVE  SameGrant(req'[r].doc, store'[t])
  <2>1. CASE HoldsDoc(r) /\ req'[r].doc = req[r].doc /\ req'[r].grant = req[r].grant
    BY <1>c, <1>1, <1>4, <2>1, SameGrantFacts DEF CopiesAgree
  <2>2. CASE Exchanging(r) /\ req'[r].grant = req[r].grant /\ store' = store
    BY <1>d, <1>4, <2>2 DEF FreshGrants, Family
  <2>3. CASE store' = store /\ \E x \in Records(store) : /\ req'[r].doc = store[x]
                                                         /\ req'[r].grant = store[x].family_id
    BY <1>b, <1>4, <2>3
  <2> QED BY <1>3, <1>4, <2>1, <2>2, <2>3
<1>5. ASSUME NEW r \in Req, NEW p \in Req, HoldsDoc(r)', HoldsDoc(p)',
             req'[r].grant = req'[p].grant
      PROVE  SameGrant(req'[r].doc, req'[p].doc)
  <2>1. CASE r = p
    BY <2>1, SameGrantFacts
  <2>2. CASE r # p /\ HoldsDoc(r) /\ req'[r].doc = req[r].doc /\ req'[r].grant = req[r].grant
             /\ HoldsDoc(p) /\ req'[p].doc = req[p].doc /\ req'[p].grant = req[p].grant
    BY <1>5, <2>2 DEF CopiesAgree
  <2>3. ASSUME NEW v \in Req, NEW w \in Req, v # w, HoldsDoc(v)', HoldsDoc(w)',
               req'[v].grant = req'[w].grant,
               ~(HoldsDoc(v) /\ req'[v].doc = req[v].doc /\ req'[v].grant = req[v].grant)
        PROVE  SameGrant(req'[v].doc, req'[w].doc)
    <3>1. req'[w] = req[w] /\ HoldsDoc(w)
      BY <1>3, <2>3
    <3>2. CASE Exchanging(v) /\ req'[v].grant = req[v].grant
      BY <2>3, <3>1, <3>2 DEF FreshGrants
    <3>3. CASE \E x \in Records(store) : /\ req'[v].doc = store[x]
                                         /\ req'[v].grant = store[x].family_id
      BY <1>c, <2>3, <3>1, <3>3, SameGrantFacts
    <3> QED BY <1>3, <2>3, <3>2, <3>3
  <2> QED BY <1>3, <1>5, <2>1, <2>2, <2>3, SameGrantFacts
<1>6. \A t \in Records(store') : FamilyOf(store', t) = store'[t].family_id
  BY <1>a, GrantIsDoc
<1>7. OneGrant'
  BY <1>2, <1>4, <1>6 DEF OneGrant, Family
<1> QED BY <1>5, <1>7 DEF CopiesAgree

LEMMA BoundStep ==
  ASSUME Base, AllBound, Next
  PROVE  AllBound'
<1>a. store \in GrantStore /\ store' \in GrantStore /\ Data
  BY BaseParts, StoreStep DEF Data
<1> DEFINE BoundAfter(e) ==
             LET s == session'[e.session_id] IN
             /\ s.phase # "unborn"
             /\ Contract!Open(s) => e.user_id = s.owner /\ e.expires_at = s.deadline
  \* A session only keeps or ends what its records are bound to.
<1>1. ASSUME NEW d \in GrantDoc, NEW e \in GrantDoc, Bound(d), e.session_id = d.session_id,
             e.user_id = d.user_id, e.expires_at = d.expires_at
      PROVE  BoundAfter(e)
  <2>1. d.session_id \in Sid
    BY DEF GrantDoc
  <2>2. Over.phase # "unborn" /\ ~Contract!Open(Over)
    BY DEF Over, Unborn, Contract!Open, Contract!OpenPhases
  <2>3. \A a : Contract!Open(a) => a.phase # "unborn"
    BY DEF Contract!Open, Contract!OpenPhases
  <2> QED BY <1>a, <1>1, <2>1, <2>2, <2>3, SessionStep DEF Bound
<1>2. ASSUME NEW t \in Records(store') PROVE BoundAfter(store'[t])
  <2>1. store'[t] \in GrantDoc
    BY <1>a, GrantIsDoc
  <2>2. CASE /\ t \in Records(store)
             /\ store'[t].session_id = store[t].session_id
             /\ store'[t].user_id = store[t].user_id
             /\ store'[t].expires_at = store[t].expires_at
    BY <1>a, <1>1, <2>1, <2>2, GrantIsDoc DEF AllBound
  <2>3. ASSUME NEW p \in Req, HoldsDoc(p), store'[t] \in {req[p].doc, NextRecord(req[p])}
        PROVE  BoundAfter(store'[t])
    <3>1. /\ req[p].doc \in GrantDoc /\ Bound(req[p].doc)
          /\ store'[t].session_id = req[p].doc.session_id
          /\ store'[t].user_id = req[p].doc.user_id
          /\ store'[t].expires_at = req[p].doc.expires_at
      BY <2>3, HolderFacts DEF AllBound
    <3> HIDE DEF BoundAfter
    <3> QED BY <1>1, <2>1, <3>1
  <2> QED BY <2>2, <2>3, StoreStep, WriterFacts DEF Await, RotationPCs
<1>3. ASSUME NEW r \in Req, HoldsDoc(r)' PROVE BoundAfter(req'[r].doc)
  <2>1. CASE HoldsDoc(r) /\ req'[r].doc = req[r].doc
    BY <1>1, <2>1, HolderFacts DEF AllBound
  <2>2. CASE /\ req[r].tok \in Records(store)
             /\ req'[r].doc = store[req[r].tok]
    BY <1>a, <1>1, <2>2, GrantIsDoc DEF AllBound
  <2>3. CASE /\ FindParent(r) /\ HasCurrent(req[r].user, req[r].sid)
             /\ req'[r].doc = FirstRecord(req[r], session[req[r].sid].deadline)
             /\ session' = session
    <3>1. /\ req'[r].doc.session_id = req[r].sid /\ req'[r].doc.user_id = req[r].user
          /\ req'[r].doc.expires_at = session[req[r].sid].deadline
      BY <2>3 DEF FirstRecord
    <3>2. session[req[r].sid].phase = "live" /\ session[req[r].sid].owner = req[r].user
      BY <2>3 DEF HasCurrent
    <3> QED BY <2>3, <3>1, <3>2 DEF Bound
  <2> QED BY <1>3, <2>1, <2>2, <2>3, HolderStep
<1> QED BY <1>2, <1>3 DEF AllBound, Bound, HoldsDoc

LEMMA InitGrants == Init => OneGrant /\ CopiesAgree /\ AllBound /\ GrantInGrace
<1> SUFFICES ASSUME Init PROVE OneGrant /\ CopiesAgree /\ AllBound /\ GrantInGrace
  OBVIOUS
<1>1. PICK b \in Boot : session = b.session /\ store = b.store
  BY DEF Init
<1>2. Sound(b)
  BY BootAssumption
<1>3. \A r \in Req : ~HoldsDoc(r) /\ req[r].pc = "idle"
  BY DEF Init, Idle, HoldsDoc
<1>4. OneGrant
  BY <1>1, <1>2, <1>3 DEF OneGrant, Sound
<1>5. \A t \in Records(store) : Bound(store[t])
  BY <1>1, <1>2 DEF Bound, Sound, Contract!Open, Contract!OpenPhases
<1> QED BY <1>3, <1>4, <1>5 DEF CopiesAgree, AllBound, GrantInGrace

\* What the theorems below rest on.
GrantInv == /\ Base /\ FreshGrants /\ OwnGrants
            /\ OneGrant /\ CopiesAgree /\ AllBound /\ GrantInGrace

LEMMA NextGrants == GrantInv /\ [Next]_vars => GrantInv'
<1>1. ASSUME GrantInv, UNCHANGED vars PROVE GrantInv'
  <2> USE <1>1 DEF vars, data
  <2>1. Base'
    BY NextBase DEF GrantInv
  <2>2. FreshGrants' /\ OwnGrants'
    BY DEF GrantInv, FreshGrants, OwnGrants, Exchanging, HoldsDoc, Await
  <2>3. OneGrant' /\ CopiesAgree' /\ AllBound' /\ GrantInGrace'
    BY DEF GrantInv, OneGrant, CopiesAgree, AllBound, Bound, GrantInGrace, HoldsDoc
  <2> QED BY <2>1, <2>2, <2>3 DEF GrantInv
<1>2. ASSUME GrantInv, Next PROVE GrantInv'
  BY <1>2, NextBase, FreshStep, OwnStep, GraceStep, OneStep, BoundStep DEF GrantInv
<1> QED BY <1>1, <1>2

LEMMA GrantInvariant == Spec => []GrantInv
<1>1. Init => GrantInv
  BY InitBase, InitFresh, InitGrants DEF GrantInv
<1> QED BY <1>1, NextGrants, PTL DEF Spec

\* All refresh tokens of a grant, and the copies the token endpoint is working
\* with, carry the user, client, session, scopes, auth_time and deadline the
\* code was exchanged for, however refreshes, replays and revocations interleave.
THEOREM OneCodeOneGrant == Spec => []OneGrant
<1>1. GrantInv => OneGrant
  BY DEF GrantInv
<1> QED BY <1>1, GrantInvariant, PTL

\* Every stored OAuth refresh token belongs to the user of the SSO session that
\* authorized it and expires with that session (token, authorization_code and
\* refresh_token).
THEOREM GrantsBound == Spec => []BoundToSession
<1>1. GrantInv => BoundToSession
  BY DEF GrantInv, AllBound, Bound, BoundToSession
<1> QED BY <1>1, GrantInvariant, PTL

\* A refresh past its claim holds a token rotated within the grace window; one
\* that lost the claim does not slip through with an older token.
THEOREM RefreshInGrace == Spec => []GrantInGrace
<1>1. GrantInv => GrantInGrace
  BY DEF GrantInv
<1> QED BY <1>1, GrantInvariant, PTL
-----------------------------------------------------------------------------
(* What no step does *)

LEMMA DeadStep ==
  ASSUME GrantInv, Next, NEW g \in Token, DeadGrant(g)
  PROVE  DeadGrant(g)'
<1>a. Base /\ FreshGrants /\ OwnGrants
  BY DEF GrantInv
<1>b. store \in GrantStore /\ store' \in GrantStore
  BY <1>a, BaseParts, StoreStep DEF Data
<1>c. /\ g \in drawn /\ g # Nil /\ \A t \in Records(store) : FamilyOf(store, t) # g
      /\ \A r \in Req : ~MayAdd(r, g)
  BY NilAssumption DEF DeadGrant, Family
<1>1. ASSUME NEW t \in Records(store') PROVE FamilyOf(store', t) # g
  <2>1. FamilyOf(store', t) = store'[t].family_id
    BY <1>b, GrantIsDoc
  <2>2. CASE t \in Records(store) /\ store'[t].family_id = store[t].family_id
    BY <1>b, <1>c, <2>1, <2>2, GrantIsDoc
  <2>3. ASSUME NEW p \in Req, Await(p, "store") \/ Await(p, "insert"),
               store'[t] \in {req[p].doc, NextRecord(req[p])}
        PROVE  FamilyOf(store', t) # g
    <3>1. store'[t].family_id = req[p].grant
      BY <1>a, <2>3, WriterFacts, HolderFacts DEF Await, RotationPCs
    <3>2. req[p].grant # g
      BY <1>c, <2>3 DEF MayAdd, Await
    <3> QED BY <2>1, <3>1, <3>2
  <2> QED BY <1>a, <2>2, <2>3, StoreStep
<1>2. ASSUME NEW r \in Req, MayAdd(r, g)' PROVE FALSE
  <2>1. req'[r].grant = g
    BY <1>2 DEF MayAdd
  <2>2. CASE Exchanging(r)'
    BY <1>a, <1>c, <2>1, <2>2, ExchangingStep DEF MayAdd, Exchanging, ExchangePCs
  <2>3. CASE req'[r].pc \in {"active", "insert"}
    <3>1. req'[r].pc \in RotationPCs
      BY <2>3 DEF RotationPCs
    <3>2. CASE /\ req[r].pc \in RotationPCs /\ req'[r].grant = req[r].grant
               /\ \/ req'[r].pc = req[r].pc
                  \/ ClaimGrant(r) \/ ReReadGrant(r) \/ req[r].pc = "active"
      <4>1. CASE req[r].pc \in {"active", "insert"}
        BY <1>c, <2>1, <3>2, <4>1 DEF MayAdd
      <4>2. CASE ClaimGrant(r) \/ ReReadGrant(r)
        <5>1. req \in [Req -> Request] /\ req[r] \in Request
          BY <1>a, RequestType DEF Base, TypeOK
        <5>2. req[r].tok \in Records(store)
          BY <2>3, <4>2, <5>1 DEF ClaimGrant, ReReadGrant, CanClaim, Goto, Finish, Idle, Request
        <5> QED BY <1>a, <1>c, <2>1, <3>2, <5>2 DEF OwnGrants
      <4> QED BY <2>3, <3>2, <4>1, <4>2
    <3>3. CASE req[r].tok \in Records(store) /\ req'[r].grant = FamilyOf(store, req[r].tok)
      BY <1>c, <2>1, <3>3
    <3> QED BY <1>a, <3>1, <3>2, <3>3, RotationStep
  <2> QED BY <1>2, <2>2, <2>3 DEF MayAdd, Exchanging, ExchangePCs
<1>3. g \in drawn'
  BY <1>c, StepKeepsNames
<1> QED BY <1>1, <1>2, <1>3 DEF DeadGrant, Family

\* A grant that was revoked, replayed, expired or lost its client stays without
\* refresh tokens, unless an exchange or refresh was already past its checks.
THEOREM DeadGrantsStayDead == Spec => GrantStaysDead
<1>1. ASSUME GrantInv, UNCHANGED vars, NEW g \in Token, DeadGrant(g)
      PROVE  DeadGrant(g)'
  BY <1>1 DEF vars, data, DeadGrant, MayAdd
<1>2. GrantInv /\ [Next]_vars => [\A g \in Token : DeadGrant(g) => DeadGrant(g)']_vars
  BY <1>1, DeadStep
<1> QED BY <1>2, GrantInvariant, PTL DEF Spec, GrantStaysDead

LEMMA QuietStep ==
  ASSUME Base, Next, NEW s \in Sid, Quiet(s)
  PROVE  /\ Quiet(s)'
         /\ \A t \in Records(store') \ Records(store) : store'[t].session_id # s
<1>a. Data /\ session[s].phase = "over"
      /\ \A r \in Req : ~(req[r].sid = s /\ req[r].pc \in {"store", "insert"})
  BY BaseParts DEF Quiet
<1>1. session'[s].phase = "over"
  BY <1>a, SessionStep DEF Contract!Open, Contract!OpenPhases
<1>2. ASSUME NEW r \in Req, req'[r].sid = s, req'[r].pc \in {"store", "insert"}
      PROVE  FALSE
  <2>1. HoldsDoc(r)' /\ req[r] \in Request /\ req \in [Req -> Request]
    <3>1. LocalOK(req[r])'
      BY NextBase DEF Base, Locals
    <3> QED BY <1>2, <3>1, RequestType DEF LocalOK, HoldsDoc, RotationPCs, Base, TypeOK
  <2>2. CASE req'[r].pc = "store"
    <3>1. ~HoldsDoc(r) \/ req[r].pc = "store" \/ req'[r].pc # "store"
      <4>1. CASE Proceeds(r)
        BY <4>1 DEF Proceeds
      <4>2. CASE TakesUp(r)
        BY <2>1, <4>2, RequestFacts DEF TakesUp, FindParent, Await, LocalOK, RotationPCs,
           HoldsDoc, Request
      <4>3. CASE Begins(r) \/ req'[r] = Idle
        BY <4>3 DEF Begins, Idle, HoldsDoc
      <4> QED BY <4>1, <4>2, <4>3, RequestStep
    <3>2. CASE HoldsDoc(r) /\ req'[r].sid = req[r].sid
      BY <1>2, <1>a, <2>2, <3>1, <3>2
    <3>3. CASE HasCurrent(req[r].user, req[r].sid) /\ req'[r].sid = req[r].sid
      BY <1>2, <1>a, <3>3 DEF HasCurrent
    <3>4. CASE FindGrant(r)
      <4>1. req[r].pc = "find"
        BY <3>4 DEF FindGrant, Await
      <4>2. req[r].doc = NoDoc
        BY <4>1, RequestFacts DEF LocalOK, RotationPCs
      <4>3. ~Proceeds(r) /\ ~Begins(r) /\ req'[r] # Idle /\ req'[r] # req[r]
        BY <2>2, <4>1 DEF Proceeds, Begins, Idle
      <4> QED BY <2>2, <4>1, <4>3, <2>1, RequestStep DEF TakesUp, FindParent, InsertFirst,
              InsertNext, FindReplayed, RevokeFind, Await, Request
    <3> QED BY <2>1, <3>2, <3>3, <3>4, HolderStep
  <2>3. CASE req'[r].pc = "insert"
    <3>1. CASE /\ req[r].pc \in RotationPCs /\ req'[r].sid = req[r].sid
               /\ \/ req'[r].pc = req[r].pc
                  \/ ClaimGrant(r) \/ ReReadGrant(r) \/ req[r].pc = "active"
      <4>1. CASE req[r].pc = "insert"
        BY <1>2, <1>a, <3>1, <4>1
      <4>2. CASE ClaimGrant(r) \/ ReReadGrant(r)
        <5>1. \A n, at : AfterGrantRead(n, at) # "insert"
          BY DEF AfterGrantRead
        <5> QED BY <2>1, <2>3, <4>2, <5>1 DEF ClaimGrant, ReReadGrant, Goto, Finish, Idle, Request
      <4>3. CASE req[r].pc = "active"
        <5>1. RefreshActive(r)
          <6>1. ~TakesUp(r)
            BY <2>1, <2>3 DEF TakesUp, Request
          <6>2. ~Begins(r) /\ req'[r] # Idle /\ req'[r] # req[r]
            BY <2>3, <4>3 DEF Begins, Idle
          <6> QED BY <2>3, <4>3, <6>1, <6>2, RequestStep DEF Proceeds
        <5>2. Active(s, req[r].now)
          BY <1>2, <2>1, <2>3, <3>1, <5>1 DEF RefreshActive, Goto, Finish, Idle, Request
        <5> QED BY <1>a, <5>2 DEF Active
      <4> QED BY <2>3, <3>1, <4>1, <4>2, <4>3
    <3>2. CASE req'[r].pc \in {"expired", "claim", "active", "reuse"}
      BY <2>3, <3>2
    <3>3. req'[r].pc \in RotationPCs
      BY <2>3 DEF RotationPCs
    <3> QED BY <3>1, <3>2, <3>3, RotationStep
  <2> QED BY <1>2, <2>2, <2>3
<1>3. ASSUME NEW t \in Records(store') \ Records(store), store'[t].session_id = s
      PROVE  FALSE
  <2>1. PICK p \in Req : /\ Await(p, "store") \/ Await(p, "insert")
                         /\ store'[t] \in {req[p].doc, NextRecord(req[p])}
    BY <1>3, StoreStep
  <2>2. store'[t].session_id = req[p].sid
    BY <2>1, WriterFacts, HolderFacts DEF Await, RotationPCs
  <2> QED BY <1>a, <1>3, <2>1, <2>2 DEF Await
<1> QED BY <1>1, <1>2, <1>3 DEF Quiet

\* "Ending that session invalidates the grant": once an SSO session is over and
\* no exchange or refresh had found it active, no refresh token is stored for it.
THEOREM EndedSessionsIssueNothing == Spec => OverIssuesNothing
<1> DEFINE A == \A s \in Sid : Quiet(s) =>
                  /\ Quiet(s)'
                  /\ \A t \in Records(store') \ Records(store) : store'[t].session_id # s
<1>1. Base /\ Next => A
  BY QuietStep
<1>2. UNCHANGED vars => A
  BY DEF vars, data, Quiet
<1>3. Base /\ [Next]_vars => [A]_vars
  BY <1>1, <1>2
<1> QED BY <1>3, BaseInvariant, PTL DEF Spec, OverIssuesNothing
-----------------------------------------------------------------------------
(* Consent *)

\* The call behind each step of a consent decision or of a code's issue.
LEMMA AwaitedConsent ==
  ASSUME NEW r \in Req, Step(r)
  PROVE  /\ Await(r, "authTime") => AuthTime(r)
         /\ Await(r, "covered") => Covered(r)
         /\ Await(r, "take") => Take(r)
         /\ Await(r, "decide") => DecideClient(r)
         /\ Await(r, "grant") => GrantConsent(r)
         /\ Await(r, "decideTime") => DecideTime(r)
         /\ Await(r, "issue") => \E k \in Code : IssueCode(r, k)
BY DEF Step, ResolveBrowser, AuthTime, Covered, AskConsent, IssueCode, Take, DecideClient,
   GrantConsent, DecideTime, Consume, CheckSession, FindParent, InsertFirst, Recheck, Answer,
   FindReplayed, MarkReplayed, RevokeGrant, FindGrant, ClaimGrant, ReReadGrant,
   RefreshActive, InsertNext, RevokeFind, DropTokens, DropConsents, Await

DecidingPCs == {"decide", "grant", "decideTime", "issue"}

\* A handler on its way to a code: where it comes from, and what it keeps.
LEMMA DecidingStep ==
  ASSUME Base, Next, NEW r \in Req, req'[r].pc \in DecidingPCs
  PROVE  \/ req'[r] = req[r]
         \/ /\ req'[r].ask = req[r].ask /\ req'[r].user = req[r].user
            /\ \A p \in Req \ {r} : req'[p] = req[p]
            /\ \/ Take(r) /\ Pending(req[r].ask, req[r].user, req[r].now)
                  /\ req'[r].pc = "decide" /\ asks' = [asks EXCEPT ![req[r].ask] = NoDoc]
               \/ /\ req'[r].client = req[r].client /\ req'[r].scopes = req[r].scopes
                  /\ \/ DecideClient(r) /\ req'[r].pc = "grant"
                     \/ GrantConsent(r) /\ req'[r].pc = "decideTime"
                     \/ DecideTime(r) /\ req'[r].pc = "issue"
                     \/ AuthTime(r) /\ req[r].ask = Nil /\ req[r].client \in FirstParty
                     \/ /\ Covered(r) /\ req[r].ask = Nil
                        /\ req[r].scopes \subseteq consents[<<req[r].user, req[r].client>>]
<1>a. req \in [Req -> Request] /\ req[r] \in Request
  BY RequestType DEF Base, TypeOK
<1>b. req[r].pc \in {"authTime", "covered"} => req[r].ask = Nil
  BY RequestFacts DEF LocalOK
<1>1. CASE req'[r] = req[r]
  BY <1>1
<1>2. CASE /\ req'[r] # req[r] /\ (Arrive(r) \/ Step(r) \/ Abort(r))
           /\ \A p \in Req \ {r} : req'[p] = req[p]
  <2>1. req'[r].pc # "idle" /\ req'[r] # Idle
    BY DEF DecidingPCs, Idle
  <2>2. ~Arrive(r)
    BY ArriveShape DEF Begins, DecidingPCs
  <2>3. ~Abort(r)
    BY <1>a, <2>1 DEF Abort, Finish
  <2>4. ~TakesUp(r)
    BY <1>a DEF TakesUp, DecidingPCs, Request
  <2>5. Step(r) /\ Proceeds(r)
    BY <1>2, <2>1, <2>2, <2>3, <2>4, StepShape
  <2>6. req[r].pc \in {"take", "decide", "grant", "decideTime", "authTime", "covered"}
    BY <2>5 DEF Proceeds, DecidingPCs
  <2>7. CASE Await(r, "take")
    <3>1. Take(r)
      BY <2>5, <2>7, AwaitedConsent
    <3>2. ~Finish(r)
      BY <1>a, <2>1 DEF Finish
    <3> QED BY <1>2, <1>a, <3>1, <3>2 DEF Take, Request
  <2>8. CASE Await(r, "decide") \/ Await(r, "grant")
    <3>1. DecideClient(r) \/ GrantConsent(r)
      BY <2>5, <2>8, AwaitedConsent
    <3>2. ~Finish(r)
      BY <1>a, <2>1 DEF Finish
    <3>3. \/ DecideClient(r) /\ Goto(r, "grant")
          \/ GrantConsent(r) /\ Goto(r, "decideTime")
      BY <3>1, <3>2 DEF DecideClient, GrantConsent
    <3>4. ASSUME NEW pc, Goto(r, pc)
          PROVE  /\ req'[r].pc = pc /\ req'[r].ask = req[r].ask /\ req'[r].user = req[r].user
                 /\ req'[r].client = req[r].client /\ req'[r].scopes = req[r].scopes
      BY <1>a, <3>4 DEF Goto, Request
    <3> QED BY <1>2, <3>3, <3>4
  <2>9. CASE Await(r, "decideTime")
    <3>1. DecideTime(r)
      BY <2>5, <2>9, AwaitedConsent
    <3> QED BY <1>2, <1>a, <3>1 DEF DecideTime, Request
  <2>10. CASE Await(r, "authTime")
    <3>1. AuthTime(r)
      BY <2>5, <2>10, AwaitedConsent
    <3>2. ~Finish(r)
      BY <1>a, <2>1 DEF Finish
    <3>3. req[r].client \in FirstParty
      BY <1>a, <3>1, <3>2 DEF AuthTime, DecidingPCs, Request
    <3>4. req' = [req EXCEPT ![r].auth = session[req[r].sid].start, ![r].now = clock,
                             ![r].pc = "issue"]
      BY <3>1, <3>2, <3>3 DEF AuthTime
    <3>5. /\ req'[r].ask = req[r].ask /\ req'[r].user = req[r].user
          /\ req'[r].client = req[r].client /\ req'[r].scopes = req[r].scopes
      BY <1>a, <3>4 DEF Request
    <3> QED BY <1>2, <1>b, <2>10, <3>1, <3>3, <3>5 DEF Await
  <2>11. CASE Await(r, "covered")
    <3>1. Covered(r)
      BY <2>5, <2>11, AwaitedConsent
    <3>2. ~Finish(r) /\ ~Goto(r, "ask")
      BY <1>a, <2>1 DEF Finish, Goto, DecidingPCs, Request
    <3>3. Goto(r, "issue") /\ req[r].scopes \subseteq consents[<<req[r].user, req[r].client>>]
      BY <3>1, <3>2 DEF Covered
    <3>4. /\ req'[r].ask = req[r].ask /\ req'[r].user = req[r].user
          /\ req'[r].client = req[r].client /\ req'[r].scopes = req[r].scopes
      BY <1>a, <3>3 DEF Goto, Request
    <3> QED BY <1>2, <1>b, <2>11, <3>1, <3>3, <3>4 DEF Await
  <2> QED BY <2>6, <2>7, <2>8, <2>9, <2>10, <2>11 DEF Await
<1> QED BY <1>1, <1>2, OnlyMover

LEMMA ConsentedStep ==
  ASSUME Base, IssuesConsented, CodesConsented, Next
  PROVE  IssuesConsented' /\ CodesConsented'
<1>a. /\ clients' \subseteq clients /\ clients \subseteq Client
      /\ consents \in [User \X Client -> SUBSET Scope]
      /\ codes \in [Code -> CodeDoc \cup {NoDoc}]
  BY StepKeepsNames DEF Base, TypeOK
<1>b. \A u \in User, c \in clients : consents[<<u, c>>] \subseteq consents'[<<u, c>>]
  BY ConsentStep
<1>1. ASSUME NEW r \in Req, req'[r].pc \in {"decideTime", "issue"},
             req'[r].client \in clients' \ FirstParty
      PROVE  req'[r].scopes \subseteq consents'[<<req'[r].user, req'[r].client>>]
  <2>1. req'[r].pc \in DecidingPCs
    BY <1>1 DEF DecidingPCs
  <2>2. req[r].pc \in SignedInPCs => req[r].user \in User
    BY RequestFacts
  <2>3. CASE req'[r] = req[r]
    BY <1>a, <1>b, <1>1, <2>2, <2>3 DEF IssuesConsented, SignedInPCs
  <2>4. CASE /\ req'[r].user = req[r].user /\ req'[r].client = req[r].client
             /\ req'[r].scopes = req[r].scopes /\ DecideTime(r)
    BY <1>a, <1>b, <1>1, <2>2, <2>4 DEF IssuesConsented, SignedInPCs, DecideTime, Await
  <2>5. CASE /\ req'[r].user = req[r].user /\ req'[r].client = req[r].client
             /\ req'[r].scopes = req[r].scopes /\ GrantConsent(r)
    <3>1. <<req[r].user, req[r].client>> \in User \X Client
      BY <1>a, <1>1, <2>2, <2>5 DEF GrantConsent, Await, SignedInPCs
    <3> QED BY <1>a, <2>5, <3>1 DEF GrantConsent
  <2>6. CASE /\ req'[r].user = req[r].user /\ req'[r].client = req[r].client
             /\ req'[r].scopes = req[r].scopes /\ Covered(r)
             /\ req[r].scopes \subseteq consents[<<req[r].user, req[r].client>>]
    BY <1>a, <1>b, <1>1, <2>2, <2>6 DEF Covered, Await, SignedInPCs
  <2> QED BY <1>1, <2>1, <2>3, <2>4, <2>5, <2>6, DecidingStep
<1>2. ASSUME NEW k \in Code, codes'[k] # NoDoc, codes'[k].client_id \in clients' \ FirstParty
      PROVE  codes'[k].scopes \subseteq consents'[<<codes'[k].user_id, codes'[k].client_id>>]
  <2>1. CASE /\ codes[k] # NoDoc /\ codes'[k].client_id = codes[k].client_id
             /\ codes'[k].user_id = codes[k].user_id /\ codes'[k].scopes = codes[k].scopes
    <3>1. codes[k].user_id \in User
      BY <1>a, <2>1 DEF CodeDoc
    <3> QED BY <1>a, <1>b, <1>2, <2>1, <3>1 DEF CodesConsented
  <2>2. ASSUME NEW r \in Req, IssueCode(r, k),
               codes'[k].client_id = req[r].client, codes'[k].user_id = req[r].user,
               codes'[k].scopes = req[r].scopes
        PROVE  codes'[k].scopes \subseteq consents'[<<codes'[k].user_id, codes'[k].client_id>>]
    <3>1. req[r].pc = "issue" /\ consents' = consents
      BY <2>2 DEF IssueCode, Await
    <3> QED BY <1>a, <1>2, <2>2, <3>1 DEF IssuesConsented
  <2> QED BY <1>2, <2>1, <2>2, CodeStep
<1> QED BY <1>1, <1>2 DEF IssuesConsented, CodesConsented

\* A third-party client never holds a code for scopes the user has not consented
\* to, whatever authorize requests and decisions run at once, while the client
\* stays registered (authorize, decide_consent and _issue_code).
THEOREM ConsentNeeded == Spec => []CodesConsented
<1> DEFINE I == Base /\ IssuesConsented /\ CodesConsented
<1>1. Init => IssuesConsented /\ CodesConsented
  <2> SUFFICES ASSUME Init PROVE IssuesConsented /\ CodesConsented
    OBVIOUS
  <2>1. PICK b \in Boot : codes = b.codes /\ consents = b.consents
    BY DEF Init
  <2>2. Sound(b)
    BY BootAssumption
  <2> QED BY <2>1, <2>2 DEF Init, Idle, IssuesConsented, CodesConsented, Sound
<1>2. Init => I
  BY <1>1, InitBase
<1>3. I /\ [Next]_vars => I'
  <2>1. ASSUME I, UNCHANGED vars PROVE IssuesConsented' /\ CodesConsented'
    BY <2>1 DEF vars, data, IssuesConsented, CodesConsented
  <2>2. ASSUME I, Next PROVE IssuesConsented' /\ CodesConsented'
    BY <2>2, ConsentedStep
  <2> QED BY <2>1, <2>2, NextBase
<1>4. I => CodesConsented
  OBVIOUS
<1> QED BY <1>2, <1>3, <1>4, PTL DEF Spec
-----------------------------------------------------------------------------
(* A decision is final *)

LEMMA DeciderStep ==
  ASSUME Base, Next, NEW a \in Ask
  PROVE  /\ \A r \in Req : Deciding(r, a)' =>
              \/ Deciding(r, a)
              \/ asks[a] # NoDoc /\ asks'[a] = NoDoc /\ \A p \in Req \ {r} : req'[p] = req[p]
         /\ Decided(a)' => \/ Decided(a)
                           \/ \E r \in Req : Deciding(r, a) /\ ~Deciding(r, a)'
         /\ asks'[a] # NoDoc =>
              \/ asks[a] # NoDoc
              \/ ~Decided(a) /\ \A r \in Req : ~Deciding(r, a)
<1>a. /\ req \in [Req -> Request] /\ asks \in [Ask -> AskDoc \cup {NoDoc}] /\ a # Nil
      /\ Data /\ \A r \in Req : Names(req[r]) \subseteq drawn \cup {Nil}
  BY BaseParts, NameAssumption DEF Data
<1>1. ASSUME NEW r \in Req, Deciding(r, a)', ~Deciding(r, a)
      PROVE  asks[a] # NoDoc /\ asks'[a] = NoDoc /\ \A p \in Req \ {r} : req'[p] = req[p]
  <2>1. req'[r].ask = a /\ req'[r].pc \in DecidingPCs
    BY <1>1 DEF Deciding, DecidingPCs
  <2>2. CASE req'[r] = req[r]
    BY <1>1, <2>2 DEF Deciding
  <2>3. CASE /\ req'[r].ask = req[r].ask /\ Pending(req[r].ask, req[r].user, req[r].now)
             /\ \A p \in Req \ {r} : req'[p] = req[p]
             /\ asks' = [asks EXCEPT ![req[r].ask] = NoDoc]
    BY <1>a, <2>1, <2>3 DEF Pending
  <2>4. CASE /\ req'[r].ask = req[r].ask
             /\ DecideClient(r) \/ GrantConsent(r) \/ DecideTime(r)
    BY <1>1, <2>1, <2>4 DEF Deciding, DecideClient, GrantConsent, DecideTime, Await
  <2>5. CASE req'[r].ask = req[r].ask /\ req[r].ask = Nil
    BY <1>a, <2>1, <2>5
  <2> QED BY <2>1, <2>2, <2>3, <2>4, <2>5, DecidingStep
<1>2. ASSUME NEW k \in Code, codes'[k] # NoDoc, codes'[k].ask = a, ~Decided(a)
      PROVE  \E r \in Req : Deciding(r, a) /\ ~Deciding(r, a)'
  <2>1. PICK r \in Req : IssueCode(r, k) /\ req[r].ask = a
    BY <1>2, CodeStep DEF Decided
  <2>2. req[r].pc = "issue" /\ req'[r] = Idle
    BY <1>a, <2>1 DEF IssueCode, Await, Finish
  <2> QED BY <2>1, <2>2 DEF Deciding, Idle
<1>3. ASSUME asks'[a] # NoDoc, asks[a] = NoDoc
      PROVE  ~Decided(a) /\ \A r \in Req : ~Deciding(r, a)
  <2>1. a \notin drawn
    BY <1>3, AskStep
  <2> QED BY <1>a, <2>1 DEF Decided, Deciding, Data, Names
<1> QED BY <1>1, <1>2, <1>3 DEF Decided

LEMMA OneDeciderStep ==
  ASSUME Base, OneDecider, OneDecision, Next
  PROVE  OneDecider' /\ OneDecision'
<1>1. ASSUME NEW a \in Ask, asks'[a] # NoDoc
      PROVE  ~Decided(a)' /\ \A r \in Req : ~Deciding(r, a)'
  <2>1. ~Decided(a) /\ \A r \in Req : ~Deciding(r, a)
    BY <1>1, DeciderStep DEF OneDecider
  <2> QED BY <1>1, <2>1, DeciderStep
<1>2. ASSUME NEW a \in Ask, NEW r \in Req, Deciding(r, a)'
      PROVE  ~Decided(a)' /\ \A p \in Req \ {r} : ~Deciding(p, a)'
  <2>1. CASE Deciding(r, a)
    <3>1. ~Decided(a) /\ asks[a] = NoDoc /\ \A p \in Req \ {r} : ~Deciding(p, a)
      BY <2>1 DEF OneDecider
    <3> QED BY <1>2, <3>1, DeciderStep
  <2>2. CASE /\ asks[a] # NoDoc
             /\ \A p \in Req \ {r} : req'[p] = req[p]
    <3>1. ~Decided(a) /\ \A p \in Req : ~Deciding(p, a)
      BY <2>2 DEF OneDecider
    <3>2. ~Decided(a)'
      BY <3>1, DeciderStep
    <3> QED BY <2>2, <3>1, <3>2 DEF Deciding
  <2> QED BY <1>2, <2>1, <2>2, DeciderStep
<1>3. ASSUME NEW k \in Code, NEW l \in Code, codes'[k] # NoDoc, codes'[l] # NoDoc,
             codes'[k].ask = codes'[l].ask, codes'[k].ask # Nil
      PROVE  k = l
  <2>1. ASSUME NEW x \in Code, codes'[x] # NoDoc
        PROVE  \/ codes[x] # NoDoc /\ codes'[x].ask = codes[x].ask
               \/ \E r \in Req : IssueCode(r, x) /\ codes'[x].ask = req[r].ask
    BY <2>1, CodeStep
  <2>2. \A r \in Req : req[r].ask \in Ask \cup {Nil}
    BY RequestType DEF Base
  <2>3. ASSUME NEW x \in Code, NEW y \in Code, NEW r \in Req, IssueCode(r, x),
               codes'[x].ask = req[r].ask, codes'[y] # NoDoc, codes'[y].ask = req[r].ask,
               req[r].ask # Nil
        PROVE  x = y
    <3>1. Deciding(r, req[r].ask) /\ req[r].ask \in Ask
      BY <2>2, <2>3 DEF Deciding, IssueCode, Await
    <3>2. ~(codes[y] # NoDoc /\ codes[y].ask = req[r].ask)
      BY <3>1 DEF OneDecider, Decided
    <3>3. PICK p \in Req : IssueCode(p, y)
      BY <2>1, <2>3, <3>2
    <3> QED BY <2>3, <3>3 DEF IssueCode
  <2>4. CASE codes[k] # NoDoc /\ codes'[k].ask = codes[k].ask
             /\ codes[l] # NoDoc /\ codes'[l].ask = codes[l].ask
    BY <1>3, <2>4 DEF OneDecision
  <2> QED BY <1>3, <2>1, <2>3, <2>4
<1>4. OneDecider'
  BY <1>1, <1>2 DEF OneDecider
<1> QED BY <1>3, <1>4 DEF OneDecision

\* "A decision is final": however often and however concurrently a consent
\* decision is sent, at most one code comes of it (decide_consent).
THEOREM DecisionsFinal == Spec => []OneDecision
<1> DEFINE I == Base /\ OneDecider /\ OneDecision
<1>1. Init => OneDecider /\ OneDecision
  <2> SUFFICES ASSUME Init PROVE OneDecider /\ OneDecision
    OBVIOUS
  <2>1. PICK b \in Boot : codes = b.codes
    BY DEF Init
  <2>2. \A k \in Code : codes[k] # NoDoc => codes[k].ask = Nil
    BY <2>1, BootAssumption DEF Sound
  <2>3. \A a \in Ask : a # Nil /\ ~Decided(a) /\ asks[a] = NoDoc
    BY <2>2, NameAssumption DEF Decided, Init
  <2> QED BY <2>2, <2>3 DEF Init, Idle, OneDecider, OneDecision, Deciding
<1>2. Init => I
  BY <1>1, InitBase
<1>3. I /\ [Next]_vars => I'
  <2>1. ASSUME I, UNCHANGED vars PROVE OneDecider' /\ OneDecision'
    BY <2>1 DEF vars, data, OneDecider, OneDecision, Decided, Deciding
  <2>2. ASSUME I, Next PROVE OneDecider' /\ OneDecision'
    BY <2>2, OneDeciderStep
  <2> QED BY <2>1, <2>2, NextBase
<1>4. I => OneDecision
  OBVIOUS
<1> QED BY <1>2, <1>3, <1>4, PTL DEF Spec
-----------------------------------------------------------------------------
(* Codes presented twice *)

LEMMA AwaitedRevocation ==
  ASSUME NEW r \in Req, Step(r)
  PROVE  /\ Await(r, "recheck") => Recheck(r)
         /\ req[r].pc \in {"undo", "revokeGrant"} => RevokeGrant(r)
BY DEF Step, ResolveBrowser, AuthTime, Covered, AskConsent, IssueCode, Take, DecideClient,
   GrantConsent, DecideTime, Consume, CheckSession, FindParent, InsertFirst, Recheck, Answer,
   FindReplayed, MarkReplayed, RevokeGrant, FindGrant, ClaimGrant, ReReadGrant,
   RefreshActive, InsertNext, RevokeFind, DropTokens, DropConsents, Await

\* A request that handles a replay works on the grant its code remembers.
LEMMA ReplayStep ==
  ASSUME Base, Next, NEW r \in Req, req'[r].pc \in {"mark", "revokeGrant"}
  PROVE  \/ /\ req[r].pc \in {"mark", "revokeGrant"}
            /\ req'[r].code = req[r].code /\ req'[r].grant = req[r].grant
         \/ /\ codes' = codes /\ req'[r].code = req[r].code
            /\ codes[req[r].code] # NoDoc /\ codes[req[r].code].consumed_at # Nil
            /\ req'[r].grant = codes[req[r].code].grant_id
         \/ req'[r].code = Nil
<1>a. req[r] \in Request
  BY RequestType DEF Base
<1>1. CASE req'[r] = req[r]
  BY <1>1
<1>2. CASE req'[r] = Idle
  BY <1>2 DEF Idle
<1>3. CASE Begins(r)
  BY <1>3 DEF Begins
<1>4. CASE Proceeds(r)
  BY <1>4 DEF Proceeds, KeepsGrant
<1>5. CASE TakesUp(r)
  <2>1. CASE /\ FindReplayed(r) /\ codes[req[r].code] # NoDoc
             /\ codes[req[r].code].consumed_at # Nil
             /\ req'[r] = [req[r] EXCEPT !.pc = "mark",
                                         !.grant = codes[req[r].code].grant_id]
    BY <2>1, <1>a DEF FindReplayed, Reads, data, Request
  <2>2. CASE RevokeFind(r) /\ req'[r] = [req[r] EXCEPT !.pc = "revokeGrant",
                                           !.grant = FamilyOf(store, req[r].tok)]
    <3>1. req[r].code = Nil
      BY <2>2, RequestFacts DEF RevokeFind, Await, LocalOK
    <3> QED BY <2>2, <3>1, <1>a DEF Request
  <2>3. CASE req'[r].pc \in {"store", "recheck", "expired", "claim", "active", "reuse", "answer"}
    BY <2>3
  <2> QED BY <1>5, <2>1, <2>2, <2>3, <1>a DEF TakesUp, Request
<1> QED BY <1>1, <1>2, <1>3, <1>4, <1>5, RequestStep

LEMMA CodeGrantStep ==
  ASSUME Base, FreshGrants, CodeGrants, Next
  PROVE  CodeGrants'
<1> SUFFICES ASSUME NEW k \in Code, codes'[k] # NoDoc
             PROVE  LET g == codes'[k].grant_id IN
                    /\ codes'[k].consumed_at = Nil => g = Nil
                    /\ g \in Records(store') => FamilyOf(store', g) = g
                    /\ \A r \in Req : WorksOn(r, k)' /\ req'[r].pc \in {"mark", "revokeGrant"}
                         => codes'[k].consumed_at # Nil /\ req'[r].grant = g
  BY DEF CodeGrants
<1> DEFINE g == codes'[k].grant_id
<1>a. /\ store \in GrantStore /\ store' \in GrantStore /\ Data
      /\ \A r \in Req : Names(req[r]) \subseteq drawn \cup {Nil}
  BY BaseParts, StoreStep DEF Data
<1>1. codes'[k].consumed_at = Nil => g = Nil
  BY CodeStep DEF CodeGrants
<1>2. ASSUME g \in Records(store') PROVE FamilyOf(store', g) = g
  <2>1. g \in Token /\ g # Nil /\ FamilyOf(store', g) = store'[g].family_id
    BY <1>a, <1>2, GrantIsDoc, NilAssumption
  <2>2. CASE codes[k] # NoDoc /\ codes[k].grant_id = g
    <3>1. g \in drawn
      BY <1>a, <2>1, <2>2 DEF Data
    <3>2. CASE g \in Records(store) /\ store'[g].family_id = store[g].family_id
      BY <1>a, <2>1, <2>2, <3>2, GrantIsDoc DEF CodeGrants
    <3>3. ASSUME NEW p \in Req, Await(p, "store"), g = req[p].grant, store'[g] = req[p].doc
          PROVE  FamilyOf(store', g) = g
      BY <2>1, <3>3, WriterFacts, HolderFacts DEF Await
    <3> QED BY <1>2, <3>1, <3>2, <3>3, StoreStep
  <2>3. ASSUME NEW r \in Req, Await(r, "consume"), g = req[r].grant,
               NEW proof \in BOOLEAN, Consume(r, proof)
        PROVE  FALSE
    <3>1. store' = store /\ Exchanging(r)
      BY <2>3 DEF Consume, Exchanging, ExchangePCs, Await
    <3> QED BY <1>2, <2>3, <3>1 DEF FreshGrants
  <2> HIDE DEF g
  <2>4. \/ codes[k] # NoDoc /\ codes[k].grant_id = g
        \/ \E r \in Req, proof \in BOOLEAN :
              Await(r, "consume") /\ g = req[r].grant /\ Consume(r, proof)
    BY <2>1, CodeStep DEF g
  <2> QED BY <2>2, <2>3, <2>4
<1>3. ASSUME NEW r \in Req, req'[r].code = k, req'[r].pc \in {"mark", "revokeGrant"}
      PROVE  codes'[k].consumed_at # Nil /\ req'[r].grant = g
  <2>1. k # Nil
    BY NameAssumption
  <2>2. CASE /\ codes' = codes /\ req[r].code = k
             /\ codes[k].consumed_at # Nil
             /\ req'[r].grant = codes[k].grant_id
    BY <2>2
  <2>3. CASE /\ req[r].pc \in {"mark", "revokeGrant"}
             /\ req[r].code = k /\ req'[r].grant = req[r].grant
    <3>1. k \in drawn
      BY <1>a, <2>1, <2>3 DEF Names
    <3>2. codes[k] # NoDoc => codes[k].consumed_at # Nil /\ req[r].grant = codes[k].grant_id
      BY <2>3 DEF CodeGrants, WorksOn
    <3> QED BY <2>3, <3>1, <3>2, CodeStep DEF CanConsume
  <2> QED BY <1>3, <2>1, <2>2, <2>3, ReplayStep
<1> QED BY <1>1, <1>2, <1>3 DEF WorksOn

\* A replayed code's token does not outlive the requests that present the code:
\* the one that marks it revokes next, and an exchange that stores it after that
\* finds the mark and undoes.
LEMMA ChasedStep ==
  ASSUME ~Aborts, Base, FreshGrants, CodeGrants, Chased, Next
  PROVE  Chased'
<1> SUFFICES ASSUME NEW k \in Code, codes'[k] # NoDoc, codes'[k].replayed,
                    codes'[k].grant_id \in Records(store')
             PROVE  \E r \in Req : /\ req'[r].code = k /\ req'[r].grant = codes'[k].grant_id
                                   /\ req'[r].pc \in {"recheck", "undo", "revokeGrant"}
  BY DEF Chased, WorksOn
<1> DEFINE g == codes'[k].grant_id
<1>a. /\ store \in GrantStore /\ req \in [Req -> Request] /\ Data
      /\ g \in Token /\ g # Nil
  BY BaseParts, NilAssumption DEF Data, Records
<1>1. ASSUME NEW r \in Req, MarkReplayed(r), WorksOn(r, k), codes[k] # NoDoc,
             codes'[k].grant_id = codes[k].grant_id
      PROVE  \E p \in Req : /\ req'[p].code = k /\ req'[p].grant = g
                            /\ req'[p].pc \in {"recheck", "undo", "revokeGrant"}
  <2>1. req[r].grant = g
    BY <1>1 DEF CodeGrants, MarkReplayed, Await
  <2>2. req'[r] = [req[r] EXCEPT !.pc = "revokeGrant"]
    BY <1>a, <1>1 DEF MarkReplayed, Goto
  <2>3. req'[r].code = k /\ req'[r].grant = g /\ req'[r].pc = "revokeGrant"
    BY <1>a, <1>1, <2>1, <2>2 DEF WorksOn, Request
  <2> QED BY <2>3
<1>2. ASSUME NEW r \in Req, NEW proof \in BOOLEAN, Consume(r, proof), g = req[r].grant
      PROVE  FALSE
  <2>1. store' = store /\ Exchanging(r)
    BY <1>2 DEF Consume, Exchanging, ExchangePCs, Await
  <2> QED BY <1>2, <2>1 DEF FreshGrants
<1>3. CASE codes'[k] = codes[k]
  <2>1. codes[k] # NoDoc /\ codes[k].replayed /\ codes[k].grant_id = g /\ g \in drawn
    BY <1>a, <1>3 DEF Data
  <2>2. CASE g \in Records(store)
    <3>1. PICK r \in Req : /\ req[r].code = k /\ req[r].grant = g
                           /\ req[r].pc \in {"recheck", "undo", "revokeGrant"}
      BY <2>1, <2>2 DEF Chased, WorksOn
    <3>2. CASE req'[r] = req[r]
      BY <3>1, <3>2
    <3>3. CASE Step(r)
      <4>1. CASE Recheck(r)
        <5>1. Goto(r, "undo")
          BY <2>1, <3>1, <4>1 DEF Recheck
        <5>2. req'[r].code = k /\ req'[r].grant = g /\ req'[r].pc = "undo"
          BY <1>a, <3>1, <5>1 DEF Goto, Request
        <5> QED BY <5>2
      <4>2. CASE RevokeGrant(r)
        <5>1. store' = Without(store, Family(store, g))
          BY <3>1, <4>2 DEF RevokeGrant, RevokeFamily
        <5>2. g \in Family(store, g)
          BY <2>1, <2>2 DEF CodeGrants, Family
        <5> QED BY <1>a, <5>1, <5>2, GrantWithout
      <4> QED BY <3>1, <3>3, <4>1, <4>2, AwaitedRevocation DEF Await
    <3>4. ~Arrive(r) /\ ~Abort(r)
      <4>1. req[r] # Idle
        BY <3>1 DEF Idle
      <4> QED BY <4>1, ArriveShape DEF Begins, Abort
    <3>5. CASE \E p \in Req \ {r} : \A x \in Req \ {p} : req'[x] = req[x]
      BY <3>2, <3>5
    <3> QED BY <3>2, <3>3, <3>4, <3>5, OnlyMover
  <2>3. CASE g \notin Records(store)
    <3>1. PICK p \in Req : InsertFirst(p) /\ Await(p, "store") /\ g = req[p].grant
      BY <2>1, <2>3, StoreStep
    <3>2. req[p].code = k
      BY <2>1, <3>1 DEF FreshGrants, Exchanging, ExchangePCs, Await
    <3>3. req'[p] = [req[p] EXCEPT !.pc = "recheck", !.new = req[p].grant]
      BY <1>a, <3>1 DEF InsertFirst
    <3>4. req'[p].code = k /\ req'[p].grant = g /\ req'[p].pc = "recheck"
      BY <1>a, <3>1, <3>2, <3>3 DEF Request
    <3> QED BY <3>4
  <2> QED BY <2>2, <2>3
<1> QED BY <1>1, <1>2, <1>3, CodeStep

\* Presenting a code twice leaves no refresh token of its grant behind: once
\* the code is marked and the requests presenting it have ended, none of them
\* cut off, the token its exchange stored is gone, in whatever order exchange
\* and replay ran (_exchange_code and _handle_code_replay).
THEOREM ReplayedTokensGone == ~Aborts => (Spec => []ReplayedTokenGone)
<1> SUFFICES ASSUME ~Aborts PROVE Spec => []ReplayedTokenGone
  OBVIOUS
<1> DEFINE I == Base /\ FreshGrants /\ CodeGrants /\ Chased
<1>1. Init => CodeGrants /\ Chased
  <2> SUFFICES ASSUME Init PROVE CodeGrants /\ Chased
    OBVIOUS
  <2>1. PICK b \in Boot : codes = b.codes /\ store = b.store
    BY DEF Init
  <2>2. Sound(b)
    BY BootAssumption
  <2>3. \A r \in Req : req[r].pc = "idle"
    BY DEF Init, Idle
  <2>4. \A k \in Code : codes[k] # NoDoc /\ codes[k].replayed =>
                         codes[k].grant_id \notin Records(store)
    BY <2>1, <2>2 DEF Sound
  <2> QED BY <2>1, <2>2, <2>3, <2>4 DEF CodeGrants, Chased, Sound
<1>2. Init => I
  BY <1>1, InitBase, InitFresh
<1>3. I /\ [Next]_vars => I'
  <2>1. ASSUME I, UNCHANGED vars PROVE FreshGrants' /\ CodeGrants' /\ Chased'
    BY <2>1 DEF vars, data, FreshGrants, CodeGrants, Chased, Exchanging, HoldsDoc, Await,
       WorksOn
  <2>2. ASSUME I, Next PROVE FreshGrants' /\ CodeGrants' /\ Chased'
    BY <2>2, FreshStep, CodeGrantStep, ChasedStep
  <2> QED BY <2>1, <2>2, NextBase
<1>4. I => ReplayedTokenGone
  BY DEF Chased, ReplayedTokenGone
<1> QED BY <1>2, <1>3, <1>4, PTL DEF Spec
=============================================================================
