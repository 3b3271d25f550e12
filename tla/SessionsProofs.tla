--------------------------- MODULE SessionsProofs ---------------------------
(***************************************************************************)
(* Theorems about Sessions, for any number of tokens, users, requests and  *)
(* any grace window.                                                       *)
(***************************************************************************)
EXTENDS Sessions, TLAPS, FiniteSetTheorems

-----------------------------------------------------------------------------
(* The store's writes *)

\* Each write keeps the collection well typed.
LEMMA StoreTypes ==
  ASSUME NEW st \in Store
  PROVE  /\ \A gone : Without(st, gone) \in Store
         /\ \A t \in Token, doc \in Doc : InsertRecord(st, t, doc) \in Store
         /\ \A t : \A n \in Nat : ClaimRotation(st, t, n) \in Store
         /\ \A t : \A s \in Token \cup {Nil} : SetFamily(st, t, s) \in Store
<1>1. ASSUME NEW gone PROVE Without(st, gone) \in Store
  BY DEF Without, Store
<1>2. ASSUME NEW t \in Token, NEW doc \in Doc PROVE InsertRecord(st, t, doc) \in Store
  BY DEF InsertRecord, Store
<1>3. ASSUME NEW t, NEW n \in Nat PROVE ClaimRotation(st, t, n) \in Store
  <2>1. CASE CanClaim(st, t)
    <3>1. t \in Token /\ st[t] \in Doc
      BY <2>1 DEF CanClaim, Records, Store
    <3>2. [st[t] EXCEPT !.rotated_at = n] \in Doc
      BY <3>1 DEF Doc
    <3> QED BY <2>1, <3>1, <3>2 DEF ClaimRotation, Store
  <2> QED BY <2>1 DEF ClaimRotation
<1>4. ASSUME NEW t, NEW s \in Token \cup {Nil} PROVE SetFamily(st, t, s) \in Store
  <2>1. CASE t \in Records(st) /\ st[t].family_id = Nil
    <3>1. t \in Token /\ st[t] \in Doc
      BY <2>1 DEF Records, Store
    <3>2. [st[t] EXCEPT !.family_id = s] \in Doc
      BY <3>1 DEF Doc
    <3> QED BY <2>1, <3>1, <3>2 DEF SetFamily, Store
  <2> QED BY <2>1 DEF SetFamily
<1> QED BY <1>1, <1>2, <1>3, <1>4

LEMMA RecordIsDoc ==
  ASSUME NEW st \in Store, NEW t \in Records(st)
  PROVE  st[t] \in Doc /\ FamilyOf(st, t) \in Token
BY NilAssumption DEF Records, Store, Doc, FamilyOf

LEMMA WithoutFacts ==
  ASSUME NEW st \in Store, NEW gone
  PROVE  /\ Records(Without(st, gone)) = Records(st) \ gone
         /\ \A t \in Records(Without(st, gone)) :
               /\ Without(st, gone)[t] = st[t]
               /\ FamilyOf(Without(st, gone), t) = FamilyOf(st, t)
BY DEF Without, Records, FamilyOf

LEMMA InsertFacts ==
  ASSUME NEW st \in Store, NEW t \in Token, NEW doc \in Doc
  PROVE  /\ Records(InsertRecord(st, t, doc)) = Records(st) \cup {t}
         /\ InsertRecord(st, t, doc)[t] = doc
         /\ FamilyOf(InsertRecord(st, t, doc), t) =
              IF doc.family_id = Nil THEN t ELSE doc.family_id
         /\ \A x \in Token \ {t} :
               /\ InsertRecord(st, t, doc)[x] = st[x]
               /\ FamilyOf(InsertRecord(st, t, doc), x) = FamilyOf(st, x)
BY NoDocAssumption DEF InsertRecord, Store, Records, FamilyOf

\* Claiming a token, and adopting a record into its own family, keep every
\* record's session, and never touch a rotated_at already set.
LEMMA ClaimFacts ==
  ASSUME NEW st \in Store, NEW t, NEW n \in Nat
  PROVE  LET new == ClaimRotation(st, t, n) IN
         /\ Records(new) = Records(st)
         /\ \A x \in Records(st) :
               /\ SameSession(st[x], new[x])
               /\ FamilyOf(new, x) = FamilyOf(st, x)
               /\ st[x].rotated_at # Nil => new[x] = st[x]
         /\ CanClaim(st, t) => new[t].rotated_at = n
         /\ \A x \in Token \ {t} : new[x] = st[x]
<1>1. CASE ~CanClaim(st, t)
  BY <1>1 DEF ClaimRotation, SameSession
<1>2. CASE CanClaim(st, t)
  <2> DEFINE d == [st[t] EXCEPT !.rotated_at = n]
             new == ClaimRotation(st, t, n)
  <2>1. t \in Token /\ st[t] \in Doc /\ st[t].rotated_at = Nil
    BY <1>2 DEF CanClaim, Records, Store
  <2>2. /\ d \in Doc /\ d.rotated_at = n /\ d.family_id = st[t].family_id
        /\ SameSession(st[t], d)
    BY <2>1 DEF Doc, SameSession
  <2>3. new = [st EXCEPT ![t] = d]
    BY <1>2 DEF ClaimRotation
  <2>4. new[t] = d /\ \A x \in Token \ {t} : new[x] = st[x]
    BY <2>1, <2>3 DEF Store
  <2>5. Records(new) = Records(st)
    BY <1>2, <2>2, <2>4, NoDocAssumption DEF Records, CanClaim
  <2> HIDE DEF new, d
  <2> QED
    BY <2>1, <2>2, <2>4, <2>5 DEF FamilyOf, SameSession, Records, new
<1> QED BY <1>1, <1>2

LEMMA AdoptFacts ==
  ASSUME NEW st \in Store, NEW t \in Token
  PROVE  LET new == SetFamily(st, t, t) IN
         /\ Records(new) = Records(st)
         /\ \A x \in Records(st) :
               /\ SameSession(st[x], new[x])
               /\ FamilyOf(new, x) = FamilyOf(st, x)
               /\ new[x].rotated_at = st[x].rotated_at
         /\ \A x \in Token \ {t} : new[x] = st[x]
<1> DEFINE new == SetFamily(st, t, t)
<1>1. CASE ~(t \in Records(st) /\ st[t].family_id = Nil)
  BY <1>1 DEF SetFamily, SameSession
<1>2. CASE t \in Records(st) /\ st[t].family_id = Nil
  <2> DEFINE d == [st[t] EXCEPT !.family_id = t]
  <2>1. st[t] \in Doc
    BY <1>2 DEF Records, Store
  <2>2. /\ d \in Doc /\ d.rotated_at = st[t].rotated_at /\ d.family_id = t
        /\ SameSession(st[t], d)
    BY <2>1 DEF Doc, SameSession
  <2>3. new = [st EXCEPT ![t] = d]
    BY <1>2 DEF SetFamily
  <2>4. new[t] = d /\ \A x \in Token \ {t} : new[x] = st[x]
    BY <2>3 DEF Store
  <2>5. Records(new) = Records(st)
    BY <1>2, <2>2, <2>4, NoDocAssumption DEF Records
  <2>6. FamilyOf(new, t) = t /\ FamilyOf(st, t) = t
    BY <1>2, <2>2, <2>4 DEF FamilyOf
  <2> HIDE DEF new, d
  <2> QED
    BY <2>1, <2>2, <2>4, <2>5, <2>6 DEF FamilyOf, SameSession, Records, new
<1> QED BY <1>1, <1>2
-----------------------------------------------------------------------------
(* What a step can do to the collection *)

\* The six kinds of write: none, delete_many, an insert under a fresh token
\* into a family already named or its own, claim_rotation, set_family.
Deletes  == \E gone \in SUBSET Token : store' = Without(store, gone)
Inserts  == \E t \in Token \ minted, d \in Doc :
              /\ store' = InsertRecord(store, t, d)
              /\ minted' = minted \cup {t}
              /\ d.family_id \in minted' /\ d.rotated_at = Nil
              /\ d.family_id # t =>
                   \E r \in Req : /\ Await(r, "insert") /\ req[r].sid = d.family_id
                                  /\ SameSession(req[r].rec, d)
Claims   == \E r \in Req : Await(r, "claim") /\
              store' = ClaimRotation(store, req[r].tok, req[r].now)
Adopts   == \E t \in Token : store' = SetFamily(store, t, t)

Write ==
  \/ Inserts
  \/ minted' = minted /\ (store' = store \/ Deletes \/ Claims \/ Adopts)

LEMMA RequestType ==
  ASSUME TypeOK, NEW r \in Req
  PROVE  /\ req[r] \in Request
         /\ req[r].tok \in Token \cup {Nil}  /\ req[r].user \in User \cup {Nil}
         /\ req[r].sid \in Token \cup {Nil}  /\ req[r].now \in Nat
         /\ req[r].rec \in Doc \cup {NoDoc}  /\ req[r].new \in Token \cup {Nil}
BY DEF TypeOK, Request

LEMMA SuccessorDoc ==
  ASSUME Base, NEW r \in Req, Await(r, "insert")
  PROVE  /\ Successor(req[r]) \in Doc
         /\ Successor(req[r]).family_id = req[r].sid
         /\ Successor(req[r]).rotated_at = Nil
         /\ SameSession(req[r].rec, Successor(req[r]))
         /\ req[r].sid \in minted
<1>1. req[r].rec \in Doc /\ req[r].sid \in minted /\ minted \subseteq Token
  BY DEF Base, Locals, LocalOK, Await, RotatingPCs, TypeOK
<1> QED
  BY <1>1 DEF Successor, Doc, SameSession

LEMMA NewSessionDoc ==
  ASSUME TypeOK, NEW u \in User, NEW t \in Token, NEW l \in Lifetimes
  PROVE  /\ NewSession(u, t, l) \in Doc
         /\ NewSession(u, t, l).family_id = t
         /\ NewSession(u, t, l).rotated_at = Nil
         /\ NewSession(u, t, l).user_id = u
BY LifetimesAssumption DEF TypeOK, NewSession, Doc

LEMMA StepWrites ==
  ASSUME Base, Next
  PROVE  Write
<1> USE DEF Write
<1>a. TypeOK /\ minted \subseteq Token
  BY DEF Base, TypeOK
<1>1. ASSUME NEW r \in Req, Arrive(r) PROVE Write
  <2>1. CASE \E u \in User, t \in Token, tok \in Cookie, l \in Lifetimes :
               StartSession(r, u, t, tok, l)
    BY <2>1, <1>a, NewSessionDoc DEF StartSession, Inserts
  <2>2. CASE \E tok \in delivered : BeginRefresh(r, tok)
    BY <2>2 DEF BeginRefresh, TokensUnchanged
  <2>3. CASE \E s \in SidOfAccessToken, tok \in Cookie : BeginResolve(r, s, tok)
    BY <2>3 DEF BeginResolve, TokensUnchanged
  <2>4. CASE \E tok \in Cookie, s \in SidOfAccessToken \cup {Nil}, all \in BOOLEAN :
               BeginLogout(r, tok, s, all)
    BY <2>4 DEF BeginLogout, TokensUnchanged
  <2>5. CASE \E s \in SidOfAccessToken, target \in minted : BeginRevoke(r, s, target)
    BY <2>5 DEF BeginRevoke, TokensUnchanged
  <2>6. CASE \E s \in SidOfAccessToken : BeginEndOthers(r, s)
    BY <2>6 DEF BeginEndOthers, TokensUnchanged
  <2> QED BY <1>1, <2>1, <2>2, <2>3, <2>4, <2>5, <2>6 DEF Arrive
<1>2. ASSUME NEW r \in Req, Step(r) PROVE Write
  <2>1. CASE \E t \in Token : InsertSuccessor(r, t)
    BY <2>1, <1>a, SuccessorDoc DEF InsertSuccessor, Inserts
  <2>2. CASE Claim(r)
    BY <2>2 DEF Claim, Claims, TokensUnchanged
  <2>3. CASE AdoptFamily(r)
    <3>1. Await(r, "adopt") /\ req[r].pc \in RotatingPCs
      BY <2>3 DEF AdoptFamily, Await, RotatingPCs
    <3>2. req[r].tok \in Token
      BY <3>1, <1>a DEF Base, Locals, LocalOK
    <3>3. CASE req[r].sid = req[r].tok
      BY <2>3, <3>2, <3>3 DEF AdoptFamily, Adopts, TokensUnchanged
    <3>4. CASE req[r].sid # req[r].tok
      \* The snapshot named a family, so the stored record is left alone.
      <4>1. FamilyOf(store, req[r].tok) # req[r].tok \/ req[r].tok \notin Records(store)
        BY <3>1, <3>4 DEF Base, Locals, LocalOK
      <4>2. store' = store
        BY <2>3, <4>1 DEF AdoptFamily, SetFamily, FamilyOf
      <4> QED BY <2>3, <4>2 DEF AdoptFamily, TokensUnchanged
    <3> QED BY <3>3, <3>4
  <2>4. CASE \/ RetireFind(r) \/ Reply(r) \/ FindRecord(r) \/ ReRead(r)
             \/ LogoutFind(r) \/ RevokeFind(r) \/ ReplyCount(r)
             \/ \E fresh \in BOOLEAN : ResolveCheck(r, fresh)
    BY <2>4 DEF RetireFind, Reply, FindRecord, ReRead, LogoutFind, RevokeFind,
                ReplyCount, ResolveCheck, TokensUnchanged
  <2>5. CASE RetireRevoke(r) \/ RevokeOwn(r)
    BY <2>5 DEF RetireRevoke, RevokeOwn, TokensUnchanged, RevokeFamily, Deletes,
                Family, Records
  <2>6. CASE LogoutEnd(r)
    BY <2>6 DEF LogoutEnd, TokensUnchanged, RevokeFamily, Deletes, Family, Records,
                DeleteAllForUser, UserRecordsBut, UserRecords
  <2>7. CASE RevokeTarget(r)
    BY <2>7 DEF RevokeTarget, TokensUnchanged, RevokeSession, Deletes, Family, Records
  <2>8. CASE EndOthers(r)
    BY <2>8 DEF EndOthers, TokensUnchanged, Deletes, DeleteAllForUser,
                UserRecordsBut, UserRecords, Records
  <2> QED BY <1>2, <2>1, <2>2, <2>3, <2>4, <2>5, <2>6, <2>7, <2>8 DEF Step
<1>3. ASSUME NEW r \in Req, Abort(r) PROVE Write
  BY <1>3 DEF Abort, TokensUnchanged
<1>4. ASSUME NEW u \in User, ResetSignsOut(u) PROVE Write
  BY <1>4 DEF ResetSignsOut, TokensUnchanged, Deletes, DeleteAllForUser,
              UserRecordsBut, UserRecords, Records
<1>5. CASE Tick
  BY <1>5 DEF Tick, TokensUnchanged
<1>6. CASE Cleanup
  BY <1>6 DEF Cleanup, TokensUnchanged, DeleteExpired, Expired, Records, Deletes
<1>7. ASSUME NEW t \in Token, TTLExpire(t) PROVE Write
  BY <1>7 DEF TTLExpire, TokensUnchanged, Deletes
<1> QED
  BY <1>1, <1>2, <1>3, <1>4, <1>5, <1>6, <1>7 DEF Next

\* Whatever a step writes, a token generated before it keeps its family and is
\* not stored anew.
Calm ==
  /\ minted \subseteq minted'
  /\ \A t \in minted \cap Records(store') :
       /\ t \in Records(store)
       /\ FamilyOf(store', t) = FamilyOf(store, t)

LEMMA StepIsCalm ==
  ASSUME Base, [Next]_vars
  PROVE  Calm /\ Named'
<1>a. store \in Store /\ minted \subseteq Token /\ Named
  BY DEF Base, TypeOK
<1>1. CASE UNCHANGED vars
  BY <1>1, <1>a DEF vars, Calm, Named, Records, FamilyOf
<1>2. ASSUME Write PROVE Calm /\ Named'
  <2>1. CASE Inserts
    <3>1. PICK t \in Token \ minted, d \in Doc :
             /\ store' = InsertRecord(store, t, d)
             /\ minted' = minted \cup {t}
             /\ d.family_id \in minted'
      BY <2>1 DEF Inserts
    <3>2. d.family_id # Nil
      BY <3>1, <1>a, NilAssumption
    <3>3. /\ Records(store') = Records(store) \cup {t}
          /\ FamilyOf(store', t) = d.family_id
          /\ \A x \in Token \ {t} : FamilyOf(store', x) = FamilyOf(store, x)
      BY <3>1, <3>2, <1>a, InsertFacts
    <3> QED BY <3>1, <3>3, <1>a DEF Calm, Named, Records
  <2>2. CASE minted' = minted /\ store' = store
    BY <2>2, <1>a DEF Calm, Named
  <2>3. CASE minted' = minted /\ Deletes
    <3>1. PICK gone \in SUBSET Token : store' = Without(store, gone)
      BY <2>3 DEF Deletes
    <3> QED BY <2>3, <3>1, <1>a, WithoutFacts DEF Calm, Named
  <2>4. CASE minted' = minted /\ Claims
    <3>1. PICK r \in Req : store' = ClaimRotation(store, req[r].tok, req[r].now)
      BY <2>4 DEF Claims
    <3>2. req[r].now \in Nat
      BY RequestType DEF Base
    <3> QED BY <2>4, <3>1, <3>2, <1>a, ClaimFacts DEF Calm, Named
  <2>5. CASE minted' = minted /\ Adopts
    <3>1. PICK t \in Token : store' = SetFamily(store, t, t)
      BY <2>5 DEF Adopts
    <3> QED BY <2>5, <3>1, <1>a, AdoptFacts DEF Calm, Named
  <2> QED BY <1>2, <2>1, <2>2, <2>3, <2>4, <2>5 DEF Write
<1> QED BY <1>1, <1>2, StepWrites

LEMMA StoreTypeStep ==
  ASSUME Base, Next
  PROVE  store' \in Store /\ minted' \subseteq Token
<1>a. TypeOK /\ store \in Store /\ minted \subseteq Token
  BY DEF Base, TypeOK
<1>1. CASE Inserts
  BY <1>1, <1>a, StoreTypes DEF Inserts
<1>2. CASE Deletes /\ minted' = minted
  BY <1>2, <1>a, StoreTypes DEF Deletes
<1>3. CASE Claims /\ minted' = minted
  <2>1. PICK r \in Req : store' = ClaimRotation(store, req[r].tok, req[r].now)
    BY <1>3 DEF Claims
  <2>2. req[r].now \in Nat
    BY <1>a, RequestType
  <2> QED BY <1>3, <2>1, <2>2, <1>a, StoreTypes
<1>4. CASE Adopts /\ minted' = minted
  BY <1>4, <1>a, StoreTypes DEF Adopts
<1> QED BY <1>1, <1>2, <1>3, <1>4, <1>a, StepWrites DEF Write

\* The handler's side of a step: requests that did not move stay in order, and
\* the one that moved is in order in the new state.
LEMMA LocalsStep ==
  ASSUME Base, Next, NEW r \in Req,
         \A p \in Req \ {r} : req'[p] = req[p],
         LocalOK(req[r])'
  PROVE  Locals'
<1>1. Calm
  BY StepIsCalm
<1>2. ASSUME NEW p \in Req \ {r} PROVE LocalOK(req[p])'
  <2>1. LocalOK(req[p]) /\ req'[p] = req[p]
    BY DEF Base, Locals
  <2> QED BY <1>1, <2>1 DEF Calm, LocalOK
<1> QED BY <1>2 DEF Locals

\* One request's part of Base after its own step, given where the step leads.
LEMMA BaseStep ==
  ASSUME Base, Next, NEW r \in Req, NEW q \in Request,
         req' = [req EXCEPT ![r] = q],
         clock' = clock, delivered' = delivered, access' = access,
         LocalOK(q)'
  PROVE  Base'
<1>a. TypeOK
  BY DEF Base
<1>1. req' \in [Req -> Request] /\ req'[r] = q /\ \A p \in Req \ {r} : req'[p] = req[p]
  BY <1>a DEF TypeOK
<1>2. TypeOK'
  BY <1>a, <1>1, StoreTypeStep, StepIsCalm DEF TypeOK, Calm
<1>3. LocalOK(req[r])'
  BY <1>1 DEF LocalOK, OwnFamily
<1>4. Locals'
  BY <1>1, <1>3, LocalsStep
<1> QED BY <1>2, <1>4, StepIsCalm DEF Base

LEMMA IdleOK == Idle \in Request /\ LocalOK(Idle)'
BY DEF Idle, Request, PCs, LocalOK, RotatingPCs
-----------------------------------------------------------------------------
(* Type correctness *)

LEMMA FinishStep ==
  ASSUME Base, Next, NEW r \in Req, Finish(r),
         clock' = clock, delivered' = delivered, access' = access
  PROVE  Base'
BY IdleOK, BaseStep DEF Finish

\* A request that only moves on to another call.
LEMMA GotoStep ==
  ASSUME Base, Next, NEW r \in Req, NEW pc \in PCs, Goto(r, pc),
         clock' = clock, delivered' = delivered, access' = access,
         pc \in RotatingPCs => Rotating(r),
         pc \in {"retireFind", "retireRevoke", "reply"} =>
           req[r].pc \in {"retireFind", "retireRevoke", "reply"}
  PROVE  Base'
<1> PICK q : q = [req[r] EXCEPT !.pc = pc]
  OBVIOUS
<1>a. req[r] \in Request /\ req \in [Req -> Request] /\ Calm
  BY RequestType, StepIsCalm DEF Base, TypeOK
<1>1. q \in Request /\ q.pc = pc
      /\ q.tok = req[r].tok /\ q.sid = req[r].sid /\ q.user = req[r].user
      /\ q.rec = req[r].rec /\ q.new = req[r].new
  BY <1>a DEF Request
<1>2. req' = [req EXCEPT ![r] = q]
  BY <1>a DEF Goto
<1>3. LocalOK(req[r])
  BY DEF Base, Locals
<1>4. LocalOK(q)'
  BY <1>1, <1>3, <1>a DEF LocalOK, OwnFamily, Rotating, Calm
<1> QED BY <1>1, <1>2, <1>4, BaseStep

LEMMA ArriveKeepsBase ==
  ASSUME Base, Next, NEW r \in Req, Arrive(r)
  PROVE  Base'
<1>a. TypeOK /\ clock \in Nat /\ minted \subseteq Token /\ delivered \subseteq Token
      /\ access \in [Token -> User \cup {Nil}]
  BY DEF Base, TypeOK
<1>1. CASE \E u \in User, t \in Token, tok \in Cookie, l \in Lifetimes :
             StartSession(r, u, t, tok, l)
  <2>1. PICK u \in User, t \in Token, tok \in Cookie, l \in Lifetimes :
               StartSession(r, u, t, tok, l)
    BY <1>1
  <2> PICK q : q = [Idle EXCEPT !.pc = IF tok = Nil THEN "reply" ELSE "retireFind",
                    !.tok = tok, !.user = u, !.sid = t, !.new = t]
    OBVIOUS
  <2>2. q \in Request
    BY <1>a DEF Idle, Request, PCs, Cookie
  <2>3. LocalOK(q)'
    BY <2>1, <1>a DEF LocalOK, RotatingPCs, Idle, StartSession
  <2>4. req' = [req EXCEPT ![r] = q] /\ clock' = clock
        /\ delivered' = delivered /\ access' = access
    BY <2>1 DEF StartSession, Begin
  <2> QED BY <2>2, <2>3, <2>4, BaseStep
<1>2. CASE \E tok \in delivered : BeginRefresh(r, tok)
  <2>1. PICK tok \in delivered : BeginRefresh(r, tok)
    BY <1>2
  <2> PICK q : q = Refreshing(tok)
    OBVIOUS
  <2>2. q \in Request /\ LocalOK(q)'
    BY <1>a DEF Refreshing, Idle, Request, PCs, LocalOK, RotatingPCs
  <2>3. req' = [req EXCEPT ![r] = q] /\ clock' = clock
        /\ delivered' = delivered /\ access' = access
    BY <2>1 DEF BeginRefresh, Begin, TokensUnchanged
  <2> QED BY <2>2, <2>3, BaseStep
<1>3. CASE \E s \in SidOfAccessToken, tok \in Cookie : BeginResolve(r, s, tok)
  <2>1. PICK s \in SidOfAccessToken, tok \in Cookie : BeginResolve(r, s, tok)
    BY <1>3
  <2> PICK q : q = [Idle EXCEPT !.pc = "resolve", !.tok = tok, !.sid = s]
    OBVIOUS
  <2>2. q \in Request /\ LocalOK(q)'
    BY <1>a DEF Idle, Request, PCs, LocalOK, RotatingPCs, Cookie, SidOfAccessToken
  <2>3. req' = [req EXCEPT ![r] = q] /\ clock' = clock
        /\ delivered' = delivered /\ access' = access
    BY <2>1 DEF BeginResolve, Begin, TokensUnchanged
  <2> QED BY <2>2, <2>3, BaseStep
<1>4. CASE \E tok \in Cookie, s \in SidOfAccessToken \cup {Nil}, all \in BOOLEAN :
             BeginLogout(r, tok, s, all)
  <2>1. PICK tok \in Cookie, s \in SidOfAccessToken \cup {Nil}, all \in BOOLEAN :
               BeginLogout(r, tok, s, all)
    BY <1>4
  <2> PICK q : q = [Idle EXCEPT !.pc = IF tok = Nil THEN "logoutEnd" ELSE "logoutFind",
                    !.tok = tok, !.sid = s, !.all = all,
                    !.user = IF s = Nil THEN Nil ELSE access[s]]
    OBVIOUS
  <2>2. (IF s = Nil THEN Nil ELSE access[s]) \in User \cup {Nil}
        /\ s \in Token \cup {Nil} /\ tok \in Token \cup {Nil}
    BY <1>a DEF SidOfAccessToken, Cookie
  <2>3. q \in Request /\ LocalOK(q)'
    BY <2>2 DEF Idle, Request, PCs, LocalOK, RotatingPCs
  <2>4. req' = [req EXCEPT ![r] = q] /\ clock' = clock
        /\ delivered' = delivered /\ access' = access
    BY <2>1 DEF BeginLogout, Begin, TokensUnchanged
  <2> QED BY <2>3, <2>4, BaseStep
<1>5. CASE \E s \in SidOfAccessToken, target \in minted : BeginRevoke(r, s, target)
  <2>1. PICK s \in SidOfAccessToken, target \in minted : BeginRevoke(r, s, target)
    BY <1>5
  <2> PICK q : q = [Idle EXCEPT !.pc = "revokeFind", !.user = access[s], !.sid = target]
    OBVIOUS
  <2>2. q \in Request /\ LocalOK(q)'
    BY <1>a DEF Idle, Request, PCs, LocalOK, RotatingPCs, SidOfAccessToken
  <2>3. req' = [req EXCEPT ![r] = q] /\ clock' = clock
        /\ delivered' = delivered /\ access' = access
    BY <2>1 DEF BeginRevoke, Begin, TokensUnchanged
  <2> QED BY <2>2, <2>3, BaseStep
<1>6. CASE \E s \in SidOfAccessToken : BeginEndOthers(r, s)
  <2>1. PICK s \in SidOfAccessToken : BeginEndOthers(r, s)
    BY <1>6
  <2> PICK q : q = [Idle EXCEPT !.pc = "endOthers", !.user = access[s], !.sid = s]
    OBVIOUS
  <2>2. q \in Request /\ LocalOK(q)'
    BY <1>a DEF Idle, Request, PCs, LocalOK, RotatingPCs, SidOfAccessToken
  <2>3. req' = [req EXCEPT ![r] = q] /\ clock' = clock
        /\ delivered' = delivered /\ access' = access
    BY <2>1 DEF BeginEndOthers, Begin, TokensUnchanged
  <2> QED BY <2>2, <2>3, BaseStep
<1> QED BY <1>1, <1>2, <1>3, <1>4, <1>5, <1>6 DEF Arrive

LEMMA StepKeepsBase ==
  ASSUME Base, Next, NEW r \in Req, Step(r)
  PROVE  Base'
<1>a. /\ TypeOK /\ store \in Store /\ minted \subseteq Token /\ delivered \subseteq minted
      /\ access \in [Token -> User \cup {Nil}] /\ req \in [Req -> Request]
      /\ req[r] \in Request /\ LocalOK(req[r])
  BY RequestType DEF Base, TypeOK, Locals
<1>b. Calm
  BY StepIsCalm
<1>c. /\ {"reply", "retireFind", "retireRevoke", "revokeTarget", "logoutEnd", "claim",
          "insert", "reuse", "reread"} \subseteq PCs
      /\ \A n, at : AfterRead(n, at) \in {"claim", "insert", "reuse"}
  BY DEF PCs, AfterRead
<1> DEFINE Same == clock' = clock /\ delivered' = delivered /\ access' = access
<1>1. CASE RetireFind(r)
  <2>1. Same /\ req[r].pc = "retireFind"
    BY <1>1 DEF RetireFind, TokensUnchanged, Await
  <2>2. CASE Goto(r, "reply")
    BY <2>1, <2>2, <1>c, GotoStep DEF RotatingPCs
  <2>3. CASE ~Goto(r, "reply")
    <3>1. HasSession(req[r].tok)
      BY <1>1, <2>3 DEF RetireFind
    <3>2. store[req[r].tok] \in Doc
      BY <3>1, <1>a, RecordIsDoc DEF HasSession
    <3> PICK q : q = [req[r] EXCEPT !.pc = "retireRevoke", !.rec = store[req[r].tok]]
      OBVIOUS
    <3>3. req' = [req EXCEPT ![r] = q]
      BY <1>1, <2>3, <1>a DEF RetireFind
    <3>4. /\ q \in Request /\ q.pc = "retireRevoke" /\ q.new = req[r].new
          /\ q.sid = req[r].sid /\ q.user = req[r].user
      BY <3>2, <1>a DEF Request, PCs
    <3>5. LocalOK(q)'
      BY <2>1, <3>4, <1>a, <1>b DEF LocalOK, RotatingPCs, Calm
    <3> QED BY <2>1, <3>3, <3>4, <3>5, BaseStep
  <2> QED BY <2>2, <2>3
<1>2. CASE RetireRevoke(r)
  BY <1>2, <1>c, GotoStep DEF RetireRevoke, TokensUnchanged, Await, RotatingPCs
<1>3. CASE Reply(r)
  <2>1. req[r].new \in minted /\ minted' = minted /\ req[r].user \in User
    BY <1>3, <1>a DEF Reply, Await, LocalOK
  <2>2. /\ delivered' \subseteq minted' /\ access' \in [Token -> User \cup {Nil}]
        /\ clock' \in Nat
    BY <1>3, <2>1, <1>a DEF Reply, TypeOK
  <2>3. req' \in [Req -> Request] /\ req'[r] = Idle /\ \A p \in Req \ {r} : req'[p] = req[p]
    BY <1>3, <1>a, IdleOK DEF Reply, Finish
  <2>4. LocalOK(req[r])'
    BY <2>3, IdleOK DEF LocalOK
  <2> QED BY <2>2, <2>3, <2>4, <1>b, StoreTypeStep, StepIsCalm, LocalsStep DEF Base, TypeOK
<1>4. CASE \E fresh \in BOOLEAN : ResolveCheck(r, fresh)
  <2>1. Same
    BY <1>4 DEF ResolveCheck, TokensUnchanged
  <2>2. CASE Finish(r)
    BY <2>1, <2>2, FinishStep
  <2>3. CASE ~Finish(r)
    <3> PICK q : q = Refreshing(req[r].tok)
      OBVIOUS
    <3>1. req' = [req EXCEPT ![r] = q]
      BY <1>4, <2>3 DEF ResolveCheck
    <3>2. q \in Request /\ LocalOK(q)'
      BY <1>a DEF Refreshing, Idle, Request, PCs, LocalOK, RotatingPCs, TypeOK
    <3> QED BY <2>1, <3>1, <3>2, BaseStep
  <2> QED BY <2>2, <2>3
<1>5. CASE FindRecord(r)
  <2>1. Same
    BY <1>5 DEF FindRecord, TokensUnchanged
  <2>2. CASE Finish(r)
    BY <2>1, <2>2, FinishStep
  <2>3. CASE ~Finish(r)
    <3> DEFINE t   == req[r].tok
               doc == store[t]
               pc  == IF doc.expires_at <= req[r].now THEN "expired"
                      ELSE IF doc.family_id = Nil THEN "adopt"
                      ELSE AfterRead(req[r].now, doc.rotated_at)
    <3>1. t \in Records(store) /\ t \in Token
      BY <1>5, <2>3 DEF FindRecord, HasSession, Records
    <3>2. doc \in Doc /\ FamilyOf(store, t) \in Token /\ t \in minted
          /\ FamilyOf(store, t) \in minted
      BY <3>1, <1>a, RecordIsDoc DEF Base, Named
    <3>3. pc \in PCs
      BY <1>c DEF PCs
    <3> PICK q : q = [req[r] EXCEPT !.rec = doc, !.user = doc.user_id,
                         !.sid = FamilyOf(store, t), !.pc = pc]
      OBVIOUS
    <3>4. req' = [req EXCEPT ![r] = q]
      BY <1>5, <2>3 DEF FindRecord
    <3>5. q \in Request /\ q.rec = doc /\ q.user = doc.user_id /\ q.tok = t
          /\ q.sid = FamilyOf(store, t)
      <4>1. doc.user_id \in User
        BY <3>2 DEF Doc
      <4> HIDE DEF pc, doc
      <4> QED BY <3>2, <3>3, <4>1, <1>a DEF Request
    <3>6. q.pc = pc /\ pc \notin {"retireFind", "retireRevoke", "reply"}
      BY <1>a, <1>c DEF Request
    <3>7. q.sid = OwnFamily(q)
      BY <3>5 DEF OwnFamily, FamilyOf
    <3>8. LocalOK(q)'
      <4> HIDE DEF t, doc, pc
      <4> QED BY <3>1, <3>2, <3>5, <3>6, <3>7, <1>b DEF LocalOK, Calm, OwnFamily
    <3> QED BY <2>1, <3>4, <3>5, <3>8, BaseStep
  <2> QED BY <2>2, <2>3
<1>6. CASE RevokeOwn(r)
  BY <1>6, FinishStep DEF RevokeOwn, TokensUnchanged
<1>7. CASE AdoptFamily(r)
  <2> DEFINE pc == AfterRead(req[r].now, req[r].rec.rotated_at)
  <2>1. Same /\ Rotating(r) /\ Goto(r, pc)
    BY <1>7 DEF AdoptFamily, TokensUnchanged, Rotating, RotatingPCs, Await
  <2>2. pc \in PCs /\ pc \notin {"retireFind", "retireRevoke", "reply"}
    BY <1>c
  <2> QED BY <2>1, <2>2, GotoStep
<1>8. CASE Claim(r)
  BY <1>8, <1>c, GotoStep DEF Claim, TokensUnchanged, Rotating, RotatingPCs, Await
<1>9. CASE ReRead(r)
  <2>1. Same /\ Rotating(r)
    BY <1>9 DEF ReRead, TokensUnchanged, Rotating, RotatingPCs, Await
  <2>2. CASE Finish(r)
    BY <2>1, <2>2, FinishStep
  <2>3. CASE ~Finish(r)
    <3> DEFINE pc == AfterRead(req[r].now, store[req[r].tok].rotated_at)
    <3>1. Goto(r, pc)
      BY <1>9, <2>3 DEF ReRead
    <3>2. pc \in PCs /\ pc \notin {"retireFind", "retireRevoke", "reply"}
      BY <1>c
    <3> QED BY <2>1, <3>1, <3>2, GotoStep
  <2> QED BY <2>2, <2>3
<1>10. CASE \E t \in Token : InsertSuccessor(r, t)
  <2>1. PICK t \in Token : InsertSuccessor(r, t)
    BY <1>10
  <2>2. Same /\ req[r].pc = "insert" /\ t \in minted'
    BY <2>1 DEF InsertSuccessor, Await
  <2>3. req[r].rec \in Doc /\ req[r].sid \in minted /\ req[r].user \in User
    BY <2>2, <1>a DEF LocalOK, RotatingPCs, Doc
  <2> PICK q : q = [req[r] EXCEPT !.pc = "reply", !.new = t]
    OBVIOUS
  <2>4. req' = [req EXCEPT ![r] = q]
    BY <2>1, <1>a DEF InsertSuccessor
  <2>5. /\ q \in Request /\ q.pc = "reply" /\ q.new = t
        /\ q.sid = req[r].sid /\ q.user = req[r].user
    BY <1>a DEF Request, PCs
  <2>6. LocalOK(q)'
    BY <2>2, <2>3, <2>5, <1>b DEF LocalOK, RotatingPCs, Calm
  <2> QED BY <2>2, <2>4, <2>5, <2>6, BaseStep
<1>11. CASE LogoutFind(r)
  <2>1. Same /\ req[r].pc = "logoutFind"
    BY <1>11 DEF LogoutFind, TokensUnchanged, Await
  <2>2. CASE Finish(r)
    BY <2>1, <2>2, FinishStep
  <2>3. CASE Goto(r, "logoutEnd")
    BY <2>1, <2>3, <1>c, GotoStep DEF RotatingPCs
  <2>4. CASE ~Finish(r) /\ ~Goto(r, "logoutEnd")
    <3>1. req[r].tok \in Records(store)
      BY <1>11, <2>4 DEF LogoutFind
    <3>2. store[req[r].tok].user_id \in User /\ FamilyOf(store, req[r].tok) \in Token
      BY <3>1, <1>a, RecordIsDoc DEF Doc
    <3> PICK q : q = [req[r] EXCEPT !.pc = "logoutEnd",
                        !.user = store[req[r].tok].user_id,
                        !.sid = FamilyOf(store, req[r].tok)]
      OBVIOUS
    <3>3. req' = [req EXCEPT ![r] = q]
      BY <1>11, <2>4 DEF LogoutFind
    <3>4. q \in Request /\ q.pc = "logoutEnd"
      BY <3>2, <1>a DEF Request, PCs
    <3>5. LocalOK(q)'
      BY <3>4 DEF LocalOK, RotatingPCs
    <3> QED BY <2>1, <3>3, <3>4, <3>5, BaseStep
  <2> QED BY <2>2, <2>3, <2>4
<1>12. CASE LogoutEnd(r)
  BY <1>12, FinishStep DEF LogoutEnd, TokensUnchanged
<1>13. CASE RevokeFind(r)
  <2>1. Same /\ req[r].pc = "revokeFind"
    BY <1>13 DEF RevokeFind, TokensUnchanged, Await
  <2> QED BY <1>13, <2>1, <1>c, GotoStep, FinishStep DEF RevokeFind, RotatingPCs
<1>14. CASE RevokeTarget(r)
  BY <1>14, FinishStep DEF RevokeTarget, TokensUnchanged
<1>15. CASE EndOthers(r)
  <2> DEFINE gone == UserRecordsBut(store, req[r].user, req[r].sid)
             named == {FamilyOf(store, t) : t \in gone}
  <2>1. Same
    BY <1>15 DEF EndOthers, TokensUnchanged
  <2>2. gone \subseteq Token /\ Cardinality(gone) \in Nat
    BY TokenAssumption, FS_Subset, FS_CardinalityType
       DEF UserRecordsBut, UserRecords, Records
  <2>3. named \subseteq Token
    BY <1>a, RecordIsDoc DEF UserRecordsBut, UserRecords
  <2> PICK q : q = [req[r] EXCEPT !.pc = "counted", !.count = Cardinality(gone),
                                  !.named = named]
    OBVIOUS
  <2>4. req' = [req EXCEPT ![r] = q]
    BY <1>15, <1>a DEF EndOthers
  <2>5. q \in Request /\ q.pc = "counted"
    BY <2>2, <2>3, <1>a DEF Request, PCs
  <2>6. LocalOK(q)'
    BY <2>5 DEF LocalOK, RotatingPCs
  <2> QED BY <2>1, <2>4, <2>5, <2>6, BaseStep
<1>16. CASE ReplyCount(r)
  BY <1>16, FinishStep DEF ReplyCount, TokensUnchanged
<1> QED BY <1>1, <1>2, <1>3, <1>4, <1>5, <1>6, <1>7, <1>8, <1>9, <1>10, <1>11,
           <1>12, <1>13, <1>14, <1>15, <1>16 DEF Step

LEMMA InitBase == Init => Base
<1> SUFFICES ASSUME Init PROVE Base
  OBVIOUS
<1>1. store \in Store
  BY BootAssumption DEF Init
<1>2. minted \subseteq Token /\ Named
  BY <1>1, RecordIsDoc DEF Init, Named, Records
<1>3. Idle \in Request /\ LocalOK(Idle)
  BY DEF Idle, Request, PCs, LocalOK, RotatingPCs
<1>4. TypeOK
  BY <1>1, <1>2, <1>3 DEF Init, TypeOK
<1>5. Locals
  BY <1>3 DEF Init, Locals
<1> QED BY <1>2, <1>4, <1>5 DEF Base

LEMMA NextBase == Base /\ [Next]_vars => Base'
<1> SUFFICES ASSUME Base, [Next]_vars PROVE Base'
  OBVIOUS
<1>1. CASE UNCHANGED vars
  BY <1>1 DEF vars, Base, TypeOK, Named, Locals, LocalOK, Records, FamilyOf
<1>2. CASE Next /\ req' = req /\ delivered' = delivered /\ access' = access
           /\ clock' \in Nat
  <2>1. TypeOK'
    BY <1>2, StoreTypeStep, StepIsCalm DEF Base, TypeOK, Calm
  <2>2. Locals'
    <3>1. ASSUME NEW p \in Req PROVE LocalOK(req[p])'
      BY <1>2, StepIsCalm DEF Base, Locals, LocalOK, Calm
    <3> QED BY <3>1 DEF Locals
  <2> QED BY <1>2, <2>1, <2>2, StepIsCalm DEF Base
<1>3. ASSUME NEW r \in Req, Next, Arrive(r) PROVE Base'
  BY <1>3, ArriveKeepsBase
<1>4. ASSUME NEW r \in Req, Next, Step(r) PROVE Base'
  BY <1>4, StepKeepsBase
<1>5. ASSUME NEW r \in Req, Next, Abort(r) PROVE Base'
  BY <1>5, FinishStep DEF Abort, TokensUnchanged
<1>6. clock \in Nat
  BY DEF Base, TypeOK
<1>7. CASE Next /\ Tick
  BY <1>2, <1>6, <1>7 DEF Tick, TokensUnchanged
<1>8. CASE Next /\ Cleanup
  BY <1>2, <1>6, <1>8 DEF Cleanup, TokensUnchanged
<1>9. ASSUME NEW u \in User, Next, ResetSignsOut(u) PROVE Base'
  BY <1>2, <1>6, <1>9 DEF ResetSignsOut, TokensUnchanged
<1>10. ASSUME NEW t \in Token, Next, TTLExpire(t) PROVE Base'
  BY <1>2, <1>6, <1>10 DEF TTLExpire, TokensUnchanged
<1> QED BY <1>1, <1>3, <1>4, <1>5, <1>7, <1>8, <1>9, <1>10 DEF Next

\* The inductive invariant: types, named tokens, and handlers whose locals agree
\* with the collection, whatever the interleaving of the handlers in
\* auth_service.py.
THEOREM BaseInvariant == Spec => []Base
BY InitBase, NextBase, PTL DEF Spec

\* Collection, handlers and browsers always hold values of their types; what a
\* response carries was generated before.
THEOREM TypeCorrect == Spec => []TypeOK
<1>1. Base => TypeOK
  BY DEF Base
<1> QED BY BaseInvariant, <1>1, PTL
-----------------------------------------------------------------------------
(* Records are written once *)

LEMMA StepKeepsRecords ==
  ASSUME Base, [Next]_vars
  PROVE  RecordsKept
<1>a. store \in Store /\ minted \subseteq Token /\ Named
  BY DEF Base, TypeOK
<1>1. CASE store' = store
  BY <1>1 DEF RecordsKept, SameSession
<1>2. CASE Inserts
  <2>1. PICK t \in Token \ minted, d \in Doc : store' = InsertRecord(store, t, d)
    BY <1>2 DEF Inserts
  <2>2. \A x \in Records(store) : store'[x] = store[x] /\ FamilyOf(store', x) = FamilyOf(store, x)
    BY <2>1, <1>a, InsertFacts DEF Named, Records
  <2> QED BY <2>2 DEF RecordsKept, SameSession
<1>3. CASE Deletes
  <2>1. PICK gone \in SUBSET Token : store' = Without(store, gone)
    BY <1>3 DEF Deletes
  <2> QED BY <2>1, <1>a, WithoutFacts DEF RecordsKept, SameSession
<1>4. CASE Claims
  <2>1. PICK r \in Req : store' = ClaimRotation(store, req[r].tok, req[r].now)
    BY <1>4 DEF Claims
  <2>2. req[r].now \in Nat
    BY RequestType DEF Base
  <2> QED BY <2>1, <2>2, <1>a, ClaimFacts DEF RecordsKept
<1>5. CASE Adopts
  <2>1. PICK t \in Token : store' = SetFamily(store, t, t)
    BY <1>5 DEF Adopts
  <2> QED BY <2>1, <1>a, AdoptFacts DEF RecordsKept
<1> QED BY <1>1, <1>2, <1>3, <1>4, <1>5, StepWrites DEF Write, vars

\* Rotation is a one-way door: no interleaving of refreshes un-rotates a token
\* or dates its rotation anew, moves a record to another session or changes
\* the user, deadline or start it carries.
THEOREM RecordsWrittenOnce == Spec => WriteOnce
<1>1. Base /\ [Next]_vars => [RecordsKept]_vars
  BY StepKeepsRecords
<1> QED BY BaseInvariant, <1>1, PTL DEF Spec, WriteOnce
-----------------------------------------------------------------------------
(* A session that is over stays over *)

Logins(r) == \E u \in User, t \in Token, tok \in Cookie, l \in Lifetimes :
               StartSession(r, u, t, tok, l)

Successors(r) == \E t \in Token : InsertSuccessor(r, t)

\* A step moves one request at most.
LEMMA OnlyMover ==
  ASSUME Base, Next, NEW r \in Req, req'[r] # req[r]
  PROVE  Arrive(r) \/ Step(r) \/ Abort(r)
<1>a. req \in [Req -> Request] /\ req[r] \in Request
  BY RequestType DEF Base, TypeOK
<1>b. ASSUME NEW p \in Req, NEW q, req' = [req EXCEPT ![p] = q] PROVE p = r
  BY <1>b, <1>a
<1>c. ASSUME NEW p \in Req, Arrive(p) PROVE p = r
  BY <1>b, <1>c DEF Arrive, StartSession, BeginRefresh, BeginResolve, BeginLogout,
     BeginRevoke, BeginEndOthers, Begin
<1>d. ASSUME NEW p \in Req, Step(p) \/ Abort(p) PROVE p = r
  <2>1. ASSUME NEW pc, Goto(p, pc) PROVE p = r
    BY <1>a, <2>1 DEF Goto
  <2>2. ASSUME Finish(p) PROVE p = r
    BY <1>b, <2>2 DEF Finish
  <2>3. CASE RetireFind(p) \/ FindRecord(p) \/ LogoutFind(p) \/ EndOthers(p)
    BY <1>a, <2>1, <2>2, <2>3 DEF RetireFind, FindRecord, LogoutFind, EndOthers
  <2>4. CASE RetireRevoke(p) \/ Reply(p) \/ RevokeOwn(p) \/ AdoptFamily(p) \/ Claim(p)
             \/ LogoutEnd(p) \/ RevokeFind(p) \/ RevokeTarget(p) \/ ReplyCount(p)
             \/ Abort(p)
    BY <2>1, <2>2, <2>4 DEF RetireRevoke, Reply, RevokeOwn, AdoptFamily, Claim,
       LogoutEnd, RevokeFind, RevokeTarget, ReplyCount, Abort
  <2>5. CASE ReRead(p) \/ \E fresh \in BOOLEAN : ResolveCheck(p, fresh)
    BY <1>b, <2>1, <2>2, <2>5 DEF ReRead, ResolveCheck
  <2>6. CASE \E t \in Token : InsertSuccessor(p, t)
    BY <1>a, <2>6 DEF InsertSuccessor
  <2> QED BY <1>d, <2>3, <2>4, <2>5, <2>6 DEF Step
<1> QED BY <1>c, <1>d DEF Next, ResetSignsOut, Tick, Cleanup, TTLExpire

\* The calls after which a handler holds a copy of a record or a session to
\* answer with.
LEMMA SpeakingSteps ==
  ASSUME Base, Next, NEW r \in Req, req'[r] # req[r], Speaking(r)'
  PROVE  \/ Logins(r) \/ RetireFind(r) \/ RetireRevoke(r)
         \/ FindRecord(r) \/ AdoptFamily(r) \/ Claim(r) \/ ReRead(r) \/ Successors(r)
<1> USE DEF SpeakingPCs
<1>a. req \in [Req -> Request] /\ req[r] \in Request
  BY RequestType DEF Base, TypeOK
<1>1. ASSUME Arrive(r), ~Logins(r) PROVE FALSE
  <2>1. ASSUME NEW op, NEW q, Begin(r, op, q), q.pc \notin SpeakingPCs PROVE FALSE
    BY <1>a, <2>1 DEF Begin, Speaking
  <2>2. CASE \E tok \in delivered : BeginRefresh(r, tok)
    BY <2>1, <2>2 DEF BeginRefresh, Refreshing, Idle, RotatingPCs
  <2>3. CASE \E s \in SidOfAccessToken, tok \in Cookie : BeginResolve(r, s, tok)
    BY <2>1, <2>3 DEF BeginResolve, Idle, RotatingPCs
  <2>4. CASE \E tok \in Cookie, s \in SidOfAccessToken \cup {Nil}, all \in BOOLEAN :
               BeginLogout(r, tok, s, all)
    BY <1>a, <2>4 DEF BeginLogout, Begin, Idle, Speaking, RotatingPCs
  <2>5. CASE \/ \E s \in SidOfAccessToken, target \in minted : BeginRevoke(r, s, target)
             \/ \E s \in SidOfAccessToken : BeginEndOthers(r, s)
    BY <2>1, <2>5 DEF BeginRevoke, BeginEndOthers, Idle, RotatingPCs
  <2> QED BY <1>1, <2>2, <2>3, <2>4, <2>5 DEF Arrive, Logins
<1>2. ASSUME Finish(r) PROVE FALSE
  BY <1>2, <1>a DEF Finish, Idle, Speaking, RotatingPCs
<1>3. ASSUME NEW pc \in {"logoutEnd", "revokeTarget"}, Goto(r, pc) PROVE FALSE
  BY <1>3, <1>a DEF Goto, Speaking, RotatingPCs, Request
<1>5. ASSUME \E fresh \in BOOLEAN : ResolveCheck(r, fresh) PROVE FALSE
  <2>1. \A tok : Refreshing(tok).pc = "find"
    BY DEF Refreshing, Idle
  <2>2. PICK tok : req' = [req EXCEPT ![r] = Refreshing(tok)]
    BY <1>2, <1>5 DEF ResolveCheck
  <2> QED BY <1>a, <2>1, <2>2 DEF Speaking, RotatingPCs
<1>7. ASSUME LogoutFind(r) \/ LogoutEnd(r) \/ RevokeFind(r) \/ RevokeTarget(r)
             \/ ReplyCount(r) \/ Reply(r) \/ RevokeOwn(r)
      PROVE FALSE
  <2>1. ASSUME LogoutFind(r) PROVE FALSE
    <3>1. ASSUME req' = [req EXCEPT ![r] =
                   [req[r] EXCEPT !.pc = "logoutEnd", !.user = store[req[r].tok].user_id,
                                  !.sid = FamilyOf(store, req[r].tok)]]
          PROVE FALSE
      BY <3>1, <1>a DEF Speaking, RotatingPCs, Request
    <3> QED BY <1>2, <1>3, <2>1, <3>1 DEF LogoutFind
  <2> QED BY <1>2, <1>3, <1>7, <2>1 DEF LogoutEnd, RevokeFind, RevokeTarget,
             ReplyCount, Reply, RevokeOwn
<1>8. ASSUME EndOthers(r) PROVE FALSE
  BY <1>8, <1>a DEF EndOthers, Speaking, RotatingPCs, Request
<1>9. Logins(r) \/ Step(r)
  BY OnlyMover, <1>1, <1>2 DEF Abort
<1> QED BY <1>5, <1>7, <1>8, <1>9 DEF Step, Successors

\* Only four of them put it among the rotating ones.
LEMMA RotationSteps ==
  ASSUME Base, Next, NEW r \in Req, req'[r] # req[r], Rotating(r)'
  PROVE  FindRecord(r) \/ AdoptFamily(r) \/ Claim(r) \/ ReRead(r)
<1>a. req \in [Req -> Request] /\ req[r] \in Request
  BY RequestType DEF Base, TypeOK
<1>1. Speaking(r)'
  BY DEF Speaking, SpeakingPCs, Rotating
<1>2. ASSUME NEW pc \in {"reply"}, Goto(r, pc) PROVE FALSE
  BY <1>2, <1>a DEF Goto, Rotating, RotatingPCs, Request
<1>3. ASSUME Logins(r) PROVE FALSE
  BY <1>3, <1>a DEF Logins, StartSession, Begin, Idle, Rotating, RotatingPCs
<1>4. ASSUME RetireFind(r) PROVE FALSE
  <2>1. ASSUME req' = [req EXCEPT ![r].pc = "retireRevoke", ![r].rec = store[req[r].tok]]
        PROVE FALSE
    BY <2>1, <1>a DEF Rotating, RotatingPCs, Request
  <2> QED BY <1>2, <1>4, <2>1 DEF RetireFind
<1>5. ASSUME RetireRevoke(r) PROVE FALSE
  BY <1>2, <1>5 DEF RetireRevoke
<1>6. ASSUME Successors(r) PROVE FALSE
  BY <1>6, <1>a DEF Successors, InsertSuccessor, Rotating, RotatingPCs, Request
<1> QED BY <1>1, <1>3, <1>4, <1>5, <1>6, SpeakingSteps

\* What a handler about to insert, or about to adopt a record it saw rotated,
\* must have found: a record of that session, still stored.
LEMMA InsertComesFromRecord ==
  ASSUME Base, Next, NEW r \in Req, NEW s \in Token,
         MayInsert(r, s)', ~MayInsert(r, s)
  PROVE  Family(store, s) # {}
<1>a. /\ req \in [Req -> Request] /\ req[r] \in Request /\ LocalOK(req[r])
      /\ store \in Store
  BY RequestType DEF Base, TypeOK, Locals
<1>1. req'[r] # req[r] /\ Rotating(r)' /\ req'[r].sid = s
  BY DEF MayInsert, Await, Rotating, RotatingPCs
<1>2. CASE FindRecord(r)
  <2>1. ~Finish(r)
    BY <1>1, <1>2, <1>a DEF Finish, Idle, Rotating, RotatingPCs
  <2>2. HasSession(req[r].tok) /\ req'[r].sid = FamilyOf(store, req[r].tok)
    BY <1>2, <2>1, <1>a DEF FindRecord, Request
  <2> QED BY <1>1, <2>2 DEF HasSession, Family
<1>3. CASE AdoptFamily(r)
  <2>1. req[r].rec.rotated_at = Nil
    BY <1>1, <1>3, <1>a DEF AdoptFamily, Goto, MayInsert, Await, Request
  <2>2. req'[r].pc = "claim"
    BY <1>3, <2>1, <1>a DEF AdoptFamily, Goto, AfterRead, Request
  <2> QED BY <2>2 DEF MayInsert, Await
<1>4. CASE Claim(r)
  <2>1. req[r].pc = "claim" /\ req'[r].sid = req[r].sid
    BY <1>4, <1>a DEF Claim, Await, Goto, Request
  <2>2. CanClaim(store, req[r].tok)
    BY <1>4, <1>a DEF Claim, Goto, MayInsert, Await, Request
  <2> QED BY <1>1, <2>1, <2>2, <1>a DEF CanClaim, LocalOK, RotatingPCs, Family
<1>5. CASE ReRead(r)
  <2>1. req[r].pc = "reread"
    BY <1>5 DEF ReRead, Await
  <2>2. ~Finish(r)
    BY <1>1, <1>a DEF Finish, Idle, Rotating, RotatingPCs
  <2>3. IsRotated(req[r].tok) /\ req'[r].sid = req[r].sid
    BY <1>5, <2>2, <1>a DEF ReRead, Goto, Request
  <2> QED BY <1>1, <2>1, <2>3, <1>a DEF IsRotated, LocalOK, RotatingPCs, Family
<1> QED BY <1>1, <1>2, <1>3, <1>4, <1>5, RotationSteps

LEMMA DeadStep ==
  ASSUME Base, [Next]_vars, NEW s \in Token, Dead(s)
  PROVE  Dead(s)'
<1>a. store \in Store /\ minted \subseteq Token /\ s \in minted /\ Family(store, s) = {}
  BY DEF Base, TypeOK, Dead
<1>1. CASE UNCHANGED vars
  BY <1>1 DEF vars, Dead, Family, Records, FamilyOf, MayInsert, Await
<1>2. CASE Next
  <2>1. s \in minted'
    BY <1>a, StepIsCalm DEF Calm
  <2>2. ASSUME NEW t \in Family(store', s) PROVE FALSE
    <3>1. t \in Records(store') /\ FamilyOf(store', t) = s /\ t \in minted'
      BY StepIsCalm DEF Family, Named
    <3>2. t \notin minted
      BY <3>1, <1>a, StepIsCalm DEF Calm, Family
    <3>3. Inserts
      BY <1>2, <3>1, <3>2, StepWrites DEF Write
    <3>4. PICK x \in Token \ minted, d \in Doc :
            /\ store' = InsertRecord(store, x, d)
            /\ minted' = minted \cup {x}
            /\ d.family_id \in minted'
            /\ d.family_id # x =>
                 \E r \in Req : Await(r, "insert") /\ req[r].sid = d.family_id
      BY <3>3 DEF Inserts
    <3>5. t = x /\ d.family_id # Nil
      BY <3>1, <3>2, <3>4, <1>a, NilAssumption
    <3>6. d.family_id = s /\ s # x
      BY <3>1, <3>4, <3>5, <1>a, InsertFacts
    <3> QED BY <3>4, <3>6 DEF Dead, MayInsert
  <2>3. ASSUME NEW r \in Req PROVE ~MayInsert(r, s)'
    BY <1>2, <1>a, InsertComesFromRecord DEF Dead
  <2> QED BY <2>1, <2>2, <2>3 DEF Dead, Family
<1> QED BY <1>1, <1>2

\* However logout, revocation, replay detection, clean-up and refreshes
\* interleave, a session without records comes back only through a refresh
\* that claimed its token (or passed the grace check) before they were deleted.
THEOREM EndedSessionsStayEnded == Spec => DeadStaysDead
<1>1. Base /\ [Next]_vars => [\A s \in Token : Dead(s) => Dead(s)']_vars
  BY DeadStep
<1> QED BY BaseInvariant, <1>1, PTL DEF Spec, DeadStaysDead
-----------------------------------------------------------------------------
(* Successors only inside the grace window *)

GraceInv == SnapshotRotation /\ SuccessorInGrace

LEMMA GraceStep ==
  ASSUME Base, GraceInv, [Next]_vars
  PROVE  GraceInv'
<1>a. /\ req \in [Req -> Request] /\ store \in Store /\ minted \subseteq Token
      /\ Calm /\ RecordsKept
  BY StepIsCalm, StepKeepsRecords DEF Base, TypeOK
<1> DEFINE Fine(r) ==
      LET q == req[r] IN
      q.tok \in Records(store) =>
        /\ Rotating(r) /\ q.rec.rotated_at # Nil =>
             store[q.tok].rotated_at = q.rec.rotated_at
        /\ Await(r, "insert") => /\ store[q.tok].rotated_at # Nil
                                 /\ InGrace(q.now, store[q.tok].rotated_at)
<1>1. ASSUME NEW r \in Req PROVE Fine(r)
  BY DEF GraceInv, SnapshotRotation, SuccessorInGrace
<1>2. SUFFICES ASSUME NEW r \in Req PROVE Fine(r)'
  BY DEF GraceInv, SnapshotRotation, SuccessorInGrace
<1>3. SUFFICES ASSUME Rotating(r)' PROVE Fine(r)'
  BY DEF Rotating, RotatingPCs, Await
<1>b. req[r] \in Request /\ LocalOK(req[r])
  BY <1>a DEF Base, Locals
<1>4. ASSUME Rotating(r), req'[r].tok = req[r].tok, req'[r].rec = req[r].rec,
             req'[r].now = req[r].now, Await(r, "insert")' => Await(r, "insert")
      PROVE  Fine(r)'
  BY <1>1, <1>4, <1>a, <1>b DEF Rotating, LocalOK, Calm, RecordsKept, InGrace, Await
<1>5. CASE req'[r] = req[r]
  BY <1>3, <1>4, <1>5 DEF Rotating, Await
<1>6. CASE req'[r] # req[r] /\ FindRecord(r)
  <2>1. ~Finish(r)
    BY <1>3, <1>6, <1>a DEF Finish, Idle, Rotating, RotatingPCs
  <2>2. /\ store' = store /\ req'[r].tok = req[r].tok /\ req'[r].now = req[r].now
        /\ req'[r].rec = store[req[r].tok]
        /\ Await(r, "insert")' =>
             AfterRead(req[r].now, store[req[r].tok].rotated_at) = "insert"
    <3>1. req'[r] = [req[r] EXCEPT
                       !.rec = store[req[r].tok], !.user = store[req[r].tok].user_id,
                       !.sid = FamilyOf(store, req[r].tok),
                       !.pc = IF store[req[r].tok].expires_at <= req[r].now THEN "expired"
                              ELSE IF store[req[r].tok].family_id = Nil THEN "adopt"
                              ELSE AfterRead(req[r].now, store[req[r].tok].rotated_at)]
      BY <1>6, <2>1, <1>a DEF FindRecord
    <3>2. store' = store
      BY <1>6 DEF FindRecord
    <3> QED BY <3>1, <3>2, <1>b DEF Await, Request
  <2> QED BY <2>2 DEF AfterRead
<1>7. CASE req'[r] # req[r] /\ AdoptFamily(r)
  <2>1. /\ req'[r].tok = req[r].tok /\ req'[r].now = req[r].now
        /\ req'[r].rec = req[r].rec /\ req[r].pc = "adopt" /\ Rotating(r)
        /\ req'[r].pc = AfterRead(req[r].now, req[r].rec.rotated_at)
    BY <1>7, <1>a, <1>b DEF AdoptFamily, Goto, Await, Request, Rotating, RotatingPCs
  <2>2. CASE Await(r, "insert")'
    <3>1. req[r].rec.rotated_at # Nil /\ InGrace(req[r].now, req[r].rec.rotated_at)
      BY <2>1, <2>2 DEF AfterRead, Await
    <3> QED BY <1>1, <2>1, <3>1, <1>a, <1>b DEF Rotating, LocalOK, Calm, RecordsKept
  <2> QED BY <1>4, <2>1, <2>2
<1>8. CASE req'[r] # req[r] /\ Claim(r)
  <2>1. /\ req'[r].tok = req[r].tok /\ req'[r].now = req[r].now /\ req[r].now \in Nat
        /\ req'[r].rec = req[r].rec /\ req[r].pc = "claim" /\ Rotating(r)
        /\ Await(r, "insert")' => CanClaim(store, req[r].tok)
        /\ store' = ClaimRotation(store, req[r].tok, req[r].now)
    BY <1>8, <1>a, <1>b DEF Claim, Goto, Await, Request, Rotating, RotatingPCs
  <2>2. CASE Await(r, "insert")'
    <3>1. store'[req[r].tok].rotated_at = req[r].now
      BY <2>1, <2>2, <1>a, ClaimFacts
    <3>2. req[r].now # Nil /\ InGrace(req[r].now, req[r].now)
      BY <2>1, NilAssumption, GraceAssumption DEF InGrace
    <3>3. req[r].tok \in Records(store) /\ store[req[r].tok].rotated_at = Nil
      BY <2>1, <2>2 DEF CanClaim
    <3>4. req[r].rec.rotated_at = Nil
      BY <1>1, <2>1, <3>3
    <3> QED BY <2>1, <3>1, <3>2, <3>4
  <2> QED BY <1>4, <2>1, <2>2
<1>9. CASE req'[r] # req[r] /\ ReRead(r)
  <2>1. ~Finish(r)
    BY <1>3, <1>9, <1>a DEF Finish, Idle, Rotating, RotatingPCs
  <2>2. /\ store' = store /\ req'[r].tok = req[r].tok /\ req'[r].now = req[r].now
        /\ req'[r].rec = req[r].rec /\ Rotating(r)
        /\ req'[r].pc = AfterRead(req[r].now, store[req[r].tok].rotated_at)
    BY <1>9, <2>1, <1>a, <1>b DEF ReRead, Await, Goto, Request, Rotating, RotatingPCs
  <2> QED BY <1>1, <2>2 DEF AfterRead, Await
<1>10. CASE UNCHANGED vars
  BY <1>5, <1>10 DEF vars
<1> QED BY <1>3, <1>5, <1>6, <1>7, <1>8, <1>9, <1>10, RotationSteps

\* A refresh issues a successor only for a token that was current when it won
\* the claim, or that another request had rotated at most Grace before this one
\* began: an older token never yields a new one, however requests interleave.
THEOREM SuccessorsOnlyInGrace == Spec => []SuccessorInGrace
<1>1. Init => GraceInv
  BY DEF Init, GraceInv, SnapshotRotation, SuccessorInGrace, Rotating, RotatingPCs,
         Await, Idle
<1>2. GraceInv => SuccessorInGrace
  BY DEF GraceInv
<1> QED BY <1>1, <1>2, BaseInvariant, GraceStep, PTL DEF Spec
-----------------------------------------------------------------------------
(* One login, one session, one owner *)

OwnersInv == OneSession /\ SpokenFor

\* Tokens are generated only by logins and successors, access tokens are handed
\* out only by replies.
LEMMA OnlyIssuers ==
  ASSUME Base, Next
  PROVE  /\ minted' = minted \/ \E r \in Req : Logins(r) \/ Successors(r)
         /\ access' = access \/ \E r \in Req : Reply(r)
<1>1. ASSUME NEW r \in Req, Arrive(r)
      PROVE  access' = access /\ (Logins(r) \/ minted' = minted)
  BY <1>1 DEF Arrive, Logins, StartSession, BeginRefresh, BeginResolve, BeginLogout,
     BeginRevoke, BeginEndOthers, TokensUnchanged
<1>2. ASSUME NEW r \in Req, Step(r) \/ Abort(r)
      PROVE  (access' = access \/ Reply(r)) /\ (Successors(r) \/ minted' = minted)
  BY <1>2 DEF Step, Abort, RetireFind, RetireRevoke, Reply, ResolveCheck, FindRecord,
     RevokeOwn, AdoptFamily, Claim, ReRead, InsertSuccessor, Successors, LogoutFind,
     LogoutEnd, RevokeFind, RevokeTarget, EndOthers, ReplyCount, TokensUnchanged
<1> QED
  BY <1>1, <1>2 DEF Next, Tick, Cleanup, ResetSignsOut, TTLExpire, TokensUnchanged

\* A request that asserts nothing it did not assert before the step.
NothingNew(r) ==
  Speaking(r)' => /\ Speaking(r)
                  /\ req'[r].sid = req[r].sid /\ req'[r].user = req[r].user
                  /\ Rotating(r)' => Rotating(r) /\ req'[r].rec = req[r].rec

LEMMA MostAssertNothingNew ==
  ASSUME Base, Next, NEW r \in Req, ~Logins(r), ~FindRecord(r)
  PROVE  NothingNew(r)
<1>a. req \in [Req -> Request] /\ req[r] \in Request
  BY RequestType DEF Base, TypeOK
<1>1. CASE req'[r] = req[r]
  BY <1>1 DEF NothingNew, Speaking, Rotating
<1>2. CASE req'[r] # req[r] /\ Speaking(r)'
  <2> USE DEF NothingNew, Speaking, SpeakingPCs, Rotating, RotatingPCs
  <2>1. ASSUME NEW pc, Goto(r, pc), Speaking(r), pc \in RotatingPCs => Rotating(r)
        PROVE  NothingNew(r)
    BY <2>1, <1>a DEF Goto, Request
  <2>2. CASE RetireFind(r)
    <3>1. ASSUME req' = [req EXCEPT ![r].pc = "retireRevoke", ![r].rec = store[req[r].tok]]
          PROVE  NothingNew(r)
      BY <3>1, <2>2, <1>a DEF Request, RetireFind, Await
    <3> QED BY <2>1, <2>2, <3>1 DEF RetireFind, Await
  <2>3. CASE RetireRevoke(r)
    BY <2>1, <2>3 DEF RetireRevoke, Await
  <2>4. CASE AdoptFamily(r) \/ Claim(r)
    BY <2>1, <2>4 DEF AdoptFamily, Claim, Await
  <2>5. CASE ReRead(r)
    <3>1. ~Finish(r)
      BY <1>2, <1>a DEF Finish, Idle
    <3> QED BY <2>1, <2>5, <3>1 DEF ReRead, Await
  <2>6. CASE Successors(r)
    BY <2>6, <1>a DEF Successors, InsertSuccessor, Await, Request
  <2> QED BY <1>2, <2>2, <2>3, <2>4, <2>5, <2>6, SpeakingSteps
<1> QED BY <1>1, <1>2 DEF NothingNew

\* A step that stores no new record, hands out no access token and in which no
\* request asserts anything new keeps everyone in agreement.
LEMMA QuietStep ==
  ASSUME Base, OwnersInv, Next, minted' = minted, access' = access,
         \A r \in Req : NothingNew(r)
  PROVE  OwnersInv'
<1>1. \A t \in Records(store') :
         /\ t \in Records(store) /\ FamilyOf(store', t) = FamilyOf(store, t)
         /\ SameSession(store[t], store'[t])
  BY StepIsCalm, StepKeepsRecords DEF Calm, Named, RecordsKept
<1>2. \A s : Family(store', s) \subseteq Family(store, s)
  BY <1>1 DEF Family
<1>3. OneSession'
  <2>1. \A t, x \in Records(store') :
           FamilyOf(store', t) = FamilyOf(store', x) => SameSession(store'[t], store'[x])
    BY <1>1 DEF OwnersInv, OneSession, SameSession
  <2>2. ASSUME NEW r \in Req, Rotating(r)'
        PROVE  /\ \A t \in Family(store', req'[r].sid) : SameSession(req'[r].rec, store'[t])
               /\ \A p \in Req : Rotating(p)' /\ req'[p].sid = req'[r].sid
                                   => SameSession(req'[r].rec, req'[p].rec)
               /\ access'[req'[r].sid] \in {Nil, req'[r].rec.user_id}
    <3>1. ASSUME NEW p \in Req, Rotating(p)'
          PROVE  Rotating(p) /\ req'[p].sid = req[p].sid /\ req'[p].rec = req[p].rec
      BY <3>1 DEF NothingNew, Rotating, Speaking, SpeakingPCs
    <3> QED BY <2>2, <3>1, <1>1, <1>2 DEF OwnersInv, OneSession, SameSession, Family
  <2>3. \A t \in Records(store') : access'[FamilyOf(store', t)] \in {Nil, store'[t].user_id}
    BY <1>1 DEF OwnersInv, OneSession, SameSession
  <2> QED BY <2>1, <2>2, <2>3 DEF OneSession, Rotating
<1>4. SpokenFor'
  <2>1. \A s \in Token : access'[s] # Nil => s \in minted'
    BY DEF OwnersInv, SpokenFor
  <2>2. ASSUME NEW r \in Req, Speaking(r)'
        PROVE  /\ \A t \in Family(store', req'[r].sid) : store'[t].user_id = req'[r].user
               /\ \A p \in Req : Speaking(p)' /\ req'[p].sid = req'[r].sid
                                   => req'[p].user = req'[r].user
               /\ access'[req'[r].sid] \in {Nil, req'[r].user}
    BY <2>2, <1>1, <1>2 DEF OwnersInv, SpokenFor, SameSession, NothingNew, Family
  <2> QED BY <2>1, <2>2 DEF SpokenFor, Speaking
<1> QED BY <1>3, <1>4 DEF OwnersInv

LEMMA SpeakingLocals ==
  ASSUME Base, NEW r \in Req, Speaking(r)
  PROVE  /\ req[r].sid \in minted /\ req[r].sid \in Token
         /\ req[r].user \in User
         /\ Rotating(r) => req[r].rec \in Doc /\ req[r].rec.user_id = req[r].user
BY DEF Base, TypeOK, Locals, LocalOK, Speaking, SpeakingPCs, Rotating, RotatingPCs, Doc

LEMMA LoginStep ==
  ASSUME Base, OwnersInv, Next, NEW r \in Req, Logins(r)
  PROVE  OwnersInv'
<1>1. PICK u \in User, t \in Token, tok \in Cookie, l \in Lifetimes :
             StartSession(r, u, t, tok, l)
  BY DEF Logins
<1> PICK d \in Doc : d = NewSession(u, t, l)
  BY NewSessionDoc DEF Base
<1>2. /\ t \notin minted /\ minted' = minted \cup {t} /\ access' = access
      /\ store' = InsertRecord(store, t, d) /\ d.family_id = t /\ d.user_id = u
      /\ store \in Store /\ req \in [Req -> Request]
  BY <1>1, NewSessionDoc DEF StartSession, Base, TypeOK
<1>3. /\ Records(store') = Records(store) \cup {t}
      /\ store'[t] = d /\ FamilyOf(store', t) = t
      /\ \A x \in Records(store) : /\ x # t /\ FamilyOf(store, x) # t
                                   /\ store'[x] = store[x]
                                   /\ FamilyOf(store', x) = FamilyOf(store, x)
  BY <1>2, NilAssumption, InsertFacts DEF Base, Named, Records
<1>4. /\ \A p \in Req \ {r} : req'[p] = req[p]
      /\ req'[r].sid = t /\ req'[r].user = u /\ req'[r].pc \notin RotatingPCs
  BY <1>1, <1>2 DEF StartSession, Begin, Idle, RotatingPCs
<1>5. \A p \in Req : Speaking(p) => req[p].sid # t
  BY <1>2, SpeakingLocals
<1>6. access[t] = Nil
  BY <1>2 DEF OwnersInv, SpokenFor
<1>7. \A s \in Token \ {t} : Family(store', s) = Family(store, s)
  BY <1>3 DEF Family
<1>8. Family(store', t) = {t}
  BY <1>3 DEF Family
<1>9. OneSession'
  <2>1. \A x, y \in Records(store') :
           FamilyOf(store', x) = FamilyOf(store', y) => SameSession(store'[x], store'[y])
    BY <1>3 DEF OwnersInv, OneSession, SameSession
  <2>2. ASSUME NEW p \in Req, Rotating(p)'
        PROVE  /\ \A x \in Family(store', req'[p].sid) : SameSession(req'[p].rec, store'[x])
               /\ \A o \in Req : Rotating(o)' /\ req'[o].sid = req'[p].sid
                                   => SameSession(req'[p].rec, req'[o].rec)
               /\ access'[req'[p].sid] \in {Nil, req'[p].rec.user_id}
    <3>1. \A o \in Req : Rotating(o)' => /\ Rotating(o) /\ Speaking(o)
                                         /\ o # r /\ req'[o] = req[o]
      BY <1>4 DEF Rotating, Speaking, SpeakingPCs
    <3>2. req[p].sid \in Token \ {t}
      BY <2>2, <3>1, <1>5, SpeakingLocals
    <3>3. \A x \in Family(store, req[p].sid) : store'[x] = store[x]
      BY <1>3 DEF Family
    <3> QED BY <2>2, <3>1, <3>2, <3>3, <1>2, <1>7 DEF OwnersInv, OneSession
  <2>3. \A x \in Records(store') : access'[FamilyOf(store', x)] \in {Nil, store'[x].user_id}
    BY <1>2, <1>3, <1>6 DEF OwnersInv, OneSession
  <2> QED BY <2>1, <2>2, <2>3 DEF OneSession, Rotating
<1>10. SpokenFor'
  <2>1. \A s \in Token : access'[s] # Nil => s \in minted'
    BY <1>2 DEF OwnersInv, SpokenFor
  <2>2. ASSUME NEW p \in Req, Speaking(p)'
        PROVE  /\ \A x \in Family(store', req'[p].sid) : store'[x].user_id = req'[p].user
               /\ \A o \in Req : Speaking(o)' /\ req'[o].sid = req'[p].sid
                                   => req'[o].user = req'[p].user
               /\ access'[req'[p].sid] \in {Nil, req'[p].user}
    <3>1. \A o \in Req \ {r} : Speaking(o)' => Speaking(o) /\ req'[o] = req[o]
      BY <1>4 DEF Speaking
    <3>2. CASE p = r
      BY <3>1, <3>2, <1>2, <1>3, <1>4, <1>5, <1>6, <1>8
    <3>3. CASE p # r
      <4>1. req[p].sid \in Token \ {t} /\ req'[p] = req[p] /\ Speaking(p)
        BY <2>2, <3>1, <3>3, <1>5, SpeakingLocals
      <4>2. \A x \in Family(store, req[p].sid) : store'[x] = store[x]
        BY <1>3 DEF Family
      <4> QED BY <3>1, <4>1, <4>2, <1>2, <1>4, <1>7 DEF OwnersInv, SpokenFor
    <3> QED BY <3>2, <3>3
  <2> QED BY <2>1, <2>2 DEF SpokenFor, Speaking
<1> QED BY <1>9, <1>10 DEF OwnersInv

LEMMA FindStep ==
  ASSUME Base, OwnersInv, Next, NEW r \in Req, FindRecord(r), ~Finish(r)
  PROVE  OwnersInv'
<1>a. req \in [Req -> Request] /\ req[r] \in Request /\ store \in Store
  BY RequestType DEF Base, TypeOK
<1> DEFINE t == req[r].tok
<1>1. /\ store' = store /\ access' = access /\ minted' = minted /\ t \in Records(store)
      /\ \A p \in Req \ {r} : req'[p] = req[p]
      /\ req'[r].rec = store[t] /\ req'[r].user = store[t].user_id
      /\ req'[r].sid = FamilyOf(store, t)
  <2>1. /\ store' = store /\ access' = access /\ minted' = minted /\ t \in Records(store)
    BY DEF FindRecord, TokensUnchanged, HasSession
  <2>2. PICK pc : req' = [req EXCEPT ![r] =
                    [req[r] EXCEPT !.rec = store[t], !.user = store[t].user_id,
                                   !.sid = FamilyOf(store, t), !.pc = pc]]
    BY DEF FindRecord
  <2>3. \A p \in Req \ {r} : req'[p] = req[p]
    BY <1>a, <2>2
  <2>4. req'[r] = [req[r] EXCEPT !.rec = store[t], !.user = store[t].user_id,
                                 !.sid = FamilyOf(store, t), !.pc = pc]
    BY <1>a, <2>2
  <2>5. /\ req'[r].rec = store[t] /\ req'[r].user = store[t].user_id
        /\ req'[r].sid = FamilyOf(store, t)
    BY <1>a, <2>4 DEF Request
  <2> QED BY <2>1, <2>3, <2>5
<1>2. FamilyOf(store, t) \in Token /\ store[t] \in Doc
  BY <1>1, <1>a, RecordIsDoc
<1>3. \A p \in Req \ {r} : /\ Rotating(p)' => Rotating(p)
                           /\ Speaking(p)' => Speaking(p)
  BY <1>1 DEF Rotating, Speaking
<1>4. \A p \in Req : Rotating(p) => Speaking(p)
  BY DEF Rotating, Speaking, SpeakingPCs
<1>5. OneSession'
  <2>1. ASSUME NEW p \in Req, Rotating(p)'
        PROVE  /\ \A x \in Family(store, req'[p].sid) : SameSession(req'[p].rec, store[x])
               /\ \A o \in Req : Rotating(o)' /\ req'[o].sid = req'[p].sid
                                   => SameSession(req'[p].rec, req'[o].rec)
               /\ access[req'[p].sid] \in {Nil, req'[p].rec.user_id}
    BY <2>1, <1>1, <1>3 DEF OwnersInv, OneSession, Family, SameSession
  <2> QED BY <2>1, <1>1 DEF OwnersInv, OneSession, Rotating
<1>6. SpokenFor'
  <2>1. ASSUME NEW p \in Req, Speaking(p)'
        PROVE  /\ \A x \in Family(store, req'[p].sid) : store[x].user_id = req'[p].user
               /\ \A o \in Req : Speaking(o)' /\ req'[o].sid = req'[p].sid
                                   => req'[o].user = req'[p].user
               /\ access[req'[p].sid] \in {Nil, req'[p].user}
    BY <2>1, <1>1, <1>3 DEF OwnersInv, OneSession, SpokenFor, Family, SameSession
  <2> QED BY <2>1, <1>1 DEF OwnersInv, SpokenFor, Speaking
<1> QED BY <1>5, <1>6 DEF OwnersInv

LEMMA SuccessorStep ==
  ASSUME Base, OwnersInv, Next, NEW r \in Req, Successors(r)
  PROVE  OwnersInv'
<1>1. PICK t \in Token : InsertSuccessor(r, t)
  BY DEF Successors
<1>2. Await(r, "insert") /\ Rotating(r) /\ Speaking(r)
  BY <1>1 DEF InsertSuccessor, Await, Rotating, Speaking, SpeakingPCs, RotatingPCs
<1> PICK d \in Doc : d = Successor(req[r])
  BY <1>2, SuccessorDoc
<1>a. req \in [Req -> Request] /\ req[r] \in Request /\ store \in Store
  BY RequestType DEF Base, TypeOK
<1>3. /\ t \notin minted /\ minted' = minted \cup {t} /\ access' = access
      /\ store' = InsertRecord(store, t, d) /\ d.family_id = req[r].sid
      /\ SameSession(req[r].rec, d) /\ d.family_id \in Token
  BY <1>1, <1>2, SuccessorDoc, SpeakingLocals DEF InsertSuccessor
<1>4. /\ Records(store') = Records(store) \cup {t}
      /\ store'[t] = d /\ FamilyOf(store', t) = req[r].sid
      /\ \A x \in Records(store) : /\ store'[x] = store[x]
                                   /\ FamilyOf(store', x) = FamilyOf(store, x)
  BY <1>3, <1>a, NilAssumption, InsertFacts DEF Base, Named, Records
<1>5. /\ \A p \in Req \ {r} : req'[p] = req[p]
      /\ req'[r].sid = req[r].sid /\ req'[r].user = req[r].user
      /\ req'[r].pc \notin RotatingPCs /\ req[r].rec.user_id = req[r].user
  BY <1>1, <1>2, <1>a, SpeakingLocals DEF InsertSuccessor, RotatingPCs, Request
<1>6. \A p \in Req : /\ Rotating(p)' => Rotating(p) /\ p # r
                     /\ Speaking(p)' => Speaking(p)
  BY <1>2, <1>5 DEF Rotating, Speaking
<1>7. \A x \in Records(store') : x # t => x \in Records(store)
  BY <1>4
<1>8. OneSession'
  <2>1. \A x, y \in Records(store') :
           FamilyOf(store', x) = FamilyOf(store', y) => SameSession(store'[x], store'[y])
    BY <1>2, <1>3, <1>4 DEF OwnersInv, OneSession, SameSession, Family
  <2>2. ASSUME NEW p \in Req, Rotating(p)'
        PROVE  /\ \A x \in Family(store', req'[p].sid) : SameSession(req'[p].rec, store'[x])
               /\ \A o \in Req : Rotating(o)' /\ req'[o].sid = req'[p].sid
                                   => SameSession(req'[p].rec, req'[o].rec)
               /\ access'[req'[p].sid] \in {Nil, req'[p].rec.user_id}
    <3>1. /\ Rotating(p) /\ p # r /\ req'[p] = req[p] /\ req[p].rec \in Doc
          /\ \A x \in Family(store, req[p].sid) : SameSession(req[p].rec, store[x])
          /\ \A o \in Req : Rotating(o) /\ req[o].sid = req[p].sid
                            => SameSession(req[p].rec, req[o].rec)
          /\ access[req[p].sid] \in {Nil, req[p].rec.user_id}
      BY <2>2, <1>5, <1>6, SpeakingLocals
         DEF OwnersInv, OneSession, Rotating, Speaking, SpeakingPCs
    <3>2. req[p].sid = req[r].sid => SameSession(req[p].rec, d)
      BY <3>1, <1>2, <1>3 DEF SameSession
    <3>3. \A x \in Family(store', req[p].sid) : SameSession(req[p].rec, store'[x])
      BY <3>1, <3>2, <1>4 DEF Family
    <3>4. \A o \in Req : Rotating(o)' => Rotating(o) /\ req'[o] = req[o]
      BY <1>5, <1>6
    <3> QED BY <3>1, <3>3, <3>4, <1>3
  <2>3. \A x \in Records(store') : access'[FamilyOf(store', x)] \in {Nil, store'[x].user_id}
    BY <1>2, <1>3, <1>4 DEF OwnersInv, OneSession, SameSession
  <2> QED BY <2>1, <2>2, <2>3 DEF OneSession, Rotating
<1>9. SpokenFor'
  <2>1. \A s \in Token : access'[s] # Nil => s \in minted'
    BY <1>3 DEF OwnersInv, SpokenFor
  <2>2. ASSUME NEW p \in Req, Speaking(p)'
        PROVE  /\ \A x \in Family(store', req'[p].sid) : store'[x].user_id = req'[p].user
               /\ \A o \in Req : Speaking(o)' /\ req'[o].sid = req'[p].sid
                                   => req'[o].user = req'[p].user
               /\ access'[req'[p].sid] \in {Nil, req'[p].user}
    <3>1. /\ Speaking(p) /\ req'[p].sid = req[p].sid /\ req'[p].user = req[p].user
          /\ \A x \in Family(store, req[p].sid) : store[x].user_id = req[p].user
          /\ \A o \in Req : Speaking(o) /\ req[o].sid = req[p].sid
                            => req[o].user = req[p].user
          /\ access[req[p].sid] \in {Nil, req[p].user}
      BY <2>2, <1>5, <1>6 DEF OwnersInv, SpokenFor
    <3>2. req[p].sid = req[r].sid => d.user_id = req[p].user
      BY <3>1, <1>2, <1>3, <1>5 DEF SameSession
    <3>3. \A x \in Family(store', req[p].sid) : store'[x].user_id = req[p].user
      BY <3>1, <3>2, <1>4 DEF Family
    <3>4. \A o \in Req : Speaking(o)' => /\ Speaking(o) /\ req'[o].sid = req[o].sid
                                         /\ req'[o].user = req[o].user
      BY <1>5, <1>6
    <3> QED BY <3>1, <3>3, <3>4, <1>3
  <2> QED BY <2>1, <2>2 DEF SpokenFor, Speaking
<1> QED BY <1>8, <1>9 DEF OwnersInv

LEMMA ReplyStep ==
  ASSUME Base, OwnersInv, Next, NEW r \in Req, Reply(r)
  PROVE  OwnersInv'
<1>1. Speaking(r) /\ req[r].sid \in Token /\ req[r].sid \in minted
  BY SpeakingLocals DEF Reply, Await, Speaking, SpeakingPCs
<1>2. /\ store' = store /\ minted' = minted
      /\ access' = [access EXCEPT ![req[r].sid] = req[r].user]
      /\ access \in [Token -> User \cup {Nil}]
      /\ \A p \in Req : Speaking(p)' => Speaking(p) /\ req'[p] = req[p]
  BY DEF Reply, Finish, Idle, Speaking, SpeakingPCs, RotatingPCs, Base, TypeOK
<1>3. \A p \in Req : Rotating(p)' => Rotating(p) /\ Speaking(p) /\ req'[p] = req[p]
  BY <1>2 DEF Rotating, Speaking, SpeakingPCs
<1>4. OneSession'
  <2>1. ASSUME NEW p \in Req, Rotating(p)'
        PROVE  access'[req[p].sid] \in {Nil, req[p].rec.user_id}
    BY <2>1, <1>1, <1>2, <1>3, SpeakingLocals DEF OwnersInv, OneSession, SpokenFor
  <2>2. \A t \in Records(store) : access'[FamilyOf(store, t)] \in {Nil, store[t].user_id}
    BY <1>1, <1>2 DEF OwnersInv, OneSession, SpokenFor, Family
  <2> QED BY <2>1, <2>2, <1>2, <1>3 DEF OwnersInv, OneSession, Rotating
<1>5. SpokenFor'
  <2>1. \A p \in Req : Speaking(p) => access'[req[p].sid] \in {Nil, req[p].user}
    BY <1>1, <1>2 DEF OwnersInv, SpokenFor
  <2>2. \A s \in Token : access'[s] # Nil => s \in minted'
    BY <1>1, <1>2 DEF OwnersInv, SpokenFor
  <2> QED BY <2>1, <2>2, <1>2 DEF OwnersInv, SpokenFor, Speaking
<1> QED BY <1>4, <1>5 DEF OwnersInv

LEMMA EndedReadsNothing ==
  ASSUME NEW r \in Req, req \in [Req -> Request], Finish(r)
  PROVE  NothingNew(r)
<1>1. req'[r].pc = "idle"
  BY DEF Finish, Idle
<1> QED BY <1>1 DEF NothingNew, Speaking, SpeakingPCs, RotatingPCs

LEMMA OwnersStep ==
  ASSUME Base, OwnersInv, [Next]_vars
  PROVE  OwnersInv'
<1>1. CASE UNCHANGED vars
  BY <1>1 DEF vars, OwnersInv, OneSession, SpokenFor, Rotating, Speaking, Family,
              Records, FamilyOf
<1>2. CASE Next /\ \E r \in Req : Logins(r) \/ Successors(r) \/ Reply(r)
                                  \/ (FindRecord(r) /\ ~Finish(r))
  BY <1>2, LoginStep, SuccessorStep, ReplyStep, FindStep
<1>3. CASE Next /\ ~ \E r \in Req : Logins(r) \/ Successors(r) \/ Reply(r)
                                    \/ (FindRecord(r) /\ ~Finish(r))
  <2>1. ASSUME NEW r \in Req PROVE NothingNew(r)
    <3>1. CASE FindRecord(r)
      <4>1. Finish(r)
        BY <1>3, <3>1
      <4>2. req \in [Req -> Request]
        BY DEF Base, TypeOK
      <4> QED BY <4>1, <4>2, EndedReadsNothing
    <3>2. CASE ~FindRecord(r)
      BY <1>3, <3>2, MostAssertNothingNew
    <3> QED BY <3>1, <3>2
  <2>2. minted' = minted /\ access' = access
    BY <1>3, OnlyIssuers
  <2> QED BY <1>3, <2>1, <2>2, QuietStep
<1> QED BY <1>1, <1>2, <1>3

LEMMA OwnersInit == Init => OwnersInv
BY BootAssumption DEF Init, OwnersInv, OneSession, SpokenFor, Sound, Rotating,
   Speaking, SpeakingPCs, RotatingPCs, Idle, Records, Store, FamilyOf, Doc

\* Records of one session, the copies handlers work on and the access tokens
\* issued for it always agree on its user, deadline and start: rotation never
\* extends a session and never hands it to another user.
THEOREM SessionsAgree == Spec => []OneSession
<1>1. OwnersInv => OneSession
  BY DEF OwnersInv
<1> QED BY <1>1, OwnersInit, BaseInvariant, OwnersStep, PTL DEF Spec
=============================================================================
