--------------------------- MODULE ContractProofs ---------------------------
(***************************************************************************)
(* The handlers of Sessions keep the promise of SessionContract, for any   *)
(* number of tokens, users and requests and any grace window; and no       *)
(* handler ends a session that is not its user's.                          *)
(***************************************************************************)
EXTENDS SessionsProofs

-----------------------------------------------------------------------------
(* What the contract sees of a session *)

SessionOf(phase, d) == [phase |-> phase, owner |-> d.user_id, start |-> d.created_at,
                        deadline |-> d.expires_at]

Nobody(phase) == [phase |-> phase, owner |-> Nil, start |-> Nil, deadline |-> Nil]

\* The stored records of a session and the copies about to be inserted are
\* records of one session, so it does not matter which of them is looked at.
LEMMA CopiesAgree ==
  Base /\ OneSession =>
    \A s \in Token : /\ Copies(s) \subseteq Doc
                     /\ \A d, e \in Copies(s) : SameSession(d, e)
<1> SUFFICES ASSUME Base, OneSession, NEW s \in Token
             PROVE  /\ Copies(s) \subseteq Doc
                    /\ \A d, e \in Copies(s) : SameSession(d, e)
  OBVIOUS
<1>a. store \in Store
  BY DEF Base, TypeOK
<1>1. \A r \in Req : MayInsert(r, s) => /\ Rotating(r) /\ req[r].sid = s
                                        /\ req[r].rec \in Doc
  BY DEF MayInsert, Await, Rotating, RotatingPCs, Base, Locals, LocalOK
<1>2. \A t \in Family(store, s) : /\ store[t] \in Doc /\ t \in Records(store)
                                  /\ FamilyOf(store, t) = s
  BY <1>a, RecordIsDoc DEF Family
<1>3. Copies(s) \subseteq Doc
  BY <1>1, <1>2 DEF Copies
<1>4. ASSUME NEW d \in Copies(s), NEW e \in Copies(s) PROVE SameSession(d, e)
  <2>1. CASE \E t \in Family(store, s), x \in Family(store, s) : d = store[t] /\ e = store[x]
    BY <2>1, <1>2 DEF OneSession
  <2>2. CASE \E t \in Family(store, s), r \in Req :
               MayInsert(r, s) /\ {d, e} = {store[t], req[r].rec}
    BY <2>2, <1>1 DEF OneSession, SameSession
  <2>3. CASE \E r \in Req, p \in Req : /\ MayInsert(r, s) /\ MayInsert(p, s)
                                       /\ d = req[r].rec /\ e = req[p].rec
    BY <2>3, <1>1 DEF OneSession
  <2> QED BY <2>1, <2>2, <2>3 DEF Copies
<1> QED BY <1>3, <1>4

\* How the contract's view of each session follows from its copies.
Seen ==
  \A s \in Token :
    /\ AsSession(s) \in Contract!State
    /\ s \notin minted => AsSession(s) = Nobody("unborn")
    /\ s \in minted /\ Copies(s) = {} => AsSession(s) = Nobody("over")
    /\ s \in minted => \A d \in Copies(s) :
         /\ AsSession(s).phase \in Contract!OpenPhases
         /\ AsSession(s) = SessionOf(AsSession(s).phase, d)
         /\ Current(store, s) # {} => AsSession(s).phase = "live"

LEMMA SeenFacts == Base /\ OneSession => Seen
<1> SUFFICES ASSUME Base, OneSession, NEW s \in Token
             PROVE  /\ AsSession(s) \in Contract!State
                    /\ s \notin minted => AsSession(s) = Nobody("unborn")
                    /\ s \in minted /\ Copies(s) = {} => AsSession(s) = Nobody("over")
                    /\ s \in minted => \A d \in Copies(s) :
                         /\ AsSession(s).phase \in Contract!OpenPhases
                         /\ AsSession(s) = SessionOf(AsSession(s).phase, d)
                         /\ Current(store, s) # {} => AsSession(s).phase = "live"
  BY DEF Seen
<1>1. s \notin minted => AsSession(s) = Nobody("unborn")
  BY DEF AsSession, Nobody
<1>2. s \in minted /\ Copies(s) = {} => AsSession(s) = Nobody("over")
  BY DEF AsSession, Nobody
<1>3. ASSUME s \in minted, NEW d \in Copies(s)
      PROVE  /\ d \in Doc
             /\ AsSession(s).phase \in Contract!OpenPhases
             /\ AsSession(s) = SessionOf(AsSession(s).phase, d)
             /\ Current(store, s) # {} => AsSession(s).phase = "live"
  <2> DEFINE c == CHOOSE x \in Copies(s) : TRUE
  <2>1. c \in Copies(s)
    OBVIOUS
  <2>2. SameSession(c, d) /\ d \in Doc
    BY <2>1, CopiesAgree
  <2> HIDE DEF c
  <2>3. AsSession(s) = SessionOf(AsSession(s).phase, c)
    BY <1>3 DEF AsSession, SessionOf, c
  <2>4. /\ AsSession(s).phase \in Contract!OpenPhases
        /\ Current(store, s) # {} => AsSession(s).phase = "live"
    BY <1>3 DEF AsSession, Contract!OpenPhases
  <2> QED BY <2>2, <2>3, <2>4 DEF SessionOf, SameSession
<1>4. AsSession(s) \in Contract!State
  <2>1. \A phase \in {"unborn", "over"} : Nobody(phase) \in Contract!State
    BY DEF Nobody, Contract!State
  <2>2. \A d \in Doc, phase \in Contract!OpenPhases :
           SessionOf(phase, d) \in Contract!State
    BY DEF Doc, SessionOf, Contract!State
  <2> QED BY <1>1, <1>2, <1>3, <2>1, <2>2
<1> QED BY <1>1, <1>2, <1>3, <1>4
-----------------------------------------------------------------------------
(* Every step is a move of the contract *)

\* A handler ready to insert was so before the step, or found a record of the
\* session in the collection just now.
LEMMA InserterStep ==
  ASSUME Base, OneSession, Next, NEW s \in Token, NEW r \in Req, MayInsert(r, s)'
  PROVE  \E d \in Copies(s) : SameSession(d, req'[r].rec)
<1>a. /\ req \in [Req -> Request] /\ req[r] \in Request /\ store \in Store
  BY RequestType DEF Base, TypeOK
<1>1. Rotating(r)' /\ req'[r].sid = s /\ req'[r].pc \in {"insert", "adopt"}
  BY DEF MayInsert, Await, Rotating, RotatingPCs
<1>2. ASSUME Rotating(r), req'[r].rec = req[r].rec, req[r].sid = s
      PROVE  \E d \in Copies(s) : SameSession(d, req'[r].rec)
  <2>1. CASE MayInsert(r, s)
    BY <1>2, <2>1 DEF Copies, SameSession
  <2>2. CASE ~MayInsert(r, s)
    <3>1. PICK t \in Family(store, s) : TRUE
      BY <2>2, InsertComesFromRecord
    <3>2. SameSession(store[t], req[r].rec)
      BY <1>2 DEF OneSession, SameSession
    <3> QED BY <1>2, <3>1, <3>2 DEF Copies
  <2> QED BY <2>1, <2>2
<1>3. CASE req'[r] = req[r]
  BY <1>1, <1>2, <1>3 DEF Rotating
<1>4. CASE req'[r] # req[r] /\ FindRecord(r)
  <2>1. ~Finish(r)
    BY <1>1, <1>a DEF Finish, Idle
  <2>2. /\ HasSession(req[r].tok) /\ req'[r].rec = store[req[r].tok]
        /\ req'[r].sid = FamilyOf(store, req[r].tok)
    BY <1>4, <2>1, <1>a DEF FindRecord, Request
  <2> QED BY <1>1, <2>2 DEF HasSession, Family, Copies, SameSession
<1>5. CASE req'[r] # req[r] /\ ~FindRecord(r)
  <2>1. ASSUME Logins(r) PROVE FALSE
    BY <1>1, <1>a, <2>1 DEF Logins, StartSession, Begin, Idle, Rotating, RotatingPCs
  <2>2. NothingNew(r)
    BY <1>5, <2>1, MostAssertNothingNew
  <2>3. Speaking(r)'
    BY <1>1 DEF Speaking, SpeakingPCs, Rotating
  <2> QED BY <1>1, <1>2, <2>2, <2>3 DEF NothingNew
<1> QED BY <1>3, <1>4, <1>5

\* No step brings in a record that disagrees with those the session had.
LEMMA CopyStep ==
  ASSUME Base, OneSession, Next, NEW s \in minted, NEW e \in Copies(s)'
  PROVE  \E d \in Copies(s) : SameSession(d, e)
<1>a. store \in Store /\ minted \subseteq Token /\ s \in Token
  BY DEF Base, TypeOK
<1>1. CASE \E r \in Req : MayInsert(r, s)' /\ e = req'[r].rec
  BY <1>1, <1>a, InserterStep
<1>2. ASSUME NEW t \in Family(store', s), e = store'[t]
      PROVE  \E d \in Copies(s) : SameSession(d, e)
  <2>1. t \in Records(store') /\ FamilyOf(store', t) = s /\ t \in Token
    BY <1>2 DEF Family, Records
  <2>2. CASE t \in minted
    <3>1. t \in Family(store, s) /\ SameSession(store[t], store'[t])
      BY <2>1, <2>2, StepIsCalm, StepKeepsRecords DEF Calm, Family, RecordsKept
    <3> QED BY <1>2, <3>1 DEF Copies
  <2>3. CASE t \notin minted
    <3>1. t \in minted'
      BY <2>1, StepIsCalm DEF Named
    <3>2. Inserts
      BY <2>3, <3>1, StepWrites DEF Write
    <3>3. PICK x \in Token \ minted, d \in Doc :
            /\ store' = InsertRecord(store, x, d)
            /\ minted' = minted \cup {x}
            /\ d.family_id \in minted'
            /\ d.family_id # x =>
                 \E r \in Req : /\ Await(r, "insert") /\ req[r].sid = d.family_id
                                /\ SameSession(req[r].rec, d)
      BY <3>2 DEF Inserts
    <3>4. t = x /\ d.family_id # Nil
      BY <2>3, <3>1, <3>3, <1>a, NilAssumption
    <3>5. d.family_id = s /\ s # x /\ e = d
      BY <1>2, <2>1, <3>3, <3>4, <1>a, InsertFacts
    <3> QED BY <3>3, <3>5 DEF Copies, MayInsert
  <2> QED BY <2>2, <2>3
<1> QED BY <1>1, <1>2 DEF Copies

\* A name drawn in this step is a new login's session, with its one current
\* record, or the token of a successor, which is no session.
LEMMA BirthStep ==
  ASSUME Base, Seen', Next, NEW s \in Token \ minted, s \in minted'
  PROVE  AsSession(s)' = Nobody("over") \/ AsSession(s).phase' = "live"
<1>a. store \in Store /\ minted \subseteq Token /\ Named
  BY DEF Base, TypeOK
<1>1. Inserts
  BY StepWrites DEF Write
<1>2. PICK x \in Token \ minted, d \in Doc :
        /\ store' = InsertRecord(store, x, d)
        /\ minted' = minted \cup {x}
        /\ d.family_id \in minted' /\ d.rotated_at = Nil
  BY <1>1 DEF Inserts
<1>3. s = x /\ d.family_id # Nil
  BY <1>2, <1>a, NilAssumption
<1>4. /\ Records(store') = Records(store) \cup {s}
      /\ store'[s] = d /\ FamilyOf(store', s) = d.family_id
      /\ \A t \in Token \ {s} : FamilyOf(store', t) = FamilyOf(store, t)
  BY <1>2, <1>3, <1>a, InsertFacts
<1>5. \A t \in Family(store', s) : t = s
  BY <1>4, <1>a DEF Family, Named, Records
<1>6. ASSUME NEW r \in Req PROVE ~MayInsert(r, s)'
  <2>1. ~MayInsert(r, s)
    BY DEF MayInsert, Await, Base, Locals, LocalOK, RotatingPCs
  <2>2. Family(store, s) = {}
    BY <1>a DEF Family, Named
  <2> QED BY <2>1, <2>2, InsertComesFromRecord
<1>7. CASE d.family_id = s
  <2>1. s \in Current(store', s)
    BY <1>2, <1>4, <1>7 DEF Current, Family
  <2>2. Copies(s)' # {} /\ Current(store, s)' # {}
    BY <2>1 DEF Copies, Current
  <2> QED BY <2>2 DEF Seen
<1>8. CASE d.family_id # s
  <2>1. Family(store', s) = {}
    BY <1>4, <1>5, <1>8 DEF Family
  <2>2. Copies(s)' = {}
    BY <1>6, <2>1 DEF Copies
  <2> QED BY <2>2 DEF AsSession, Nobody
<1> QED BY <1>7, <1>8

LEMMA ContractStep ==
  ASSUME Base, OneSession, Seen, Seen', [Next]_vars, NEW s \in Token
  PROVE  Contract!Move(AsSession(s), AsSession(s)')
<1>1. CASE UNCHANGED vars
  <2>1. AsSession(s)' = AsSession(s)
    BY <1>1 DEF vars, AsSession, Copies, Current, Family, Records, FamilyOf, MayInsert, Await
  <2> QED BY <2>1 DEF Contract!Move
<1>2. CASE Next /\ s \notin minted /\ s \notin minted'
  BY <1>2 DEF Seen, Contract!Move
<1>3. CASE Next /\ s \notin minted /\ s \in minted'
  BY <1>3, BirthStep DEF Seen, Contract!Move, Nobody
<1>4. CASE Next /\ s \in minted
  <2>1. s \in minted'
    BY <1>4, StepIsCalm DEF Calm
  <2>2. CASE Copies(s)' = {} /\ Copies(s) = {}
    BY <1>4, <2>1, <2>2 DEF Seen, Contract!Move
  <2>3. CASE Copies(s)' = {} /\ Copies(s) # {}
    BY <1>4, <2>1, <2>3 DEF Seen, Contract!Move, Contract!Open, Nobody
  <2>4. CASE Copies(s)' # {}
    <3>1. PICK e : e \in Copies(s)'
      BY <2>4
    <3>2. PICK d \in Copies(s) : SameSession(d, e)
      BY <1>4, <3>1, CopyStep
    <3>3. /\ AsSession(s) = SessionOf(AsSession(s).phase, d)
          /\ AsSession(s).phase \in Contract!OpenPhases
      BY <1>4, <3>2 DEF Seen
    <3>4. /\ AsSession(s)' = SessionOf(AsSession(s).phase', e)
          /\ AsSession(s).phase' \in Contract!OpenPhases
      BY <2>1, <3>1 DEF Seen
    <3> QED
      BY <3>2, <3>3, <3>4 DEF Contract!Move, Contract!Open, Contract!SameOwnerAndTimes,
                              SessionOf, SameSession
  <2> QED BY <2>2, <2>3, <2>4
<1> QED BY <1>1, <1>2, <1>3, <1>4

\* The handlers of auth_service.py implement the contract: whatever requests,
\* failures and clean-ups interleave, a session is started once, keeps its
\* owner, start and deadline, and is over for good once no refresh that had
\* already claimed its token is left.
THEOREM SessionsKeepContract == Spec => KeepsContract
<1>1. Seen => Contract!Init
  BY DEF Seen, Contract!Init
<1>2. Base /\ OneSession /\ Seen /\ Seen' /\ [Next]_vars =>
        [Contract!Next]_([s \in Token |-> AsSession(s)])
  BY ContractStep DEF Contract!Next, Seen
<1> QED
  BY <1>1, <1>2, BaseInvariant, SessionsAgree, SeenFacts, PTL
     DEF Spec, KeepsContract, Contract!Spec
-----------------------------------------------------------------------------
(* Requests end sessions of their own user only *)

LogoutPCs == {"logoutFind", "logoutEnd"}

LEMMA LogoutSteps ==
  ASSUME Base, Next, NEW r \in Req, req'[r] # req[r], req'[r].pc \in LogoutPCs
  PROVE  \/ LogoutFind(r)
         \/ \E tok \in Cookie, s \in SidOfAccessToken \cup {Nil}, all \in BOOLEAN :
               BeginLogout(r, tok, s, all)
<1>a. req \in [Req -> Request] /\ req[r] \in Request
  BY RequestType DEF Base, TypeOK
<1> USE DEF LogoutPCs
<1>1. ASSUME NEW op, NEW q, Begin(r, op, q), q.pc \notin LogoutPCs PROVE FALSE
  BY <1>a, <1>1 DEF Begin
<1>2. ASSUME Finish(r) PROVE FALSE
  BY <1>a, <1>2 DEF Finish, Idle
<1>3. ASSUME NEW pc, pc \notin LogoutPCs, Goto(r, pc) PROVE FALSE
  BY <1>a, <1>3 DEF Goto, Request
<1>4. \A n, at : AfterRead(n, at) \in {"claim", "insert", "reuse"}
  BY DEF AfterRead
<1>5. CASE Arrive(r)
  <2>1. ASSUME NEW u \in User, NEW t \in Token, NEW tok \in Cookie, NEW l \in Lifetimes,
               StartSession(r, u, t, tok, l)
        PROVE  FALSE
    BY <1>a, <2>1 DEF StartSession, Begin, Idle
  <2>2. CASE \/ \E tok \in delivered : BeginRefresh(r, tok)
             \/ \E s \in SidOfAccessToken, tok \in Cookie : BeginResolve(r, s, tok)
             \/ \E s \in SidOfAccessToken, target \in minted : BeginRevoke(r, s, target)
             \/ \E s \in SidOfAccessToken : BeginEndOthers(r, s)
    BY <1>1, <2>2 DEF BeginRefresh, Refreshing, BeginResolve, BeginRevoke, BeginEndOthers,
                      Idle
  <2> QED BY <1>5, <2>1, <2>2 DEF Arrive
<1>6. ASSUME FindRecord(r) PROVE FALSE
  <2>1. req'[r] = [req[r] EXCEPT
                     !.rec = store[req[r].tok], !.user = store[req[r].tok].user_id,
                     !.sid = FamilyOf(store, req[r].tok),
                     !.pc = IF store[req[r].tok].expires_at <= req[r].now THEN "expired"
                            ELSE IF store[req[r].tok].family_id = Nil THEN "adopt"
                            ELSE AfterRead(req[r].now, store[req[r].tok].rotated_at)]
    BY <1>2, <1>6, <1>a DEF FindRecord
  <2>2. req'[r].pc \in {"expired", "adopt", "claim", "insert", "reuse"}
    BY <2>1, <1>4, <1>a DEF Request
  <2> QED BY <2>2
<1>7. ASSUME RetireFind(r) PROVE FALSE
  <2>1. ASSUME req' = [req EXCEPT ![r].pc = "retireRevoke", ![r].rec = store[req[r].tok]]
        PROVE  FALSE
    BY <2>1, <1>a DEF Request
  <2> QED BY <1>3, <1>7, <2>1 DEF RetireFind
<1>8. ASSUME \E fresh \in BOOLEAN : ResolveCheck(r, fresh) PROVE FALSE
  BY <1>2, <1>8, <1>a DEF ResolveCheck, Refreshing, Idle
<1>9. ASSUME Successors(r) \/ EndOthers(r) PROVE FALSE
  BY <1>9, <1>a DEF Successors, InsertSuccessor, EndOthers, Request
<1>10. ASSUME \/ RetireRevoke(r) \/ Reply(r) \/ RevokeOwn(r) \/ AdoptFamily(r) \/ Claim(r)
              \/ ReRead(r) \/ LogoutEnd(r) \/ RevokeFind(r) \/ RevokeTarget(r)
              \/ ReplyCount(r) \/ Abort(r)
       PROVE  FALSE
  BY <1>2, <1>3, <1>4, <1>10 DEF RetireRevoke, Reply, RevokeOwn, AdoptFamily, Claim,
     ReRead, LogoutEnd, RevokeFind, RevokeTarget, ReplyCount, Abort
<1> QED BY <1>5, <1>6, <1>7, <1>8, <1>9, <1>10, OnlyMover DEF Step, Successors

\* A record stored by the step belongs to a new session, or to the session and
\* the user of the refresh that stores it.
LEMMA NewRecordOwner ==
  ASSUME Base, Next, NEW s \in minted, NEW t \in Family(store', s)
  PROVE  \/ t \in Family(store, s) /\ store'[t].user_id = store[t].user_id
         \/ \E p \in Req : /\ Speaking(p) /\ req[p].sid = s
                           /\ store'[t].user_id = req[p].user
<1>a. store \in Store /\ minted \subseteq Token
  BY DEF Base, TypeOK
<1>1. t \in Records(store') /\ FamilyOf(store', t) = s /\ t \in Token /\ t \in minted'
  BY StepIsCalm DEF Family, Records, Named
<1>2. CASE t \in minted
  BY <1>1, <1>2, StepIsCalm, StepKeepsRecords DEF Calm, Family, RecordsKept, SameSession
<1>3. CASE t \notin minted
  <2>1. Inserts
    BY <1>1, <1>3, StepWrites DEF Write
  <2>2. PICK x \in Token \ minted, d \in Doc :
          /\ store' = InsertRecord(store, x, d)
          /\ minted' = minted \cup {x}
          /\ d.family_id \in minted'
          /\ d.family_id # x =>
               \E r \in Req : /\ Await(r, "insert") /\ req[r].sid = d.family_id
                              /\ SameSession(req[r].rec, d)
    BY <2>1 DEF Inserts
  <2>3. t = x /\ d.family_id # Nil
    BY <1>1, <1>3, <2>2, <1>a, NilAssumption
  <2>4. d.family_id = s /\ s # x /\ store'[t] = d
    BY <1>1, <2>2, <2>3, <1>a, InsertFacts
  <2>5. PICK p \in Req : /\ Await(p, "insert") /\ req[p].sid = s
                         /\ SameSession(req[p].rec, d)
    BY <2>2, <2>4
  <2>6. Speaking(p) /\ Rotating(p)
    BY <2>5 DEF Await, Speaking, SpeakingPCs, Rotating, RotatingPCs
  <2> QED BY <2>4, <2>5, <2>6, SpeakingLocals DEF SameSession
<1> QED BY <1>2, <1>3

\* A request that speaks for a session after the step did so before, for the
\* same user, or read who owns the session from one of its records.
LEMMA NewSpeaker ==
  ASSUME Base, Next, NEW s \in minted, NEW p \in Req, Speaking(p)', req'[p].sid = s
  PROVE  \/ Speaking(p) /\ req[p].sid = s /\ req[p].user = req'[p].user
         \/ \E t \in Family(store, s) : req'[p].user = store[t].user_id
<1>a. req \in [Req -> Request] /\ req[p] \in Request
  BY RequestType DEF Base, TypeOK
<1>1. ASSUME Logins(p) PROVE FALSE
  BY <1>1, <1>a DEF Logins, StartSession, Begin, Idle
<1>2. CASE FindRecord(p)
  <2>1. ~Finish(p)
    BY <1>a DEF Finish, Idle, Speaking, SpeakingPCs, RotatingPCs
  <2>2. /\ HasSession(req[p].tok) /\ req'[p].user = store[req[p].tok].user_id
        /\ req'[p].sid = FamilyOf(store, req[p].tok)
    BY <1>2, <2>1, <1>a DEF FindRecord, Request
  <2> QED BY <2>2 DEF HasSession, Family
<1>3. CASE ~FindRecord(p)
  BY <1>1, <1>3, MostAssertNothingNew DEF NothingNew
<1> QED BY <1>2, <1>3

LEMMA LogoutsOwnStep ==
  ASSUME Base, OwnersInv, LogoutsOwn, [Next]_vars
  PROVE  LogoutsOwn'
<1>a. /\ req \in [Req -> Request] /\ store \in Store
      /\ access \in [Token -> User \cup {Nil}] /\ Named
  BY DEF Base, TypeOK
<1>1. CASE UNCHANGED vars
  BY <1>1 DEF vars, LogoutsOwn, Family, Records, FamilyOf, Speaking
<1>2. ASSUME Next, NEW r \in Req, req'[r].pc \in LogoutPCs, req'[r].sid # Nil
      PROVE  /\ req'[r].sid \in minted
             /\ \A t \in Family(store, req'[r].sid) : store[t].user_id = req'[r].user
             /\ \A p \in Req : Speaking(p) /\ req[p].sid = req'[r].sid
                                 => req[p].user = req'[r].user
  <2>b. req[r] \in Request
    BY <1>a
  <2>1. CASE req'[r] = req[r]
    BY <1>2, <2>1 DEF LogoutsOwn, LogoutPCs
  <2>2. CASE LogoutFind(r)
    <3>1. ~Finish(r)
      BY <1>2, <1>a DEF Finish, Idle, LogoutPCs
    <3>2. CASE Goto(r, "logoutEnd")
      <4>1. req'[r].sid = req[r].sid /\ req'[r].user = req[r].user /\ req[r].pc \in LogoutPCs
        BY <2>2, <3>2, <1>a, <2>b DEF LogoutFind, Goto, Await, Request, LogoutPCs
      <4> QED BY <1>2, <4>1 DEF LogoutsOwn, LogoutPCs
    <3>3. CASE ~Goto(r, "logoutEnd")
      <4>1. /\ req[r].tok \in Records(store)
            /\ req'[r].user = store[req[r].tok].user_id
            /\ req'[r].sid = FamilyOf(store, req[r].tok)
        BY <2>2, <3>1, <3>3, <1>a, <2>b DEF LogoutFind, Request
      <4> QED BY <4>1, <1>a DEF OwnersInv, OneSession, SpokenFor, SameSession, Named, Family
    <3> QED BY <3>2, <3>3
  <2>3. CASE \E tok \in Cookie, s \in SidOfAccessToken \cup {Nil}, all \in BOOLEAN :
               BeginLogout(r, tok, s, all)
    <3>1. PICK tok \in Cookie, s \in SidOfAccessToken \cup {Nil}, all \in BOOLEAN :
                 BeginLogout(r, tok, s, all)
      BY <2>3
    <3>2. req'[r].sid = s /\ req'[r].user = IF s = Nil THEN Nil ELSE access[s]
      BY <3>1, <1>a DEF BeginLogout, Begin, Idle
    <3>3. s \in Token /\ access[s] # Nil /\ req'[r].user = access[s]
      BY <1>2, <3>2 DEF SidOfAccessToken
    <3> QED BY <3>2, <3>3 DEF OwnersInv, OneSession, SpokenFor, Family
  <2> QED BY <1>2, <2>1, <2>2, <2>3, LogoutSteps
<1>3. ASSUME Next, NEW r \in Req, req'[r].pc \in LogoutPCs, req'[r].sid # Nil
      PROVE  /\ req'[r].sid \in minted'
             /\ \A t \in Family(store', req'[r].sid) : store'[t].user_id = req'[r].user
             /\ \A p \in Req : Speaking(p)' /\ req'[p].sid = req'[r].sid
                                 => req'[p].user = req'[r].user
  <2> DEFINE s == req'[r].sid
  <2>1. s \in minted'
    BY <1>2, <1>3, StepIsCalm DEF Calm
  <2>2. ASSUME NEW t \in Family(store', s) PROVE store'[t].user_id = req'[r].user
    BY <1>2, <1>3, <2>2, NewRecordOwner
  <2>3. ASSUME NEW p \in Req, Speaking(p)', req'[p].sid = s
        PROVE  req'[p].user = req'[r].user
    BY <1>2, <1>3, <2>3, NewSpeaker
  <2> QED BY <2>1, <2>2, <2>3
<1> QED BY <1>1, <1>3 DEF LogoutsOwn, LogoutPCs, Speaking

\* Ending one's own: the records a request deletes.
OwnOnly ==
  \A r \in Req : req'[r] # req[r] =>
    \A t \in Records(store) \ Records(store') :
      \/ store[t].user_id = req[r].user
      \/ /\ Await(r, "retireRevoke")
         /\ FamilyOf(store, t) = OwnFamily(req[r])

LEMMA OwnOnlyStep ==
  ASSUME Base, OwnersInv, LogoutsOwn, Next
  PROVE  OwnOnly
<1>1. SUFFICES ASSUME NEW r \in Req, req'[r] # req[r],
                      NEW t \in Records(store), t \notin Records(store')
               PROVE  \/ store[t].user_id = req[r].user
                      \/ /\ Await(r, "retireRevoke")
                         /\ FamilyOf(store, t) = OwnFamily(req[r])
  BY DEF OwnOnly
<1>a. store \in Store /\ FamilyOf(store, t) \in Token
  BY RecordIsDoc DEF Base, TypeOK
<1>b. ASSUME NEW gone, store' = Without(store, gone) PROVE t \in gone
  BY <1>a, <1>1, <1>b, WithoutFacts
<1>2. ASSUME store' = store PROVE FALSE
  BY <1>1, <1>2
<1>3. ASSUME NEW x \in Token, NEW d \in Doc, store' = InsertRecord(store, x, d) PROVE FALSE
  BY <1>1, <1>3, <1>a, InsertFacts
<1>4. ASSUME Arrive(r) PROVE FALSE
  <2>1. ASSUME Logins(r) PROVE FALSE
    BY <2>1, <1>3, NewSessionDoc DEF Logins, StartSession, Base
  <2>2. ASSUME \/ \E tok \in delivered : BeginRefresh(r, tok)
               \/ \E s \in SidOfAccessToken, tok \in Cookie : BeginResolve(r, s, tok)
               \/ \E tok \in Cookie, s \in SidOfAccessToken \cup {Nil}, all \in BOOLEAN :
                     BeginLogout(r, tok, s, all)
               \/ \E s \in SidOfAccessToken, target \in minted : BeginRevoke(r, s, target)
               \/ \E s \in SidOfAccessToken : BeginEndOthers(r, s)
        PROVE  FALSE
    BY <1>2, <2>2 DEF BeginRefresh, BeginResolve, BeginLogout, BeginRevoke, BeginEndOthers
  <2> QED BY <1>4, <2>1, <2>2 DEF Arrive, Logins
<1>5. ASSUME Abort(r) PROVE FALSE
  BY <1>2, <1>5 DEF Abort
<1>6. ASSUME \/ RetireFind(r) \/ Reply(r) \/ FindRecord(r) \/ ReRead(r) \/ LogoutFind(r)
             \/ RevokeFind(r) \/ ReplyCount(r) \/ \E fresh \in BOOLEAN : ResolveCheck(r, fresh)
      PROVE  FALSE
  BY <1>2, <1>6 DEF RetireFind, Reply, FindRecord, ReRead, LogoutFind, RevokeFind,
                    ReplyCount, ResolveCheck
<1>7. ASSUME Successors(r) PROVE FALSE
  BY <1>7, <1>3, SuccessorDoc DEF Successors, InsertSuccessor
<1>8. ASSUME AdoptFamily(r) \/ Claim(r) PROVE FALSE
  <2>1. /\ req[r].now \in Nat
        /\ Records(ClaimRotation(store, req[r].tok, req[r].now)) = Records(store)
    BY <1>a, RequestType, ClaimFacts DEF Base
  <2>2. Records(SetFamily(store, req[r].tok, req[r].sid)) = Records(store)
    <3>1. CASE req[r].tok \in Records(store) /\ store[req[r].tok].family_id = Nil
      <4>1. FamilyOf(store, req[r].tok) = req[r].tok /\ req[r].tok \in Token
        BY <3>1 DEF FamilyOf, Records
      <4>2. CASE AdoptFamily(r)
        <5>1. req[r].sid = req[r].tok
          BY <3>1, <4>1, <4>2 DEF AdoptFamily, Await, Base, Locals, LocalOK, RotatingPCs
        <5> QED BY <4>1, <5>1, <1>a, AdoptFacts
      <4>3. CASE Claim(r)
        BY <1>1, <2>1, <4>3 DEF Claim
      <4> QED BY <1>8, <4>2, <4>3
    <3> QED BY <3>1 DEF SetFamily
  <2> QED BY <1>1, <1>8, <2>1, <2>2 DEF AdoptFamily, Claim
<1>9. CASE RetireRevoke(r)
  BY <1>9, <1>b DEF RetireRevoke, RevokeFamily, Family
<1>10. CASE RevokeOwn(r)
  <2>1. Speaking(r) /\ t \in Family(store, req[r].sid)
    BY <1>10, <1>b DEF RevokeOwn, RevokeFamily, Speaking, SpeakingPCs, RotatingPCs
  <2> QED BY <2>1 DEF OwnersInv, SpokenFor
<1>11. CASE LogoutEnd(r)
  <2>1. CASE req[r].all
    BY <1>11, <2>1, <1>b DEF LogoutEnd, DeleteAllForUser, UserRecordsBut, UserRecords
  <2>2. CASE ~req[r].all
    <3>1. t \in Family(store, req[r].sid)
      BY <1>11, <2>2, <1>b DEF LogoutEnd, RevokeFamily
    <3>2. req[r].sid # Nil
      BY <3>1, <1>a, NilAssumption DEF Family
    <3> QED BY <1>11, <3>1, <3>2 DEF LogoutEnd, Await, LogoutsOwn
  <2> QED BY <2>1, <2>2
<1>12. CASE RevokeTarget(r)
  BY <1>12, <1>b DEF RevokeTarget, RevokeSession, UserRecords
<1>13. CASE EndOthers(r)
  BY <1>13, <1>b DEF EndOthers, DeleteAllForUser, UserRecordsBut, UserRecords
<1> QED BY <1>1, <1>4, <1>5, <1>6, <1>7, <1>8, <1>9, <1>10, <1>11, <1>12, <1>13, OnlyMover
        DEF Step, Successors

\* Whichever cookie, access token or session id a request is sent with, and
\* whatever runs between its reads and its deletes, it ends no session but its
\* own user's, or the one a login replaces in its browser.
THEOREM RequestsEndOwnSessions == Spec => EndsOwnOnly
<1>1. Init => LogoutsOwn
  BY DEF Init, LogoutsOwn, Idle
<1>2. Init => OwnersInv
  BY OwnersInit
<1>3. Base /\ OwnersInv /\ LogoutsOwn /\ [Next]_vars => [OwnOnly]_vars
  BY OwnOnlyStep
<1> QED
  BY <1>1, <1>2, <1>3, BaseInvariant, OwnersStep, LogoutsOwnStep, PTL
     DEF Spec, EndsOwnOnly, OwnOnly
=============================================================================
