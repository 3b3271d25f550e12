-------------------------- MODULE LiveIdentityProofs --------------------------
(***************************************************************************)
(* Theorems about LiveIdentity, for any number of keys, tokens and         *)
(* requests, and any times.                                                *)
(***************************************************************************)
EXTENDS LiveIdentity, TLAPS

-----------------------------------------------------------------------------
(* Times and locals *)

LEMMA Times ==
  /\ TTL \in Nat /\ TTL > 0 /\ MaxAge \in Nat /\ MaxAge > 0
  /\ MinRefresh \in Nat /\ Flight \in Nat /\ MinRefresh < MaxAge
  /\ Past \in Nat /\ KeyPast \in Nat /\ Past = TTL + Flight /\ KeyPast = MaxAge + Flight + 1
BY TimeAssumption DEF Past, KeyPast

LEMMA OlderTyped ==
  ASSUME NEW most \in Nat, NEW a \in 0 .. most
  PROVE  /\ Older(a, most) \in 0 .. most
         /\ Older(a, most) <= a + 1 /\ a <= Older(a, most)
         /\ Older(a, most) = a + 1 \/ Older(a, most) = most
BY DEF Older

LEMMA IdleTyped == Idle \in Request
BY Times DEF Idle, Request

LEMMA RespondedIs ==
  ASSUME NEW code \in Code
  PROVE  /\ Responded(code) \in Request
         /\ Responded(code).pc = "done" /\ Responded(code).code = code
<1>1. ASSUME NEW q \in Request, NEW p, p = [q EXCEPT !.pc = "done", !.code = code]
      PROVE  p \in Request /\ p.pc = "done" /\ p.code = code
  <2>1. p = [pc |-> "done", token |-> q.token, age |-> q.age, jwks |-> q.jwks, me |-> q.me,
             code |-> code]
    BY <1>1 DEF Request
  <2> QED BY <2>1 DEF Request
<1> QED BY <1>1, IdleTyped DEF Responded

\* The status a live answer leads to.
StatusOf(value) == CASE value = "gone" -> "unauthorized"
                     [] value = "user" -> "forbidden"
                     [] value = "admin" -> "ok"

LEMMA DecidedIs ==
  ASSUME NEW value \in Answer
  PROVE  /\ Decided(value) \in Request
         /\ Decided(value).pc = "done" /\ Decided(value).code = StatusOf(value)
<1>1. StatusOf(value) \in Code
  BY DEF StatusOf, Answer, Code
<1>2. Decided(value) = Responded(StatusOf(value))
  BY DEF Decided, StatusOf
<1> QED BY <1>1, <1>2, RespondedIs

LEMMA SentTyped ==
  ASSUME NEW q \in Request, NEW p, p = [q EXCEPT !.pc = "sent", !.age = 0, !.jwks = {}]
  PROVE  p \in Request /\ p.pc = "sent" /\ p.token = q.token
<1>1. 0 \in 0 .. Flight /\ {} \in SUBSET Kid
  BY Times
<1>2. p = [pc |-> "sent", token |-> q.token, age |-> 0, jwks |-> {}, me |-> q.me,
           code |-> q.code]
  BY DEF Request
<1> QED BY <1>1, <1>2 DEF Request

\* A verified token is looked up, or its status is known.
LEMMA LookedUpIs ==
  ASSUME cache \in [Token -> Entry], NEW q \in Request, q.token \in Token
  PROVE  /\ LookedUp(q) \in Request
         /\ \/ /\ Hit(q.token) /\ LookedUp(q).pc = "done"
               /\ LookedUp(q).code = StatusOf(cache[q.token].value)
            \/ LookedUp(q).pc = "sent" /\ LookedUp(q).token = q.token
<1>1. cache[q.token].value \in Answer
  BY DEF Entry
<1>2. CASE Hit(q.token)
  BY <1>1, <1>2, DecidedIs DEF LookedUp
<1>3. CASE ~Hit(q.token)
  BY <1>3, SentTyped DEF LookedUp
<1> QED BY <1>2, <1>3

LEMMA VerifiedIs ==
  ASSUME cache \in [Token -> Entry], NEW q \in Request, q.token \in Token, NEW held
  PROVE  /\ Verified(q, held) \in Request
         /\ \/ /\ Signer(q) \notin held
               /\ Verified(q, held).pc = "done" /\ Verified(q, held).code = "unauthorized"
            \/ /\ Signer(q) \in held /\ Hit(q.token) /\ Verified(q, held).pc = "done"
               /\ Verified(q, held).code = StatusOf(cache[q.token].value)
            \/ /\ Signer(q) \in held
               /\ Verified(q, held).pc = "sent" /\ Verified(q, held).token = q.token
<1>1. CASE Signer(q) \notin held
  BY <1>1, RespondedIs DEF Verified, Code
<1>2. CASE Signer(q) \in held
  BY <1>2, LookedUpIs DEF Verified
<1> QED BY <1>1, <1>2
-----------------------------------------------------------------------------
(* Types *)

Base == TypeOK /\ Carries

LEMMA InitBase == Init => Base
<1> SUFFICES ASSUME Init PROVE Base
  OBVIOUS
<1>1. \A r \in Req : req[r] = Idle /\ req[r].pc = "idle"
  BY DEF Init, Idle
<1>2. NoAnswers \in [Token -> Entry]
  BY Times DEF NoAnswers, None, Entry, Answer
<1>3. roleAge \in 0 .. Past /\ sessionAge \in 0 .. Past /\ keyAge \in [Kid -> 0 .. KeyPast]
  BY Times DEF Init
<1>4. fetchAge \in 0 .. MaxAge + 1
  BY Times DEF Init
<1>5. req \in [Req -> Request]
  BY IdleTyped DEF Init
<1>6. \A r \in Req : lock = r <=> req[r].pc \in {"fetch", "fetched"}
  BY <1>1, NilAssumption DEF Init
<1>7. TypeOK
  BY <1>2, <1>3, <1>4, <1>5, <1>6, KeyAssumption DEF Init, TypeOK
<1>8. Carries
  BY <1>1 DEF Carries
<1> QED BY <1>7, <1>8 DEF Base

\* The data of SSO, the ages and the backend, apart from the requests.
DataOK ==
  /\ role \in {"admin", "user"} /\ session \in BOOLEAN
  /\ published \subseteq Kid /\ active \in published
  /\ published \subseteq signed /\ signed \subseteq Kid
  /\ roleAge \in 0 .. Past /\ sessionAge \in 0 .. Past
  /\ keyAge \in [Kid -> 0 .. KeyPast]
  /\ keys \subseteq Kid /\ fetchAge \in 0 .. MaxAge + 1
  /\ cache \in [Token -> Entry]

LockOK == \A r \in Req : lock = r <=> req[r].pc \in {"fetch", "fetched"}

LEMMA TypeOKIs == TypeOK <=> DataOK /\ req \in [Req -> Request] /\ LockOK
BY DEF TypeOK, DataOK, LockOK

LEMMA TypeOKIsPrimed == TypeOK' <=> DataOK' /\ (req \in [Req -> Request])' /\ LockOK'
BY DEF TypeOK, DataOK, LockOK

\* A request takes a step to q: what it carries is in order if q is.
LEMMA Moves ==
  ASSUME Base, NEW r \in Req, NEW q \in Request, req' = [req EXCEPT ![r] = q],
         signed \subseteq signed',
         q.pc \notin {"idle", "done"} => q.token \in Token /\ Signer(q) \in signed,
         q.pc = "answered" => q.me \in Answer,
         \/ /\ lock' = lock
            /\ q.pc \in {"fetch", "fetched"} <=> req[r].pc \in {"fetch", "fetched"}
         \/ q.pc = "fetch" /\ lock = Nil /\ lock' = r
         \/ q.pc \notin {"fetch", "fetched"} /\ lock = r /\ lock' = Nil
  PROVE  req' \in [Req -> Request] /\ LockOK' /\ Carries'
<1>1. req \in [Req -> Request] /\ LockOK /\ Carries
  BY TypeOKIs DEF Base
<1>2. req' \in [Req -> Request] /\ req'[r] = q /\ \A x \in Req \ {r} : req'[x] = req[x]
  BY <1>1
<1>3. LockOK'
  BY <1>1, <1>2, NilAssumption DEF LockOK
<1>4. Carries'
  BY <1>1, <1>2 DEF Carries, Signer
<1> QED BY <1>2, <1>3, <1>4

\* A request whose token is verified goes on, and lets go of the lock.
LEMMA VerifyMoves ==
  ASSUME Base, NEW r \in Req, req[r].pc \in {"keys", "lock", "fetch", "fetched"},
         NEW q \in Request, q.pc = "done" \/ (q.pc = "sent" /\ q.token = req[r].token),
         req' = [req EXCEPT ![r] = q], signed \subseteq signed',
         lock' = IF lock = r THEN Nil ELSE lock
  PROVE  req' \in [Req -> Request] /\ LockOK' /\ Carries'
<1>1. /\ req[r].token \in Token /\ Signer(req[r]) \in signed
      /\ lock = r <=> req[r].pc \in {"fetch", "fetched"}
  BY DEF Base, TypeOK, Carries
<1>2. q.pc \notin {"idle", "done"} => q.token \in Token /\ Signer(q) \in signed
  BY <1>1 DEF Signer
<1>3. \/ /\ lock' = lock
         /\ q.pc \in {"fetch", "fetched"} <=> req[r].pc \in {"fetch", "fetched"}
      \/ q.pc \notin {"fetch", "fetched"} /\ lock = r /\ lock' = Nil
  BY <1>1
<1> QED BY <1>2, <1>3, Moves

\* The request does not wait for the keys, and has its status.
LEMMA EndMoves ==
  ASSUME Base, NEW r \in Req, NEW q \in Request, q.pc \in {"idle", "done"},
         req' = [req EXCEPT ![r] = q], signed \subseteq signed',
         lock' = IF lock = r THEN Nil ELSE lock
  PROVE  req' \in [Req -> Request] /\ LockOK' /\ Carries'
<1>1. lock = r <=> req[r].pc \in {"fetch", "fetched"}
  BY DEF Base, TypeOK
<1> QED BY <1>1, Moves

LEMMA StoreTyped ==
  ASSUME cache \in [Token -> Entry], NEW t \in Token, NEW value \in Answer
  PROVE  Store(t, value) \in [Token -> Entry]
<1>1. [value |-> value, left |-> TTL] \in Entry
  BY Times DEF Entry
<1> QED BY <1>1 DEF Store

LEMMA StepBase == Base /\ [Next]_vars => Base'
<1> SUFFICES ASSUME Base, [Next]_vars PROVE Base'
  OBVIOUS
<1> USE DEF sso, ages, backend, Awaits
<1>0. /\ DataOK /\ req \in [Req -> Request] /\ LockOK /\ Carries
  BY TypeOKIs DEF Base
<1>a. ASSUME DataOK', req' \in [Req -> Request] /\ LockOK' /\ Carries' PROVE Base'
  BY <1>a, TypeOKIsPrimed DEF Base
<1>b. ASSUME UNCHANGED <<sso, ages, keys, fetchAge, cache>> PROVE DataOK' /\ signed \subseteq signed'
  BY <1>0, <1>b DEF DataOK
<1>c. ASSUME NEW r \in Req, req[r].pc \notin {"idle", "done"}
      PROVE  req[r] \in Request /\ req[r].token \in Token /\ Signer(req[r]) \in signed
  BY <1>0, <1>c DEF Carries
<1>d. ASSUME NEW r \in Req, NEW held, req' = [req EXCEPT ![r] = Verified(req[r], held)],
             req[r].pc \in {"keys", "lock", "fetch", "fetched"}, signed \subseteq signed',
             lock' = IF lock = r THEN Nil ELSE lock
      PROVE  req' \in [Req -> Request] /\ LockOK' /\ Carries'
  <2> DEFINE q == Verified(req[r], held)
  <2>1. q \in Request /\ (q.pc = "done" \/ (q.pc = "sent" /\ q.token = req[r].token))
    BY <1>0, <1>c, <1>d, VerifiedIs DEF DataOK
  <2>2. req' = [req EXCEPT ![r] = q]
    BY <1>d
  <2> HIDE DEF q
  <2> QED BY <1>d, <2>1, <2>2, VerifyMoves
<1>1. ASSUME NEW r \in Req, NEW t \in Token, Arrive(r, t) PROVE Base'
  <2> DEFINE q == [Idle EXCEPT !.pc = "keys", !.token = t]
  <2>1. q \in Request /\ q.pc = "keys" /\ q.token = t
    BY IdleTyped DEF Request, Idle
  <2>2. q.pc \notin {"idle", "done"} => q.token \in Token /\ Signer(q) \in signed
    BY <1>1, <2>1 DEF Arrive, Signer
  <2>3. req' = [req EXCEPT ![r] = q] /\ UNCHANGED <<sso, ages, backend>> /\ req[r].pc = "idle"
    BY <1>1 DEF Arrive, Idle
  <2> HIDE DEF q
  <2> QED BY <1>a, <1>b, <2>1, <2>2, <2>3, Moves
<1>2. ASSUME NEW r \in Req, CheckKeys(r) PROVE Base'
  <2>1. CASE req' = [req EXCEPT ![r] = [req[r] EXCEPT !.pc = "lock"]]
    <3> DEFINE q == [req[r] EXCEPT !.pc = "lock"]
    <3>1. q \in Request /\ q.pc = "lock" /\ q.token = req[r].token
      BY <1>2, <1>c, Times DEF Request, CheckKeys
    <3>2. q.pc \notin {"idle", "done"} => q.token \in Token /\ Signer(q) \in signed
      BY <1>2, <1>c, <3>1 DEF CheckKeys, Signer
    <3>3. req' = [req EXCEPT ![r] = q]
      BY <2>1
    <3> HIDE DEF q
    <3> QED BY <1>2, <1>a, <1>b, <3>1, <3>2, <3>3, Moves DEF CheckKeys
  <2>2. CASE req' = [req EXCEPT ![r] = Verified(req[r], keys)]
    <3>1. lock' = IF lock = r THEN Nil ELSE lock
      BY <1>0, <1>2 DEF CheckKeys, LockOK
    <3>2. DataOK' /\ signed \subseteq signed' /\ req[r].pc \in {"keys", "lock"}
      BY <1>2, <1>b DEF CheckKeys
    <3>3. req' \in [Req -> Request] /\ LockOK' /\ Carries'
      BY <2>2, <3>1, <3>2, <1>d
    <3> QED BY <1>a, <3>2, <3>3
  <2> QED BY <1>2, <2>1, <2>2 DEF CheckKeys
<1>3. ASSUME NEW r \in Req, TakeLock(r) PROVE Base'
  <2>1. CASE lock' = r /\ req' = [req EXCEPT ![r] = [req[r] EXCEPT !.pc = "fetch", !.age = 0]]
    <3> DEFINE q == [req[r] EXCEPT !.pc = "fetch", !.age = 0]
    <3>0. 0 \in 0 .. Flight /\ req[r] \in Request
      BY <1>3, <1>c, Times DEF TakeLock
    <3>1. q \in Request /\ q.pc = "fetch" /\ q.token = req[r].token
      BY <3>0 DEF Request
    <3>2. q.pc \notin {"idle", "done"} => q.token \in Token /\ Signer(q) \in signed
      BY <1>3, <1>c, <3>1 DEF TakeLock, Signer
    <3>3. req' = [req EXCEPT ![r] = q]
      BY <2>1
    <3> HIDE DEF q
    <3> QED BY <1>3, <1>a, <1>b, <2>1, <3>1, <3>2, <3>3, Moves DEF TakeLock
  <2>2. CASE lock' = Nil /\ req' = [req EXCEPT ![r] = Verified(req[r], keys)]
    <3>1. lock' = IF lock = r THEN Nil ELSE lock
      BY <1>3, <2>2 DEF TakeLock
    <3>2. DataOK' /\ signed \subseteq signed' /\ req[r].pc \in {"keys", "lock"}
      BY <1>3, <1>b DEF TakeLock
    <3>3. req' \in [Req -> Request] /\ LockOK' /\ Carries'
      BY <2>2, <3>1, <3>2, <1>d
    <3> QED BY <1>a, <3>2, <3>3
  <2> QED BY <1>3, <2>1, <2>2 DEF TakeLock
<1>4. ASSUME NEW r \in Req, SendKeys(r) PROVE Base'
  <2> DEFINE q == [req[r] EXCEPT !.pc = "fetched", !.jwks = published]
  <2>1. q \in Request /\ q.pc = "fetched" /\ q.token = req[r].token
    BY <1>0, <1>4, <1>c, Times DEF Request, SendKeys, DataOK
  <2>2. q.pc \notin {"idle", "done"} => q.token \in Token /\ Signer(q) \in signed
    BY <1>4, <1>c, <2>1 DEF SendKeys, Signer
  <2>3. req' = [req EXCEPT ![r] = q]
    BY <1>0, <1>4 DEF SendKeys
  <2> HIDE DEF q
  <2> QED BY <1>4, <1>a, <1>b, <2>1, <2>2, <2>3, Moves DEF SendKeys
<1>5. ASSUME NEW r \in Req, Fetched(r) PROVE Base'
  <2>1. lock = r /\ req[r] \in Request
    BY <1>0, <1>5 DEF Fetched, LockOK
  <2>2. req' = [req EXCEPT ![r] = Verified(req[r], req[r].jwks)] /\ lock' = Nil
    BY <1>5 DEF Fetched
  <2>3. DataOK' /\ signed \subseteq signed'
    BY <1>0, <1>5, <2>1, Times DEF Fetched, DataOK, Request
  <2>4. lock' = (IF lock = r THEN Nil ELSE lock) /\ req[r].pc = "fetched"
    BY <1>5, <2>1, <2>2 DEF Fetched
  <2>5. req' \in [Req -> Request] /\ LockOK' /\ Carries'
    BY <2>2, <2>3, <2>4, <1>d
  <2> QED BY <1>a, <2>3, <2>5
<1>6. ASSUME NEW r \in Req, FetchFails(r) PROVE Base'
  <2>1. lock = r /\ lock' = Nil
    BY <1>0, <1>6 DEF FetchFails, LockOK
  <2>2. CASE req' = [req EXCEPT ![r] = Responded("unavailable")]
    BY <1>6, <1>a, <1>b, <2>1, <2>2, EndMoves, RespondedIs DEF FetchFails, Code
  <2>3. CASE req' = [req EXCEPT ![r] = Verified(req[r], keys)]
    <3>1. DataOK' /\ signed \subseteq signed' /\ req[r].pc \in {"fetch", "fetched"}
      BY <1>6, <1>b DEF FetchFails
    <3>2. req' \in [Req -> Request] /\ LockOK' /\ Carries'
      BY <2>1, <2>3, <3>1, <1>d
    <3> QED BY <1>a, <3>1, <3>2
  <2> QED BY <1>6, <2>2, <2>3 DEF FetchFails
<1>7. ASSUME NEW r \in Req, CheckSession(r) PROVE Base'
  <2>1. CASE req' = [req EXCEPT ![r] = [req[r] EXCEPT !.pc = "checked"]]
    <3> DEFINE q == [req[r] EXCEPT !.pc = "checked"]
    <3>1. q \in Request /\ q.pc = "checked" /\ q.token = req[r].token
      BY <1>7, <1>c, Times DEF Request, CheckSession
    <3>2. q.pc \notin {"idle", "done"} => q.token \in Token /\ Signer(q) \in signed
      BY <1>7, <1>c, <3>1 DEF CheckSession, Signer
    <3>3. req' = [req EXCEPT ![r] = q]
      BY <2>1
    <3> HIDE DEF q
    <3> QED BY <1>7, <1>a, <1>b, <3>1, <3>2, <3>3, Moves DEF CheckSession
  <2>2. CASE req' = [req EXCEPT ![r] = [req[r] EXCEPT !.pc = "answered", !.me = "gone"]]
    <3> DEFINE q == [req[r] EXCEPT !.pc = "answered", !.me = "gone"]
    <3>1. q \in Request /\ q.pc = "answered" /\ q.token = req[r].token /\ q.me \in Answer
      BY <1>7, <1>c, Times DEF Request, CheckSession, Answer
    <3>2. q.pc \notin {"idle", "done"} => q.token \in Token /\ Signer(q) \in signed
      BY <1>7, <1>c, <3>1 DEF CheckSession, Signer
    <3>3. req' = [req EXCEPT ![r] = q]
      BY <2>2
    <3> HIDE DEF q
    <3> QED BY <1>7, <1>a, <1>b, <3>1, <3>2, <3>3, Moves DEF CheckSession
  <2> QED BY <1>7, <2>1, <2>2 DEF CheckSession
<1>8. ASSUME NEW r \in Req, ReadRole(r) PROVE Base'
  <2> DEFINE q == [req[r] EXCEPT !.pc = "answered", !.me = role]
  <2>1. q \in Request /\ q.pc = "answered" /\ q.token = req[r].token /\ q.me \in Answer
    BY <1>0, <1>8, <1>c, Times DEF Request, ReadRole, Answer, DataOK
  <2>2. q.pc \notin {"idle", "done"} => q.token \in Token /\ Signer(q) \in signed
    BY <1>8, <1>c, <2>1 DEF ReadRole, Signer
  <2>3. req' = [req EXCEPT ![r] = q]
    BY <1>0, <1>8 DEF ReadRole
  <2> HIDE DEF q
  <2> QED BY <1>8, <1>a, <1>b, <2>1, <2>2, <2>3, Moves DEF ReadRole
<1>9. ASSUME NEW r \in Req, Answered(r) PROVE Base'
  <2>1. req[r].me \in Answer /\ req[r].token \in Token
    BY <1>0, <1>9 DEF Answered, Carries
  <2>2. DataOK' /\ signed \subseteq signed'
    BY <1>0, <1>9, <2>1, StoreTyped DEF Answered, DataOK
  <2>3. lock # r
    BY <1>0, <1>9 DEF Answered, LockOK
  <2> QED BY <1>9, <1>a, <2>1, <2>2, <2>3, EndMoves, DecidedIs DEF Answered
<1>10. ASSUME NEW r \in Req, CallFails(r) \/ Leave(r) PROVE Base'
  <2>1. lock # r
    BY <1>0, <1>10 DEF CallFails, Leave, LockOK
  <2>2. PICK q \in Request : q.pc \in {"idle", "done"} /\ req' = [req EXCEPT ![r] = q]
    BY <1>10, RespondedIs, IdleTyped DEF CallFails, Leave, Code, Idle
  <2> QED BY <1>10, <1>a, <1>b, <2>1, <2>2, EndMoves DEF CallFails, Leave
<1>11. CASE ChangeRole \/ Revoke
  <2>1. DataOK'
    <3>1. roleAge' \in {roleAge, 0} /\ sessionAge' \in {sessionAge, 0} /\ 0 \in 0 .. Past
      BY <1>11, Times DEF ChangeRole, Revoke
    <3>2. role' \in {"admin", "user"} /\ session' \in BOOLEAN
      BY <1>0, <1>11 DEF ChangeRole, Revoke, DataOK
    <3> QED BY <1>0, <1>11, <3>1, <3>2 DEF ChangeRole, Revoke, DataOK
  <2> QED BY <1>0, <1>11, <1>a, <2>1 DEF ChangeRole, Revoke, LockOK, Carries
<1>12. ASSUME NEW k \in Kid, Rotate(k) \/ Withdraw(k) PROVE Base'
  <2>1. keyAge' \in [Kid -> 0 .. KeyPast]
    BY <1>0, <1>12, Times DEF Rotate, Withdraw, DataOK
  <2>2. DataOK' /\ signed \subseteq signed'
    BY <1>0, <1>12, <2>1 DEF Rotate, Withdraw, DataOK
  <2>3. req' = req /\ lock' = lock
    BY <1>12 DEF Rotate, Withdraw
  <2> QED BY <1>0, <1>a, <2>2, <2>3 DEF LockOK, Carries
<1>13. CASE Tick
  <2>1. roleAge' \in 0 .. Past /\ sessionAge' \in 0 .. Past /\ fetchAge' \in 0 .. MaxAge + 1
    BY <1>0, <1>13, Times, OlderTyped DEF Tick, DataOK
  <2>2. keyAge' \in [Kid -> 0 .. KeyPast]
    BY <1>0, <1>13, Times, OlderTyped DEF Tick, DataOK
  <2>3. cache' \in [Token -> Entry]
    <3>1. None \in Entry
      BY Times DEF None, Entry, Answer
    <3>2. ASSUME NEW t \in Token, cache[t].left > 1, NEW e, e = [cache[t] EXCEPT !.left = @ - 1]
          PROVE  e \in Entry
      BY <1>0, <3>2, Times DEF DataOK, Entry
    <3> QED BY <1>13, <3>1, <3>2 DEF Tick
  <2>4. DataOK'
    BY <1>0, <1>13, <2>1, <2>2, <2>3 DEF Tick, DataOK
  <2>5. \A r \in Req : /\ req'[r] \in Request /\ req'[r].pc = req[r].pc
                       /\ req'[r].token = req[r].token /\ req'[r].me = req[r].me
    <3>1. ASSUME NEW r \in Req, InFlight(r), NEW q, q = [req[r] EXCEPT !.age = @ + 1]
          PROVE  /\ q \in Request /\ q.pc = req[r].pc
                 /\ q.token = req[r].token /\ q.me = req[r].me
      <4>1. req[r].age + 1 \in 0 .. Flight
        BY <1>0, <1>13, <3>1, Times DEF Tick, Request
      <4> QED BY <1>0, <3>1, <4>1 DEF Request
    <3> QED BY <1>0, <1>13, <3>1 DEF Tick
  <2>6. DOMAIN req' = Req /\ req' = [r \in Req |-> req'[r]]
    BY <1>13 DEF Tick
  <2> QED BY <1>0, <1>13, <1>a, <2>4, <2>5, <2>6 DEF Tick, LockOK, Carries, Signer
<1>14. CASE Restart
  <2>1. NoAnswers \in [Token -> Entry]
    BY Times DEF NoAnswers, None, Entry, Answer
  <2>2. DataOK'
    BY <1>0, <1>14, <2>1, Times DEF Restart, DataOK
  <2>3. \A r \in Req : req'[r] = Idle /\ Idle.pc = "idle"
    BY <1>14 DEF Restart, Idle
  <2>4. req' \in [Req -> Request]
    BY <1>14, IdleTyped DEF Restart
  <2>5. lock' = Nil
    BY <1>14 DEF Restart
  <2> QED BY <1>a, <2>2, <2>3, <2>4, <2>5, NilAssumption DEF LockOK, Carries
<1>15. CASE UNCHANGED vars
  BY <1>0, <1>15, <1>a DEF vars, DataOK, LockOK, Carries
<1> QED BY <1>1, <1>2, <1>3, <1>4, <1>5, <1>6, <1>7, <1>8, <1>9, <1>10, <1>11, <1>12,
           <1>13, <1>14, <1>15 DEF Next

LEMMA AlwaysBase == Spec => []Base
BY InitBase, StepBase, PTL DEF Spec

\* Type correctness of SSO's state, the caches and the requests; whoever holds the
\* lock of the key set is the one that fetches it.
THEOREM TypeCorrect == Spec => []TypeOK
<1>1. Base => TypeOK
  BY DEF Base
<1> QED BY <1>1, AlwaysBase, PTL
-----------------------------------------------------------------------------
(* Who moves a request *)

Steps(r) == \/ \E t \in Token : Arrive(r, t)
            \/ CheckKeys(r) \/ TakeLock(r) \/ Leave(r)
            \/ SendKeys(r) \/ Fetched(r) \/ FetchFails(r)
            \/ CheckSession(r) \/ ReadRole(r) \/ Answered(r) \/ CallFails(r)

Environment == ChangeRole \/ Revoke \/ \E k \in Kid : Rotate(k) \/ Withdraw(k)

LEMMA NextIs ==
  ASSUME [Next]_vars
  PROVE  (\E r \in Req : Steps(r)) \/ Environment \/ Tick \/ Restart \/ UNCHANGED vars
BY DEF Next, Steps, Environment

LEMMA StepsAlone ==
  ASSUME Base, NEW r \in Req, Steps(r)
  PROVE  UNCHANGED <<sso, ages>> /\ \A x \in Req \ {r} : req'[x] = req[x]
<1>1. req \in [Req -> Request]
  BY DEF Base, TypeOK
<1>2. UNCHANGED <<sso, ages>>
  BY DEF Steps, Arrive, CheckKeys, TakeLock, Leave, SendKeys, Fetched, FetchFails,
         CheckSession, ReadRole, Answered, CallFails
<1>3. \E q : req' = [req EXCEPT ![r] = q]
  <2>1. CASE (\E t \in Token : Arrive(r, t)) \/ CheckKeys(r) \/ TakeLock(r) \/ Leave(r)
    BY <2>1 DEF Arrive, CheckKeys, TakeLock, Leave
  <2>2. CASE SendKeys(r)
    <3>1. req' = [req EXCEPT ![r] = [req[r] EXCEPT !.pc = "fetched", !.jwks = published]]
      BY <1>1, <2>2 DEF SendKeys
    <3> QED BY <3>1
  <2>3. CASE ReadRole(r)
    <3>1. req' = [req EXCEPT ![r] = [req[r] EXCEPT !.pc = "answered", !.me = role]]
      BY <1>1, <2>3 DEF ReadRole
    <3> QED BY <3>1
  <2>4. CASE Fetched(r) \/ FetchFails(r) \/ CheckSession(r) \/ Answered(r) \/ CallFails(r)
    BY <2>4 DEF Fetched, FetchFails, CheckSession, Answered, CallFails
  <2> QED BY <2>1, <2>2, <2>3, <2>4 DEF Steps
<1> QED BY <1>1, <1>2, <1>3

LEMMA TickKeeps ==
  ASSUME Base, Tick, NEW r \in Req
  PROVE  /\ req'[r].pc = req[r].pc /\ req'[r].token = req[r].token
         /\ req'[r].me = req[r].me /\ req'[r].jwks = req[r].jwks
         /\ req'[r].age = IF InFlight(r) THEN req[r].age + 1 ELSE req[r].age
<1>1. req[r] \in Request /\ req'[r] = IF InFlight(r) THEN [req[r] EXCEPT !.age = @ + 1] ELSE req[r]
  BY DEF Base, TypeOK, Tick
<1>2. CASE InFlight(r)
  <2>1. req'[r] = [req[r] EXCEPT !.age = @ + 1]
    BY <1>1, <1>2
  <2> QED BY <1>1, <1>2, <2>1 DEF Request
<1>3. CASE ~InFlight(r)
  BY <1>1, <1>3
<1> QED BY <1>2, <1>3

\* Only its own steps move a request, but for a new start of the process.
LEMMA MovesItself ==
  ASSUME Base, [Next]_vars, NEW r \in Req, ~Steps(r)
  PROVE  req'[r].pc \in {req[r].pc, "idle"}
<1>1. ASSUME NEW x \in Req, Steps(x) PROVE req'[r] = req[r]
  BY <1>1, StepsAlone
<1>2. CASE Environment \/ UNCHANGED vars
  BY <1>2 DEF Environment, ChangeRole, Revoke, Rotate, Withdraw, vars
<1>3. CASE Tick
  BY <1>3, TickKeeps
<1>4. CASE Restart
  BY <1>4 DEF Restart, Idle
<1> QED BY <1>1, <1>2, <1>3, <1>4, NextIs

\* Where a step leaves a request.
LEMMA StepLeaves ==
  ASSUME Base, NEW r \in Req, Steps(r)
  PROVE  /\ req'[r].pc \in {"fetched"} => SendKeys(r)
         /\ req'[r].pc = "checked" => CheckSession(r)
         /\ req'[r].pc = "answered" => CheckSession(r) \/ ReadRole(r)
<1> USE DEF Awaits
<1>0. req \in [Req -> Request] /\ cache \in [Token -> Entry]
  BY DEF Base, TypeOK
<1>1. ASSUME NEW held, req[r].pc \in {"keys", "lock", "fetch", "fetched"}
      PROVE  Verified(req[r], held).pc \in {"sent", "done"}
  BY <1>0, <1>1, VerifiedIs DEF Base, Carries
<1>2. CASE CheckKeys(r)
  <2>1. req'[r] = [req[r] EXCEPT !.pc = "lock"] \/ req'[r] = Verified(req[r], keys)
    BY <1>0, <1>2 DEF CheckKeys
  <2> QED BY <1>0, <1>1, <1>2, <2>1 DEF CheckKeys, Request
<1>3. CASE TakeLock(r)
  <2>1. req'[r] = [req[r] EXCEPT !.pc = "fetch", !.age = 0] \/ req'[r] = Verified(req[r], keys)
    BY <1>0, <1>3 DEF TakeLock
  <2> QED BY <1>0, <1>1, <1>3, <2>1 DEF TakeLock, Request
<1>4. CASE Fetched(r)
  <2>1. req'[r] = Verified(req[r], req[r].jwks)
    BY <1>0, <1>4 DEF Fetched
  <2> QED BY <1>1, <1>4, <2>1 DEF Fetched
<1>5. CASE FetchFails(r)
  <2>1. req'[r] = Responded("unavailable") \/ req'[r] = Verified(req[r], keys)
    BY <1>0, <1>5 DEF FetchFails
  <2> QED BY <1>1, <1>5, <2>1, RespondedIs DEF FetchFails, Code
<1>6. ASSUME NEW t \in Token, Arrive(r, t) PROVE req'[r].pc = "keys"
  <2>1. req'[r] = [Idle EXCEPT !.pc = "keys", !.token = t]
    BY <1>0, <1>6 DEF Arrive
  <2> QED BY <2>1 DEF Idle
<1>7. CASE Leave(r) \/ CallFails(r)
  <2>1. req'[r] = Idle \/ req'[r] = Responded("unavailable")
    BY <1>0, <1>7 DEF Leave, CallFails
  <2> QED BY <2>1, RespondedIs DEF Idle, Code
<1>8. CASE Answered(r)
  <2>1. req'[r] = Decided(req[r].me) /\ req[r].me \in Answer
    BY <1>0, <1>8 DEF Answered, Base, Carries
  <2> QED BY <2>1, DecidedIs
<1>9. CASE ReadRole(r)
  <2>1. req'[r].pc = "answered"
    BY <1>0, <1>9 DEF ReadRole, Request
  <2> QED BY <1>9, <2>1
<1>10. CASE SendKeys(r)
  <2>1. req'[r].pc = "fetched"
    BY <1>0, <1>10 DEF SendKeys, Request
  <2> QED BY <1>10, <2>1
<1>11. CASE CheckSession(r)
  <2>1. \/ req'[r] = [req[r] EXCEPT !.pc = "checked"]
        \/ req'[r] = [req[r] EXCEPT !.pc = "answered", !.me = "gone"]
    BY <1>0, <1>11 DEF CheckSession
  <2> QED BY <1>0, <1>11, <2>1 DEF Request
<1> QED BY <1>2, <1>3, <1>4, <1>5, <1>6, <1>7, <1>8, <1>9, <1>10, <1>11 DEF Steps
-----------------------------------------------------------------------------
(* The keys *)

LEMMA InitDue == Init => FetchDue
BY DEF Init, FetchDue

LEMMA StepDue == Base /\ FetchDue /\ [Next]_vars => FetchDue'
<1> SUFFICES ASSUME Base, FetchDue, [Next]_vars, lock' # Nil PROVE MayRefetch'
  BY DEF FetchDue
<1> USE DEF sso, backend
<1>1. ASSUME NEW r \in Req, TakeLock(r) PROVE MayRefetch'
  BY <1>1 DEF TakeLock, Refetches, MayRefetch
<1>2. CASE Tick
  <2>1. fetchAge \in 0 .. MaxAge + 1 /\ fetchAge <= fetchAge'
    BY <1>2, Times, OlderTyped DEF Tick, Base, TypeOK
  <2>2. fetchAge' \in 0 .. MaxAge + 1
    BY StepBase DEF Base, TypeOK
  <2>3. keys' = keys /\ lock' = lock
    BY <1>2 DEF Tick
  <2> QED BY <2>1, <2>2, <2>3, Times DEF FetchDue, MayRefetch
<1>3. CASE lock' = lock /\ keys' = keys /\ fetchAge' = fetchAge
  BY <1>3 DEF FetchDue, MayRefetch
<1>4. ASSUME NEW r \in Req, Steps(r), ~TakeLock(r)
      PROVE  lock' = Nil \/ (lock' = lock /\ keys' = keys /\ fetchAge' = fetchAge)
  BY <1>4 DEF Steps, Arrive, CheckKeys, Leave, SendKeys, Fetched, FetchFails, CheckSession,
              ReadRole, Answered, CallFails
<1>5. CASE Environment \/ UNCHANGED vars \/ Restart
  BY <1>3, <1>5 DEF Environment, ChangeRole, Revoke, Rotate, Withdraw, vars, Restart
<1> QED BY <1>1, <1>2, <1>3, <1>4, <1>5, NextIs

\* A burst of requests with an unknown key asks for the keys once per refresh
\* interval: those that waited for the lock of JwksCache use what the first brought.
THEOREM KeysFetchedSpaced == Spec => FetchesSpaced
<1>1. Base /\ FetchDue /\ [Next]_vars =>
        [\A r \in Req : lock = r /\ lock' = Nil /\ fetchAge' = 0 =>
           fetchAge > MinRefresh \/ keys = {} \/ FetchFails(r)]_vars
  BY NilAssumption DEF FetchDue, MayRefetch
<1>2. Spec => []FetchDue
  BY InitDue, StepDue, AlwaysBase, PTL DEF Spec
<1> QED BY <1>1, <1>2, AlwaysBase, PTL DEF Spec, FetchesSpaced

LEMMA InitRecent == Init => KeysRecent
<1> SUFFICES ASSUME Init, NEW k \in Kid
             PROVE  /\ keyAge[k] <= fetchAge + Flight
                    /\ \A r \in Req : ~Awaits(r, "fetched")
  BY DEF KeysRecent
<1> QED BY Times DEF Init, Awaits, Idle

\* What is held of the keys, at most an age ago.
HeldRecent(held, age) == \A k \in Kid : Differs(held, k) => keyAge[k] <= age

LEMMA RecentIs ==
  /\ KeysRecent <=> /\ HeldRecent(keys, fetchAge + Flight)
                    /\ \A r \in Req : req[r].pc = "fetched" => HeldRecent(req[r].jwks, req[r].age)
  /\ KeysRecent' <=> /\ \A k \in Kid : ~(k \in keys' <=> k \in published') =>
                                         keyAge'[k] <= fetchAge' + Flight
                     /\ \A r \in Req : req'[r].pc = "fetched" =>
                          \A k \in Kid : ~(k \in req'[r].jwks <=> k \in published') =>
                                           keyAge'[k] <= req'[r].age
BY DEF KeysRecent, HeldRecent, Differs, Awaits

\* Changes at SSO restart the age of the key they are about.
LEMMA KeyAges ==
  ASSUME Base, \/ \E k \in Kid : Rotate(k) \/ Withdraw(k)
               \/ published' = published /\ keyAge' = keyAge,
         NEW held, NEW age \in Nat, HeldRecent(held, age), NEW k \in Kid,
         ~(k \in held <=> k \in published')
  PROVE  keyAge'[k] <= age
<1>1. keyAge \in [Kid -> 0 .. KeyPast]
  BY DEF Base, TypeOK
<1>2. ASSUME NEW x \in Kid, Rotate(x) \/ Withdraw(x) PROVE keyAge'[k] <= age
  <2>1. CASE x = k
    BY <1>1, <1>2, <2>1 DEF Rotate, Withdraw
  <2>2. CASE x # k
    BY <1>1, <1>2, <2>2 DEF Rotate, Withdraw, HeldRecent, Differs
  <2> QED BY <2>1, <2>2
<1>3. CASE published' = published /\ keyAge' = keyAge
  BY <1>3 DEF HeldRecent, Differs
<1> QED BY <1>2, <1>3

LEMMA StepRecent == Base /\ KeysRecent /\ [Next]_vars => KeysRecent'
<1> SUFFICES ASSUME Base, KeysRecent, [Next]_vars PROVE KeysRecent'
  OBVIOUS
<1> USE DEF sso, ages, backend, Awaits
<1>0. /\ HeldRecent(keys, fetchAge + Flight)
      /\ \A r \in Req : req[r].pc = "fetched" => HeldRecent(req[r].jwks, req[r].age)
      /\ req \in [Req -> Request] /\ fetchAge \in Nat /\ Flight \in Nat
      /\ keyAge \in [Kid -> 0 .. KeyPast]
      /\ \A r \in Req : req[r].age \in 0 .. Flight /\ req[r].age \in Nat
  BY RecentIs, Times DEF Base, TypeOK, Request
<1>1. ASSUME keys' = keys, fetchAge' = fetchAge,
             \/ \E k \in Kid : Rotate(k) \/ Withdraw(k)
             \/ published' = published /\ keyAge' = keyAge,
             \A r \in Req : req'[r].pc = "fetched" => req'[r] = req[r]
      PROVE  KeysRecent'
  <2>1. fetchAge + Flight \in Nat
    BY <1>0
  <2>2. \A k \in Kid : ~(k \in keys' <=> k \in published') => keyAge'[k] <= fetchAge' + Flight
    BY <1>0, <1>1, <2>1, KeyAges
  <2>3. ASSUME NEW r \in Req, req'[r].pc = "fetched", NEW k \in Kid,
               ~(k \in req'[r].jwks <=> k \in published')
        PROVE  keyAge'[k] <= req'[r].age
    <3>1. req'[r] = req[r] /\ HeldRecent(req[r].jwks, req[r].age) /\ req[r].age \in Nat
      BY <1>0, <1>1, <2>3
    <3> QED BY <1>1, <2>3, <3>1, KeyAges
  <2> QED BY <2>2, <2>3, RecentIs
<1>2. ASSUME NEW r \in Req, Steps(r), ~SendKeys(r), ~Fetched(r) PROVE KeysRecent'
  <2>1. keys' = keys /\ fetchAge' = fetchAge
    BY <1>2 DEF Steps, Arrive, CheckKeys, TakeLock, Leave, FetchFails, CheckSession, ReadRole,
         Answered, CallFails
  <2>2. \A x \in Req : req'[x].pc = "fetched" => req'[x] = req[x]
    BY <1>2, StepsAlone, StepLeaves
  <2> QED BY <1>1, <1>2, <2>1, <2>2, StepsAlone
<1>3. ASSUME NEW r \in Req, SendKeys(r) PROVE KeysRecent'
  <2>1. req'[r] = [req[r] EXCEPT !.pc = "fetched", !.jwks = published]
    BY <1>0, <1>3 DEF SendKeys
  <2>2. req'[r].jwks = published
    BY <1>0, <2>1 DEF Request
  <2>3. \A x \in Req \ {r} : req'[x] = req[x]
    BY <1>3, StepsAlone DEF Steps
  <2>4. keys' = keys /\ fetchAge' = fetchAge /\ published' = published /\ keyAge' = keyAge
    BY <1>3 DEF SendKeys
  <2> QED BY <1>0, <2>2, <2>3, <2>4, RecentIs DEF HeldRecent, Differs
<1>4. ASSUME NEW r \in Req, Fetched(r) PROVE KeysRecent'
  <2>1. req'[r].pc # "fetched" /\ \A x \in Req \ {r} : req'[x] = req[x]
    BY <1>4, StepsAlone, StepLeaves DEF Steps, Fetched, SendKeys
  <2>2. keys' = req[r].jwks /\ fetchAge' = 0 /\ published' = published /\ keyAge' = keyAge
    BY <1>4 DEF Fetched
  <2>3. HeldRecent(req[r].jwks, req[r].age) /\ req[r].age <= Flight
    BY <1>0, <1>4 DEF Fetched
  <2>4. \A k \in Kid : Differs(req[r].jwks, k) => keyAge[k] <= 0 + Flight
    BY <1>0, <2>3 DEF HeldRecent
  <2> QED BY <1>0, <2>1, <2>2, <2>4, RecentIs DEF HeldRecent, Differs
<1>5. ASSUME NEW k \in Kid, Rotate(k) \/ Withdraw(k) PROVE KeysRecent'
  <2>1. keys' = keys /\ fetchAge' = fetchAge /\ req' = req
    BY <1>5 DEF Rotate, Withdraw
  <2> QED BY <1>1, <1>5, <2>1
<1>6. CASE ChangeRole \/ Revoke \/ UNCHANGED vars
  <2>1. /\ keys' = keys /\ fetchAge' = fetchAge /\ req' = req
        /\ published' = published /\ keyAge' = keyAge
    BY <1>6 DEF ChangeRole, Revoke, vars
  <2> QED BY <1>1, <2>1
<1>7. CASE Tick
  <2>1. published' = published /\ keys' = keys
    BY <1>7 DEF Tick
  <2>2. \A k \in Kid : keyAge'[k] = Older(keyAge[k], KeyPast)
    BY <1>7 DEF Tick
  <2>3. \A k \in Kid : keyAge'[k] <= keyAge[k] + 1 /\ keyAge'[k] <= KeyPast /\ keyAge[k] \in Nat
                       /\ keyAge'[k] \in Nat
    <3> SUFFICES ASSUME NEW k \in Kid
                 PROVE  /\ keyAge'[k] <= keyAge[k] + 1 /\ keyAge'[k] <= KeyPast
                        /\ keyAge[k] \in Nat /\ keyAge'[k] \in Nat
      OBVIOUS
    <3>1. keyAge[k] \in 0 .. KeyPast /\ KeyPast \in Nat
      BY <1>0, Times
    <3>2. /\ Older(keyAge[k], KeyPast) \in 0 .. KeyPast
          /\ Older(keyAge[k], KeyPast) <= keyAge[k] + 1
      BY <3>1, OlderTyped
    <3> QED BY <2>2, <3>1, <3>2
  <2>4. fetchAge' = fetchAge + 1 \/ fetchAge' = MaxAge + 1
    <3>1. fetchAge \in 0 .. MaxAge + 1 /\ MaxAge + 1 \in Nat
      BY <1>0, Times DEF Base, TypeOK
    <3>2. fetchAge' = Older(fetchAge, MaxAge + 1)
      BY <1>7 DEF Tick
    <3> QED BY <3>1, <3>2, OlderTyped
  <2>5. ASSUME NEW k \in Kid, Differs(keys, k) PROVE keyAge'[k] <= fetchAge' + Flight
    <3>1. keyAge[k] <= fetchAge + Flight
      BY <1>0, <2>5 DEF HeldRecent
    <3> QED BY <1>0, <2>3, <2>4, <3>1, Times
  <2>6. ASSUME NEW r \in Req, req'[r].pc = "fetched", NEW k \in Kid, Differs(req'[r].jwks, k)
        PROVE  keyAge'[k] <= req'[r].age
    <3>1. req'[r].age = req[r].age + 1 /\ req'[r].jwks = req[r].jwks /\ req[r].pc = "fetched"
      BY <1>7, <2>6, TickKeeps DEF InFlight
    <3>2. keyAge[k] <= req[r].age
      BY <1>0, <2>6, <3>1 DEF HeldRecent
    <3> QED BY <1>0, <2>3, <3>1, <3>2
  <2> QED BY <2>1, <2>5, <2>6, RecentIs DEF Differs
<1>8. CASE Restart
  <2>1. fetchAge' = MaxAge + 1 /\ keyAge' = keyAge /\ \A r \in Req : req'[r].pc = "idle"
    BY <1>8 DEF Restart, Idle
  <2>2. \A k \in Kid : keyAge[k] \in Nat /\ keyAge[k] <= MaxAge + 1 + Flight
    BY <1>0, Times
  <2> QED BY <2>1, <2>2, RecentIs
<1> QED BY <1>2, <1>3, <1>4, <1>5, <1>6, <1>7, <1>8, NextIs DEF Environment

LEMMA AlwaysRecent == Spec => []KeysRecent
BY InitRecent, StepRecent, AlwaysBase, PTL DEF Spec

\* How a token comes to be verified, and with which keys.
LEMMA Verifies ==
  ASSUME Base, KeysRecent, [Next]_vars, NEW r \in Req,
         req[r].pc \in {"keys", "lock", "fetch", "fetched"}, req'[r].pc \in {"sent", "done"},
         ~FetchFails(r)
  PROVE  \E held :
           /\ req'[r] = Verified(req[r], held)
           /\ ~(Signer(req[r]) \in held <=> Signer(req[r]) \in published) =>
                /\ keyAge[Signer(req[r])] <= MaxAge + Flight
                /\ Signer(req[r]) \notin held => keyAge[Signer(req[r])] <= MinRefresh + Flight
<1> USE DEF Awaits
<1>0. /\ req \in [Req -> Request] /\ req[r] \in Request /\ req[r].token \in Token
      /\ Signer(req[r]) \in Kid /\ keyAge[Signer(req[r])] \in Nat
      /\ fetchAge \in Nat
  BY KeyAssumption, Times DEF Base, TypeOK, Carries, Signer
<1>1. Steps(r)
  BY MovesItself
<1>2. CheckKeys(r) \/ TakeLock(r) \/ Fetched(r)
  <2>1. ~SendKeys(r)
    BY <1>0 DEF SendKeys, Request
  <2>2. \A t \in Token : ~Arrive(r, t)
    BY DEF Arrive, Idle
  <2>3. ~Leave(r) /\ ~CheckSession(r) /\ ~ReadRole(r) /\ ~Answered(r) /\ ~CallFails(r)
    BY DEF Leave, CheckSession, ReadRole, Answered, CallFails
  <2> QED BY <1>1, <2>1, <2>2, <2>3 DEF Steps
<1>3. Differs(keys, Signer(req[r])) => keyAge[Signer(req[r])] <= fetchAge + Flight
  BY <1>0 DEF KeysRecent
<1>4. CASE CheckKeys(r)
  <2>1. /\ req'[r] = Verified(req[r], keys)
        /\ ~Stale /\ (Signer(req[r]) \in keys \/ ~MayRefetch)
    <3>1. req'[r] # [req[r] EXCEPT !.pc = "lock"]
      BY <1>0 DEF Request
    <3> QED BY <1>0, <1>4, <3>1 DEF CheckKeys
  <2>2. fetchAge <= MaxAge /\ (Signer(req[r]) \in keys \/ fetchAge <= MinRefresh)
    BY <1>0, <2>1, Times DEF Stale, MayRefetch
  <2> QED BY <1>0, <1>3, <2>1, <2>2, Times DEF Differs
<1>5. CASE TakeLock(r)
  <2>1. req'[r] = Verified(req[r], keys) /\ ~MayRefetch
    <3>1. req'[r] # [req[r] EXCEPT !.pc = "fetch", !.age = 0]
      BY <1>0 DEF Request
    <3> QED BY <1>0, <1>5, <3>1 DEF TakeLock, Refetches
  <2>2. fetchAge <= MinRefresh
    BY <1>0, <2>1, Times DEF MayRefetch
  <2> QED BY <1>0, <1>3, <2>1, <2>2, Times DEF Differs
<1>6. CASE Fetched(r)
  <2>1. req'[r] = Verified(req[r], req[r].jwks)
    BY <1>0, <1>6 DEF Fetched
  <2>2. req[r].age \in Nat /\ req[r].age <= Flight
    BY <1>0, Times DEF Request
  <2>3. Differs(req[r].jwks, Signer(req[r])) => keyAge[Signer(req[r])] <= req[r].age
    BY <1>0, <1>6 DEF KeysRecent, Fetched
  <2> QED BY <1>0, <2>1, <2>2, <2>3, Times DEF Differs
<1> QED BY <1>2, <1>4, <1>5, <1>6

\* "A key withdrawn from JWKS is trusted no longer than the keys are kept and one
\* fetch", unless SSO could not be asked (JwksCache.get and its failed fetches).
THEOREM WithdrawnKeysDistrusted == Spec => KeyTrusted
<1>1. ASSUME Base, KeysRecent, [Next]_vars, NEW r \in Req, Accepted(r), ~FetchFails(r),
             Signer(req[r]) \notin published
      PROVE  keyAge[Signer(req[r])] <= MaxAge + Flight
  <2>1. /\ req[r].pc \in {"keys", "lock", "fetch", "fetched"} /\ req'[r].pc \in {"sent", "done"}
        /\ req'[r].pc = "done" => req'[r].code # "unauthorized"
    BY <1>1 DEF Accepted, Ends
  <2>2. PICK held :
           /\ req'[r] = Verified(req[r], held)
           /\ ~(Signer(req[r]) \in held <=> Signer(req[r]) \in published) =>
                keyAge[Signer(req[r])] <= MaxAge + Flight
    BY <1>1, <2>1, Verifies
  <2>3. req[r] \in Request /\ req[r].token \in Token /\ cache \in [Token -> Entry]
    BY <1>1, <2>1 DEF Base, TypeOK, Carries
  <2>4. Signer(req[r]) \in held
    BY <2>1, <2>2, <2>3, VerifiedIs
  <2> QED BY <1>1, <2>2, <2>4
<1>2. Base /\ KeysRecent /\ [Next]_vars =>
        [\A r \in Req : Accepted(r) =>
           \/ Signer(req[r]) \in published
           \/ keyAge[Signer(req[r])] <= MaxAge + Flight
           \/ FetchFails(r)]_vars
  BY <1>1
<1> QED BY <1>2, AlwaysBase, AlwaysRecent, PTL DEF Spec, KeyTrusted
-----------------------------------------------------------------------------
(* The answers *)

\* What Founded says of the state after a step.
FoundedNext(t, value, age) ==
  IF value = "gone" THEN ~session' \/ KeyOf[t] \in signed' \ published'
  ELSE /\ role' = value \/ roleAge' <= age
       /\ session' \/ sessionAge' <= age

LEMMA InitFounded == Init => AnswersFounded
<1> SUFFICES ASSUME Init PROVE /\ \A t \in Token : ~Hit(t)
                               /\ \A r \in Req : req[r].pc = "idle"
  BY DEF AnswersFounded, Awaits
<1> QED BY DEF Init, Hit, NoAnswers, None, Idle

\* A role or a session that changes is a recent change; who is gone stays gone.
LEMMA FoundedStays ==
  ASSUME Base, [Next]_vars, ~Tick, NEW t, NEW value, NEW age \in Nat, Founded(t, value, age)
  PROVE  FoundedNext(t, value, age)
<1> USE DEF Founded, FoundedNext, sso, ages
<1>1. CASE UNCHANGED <<sso, ages>>
  BY <1>1
<1>2. CASE ChangeRole
  BY <1>2 DEF ChangeRole
<1>3. CASE Revoke
  BY <1>3 DEF Revoke
<1>4. ASSUME NEW k \in Kid, Rotate(k) \/ Withdraw(k) PROVE FoundedNext(t, value, age)
  BY <1>4 DEF Rotate, Withdraw
<1>5. CASE Restart \/ UNCHANGED vars
  BY <1>5 DEF Restart, vars
<1> QED BY <1>1, <1>2, <1>3, <1>4, <1>5, StepsAlone, NextIs DEF Environment

LEMMA FoundedAges ==
  ASSUME Base, Tick, NEW t, NEW value, NEW age \in Nat, Founded(t, value, age)
  PROVE  FoundedNext(t, value, age + 1)
<1>1. roleAge' <= roleAge + 1 /\ sessionAge' <= sessionAge + 1
  BY Times, OlderTyped DEF Tick, Base, TypeOK
<1>2. /\ roleAge \in Nat /\ sessionAge \in Nat /\ UNCHANGED sso
      /\ roleAge' \in Nat /\ sessionAge' \in Nat
  BY Times, OlderTyped DEF Base, TypeOK, Tick
<1> QED BY <1>1, <1>2 DEF Founded, FoundedNext, sso

LEMMA StepFounded == Base /\ AnswersFounded /\ [Next]_vars => AnswersFounded'
<1> SUFFICES ASSUME Base, AnswersFounded, [Next]_vars
             PROVE  /\ \A t \in Token : cache'[t].left > 0 =>
                         FoundedNext(t, cache'[t].value, TTL - cache'[t].left + Flight)
                    /\ \A r \in Req :
                         /\ req'[r].pc = "checked" => session' \/ sessionAge' <= req'[r].age
                         /\ req'[r].pc = "answered" =>
                              FoundedNext(req'[r].token, req'[r].me, req'[r].age)
  BY DEF AnswersFounded, Hit, Founded, FoundedNext, Awaits
<1> USE DEF sso, ages, backend, Awaits
<1>0. /\ req \in [Req -> Request] /\ cache \in [Token -> Entry] /\ cache' \in [Token -> Entry]
      /\ \A r \in Req : req[r].age \in Nat /\ req[r].age <= Flight
      /\ \A t \in Token : /\ cache[t].left \in Nat /\ cache[t].left <= TTL
                          /\ TTL - cache[t].left + Flight \in Nat
  <2>1. cache' \in [Token -> Entry]
    BY StepBase DEF Base, TypeOK
  <2> QED BY <2>1, Times DEF Base, TypeOK, Request, Entry
<1>1. ASSUME NEW r \in Req, req'[r] = req[r], ~Tick
      PROVE  /\ req'[r].pc = "checked" => session' \/ sessionAge' <= req'[r].age
             /\ req'[r].pc = "answered" =>
                  FoundedNext(req'[r].token, req'[r].me, req'[r].age)
  <2>1. CASE req[r].pc = "answered"
    BY <1>0, <1>1, <2>1, FoundedStays DEF AnswersFounded
  <2>2. CASE req[r].pc = "checked"
    <3>1. session \/ sessionAge <= req[r].age
      BY <2>2 DEF AnswersFounded
    <3>2. (session' = session /\ sessionAge' = sessionAge) \/ sessionAge' = 0
      <4>1. ASSUME NEW x \in Req, Steps(x) PROVE session' = session /\ sessionAge' = sessionAge
        BY <4>1, StepsAlone
      <4> QED BY <1>1, <4>1, NextIs DEF Environment, ChangeRole, Revoke, Rotate, Withdraw,
                 Restart, vars
    <3> QED BY <1>0, <1>1, <2>2, <3>1, <3>2
  <2> QED BY <1>1, <2>1, <2>2
<1>2. ASSUME NEW t \in Token, cache'[t] = cache[t], ~Tick, cache'[t].left > 0
      PROVE  FoundedNext(t, cache'[t].value, TTL - cache'[t].left + Flight)
  BY <1>0, <1>2, FoundedStays DEF AnswersFounded, Hit
<1>3. ASSUME NEW r \in Req, Steps(r), ~CheckSession(r), ~ReadRole(r), ~Answered(r), ~Tick
      PROVE  /\ cache' = cache /\ req'[r].pc # "checked" /\ req'[r].pc # "answered"
             /\ \A x \in Req \ {r} : req'[x] = req[x]
  <2>1. cache' = cache
    BY <1>3 DEF Steps, Arrive, CheckKeys, TakeLock, Leave, SendKeys, Fetched, FetchFails, CallFails
  <2> QED BY <1>3, <2>1, StepLeaves, StepsAlone
<1>4. CASE ~Tick
  <2>1. ASSUME NEW r \in Req, CheckSession(r)
        PROVE  /\ cache' = cache /\ \A x \in Req \ {r} : req'[x] = req[x]
               /\ req'[r].pc = "checked" => session' \/ sessionAge' <= req'[r].age
               /\ req'[r].pc = "answered" =>
                    FoundedNext(req'[r].token, req'[r].me, req'[r].age)
    <3>1. cache' = cache /\ UNCHANGED sso
      BY <2>1 DEF CheckSession
    <3>2. \A x \in Req \ {r} : req'[x] = req[x]
      BY <2>1, StepsAlone DEF Steps
    <3>3. CASE session /\ Signer(req[r]) \in published
      <4>1. req'[r] = [req[r] EXCEPT !.pc = "checked"]
        BY <1>0, <2>1, <3>3 DEF CheckSession
      <4>2. req'[r].pc = "checked"
        BY <1>0, <4>1 DEF Request
      <4> QED BY <3>1, <3>2, <3>3, <4>2
    <3>4. CASE ~(session /\ Signer(req[r]) \in published)
      <4>1. req'[r] = [req[r] EXCEPT !.pc = "answered", !.me = "gone"]
        BY <1>0, <2>1, <3>4 DEF CheckSession
      <4>2. req'[r].pc = "answered" /\ req'[r].me = "gone" /\ req'[r].token = req[r].token
        BY <1>0, <4>1 DEF Request
      <4>3. KeyOf[req[r].token] \in signed
        BY <2>1 DEF CheckSession, Base, Carries, Signer
      <4> QED BY <3>1, <3>2, <3>4, <4>2, <4>3 DEF FoundedNext, Signer
    <3> QED BY <3>3, <3>4
  <2>2. ASSUME NEW r \in Req, ReadRole(r)
        PROVE  /\ cache' = cache /\ \A x \in Req \ {r} : req'[x] = req[x]
               /\ req'[r].pc = "checked" => session' \/ sessionAge' <= req'[r].age
               /\ req'[r].pc = "answered" =>
                    FoundedNext(req'[r].token, req'[r].me, req'[r].age)
    <3>1. cache' = cache /\ UNCHANGED <<sso, ages>>
      BY <2>2 DEF ReadRole
    <3>2. \A x \in Req \ {r} : req'[x] = req[x]
      BY <2>2, StepsAlone DEF Steps
    <3>3. req'[r] = [req[r] EXCEPT !.pc = "answered", !.me = role]
      BY <1>0, <2>2 DEF ReadRole
    <3>4. req'[r].pc = "answered" /\ req'[r].me = role /\ req'[r].age = req[r].age
      BY <1>0, <3>3 DEF Request
    <3>5. session \/ sessionAge <= req[r].age
      BY <2>2 DEF ReadRole, AnswersFounded
    <3>6. role # "gone"
      BY DEF Base, TypeOK
    <3> QED BY <3>1, <3>2, <3>4, <3>5, <3>6 DEF FoundedNext
  <2>3. ASSUME NEW r \in Req, Answered(r)
        PROVE  /\ \A x \in Req \ {r} : req'[x] = req[x]
               /\ req'[r].pc = "done"
               /\ \A t \in Token : cache'[t] # cache[t] =>
                    FoundedNext(t, cache'[t].value, TTL - cache'[t].left + Flight)
    <3> DEFINE t == req[r].token
               q == req[r]
    <3>1. t \in Token /\ q.me \in Answer /\ Founded(t, q.me, q.age)
      BY <2>3 DEF Answered, Base, Carries, AnswersFounded
    <3>2. /\ cache' = [cache EXCEPT ![t] = [value |-> q.me, left |-> TTL]]
          /\ req'[r] = Decided(q.me)
      BY <1>0, <2>3 DEF Answered, Store
    <3>3. req'[r].pc = "done"
      BY <3>1, <3>2, DecidedIs
    <3>4. \A x \in Req \ {r} : req'[x] = req[x]
      BY <2>3, StepsAlone DEF Steps
    <3>5. FoundedNext(t, q.me, q.age)
      BY <1>0, <1>4, <3>1, FoundedStays
    <3>6. /\ roleAge' \in Nat /\ sessionAge' \in Nat
          /\ q.age \in Nat /\ q.age <= Flight /\ Flight \in Nat
      BY <1>0, StepBase, Times DEF Base, TypeOK
    <3>7. FoundedNext(t, q.me, Flight)
      BY <3>5, <3>6 DEF FoundedNext
    <3>8. cache'[t].value = q.me /\ TTL - cache'[t].left + Flight = Flight
      BY <1>0, <3>1, <3>2, <3>6, Times
    <3>9. \A x \in Token : cache'[x] # cache[x] => x = t
      BY <1>0, <3>2
    <3> HIDE DEF t, q
    <3> QED BY <3>3, <3>4, <3>7, <3>8, <3>9
  <2>4. CASE Restart
    BY <2>4 DEF Restart, NoAnswers, None, Idle
  <2>5. CASE Environment \/ UNCHANGED vars
    <3>1. cache' = cache /\ req' = req
      BY <2>5 DEF Environment, ChangeRole, Revoke, Rotate, Withdraw, vars
    <3> QED BY <1>1, <1>2, <1>4, <3>1
  <2>6. ASSUME NEW r \in Req, Steps(r)
        PROVE  /\ \A t \in Token : cache'[t].left > 0 =>
                    FoundedNext(t, cache'[t].value, TTL - cache'[t].left + Flight)
               /\ \A x \in Req :
                    /\ req'[x].pc = "checked" => session' \/ sessionAge' <= req'[x].age
                    /\ req'[x].pc = "answered" =>
                         FoundedNext(req'[x].token, req'[x].me, req'[x].age)
    <3>1. \A x \in Req \ {r} : req'[x] = req[x]
      BY <2>6, StepsAlone
    <3>2. /\ req'[r].pc = "checked" => session' \/ sessionAge' <= req'[r].age
          /\ req'[r].pc = "answered" => FoundedNext(req'[r].token, req'[r].me, req'[r].age)
      BY <1>3, <1>4, <2>1, <2>2, <2>3, <2>6
    <3>3. \A t \in Token : cache'[t] # cache[t] =>
            FoundedNext(t, cache'[t].value, TTL - cache'[t].left + Flight)
      BY <1>3, <1>4, <2>1, <2>2, <2>3, <2>6
    <3> QED BY <1>1, <1>2, <1>4, <3>1, <3>2, <3>3
  <2> QED BY <1>4, <2>4, <2>5, <2>6, NextIs
<1>5. CASE Tick
  <2>1. ASSUME NEW t \in Token, cache'[t].left > 0
        PROVE  FoundedNext(t, cache'[t].value, TTL - cache'[t].left + Flight)
    <3>1. cache[t].left > 1 /\ cache'[t] = [cache[t] EXCEPT !.left = @ - 1]
      BY <1>5, <2>1 DEF Tick, None
    <3>2. cache'[t].left = cache[t].left - 1 /\ cache'[t].value = cache[t].value
      BY <1>0, <3>1 DEF Entry
    <3>3. Founded(t, cache[t].value, TTL - cache[t].left + Flight)
      BY <1>0, <3>1 DEF AnswersFounded, Hit
    <3>4. FoundedNext(t, cache[t].value, TTL - cache[t].left + Flight + 1)
      BY <1>0, <1>5, <3>3, FoundedAges
    <3>5. TTL - cache'[t].left + Flight = TTL - cache[t].left + Flight + 1
      BY <1>0, <3>2, Times
    <3> QED BY <3>2, <3>4, <3>5
  <2>2. ASSUME NEW r \in Req, req'[r].pc = "answered"
        PROVE  FoundedNext(req'[r].token, req'[r].me, req'[r].age)
    <3>1. /\ req[r].pc = "answered" /\ req'[r].token = req[r].token /\ req'[r].me = req[r].me
          /\ req'[r].age = req[r].age + 1
      BY <1>5, <2>2, TickKeeps DEF InFlight
    <3> QED BY <1>0, <1>5, <3>1, FoundedAges DEF AnswersFounded
  <2>3. ASSUME NEW r \in Req, req'[r].pc = "checked"
        PROVE  session' \/ sessionAge' <= req'[r].age
    <3>1. req[r].pc = "checked" /\ req'[r].age = req[r].age + 1
      BY <1>5, <2>3, TickKeeps DEF InFlight
    <3>2. session \/ sessionAge <= req[r].age
      BY <3>1 DEF AnswersFounded
    <3>3. sessionAge' <= sessionAge + 1 /\ sessionAge \in Nat /\ sessionAge' \in Nat
      BY <1>5, Times, OlderTyped DEF Tick, Base, TypeOK
    <3> QED BY <1>0, <1>5, <3>1, <3>2, <3>3 DEF Tick
  <2> QED BY <2>1, <2>2, <2>3
<1> QED BY <1>4, <1>5

LEMMA AlwaysFounded == Spec => []AnswersFounded
BY InitFounded, StepFounded, AlwaysBase, PTL DEF Spec

\* A request ends with what SSO answered less than a call and a cache time ago, or
\* with a refusal of its key, or with an outage.
LEMMA Endings ==
  ASSUME Base, KeysRecent, AnswersFounded, [Next]_vars, NEW r \in Req,
         req[r].pc # "done", req'[r].pc = "done"
  PROVE  \/ req'[r].code = "unavailable"
         \/ \E value \in Answer, age \in Nat :
              /\ age < TTL + Flight /\ Founded(req[r].token, value, age)
              /\ req'[r].code = StatusOf(value)
         \/ /\ req'[r].code = "unauthorized"
            /\ \/ FetchFails(r) \/ Signer(req[r]) \notin published
               \/ keyAge[Signer(req[r])] <= MinRefresh + Flight
<1> USE DEF Awaits
<1>0. req \in [Req -> Request] /\ cache \in [Token -> Entry] /\ req[r] \in Request
  BY DEF Base, TypeOK
<1>1. Steps(r)
  BY MovesItself
<1>2. ASSUME NEW t \in Token, Hit(t)
      PROVE  \E value \in Answer, age \in Nat :
               /\ age < TTL + Flight /\ Founded(t, value, age)
               /\ StatusOf(cache[t].value) = StatusOf(value)
  <2>1. Founded(t, cache[t].value, TTL - cache[t].left + Flight)
    BY <1>2 DEF AnswersFounded
  <2>2. /\ cache[t].value \in Answer
        /\ TTL - cache[t].left + Flight \in Nat /\ TTL - cache[t].left + Flight < TTL + Flight
    BY <1>0, <1>2, Times DEF Entry, Hit
  <2> QED BY <2>1, <2>2
<1>3. CASE req[r].pc \in {"keys", "lock", "fetch", "fetched"} /\ ~FetchFails(r)
  <2>1. req[r].token \in Token
    BY <1>3 DEF Base, Carries
  <2>2. PICK held :
           /\ req'[r] = Verified(req[r], held)
           /\ ~(Signer(req[r]) \in held <=> Signer(req[r]) \in published) =>
                (Signer(req[r]) \notin held => keyAge[Signer(req[r])] <= MinRefresh + Flight)
    BY <1>3, Verifies
  <2>3. CASE Signer(req[r]) \notin held /\ req'[r].code = "unauthorized"
    BY <2>2, <2>3
  <2>4. CASE Hit(req[r].token) /\ req'[r].code = StatusOf(cache[req[r].token].value)
    BY <1>2, <2>1, <2>4
  <2> QED BY <1>0, <2>1, <2>2, <2>3, <2>4, VerifiedIs
<1>4. CASE FetchFails(r)
  <2>1. req[r].token \in Token
    BY <1>4 DEF Base, Carries, FetchFails
  <2>2. req'[r] = Responded("unavailable") \/ req'[r] = Verified(req[r], keys)
    BY <1>0, <1>4 DEF FetchFails
  <2>3. CASE req'[r] = Responded("unavailable")
    BY <2>3, RespondedIs DEF Code
  <2>4. CASE req'[r] = Verified(req[r], keys)
    <3>1. CASE req'[r].code = "unauthorized"
      BY <1>4, <3>1
    <3>2. CASE Hit(req[r].token) /\ req'[r].code = StatusOf(cache[req[r].token].value)
      BY <1>2, <2>1, <3>2
    <3> QED BY <1>0, <2>1, <2>4, <3>1, <3>2, VerifiedIs
  <2> QED BY <2>2, <2>3, <2>4
<1>5. CASE Answered(r)
  <2>1. /\ req'[r] = Decided(req[r].me) /\ req[r].me \in Answer
        /\ Founded(req[r].token, req[r].me, req[r].age)
    BY <1>0, <1>5 DEF Answered, Base, Carries, AnswersFounded
  <2>2. req'[r].code = StatusOf(req[r].me)
    BY <2>1, DecidedIs
  <2>3. req[r].age \in Nat /\ req[r].age < TTL + Flight
    BY <1>0, Times DEF Request
  <2> QED BY <2>1, <2>2, <2>3
<1>6. CASE CallFails(r)
  <2>1. req'[r] = Responded("unavailable")
    BY <1>0, <1>6 DEF CallFails
  <2> QED BY <2>1, RespondedIs DEF Code
<1>7. ASSUME SendKeys(r) \/ CheckSession(r) \/ ReadRole(r) PROVE FALSE
  <2>1. CASE SendKeys(r)
    BY <1>0, <2>1 DEF SendKeys, Request
  <2>2. CASE ReadRole(r)
    BY <1>0, <2>2 DEF ReadRole, Request
  <2>3. CASE CheckSession(r)
    <3>1. \/ req'[r] = [req[r] EXCEPT !.pc = "checked"]
          \/ req'[r] = [req[r] EXCEPT !.pc = "answered", !.me = "gone"]
      BY <1>0, <2>3 DEF CheckSession
    <3> QED BY <1>0, <3>1 DEF Request
  <2> QED BY <1>7, <2>1, <2>2, <2>3
<1>8. ASSUME NEW t \in Token, Arrive(r, t) PROVE FALSE
  BY <1>0, <1>8 DEF Arrive, Idle
<1>9. ASSUME CheckKeys(r) \/ TakeLock(r) \/ Fetched(r)
      PROVE  req[r].pc \in {"keys", "lock", "fetch", "fetched"}
  BY <1>9 DEF CheckKeys, TakeLock, Fetched
<1> QED BY <1>1, <1>3, <1>4, <1>5, <1>6, <1>7, <1>8, <1>9 DEF Steps, Leave

LEMMA EndingsFresh ==
  ASSUME Base, KeysRecent, AnswersFounded, [Next]_vars, NEW r \in Req, NEW code, Ends(r, code)
  PROVE  /\ code = "ok" => /\ role = "admin" \/ Recent(roleAge)
                           /\ session \/ Recent(sessionAge)
         /\ code = "forbidden" => role = "user" \/ Recent(roleAge)
         /\ code = "unauthorized" =>
              \/ ~session
              \/ Signer(req[r]) \notin published
              \/ keyAge[Signer(req[r])] <= MinRefresh + Flight
              \/ FetchFails(r)
<1>1. CASE code = "unavailable"
  BY <1>1
<1>2. ASSUME NEW value \in Answer, NEW age \in Nat, age < TTL + Flight,
             Founded(req[r].token, value, age), code = StatusOf(value)
      PROVE  /\ code = "ok" => /\ role = "admin" \/ Recent(roleAge)
                               /\ session \/ Recent(sessionAge)
             /\ code = "forbidden" => role = "user" \/ Recent(roleAge)
             /\ code = "unauthorized" => ~session \/ Signer(req[r]) \notin published
  <2>1. roleAge \in Nat /\ sessionAge \in Nat /\ TTL + Flight \in Nat
    BY Times DEF Base, TypeOK
  <2>2. ASSUME NEW a \in Nat, a <= age PROVE Recent(a)
    BY <1>2, <2>1, <2>2 DEF Recent
  <2>4. code = "ok" => value = "admin"
    BY <1>2 DEF StatusOf, Answer
  <2>5. code = "forbidden" => value = "user"
    BY <1>2 DEF StatusOf, Answer
  <2>6. code = "unauthorized" => value = "gone"
    BY <1>2 DEF StatusOf, Answer
  <2> QED BY <1>2, <2>1, <2>2, <2>4, <2>5, <2>6 DEF Founded, Signer
<1>3. req[r].pc # "done" /\ req'[r].pc = "done" /\ req'[r].code = code
  BY DEF Ends
<1> QED BY <1>1, <1>2, <1>3, Endings

\* "Demotions and revocations apply immediately", up to the cache (live.py): a
\* privileged route opens only to a role and a session that SSO still had within
\* the time an answer is kept and one call, whatever overlaps in the backend.
THEOREM PrivilegesFresh == Spec => GrantFresh
<1>1. Base /\ KeysRecent /\ AnswersFounded /\ [Next]_vars =>
        [\A r \in Req : Ends(r, "ok") =>
           /\ role = "admin" \/ Recent(roleAge)
           /\ session \/ Recent(sessionAge)]_vars
  BY EndingsFresh
<1> QED BY <1>1, AlwaysBase, AlwaysRecent, AlwaysFounded, PTL DEF Spec, GrantFresh

\* "SSO outages surface as 503, never as 403" (fastapi.py): a 403 follows a role
\* that SSO had lately; a 401 an ended session, a key that was not published or only
\* just appeared, or a failed fetch of the keys while older ones are held.
THEOREM RefusalsFounded == Spec => RefusalFounded
<1>1. Base /\ KeysRecent /\ AnswersFounded /\ [Next]_vars =>
        [\A r \in Req :
           /\ Ends(r, "forbidden") => role = "user" \/ Recent(roleAge)
           /\ Ends(r, "unauthorized") =>
                \/ ~session
                \/ Signer(req[r]) \notin published
                \/ keyAge[Signer(req[r])] <= MinRefresh + Flight
                \/ FetchFails(r)]_vars
  BY EndingsFresh
<1> QED BY <1>1, AlwaysBase, AlwaysRecent, AlwaysFounded, PTL DEF Spec, RefusalFounded
=============================================================================
