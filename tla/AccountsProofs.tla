---------------------------- MODULE AccountsProofs ----------------------------
(***************************************************************************)
(* Theorems about Accounts, for any number of users, addresses, passwords, *)
(* sessions, links and requests, and with requests that are lost.          *)
(***************************************************************************)
EXTENDS Accounts, TLAPS, FiniteSetTheorems, WellFoundedInduction

-----------------------------------------------------------------------------
(* The latest document *)

LEMMA NilApart ==
  /\ Nil \notin User /\ Nil \notin Email /\ Nil \notin Password /\ Nil \notin Sid /\ Nil \notin Nat
  /\ Nil \notin Link /\ Link \subseteq Nat /\ MaxLinks \in Nat
BY NilAssumption, LinkAssumption DEF Link

\* A finite set of numbers has a greatest: one with the fewest above it.
LEMMA GreatestExists ==
  ASSUME NEW ds \in SUBSET Link, ds # {}
  PROVE  \E d \in ds : \A x \in ds : x <= d
<1> DEFINE above(d) == {x \in ds : d < x}
           T == {above(d) : d \in ds}
<1>1. IsFiniteSet(ds)
  <2>1. 1 \in Int /\ MaxLinks \in Int
    BY LinkAssumption
  <2>2. IsFiniteSet(Link)
    BY <2>1, FS_Interval DEF Link
  <2> QED BY <2>2, FS_Subset
<1>2. T \subseteq FiniteSubsetsOf(ds) /\ T # {}
  <2>1. ASSUME NEW d \in ds PROVE above(d) \in FiniteSubsetsOf(ds)
    <3>1. above(d) \in SUBSET ds
      OBVIOUS
    <3>2. IsFiniteSet(above(d))
      BY <1>1, <3>1, FS_Subset
    <3> HIDE DEF above
    <3> QED BY <3>1, <3>2 DEF FiniteSubsetsOf
  <2> HIDE DEF above
  <2> QED BY <2>1
<1>3. PICK t \in T : \A y \in T : ~(<<y, t>> \in StrictSubsetOrdering(ds))
  <2>1. IsWellFoundedOn(StrictSubsetOrdering(ds), FiniteSubsetsOf(ds))
    BY FS_StrictSubsetOrderingWellFounded
  <2> HIDE DEF T
  <2> QED BY <1>2, <2>1, WFMin
<1>4. PICK d \in ds : t = above(d)
  BY <1>3
<1>5. ASSUME NEW x \in ds, d < x PROVE FALSE
  <2>1. above(x) \in T /\ above(x) \subseteq ds /\ t \subseteq ds
    BY <1>4
  <2>2. above(x) \subseteq t /\ x \in t /\ x \notin above(x)
    <3>1. \A y \in ds : y \in Nat
      BY NilApart
    <3>2. d \in ds /\ x \in ds /\ t = {y \in ds : d < y}
      BY <1>4, <1>5
    <3>3. \A y \in ds : x < y => d < y
      BY <1>5, <3>1, <3>2
    <3>4. ~(x < x)
      BY <3>1, <3>2
    <3> QED BY <1>5, <3>2, <3>3, <3>4
  <2>3. <<above(x), t>> \in StrictSubsetOrdering(ds)
    BY <2>1, <2>2 DEF StrictSubsetOrdering
  <2> QED BY <1>3, <2>1, <2>3
<1> QED BY <1>4, <1>5, LinkAssumption DEF Link

LEMMA LatestIs ==
  ASSUME NEW ds \in SUBSET Link
  PROVE  /\ ds = {} => Latest(ds) = Nil
         /\ ds # {} => Latest(ds) \in ds
         /\ Latest(ds) \in Link \cup {Nil}
BY GreatestExists DEF Latest
-----------------------------------------------------------------------------
(* Types and locals *)

Base == TypeOK /\ Locals /\ Owned

LEMMA IdleOK == Idle \in Request /\ \A us : Local(Idle, us)
BY DEF Idle, Request, PCs, Local, UserPCs, EmailPCs

MailStates == [Link -> {"none", "sending", "arrived", "lost"}]

LEMMA InitBase == Init => Base
<1> SUFFICES ASSUME Init PROVE Base
  OBVIOUS
<1>1. PICK b \in Boot : account = b.account /\ session = b.session
  BY DEF Init
<1>2. Sound(b)
  BY BootAssumption
<1>3. /\ account \in [User -> AccountDoc \cup {NoDoc}]
      /\ session \in [Sid -> SessionDoc \cup {NoDoc}]
      /\ \A s \in Sid : session[s] # NoDoc =>
           session[s] \in SessionDoc /\ account[session[s].user] # NoDoc
  BY <1>1, <1>2 DEF Sound
<1>4. /\ token \in [Link -> TokenDoc \cup {NoDoc}] /\ mail \in MailStates
      /\ drawn \in 0 .. MaxLinks /\ req \in [Req -> Request]
      /\ spent \subseteq Link /\ proven \subseteq User /\ excused \subseteq User
  BY IdleOK, LinkAssumption DEF Init, MailStates
<1>5. Locals
  BY IdleOK DEF Init, Locals
<1>6. Owned
  BY <1>3 DEF Init, Owned, Users, SessionDoc
<1> QED BY <1>3, <1>4, <1>5, <1>6 DEF Base, TypeOK, MailStates

\* The collections and the history, apart from the requests.
DataOK ==
  /\ account \in [User -> AccountDoc \cup {NoDoc}]
  /\ token \in [Link -> TokenDoc \cup {NoDoc}]
  /\ session \in [Sid -> SessionDoc \cup {NoDoc}]
  /\ mail \in MailStates
  /\ drawn \in 0 .. MaxLinks
  /\ spent \subseteq Link /\ proven \subseteq User /\ excused \subseteq User
  /\ Owned

ReqOK == req \in [Req -> Request] /\ Locals

LEMMA BaseIs == Base <=> DataOK /\ ReqOK
BY DEF Base, TypeOK, DataOK, ReqOK, MailStates

LEMMA BaseIsPrimed == Base' <=> DataOK' /\ ReqOK'
BY DEF Base, TypeOK, DataOK, ReqOK, MailStates

LEMMA LocalGrows ==
  ASSUME NEW q, NEW us, NEW more, us \subseteq more, Local(q, us)
  PROVE  Local(q, more)
BY DEF Local

\* A request takes a step to q; accounts stay.
LEMMA Moves ==
  ASSUME ReqOK, NEW r \in Req, NEW q \in Request, req' = [req EXCEPT ![r] = q],
         Users \subseteq Users', Local(q, Users')
  PROVE  ReqOK'
<1>1. req' \in [Req -> Request] /\ req'[r] = q /\ \A x \in Req \ {r} : req'[x] = req[x]
  BY DEF ReqOK
<1>2. \A x \in Req : Local(req'[x], Users')
  BY <1>1, LocalGrows DEF ReqOK, Locals
<1> QED BY <1>1, <1>2 DEF ReqOK, Locals

LEMMA Finishes ==
  ASSUME ReqOK, NEW r \in Req, Finish(r), Users \subseteq Users'
  PROVE  ReqOK'
BY Moves, IdleOK DEF Finish

\* What a handler may rely on at its pc.
LEMMA At ==
  ASSUME ReqOK, NEW r \in Req
  PROVE  /\ req[r] \in Request /\ Local(req[r], Users)
         /\ req[r].pc \in UserPCs =>
              /\ req[r].user \in User /\ req[r].user \in Users /\ account[req[r].user] # NoDoc
         /\ req[r].pc \in EmailPCs => req[r].email \in Email
BY DEF ReqOK, Locals, Local, Users

LEMMA NextPC ==
  ASSUME NEW q \in Request, NEW pc \in PCs, NEW p, p = [q EXCEPT !.pc = pc]
  PROVE  /\ p \in Request /\ p.pc = pc /\ p.user = q.user /\ p.email = q.email /\ p.pw = q.pw
         /\ p.flag = q.flag /\ p.sid = q.sid /\ p.admin = q.admin /\ p.link = q.link
         /\ p.doc = q.doc
BY DEF Request

\* Going on from one pc to another keeps what the handler relies on.
LEMMA GoesOn ==
  ASSUME ReqOK, NEW r \in Req, NEW pc \in PCs, Goto(r, pc), Users \subseteq Users',
         pc \in UserPCs => req[r].pc \in UserPCs,
         pc \in EmailPCs => req[r].pc \in EmailPCs,
         pc \notin {"verifyFind", "claim", "claimChange"},
         \/ req[r].pc \notin {"tokDrop", "tokFind", "tokWrite", "nullPw", "signOut", "handOver"}
         \/ req[r].pc \in {"tokDrop", "tokFind"} /\ pc \in {"tokFind", "tokWrite"}
         \/ req[r].pc = "nullPw" /\ pc = "signOut"
         \/ req[r].pc = "signOut" /\ pc = "handOver"
  PROVE  ReqOK'
<1> DEFINE q == [req[r] EXCEPT !.pc = pc]
<1>1. req[r] \in Request /\ Local(req[r], Users)
  BY At
<1>2. /\ q \in Request /\ q.pc = pc /\ q.user = req[r].user /\ q.email = req[r].email
      /\ q.admin = req[r].admin /\ q.link = req[r].link
  BY <1>1, NextPC
<1>3. req' = [req EXCEPT ![r] = q]
  BY DEF Goto, ReqOK
<1> HIDE DEF q
<1>4. Local(q, Users')
  BY <1>1, <1>2 DEF Local
<1> QED BY <1>2, <1>3, <1>4, Moves

LEMMA QuietData ==
  ASSUME DataOK, Reads
  PROVE  DataOK' /\ Users' = Users
BY DEF DataOK, Reads, history, Owned, Users

LEMMA DropIs ==
  ASSUME DataOK, NEW gone, DropTokens(gone)
  PROVE  /\ token' \in [Link -> TokenDoc \cup {NoDoc}]
         /\ \A l \in Link : /\ l \in gone => token'[l] = NoDoc
                            /\ l \notin gone => token'[l] = token[l]
BY DEF DataOK, DropTokens

LEMMA DropData ==
  ASSUME DataOK, NEW gone, DropTokens(gone),
         UNCHANGED <<account, session, mail, drawn, history>>
  PROVE  DataOK' /\ Users' = Users
<1>1. Users' = Users
  BY DEF Users
<1>2. Owned'
  BY <1>1, DropIs DEF DataOK, Owned
<1> QED BY <1>1, <1>2, DropIs DEF DataOK, history

LEMMA DocApart ==
  /\ \A a \in AccountDoc : a # NoDoc
  /\ \A d \in TokenDoc : d # NoDoc
  /\ \A d \in SessionDoc : d # NoDoc
BY NoDocAssumption

\* What Issue does to document l: it is as it was, new, or d under the next link.
Issued(l, kind, u, d, e) ==
  \/ token'[l] = token[l]
  \/ /\ l = drawn + 1 /\ d = Nil /\ token'[l] # NoDoc
     /\ token'[l].kind = kind /\ token'[l].user = u /\ token'[l].link = drawn + 1
     /\ token'[l].count = 1 /\ token'[l].used = FALSE /\ token'[l].email = e
  \/ /\ l = d /\ token[l] # NoDoc /\ token'[l] # NoDoc
     /\ token'[l].kind = token[l].kind /\ token'[l].user = token[l].user
     /\ token'[l].used = token[l].used /\ token'[l].link = drawn + 1 /\ token'[l].email = e

LEMMA IssueIs ==
  ASSUME DataOK, NEW kind \in {"verify", "reset", "change"}, NEW u \in User,
         NEW d \in Link \cup {Nil}, NEW e \in Email, Issue(kind, u, d, e)
  PROVE  /\ drawn' = drawn + 1 /\ drawn + 1 \in Link /\ drawn \in Nat
         /\ token' \in [Link -> TokenDoc \cup {NoDoc}]
         /\ \A l \in Link : Issued(l, kind, u, d, e)
<1>1. drawn \in Nat /\ drawn' = drawn + 1 /\ drawn + 1 \in Link
  BY LinkAssumption DEF Issue, DataOK, Link
<1>2. CASE d = Nil
  <2> DEFINE new == [kind |-> kind, user |-> u, link |-> drawn + 1, count |-> 1,
                     used |-> FALSE, email |-> e]
  <2>1. token' = [token EXCEPT ![drawn + 1] = new]
    BY <1>2 DEF Issue
  <2>2. /\ new \in TokenDoc /\ new # NoDoc
        /\ new.kind = kind /\ new.user = u /\ new.link = drawn + 1 /\ new.count = 1
        /\ new.used = FALSE /\ new.email = e
    BY <1>1, DocApart DEF TokenDoc
  <2> HIDE DEF new
  <2>3. token' \in [Link -> TokenDoc \cup {NoDoc}]
    BY <1>1, <2>1, <2>2 DEF DataOK
  <2>4. ASSUME NEW l \in Link PROVE token'[l] = token[l] \/ (l = drawn + 1 /\ token'[l] = new)
    BY <2>1 DEF DataOK
  <2> QED BY <1>1, <1>2, <2>2, <2>3, <2>4 DEF Issued
<1>3. CASE d # Nil /\ token[d] = NoDoc
  <2>1. token' = token
    BY <1>3 DEF Issue
  <2> QED BY <1>1, <2>1 DEF DataOK, Issued
<1>4. CASE d # Nil /\ token[d] # NoDoc
  <2>1. token' = [token EXCEPT ![d] = [token[d] EXCEPT !.link = drawn + 1, !.count = @ + 1,
                                               !.email = e]]
    BY <1>4 DEF Issue
  <2>2. token[d] \in TokenDoc /\ d \in Link
    BY <1>4 DEF DataOK
  <2> DEFINE new == [token[d] EXCEPT !.link = drawn + 1, !.count = @ + 1, !.email = e]
  <2>3. new \in TokenDoc
    <3>1. token[d].count + 1 \in Nat
      BY <2>2 DEF TokenDoc
    <3> QED BY <1>1, <2>2, <3>1 DEF TokenDoc
  <2>4. /\ new.kind = token[d].kind /\ new.user = token[d].user
        /\ new.used = token[d].used /\ new.link = drawn + 1 /\ new.email = e
    BY <2>2 DEF TokenDoc
  <2>5. token' = [token EXCEPT ![d] = new]
    BY <2>1
  <2> HIDE DEF new
  <2>6. token' \in [Link -> TokenDoc \cup {NoDoc}]
    BY <2>2, <2>3, <2>5 DEF DataOK
  <2>7. ASSUME NEW l \in Link PROVE token'[l] = token[l] \/ (l = d /\ token'[l] = new)
    BY <2>5 DEF DataOK
  <2> QED BY <1>1, <1>4, <2>3, <2>4, <2>6, <2>7, DocApart DEF Issued
<1> QED BY <1>2, <1>3, <1>4

LEMMA MailTyped ==
  ASSUME DataOK, NEW l, Post(l)
  PROVE  mail' \in MailStates
BY DEF DataOK, Post, MailStates

LEMMA IssueData ==
  ASSUME DataOK, NEW kind \in {"verify", "reset", "change"}, NEW u \in Users,
         NEW d \in Link \cup {Nil}, NEW e \in Email, Issue(kind, u, d, e),
         mail' \in MailStates,
         UNCHANGED <<account, session, spent, proven>>, excused' \subseteq User
  PROVE  DataOK' /\ Users' = Users
<1>1. Users' = Users /\ u \in User
  BY DEF Users
<1>0. /\ drawn' = drawn + 1 /\ drawn + 1 \in Link
      /\ token' \in [Link -> TokenDoc \cup {NoDoc}]
      /\ \A l \in Link : Issued(l, kind, u, d, e)
  BY <1>1, IssueIs
<1>2. drawn' \in 0 .. MaxLinks
  BY <1>0, NilApart DEF Link
<1>3. ASSUME NEW l \in Link, token'[l] # NoDoc PROVE token'[l].user \in Users'
  BY <1>0, <1>1, <1>3 DEF DataOK, Owned, Issued
<1>4. Owned'
  BY <1>1, <1>3 DEF DataOK, Owned
<1> QED BY <1>0, <1>1, <1>2, <1>4 DEF DataOK

\* One account is written.
LEMMA AccountData ==
  ASSUME DataOK, NEW u \in User, NEW a \in AccountDoc,
         account' = [account EXCEPT ![u] = a],
         UNCHANGED <<token, session, mail, drawn>>,
         spent' \subseteq Link, proven' \subseteq User, excused' \subseteq User
  PROVE  DataOK' /\ Users' = Users \cup {u}
<1>1. Users' = Users \cup {u}
  BY DocApart DEF DataOK, Users
<1>2. Owned'
  BY <1>1 DEF DataOK, Owned
<1> QED BY <1>1, <1>2 DEF DataOK

LEMMA SessionData ==
  ASSUME DataOK, UNCHANGED <<account, token, drawn, history>>,
         session' \in [Sid -> SessionDoc \cup {NoDoc}],
         \A s \in Sid : session'[s] # NoDoc => session'[s].user \in Users,
         mail' \in MailStates
  PROVE  DataOK' /\ Users' = Users
<1>1. Users' = Users
  BY DEF Users
<1> QED BY <1>1 DEF DataOK, Owned, history
-----------------------------------------------------------------------------
(* One lemma per group of handlers: types and locals are kept, and no account *)
(* is ever deleted.                                                           *)

Kept == DataOK' /\ ReqOK' /\ Users \subseteq Users'

LEMMA EndKept ==
  ASSUME ReqOK, NEW r \in Req, Finish(r), DataOK', Users' = Users
  PROVE  Kept
BY Finishes DEF Kept

LEMMA MoveKept ==
  ASSUME ReqOK, NEW r \in Req, NEW q \in Request, req' = [req EXCEPT ![r] = q],
         DataOK', Users' = Users, Local(q, Users)
  PROVE  Kept
BY Moves DEF Kept

LEMMA BeginKept ==
  ASSUME DataOK, ReqOK, NEW r \in Req, NEW op, NEW q \in Request, Begin(r, op, q), Reads,
         Local(q, Users)
  PROVE  Kept
BY MoveKept, QuietData DEF Begin

LEMMA LookupsKept ==
  ASSUME DataOK, ReqOK, NEW r \in Req,
         \/ SignupFind(r) \/ CheckPassword(r) \/ CheckForEmail(r) \/ RequestTaken(r)
         \/ ConfirmTaken(r) \/ UpdateConflict(r)
  PROVE  Kept
<1> SUFFICES ASSUME ~Finish(r) PROVE Kept
  BY EndKept, QuietData DEF SignupFind, CheckPassword, CheckForEmail, RequestTaken,
     ConfirmTaken, UpdateConflict
<1>1. Reads /\ DataOK' /\ Users' = Users
  BY QuietData DEF SignupFind, CheckPassword, CheckForEmail, RequestTaken,
     ConfirmTaken, UpdateConflict
<1>2. PICK pc : /\ Goto(r, pc)
                /\ \/ Await(r, "signFind") /\ pc = "insertUser"
                   \/ Await(r, "checkPw") /\ pc = "changePw"
                   \/ Await(r, "checkEmail") /\ pc = "taken"
                   \/ Await(r, "taken") /\ pc = "dropChanges"
                   \/ Await(r, "confirmTaken") /\ pc = "moveEmail"
                   \/ Await(r, "updConflict") /\ pc = "updDropChange"
  BY DEF SignupFind, CheckPassword, CheckForEmail, RequestTaken, ConfirmTaken, UpdateConflict
<1>3. ReqOK'
  BY <1>1, <1>2, GoesOn DEF Await, PCs, UserPCs, EmailPCs
<1> QED BY <1>1, <1>3 DEF Kept

LEMMA DropsKept ==
  ASSUME DataOK, ReqOK, NEW r \in Req,
         \/ VerifyDrop(r) \/ ForceDrop(r) \/ DropResets(r) \/ DropChanges(r) \/ DropAfterMove(r)
         \/ UpdateDrop(r, "updDropChange", "change", "updDropVerify") \/ UpdateDropVerify(r)
  PROVE  Kept
<1>1. PICK gone : DropTokens(gone) /\ UNCHANGED <<account, session, mail, drawn, history>>
  BY DEF VerifyDrop, ForceDrop, DropResets, DropChanges, DropAfterMove, UpdateDropVerify,
     UpdateDrop
<1>2. DataOK' /\ Users' = Users
  BY <1>1, DropData
<1>3. CASE Finish(r)
  BY <1>2, <1>3, EndKept
<1>4. CASE ~Finish(r)
  <2>1. PICK pc : /\ Goto(r, pc)
                  /\ \/ Await(r, "tokDrop") /\ pc = "tokFind"
                     \/ Await(r, "dropResets") /\ pc = "signOut"
                     \/ Await(r, "dropChanges") /\ pc = "insertChange"
                     \/ Await(r, "dropAfterMove") /\ pc = "signOut"
                     \/ Await(r, "updDropChange") /\ pc = "updDropVerify"
                     \/ Await(r, "updDropVerify") /\ pc = "updWrite"
    BY <1>4 DEF VerifyDrop, ForceDrop, DropResets, DropChanges, DropAfterMove,
       UpdateDropVerify, UpdateDrop
  <2>2. ReqOK'
    BY <1>2, <2>1, GoesOn DEF Await, PCs, UserPCs, EmailPCs
  <2> QED BY <1>2, <2>2 DEF Kept
<1> QED BY <1>3, <1>4

\* A handler that goes on with a user, and with an address where it needs one.
LEMMA LocalNext ==
  ASSUME NEW p \in Request, NEW q, NEW us, Local(p, us), q.admin = p.admin, q.link = p.link,
         q.pc \in UserPCs => q.user \in us, q.pc \in EmailPCs => q.email \in Email,
         q.pc \notin {"verifyFind", "claim", "claimChange"},
         \/ p.pc \notin {"tokDrop", "tokFind", "tokWrite", "nullPw", "signOut", "handOver"}
         \/ q.pc = "tokWrite" /\ p.pc = "tokFind"
  PROVE  Local(q, us)
<1>1. ~p.admin \/ (q.pc = "tokWrite" /\ q.link = Nil)
  BY DEF Local
<1> QED BY <1>1 DEF Local

LEMMA HoldersOK ==
  ASSUME DataOK, NEW e
  PROVE  Holders(e) \subseteq Users /\ \A u \in Users : u \in User /\ account[u] \in AccountDoc
BY DEF DataOK, Holders, Users

LEMMA FindsKept ==
  ASSUME DataOK, ReqOK, NEW r \in Req,
         ResendFind(r) \/ ForgotFind(r) \/ LoginFind(r) \/ UpdateFind(r)
  PROVE  Kept
<1> SUFFICES ASSUME ~Finish(r) PROVE Kept
  BY EndKept, QuietData DEF ResendFind, ForgotFind, LoginFind, UpdateFind
<1>0. DataOK' /\ Users' = Users
  BY QuietData DEF ResendFind, ForgotFind, LoginFind, UpdateFind
<1>r. req[r] \in Request /\ Local(req[r], Users) /\ req \in [Req -> Request]
  BY At DEF ReqOK
<1>1. CASE ResendFind(r) \/ ForgotFind(r)
  <2>1. PICK pc \in {"sendFind", "tokFind"}, u \in Users :
          /\ req' = [req EXCEPT ![r].pc = pc, ![r].user = u]
          /\ req[r].pc \in {"resendFind", "forgotFind"}
    <3>1. ASSUME Holders(req[r].email) # {}
          PROVE  (CHOOSE u \in Holders(req[r].email) : TRUE) \in Users
      BY <3>1, HoldersOK
    <3> QED BY <1>1, <3>1 DEF ResendFind, ForgotFind, Await
  <2> DEFINE q == [req[r] EXCEPT !.pc = pc, !.user = u]
  <2>2. pc \in PCs /\ u \in User /\ req[r].email \in Email
    BY <1>r, <2>1, HoldersOK, At DEF PCs, EmailPCs
  <2>3. /\ q \in Request /\ q.pc = pc /\ q.user = u /\ q.email = req[r].email
        /\ q.admin = req[r].admin /\ q.link = req[r].link
    BY <1>r, <2>2 DEF Request
  <2>4. req' = [req EXCEPT ![r] = q]
    BY <1>r, <2>1
  <2> HIDE DEF q
  <2>5. Local(q, Users)
    BY <1>r, <2>1, <2>2, <2>3, LocalNext
  <2> QED BY <1>0, <2>3, <2>4, <2>5, MoveKept
<1>2. CASE LoginFind(r)
  <2>1. PICK u \in Users :
          /\ req' = [req EXCEPT ![r].pc = "start", ![r].user = u, ![r].pw = account[u].pw]
          /\ req[r].pc = "loginFind" /\ account[u].pw \in Password \cup {Nil}
    BY <1>2, HoldersOK DEF LoginFind, AccountDoc, Await
  <2> DEFINE q == [req[r] EXCEPT !.pc = "start", !.user = u, !.pw = account[u].pw]
  <2>2. "start" \in PCs /\ u \in User /\ req[r].email \in Email
    BY <1>r, <2>1, HoldersOK, At DEF PCs, EmailPCs
  <2>3. /\ q \in Request /\ q.pc = "start" /\ q.user = u /\ q.email = req[r].email
        /\ q.admin = req[r].admin /\ q.link = req[r].link
    BY <1>r, <2>1, <2>2 DEF Request
  <2>4. req' = [req EXCEPT ![r] = q]
    BY <1>r, <2>1
  <2> HIDE DEF q
  <2>5. Local(q, Users)
    BY <1>r, <2>1, <2>2, <2>3, LocalNext
  <2> QED BY <1>0, <2>3, <2>4, <2>5, MoveKept
<1>3. CASE UpdateFind(r) /\ req' = [req EXCEPT ![r].pc = "updWrite", ![r].email = Nil]
  <2> DEFINE q == [req[r] EXCEPT !.pc = "updWrite", !.email = Nil]
  <2>1. req[r].pc = "updFind" /\ "updWrite" \in PCs /\ req[r].user \in Users
        /\ "updWrite" \notin EmailPCs
    BY <1>3, At DEF UpdateFind, Await, PCs, UserPCs, EmailPCs
  <2>2. /\ q \in Request /\ q.pc = "updWrite" /\ q.user = req[r].user
        /\ q.admin = req[r].admin /\ q.link = req[r].link
    BY <1>r, <2>1 DEF Request
  <2>3. req' = [req EXCEPT ![r] = q]
    BY <1>r, <1>3
  <2> HIDE DEF q
  <2>4. Local(q, Users)
    BY <1>r, <2>1, <2>2, LocalNext
  <2> QED BY <1>0, <2>2, <2>3, <2>4, MoveKept
<1>4. CASE UpdateFind(r) /\ Goto(r, "updConflict") /\ req[r].email # Nil
  <2> DEFINE q == [req[r] EXCEPT !.pc = "updConflict"]
  <2>1. req[r].pc = "updFind" /\ "updConflict" \in PCs /\ req[r].user \in Users
    BY <1>4, At DEF UpdateFind, Await, PCs, UserPCs
  <2>2. /\ q \in Request /\ q.pc = "updConflict" /\ q.user = req[r].user
        /\ q.email = req[r].email /\ q.admin = req[r].admin /\ q.link = req[r].link
    BY <1>r, <2>1 DEF Request
  <2>3. req' = [req EXCEPT ![r] = q]
    BY <1>r, <1>4 DEF Goto
  <2>4. req[r].email \in Email
    BY <1>r, <1>4 DEF Request
  <2> HIDE DEF q
  <2>5. Local(q, Users)
    BY <1>r, <2>1, <2>2, <2>4, LocalNext
  <2> QED BY <1>0, <2>2, <2>3, <2>5, MoveKept
<1> QED BY <1>1, <1>2, <1>3, <1>4 DEF UpdateFind

LEMMA DocsOK ==
  ASSUME DataOK, NEW kind, NEW u
  PROVE  /\ Docs(kind, u) \subseteq Link
         /\ \A d \in Docs(kind, u) : token[d] # NoDoc /\ token[d].kind = kind /\ token[d].user = u
         /\ Unused(u) \subseteq Docs("reset", u)
BY DEF Docs, Unused

LEMMA UnderOK ==
  ASSUME DataOK, NEW kind, NEW l
  PROVE  \A d \in Under(kind, l) :
           /\ d \in Link /\ token[d] \in TokenDoc /\ token[d].kind = kind /\ token[d].link = l
           /\ token[d] # NoDoc
           /\ token[d].user \in User /\ token[d].user \in Users /\ token[d].email \in Email
BY DEF DataOK, Owned, Under, TokenDoc

\* The latest document is looked up.
LEMMA FindTokenIs ==
  ASSUME DataOK, ReqOK, NEW r \in Req, NEW ds \in SUBSET Link, NEW next, FindToken(r, ds, next)
  PROVE  /\ Reads
         /\ \/ Finish(r)
            \/ \E d \in Link \cup {Nil} : /\ req' = [req EXCEPT ![r].pc = next, ![r].doc = d]
                                          /\ d = Latest(ds) /\ (d # Nil => d \in ds)
<1>1. Latest(ds) \in Link \cup {Nil} /\ (Latest(ds) # Nil => Latest(ds) \in ds)
  BY LatestIs
<1> QED BY <1>1 DEF FindToken

LEMMA SearchesKept ==
  ASSUME DataOK, ReqOK, NEW r \in Req, SendFind(r) \/ ResetFind(r)
  PROVE  Kept
<1>1. PICK d \in Link \cup {Nil}, next \in {"sendWrite", "tokWrite"} :
        /\ Reads
        /\ \/ Await(r, "sendFind") /\ next = "sendWrite"
           \/ Await(r, "tokFind") /\ next = "tokWrite"
        /\ Finish(r) \/ req' = [req EXCEPT ![r].pc = next, ![r].doc = d]
  <2>1. CASE SendFind(r) /\ FindToken(r, Docs("verify", req[r].user), "sendWrite")
    <3>1. Docs("verify", req[r].user) \in SUBSET Link
      BY DocsOK
    <3> QED BY <2>1, <3>1, FindTokenIs DEF SendFind
  <2>2. CASE SendFind(r) /\ Finish(r) /\ Reads
    BY <2>2 DEF SendFind
  <2>3. CASE ResetFind(r)
    <3>1. Unused(req[r].user) \in SUBSET Link
      BY DocsOK
    <3> QED BY <2>3, <3>1, FindTokenIs DEF ResetFind
  <2> QED BY <2>1, <2>2, <2>3 DEF SendFind
<1>0. DataOK' /\ Users' = Users
  BY <1>1, QuietData
<1>r. req[r] \in Request /\ Local(req[r], Users) /\ req \in [Req -> Request]
  BY At DEF ReqOK
<1>2. CASE Finish(r)
  BY <1>0, <1>2, EndKept
<1>3. CASE req' = [req EXCEPT ![r].pc = next, ![r].doc = d]
  <2> DEFINE q == [req[r] EXCEPT !.pc = next, !.doc = d]
  <2>1. /\ next \in PCs /\ req[r].user \in Users /\ req[r].email \in Email
        /\ \/ req[r].pc = "sendFind" /\ next = "sendWrite"
           \/ req[r].pc = "tokFind" /\ next = "tokWrite"
    BY <1>1, At DEF Await, PCs, UserPCs, EmailPCs
  <2>2. /\ q \in Request /\ q.pc = next /\ q.user = req[r].user /\ q.email = req[r].email
        /\ q.admin = req[r].admin /\ q.link = req[r].link
    BY <1>r, <2>1 DEF Request
  <2>3. req' = [req EXCEPT ![r] = q]
    BY <1>r, <1>3
  <2> HIDE DEF q
  <2>4. Local(q, Users)
    BY <1>r, <2>1, <2>2, LocalNext
  <2> QED BY <1>0, <2>2, <2>3, <2>4, MoveKept
<1> QED BY <1>1, <1>2, <1>3

LEMMA VerifyFindKept ==
  ASSUME DataOK, ReqOK, NEW r \in Req, VerifyFind(r)
  PROVE  Kept
<1>1. CASE Under("verify", req[r].link) = {} /\ Finish(r) /\ UNCHANGED token
  <2>1. Reads
    BY <1>1 DEF VerifyFind, Reads
  <2> QED BY <1>1, <2>1, QuietData, EndKept
<1>2. CASE \E d \in Under("verify", req[r].link) : DropTokens({d}) /\ Finish(r)
  <2>1. UNCHANGED <<account, session, mail, drawn, history>>
    BY DEF VerifyFind
  <2> QED BY <1>2, <2>1, DropData, EndKept
<1>3. ASSUME NEW d \in Under("verify", req[r].link), UNCHANGED token,
             req' = [req EXCEPT ![r].pc = "verifyWrite", ![r].user = token[d].user,
                                ![r].email = token[d].email]
      PROVE  Kept
  <2>1. Reads /\ DataOK' /\ Users' = Users
    BY <1>3, QuietData DEF VerifyFind, Reads
  <2>r. req[r] \in Request /\ Local(req[r], Users) /\ req \in [Req -> Request]
    BY At DEF ReqOK
  <2> DEFINE q == [req[r] EXCEPT !.pc = "verifyWrite", !.user = token[d].user,
                                 !.email = token[d].email]
  <2>2. /\ req[r].pc = "verifyFind"
        /\ "verifyWrite" \in PCs /\ "verifyWrite" \notin EmailPCs
    BY DEF VerifyFind, Await, PCs, EmailPCs
  <2>3. token[d].user \in User /\ token[d].user \in Users /\ token[d].email \in Email
    BY UnderOK
  <2>4. /\ q \in Request /\ q.pc = "verifyWrite" /\ q.user = token[d].user
        /\ q.admin = req[r].admin /\ q.link = req[r].link
    BY <2>r, <2>2, <2>3 DEF Request
  <2>5. req' = [req EXCEPT ![r] = q]
    BY <1>3, <2>r
  <2> HIDE DEF q
  <2>6. Local(q, Users)
    BY <2>r, <2>2, <2>3, <2>4, LocalNext
  <2> QED BY <2>1, <2>4, <2>5, <2>6, MoveKept
<1> QED BY <1>1, <1>2, <1>3 DEF VerifyFind

\* The token is marked or dropped, and the handler goes on with what it said.
LEMMA ClaimUnusedKept ==
  ASSUME DataOK, ReqOK, NEW r \in Req, ClaimUnused(r)
  PROVE  Kept
<1>r. req[r] \in Request /\ Local(req[r], Users) /\ req \in [Req -> Request]
  BY At DEF ReqOK
<1>u. Users' = Users /\ req[r].pc = "claim" /\ req[r].link \in Link
  BY <1>r DEF ClaimUnused, Users, Await, Local
<1>1. CASE Finish(r) /\ UNCHANGED <<token, spent>>
  <2>1. Reads
    BY <1>1 DEF ClaimUnused, Reads, history
  <2> QED BY <1>1, <2>1, QuietData, EndKept
<1>2. ASSUME NEW d \in Under("reset", req[r].link),
             token' = [token EXCEPT ![d].used = TRUE], spent' = spent \cup {req[r].link}
      PROVE  DataOK'
  <2> DEFINE t == [token[d] EXCEPT !.used = TRUE]
  <2>1. d \in Link /\ token[d] \in TokenDoc /\ token[d].user \in Users
    BY UnderOK
  <2>2. t \in TokenDoc /\ t.user = token[d].user
    BY <2>1 DEF TokenDoc
  <2>3. token' = [token EXCEPT ![d] = t]
    BY <1>2, <2>1
  <2> HIDE DEF t
  <2>4. token' \in [Link -> TokenDoc \cup {NoDoc}]
    BY <2>1, <2>2, <2>3 DEF DataOK
  <2>5. ASSUME NEW l \in Link, token'[l] # NoDoc PROVE token'[l].user \in Users'
    BY <1>u, <2>1, <2>2, <2>3, <2>5 DEF DataOK, Owned
  <2> QED BY <1>2, <1>u, <2>4, <2>5 DEF ClaimUnused, DataOK, Owned
<1>3. CASE DataOK' /\ Finish(r)
  BY <1>u, <1>3, EndKept
<1>4. ASSUME DataOK', NEW d \in Under("reset", req[r].link),
             req' = [req EXCEPT ![r].pc = "setPw", ![r].user = token[d].user]
      PROVE  Kept
  <2> DEFINE q == [req[r] EXCEPT !.pc = "setPw", !.user = token[d].user]
  <2>2. "setPw" \in PCs /\ "setPw" \notin EmailPCs
    BY DEF PCs, EmailPCs
  <2>3. token[d].user \in User /\ token[d].user \in Users
    BY UnderOK
  <2>4. /\ q \in Request /\ q.pc = "setPw" /\ q.user = token[d].user
        /\ q.admin = req[r].admin /\ q.link = req[r].link
    BY <1>r, <2>2, <2>3 DEF Request
  <2>5. req' = [req EXCEPT ![r] = q]
    BY <1>4, <1>r
  <2> HIDE DEF q
  <2>6. Local(q, Users)
    BY <1>r, <1>u, <2>2, <2>3, <2>4, LocalNext
  <2> QED BY <1>u, <1>4, <2>4, <2>5, <2>6, MoveKept
<1> QED BY <1>1, <1>2, <1>3, <1>4 DEF ClaimUnused

LEMMA ClaimChangeKept ==
  ASSUME DataOK, ReqOK, NEW r \in Req, ClaimChange(r)
  PROVE  Kept
<1>r. req[r] \in Request /\ Local(req[r], Users) /\ req \in [Req -> Request]
  BY At DEF ReqOK
<1>1. CASE Finish(r) /\ UNCHANGED token
  <2>1. Reads
    BY <1>1 DEF ClaimChange, Reads
  <2> QED BY <1>1, <2>1, QuietData, EndKept
<1>2. ASSUME NEW d \in Under("change", req[r].link), DropTokens({d}) PROVE DataOK' /\ Users' = Users
  BY <1>2, DropData DEF ClaimChange
<1>3. CASE DataOK' /\ Users' = Users /\ Finish(r)
  BY <1>3, EndKept
<1>4. ASSUME DataOK', Users' = Users, NEW d \in Under("change", req[r].link),
             req' = [req EXCEPT ![r].pc = "confirmTaken", ![r].user = token[d].user,
                                ![r].email = token[d].email]
      PROVE  Kept
  <2> DEFINE q == [req[r] EXCEPT !.pc = "confirmTaken", !.user = token[d].user,
                                 !.email = token[d].email]
  <2>2. "confirmTaken" \in PCs /\ req[r].pc = "claimChange"
    BY DEF PCs, ClaimChange, Await
  <2>3. token[d].user \in User /\ token[d].user \in Users /\ token[d].email \in Email
    BY UnderOK
  <2>4. /\ q \in Request /\ q.pc = "confirmTaken" /\ q.user = token[d].user
        /\ q.email = token[d].email /\ q.admin = req[r].admin /\ q.link = req[r].link
    BY <1>r, <2>2, <2>3 DEF Request
  <2>5. req' = [req EXCEPT ![r] = q]
    BY <1>4, <1>r
  <2> HIDE DEF q
  <2>6. Local(q, Users)
    BY <1>r, <2>2, <2>3, <2>4, LocalNext
  <2> QED BY <1>4, <2>4, <2>5, <2>6, MoveKept
<1> QED BY <1>1, <1>2, <1>3, <1>4 DEF ClaimChange

\* Writes of an account.
LEMMA InsertUserKept ==
  ASSUME DataOK, ReqOK, NEW r \in Req, NEW u \in User, InsertUser(r, u)
  PROVE  Kept
<1>r. req[r] \in Request /\ Local(req[r], Users) /\ req \in [Req -> Request]
  BY At DEF ReqOK
<1>1. CASE Finish(r) /\ UNCHANGED account
  <2>1. Reads
    BY <1>1 DEF InsertUser, Reads
  <2> QED BY <1>1, <2>1, QuietData, EndKept
<1>2. CASE /\ account' = [account EXCEPT ![u] = [email |-> req[r].email, verified |-> FALSE,
                                                 pw |-> req[r].pw]]
           /\ req' = [req EXCEPT ![r].pc = "sendFind", ![r].user = u]
  <2>1. req[r].pc = "insertUser" /\ "sendFind" \in PCs /\ req[r].email \in Email
    BY At DEF InsertUser, Await, PCs, EmailPCs
  <2> DEFINE a == [email |-> req[r].email, verified |-> FALSE, pw |-> req[r].pw]
  <2>2. a \in AccountDoc
    BY <1>r, <2>1 DEF AccountDoc, Request
  <2>3. DataOK' /\ Users' = Users \cup {u}
    <3> HIDE DEF a
    <3>1. account' = [account EXCEPT ![u] = a]
      BY <1>2 DEF a
    <3>2. /\ UNCHANGED <<token, session, mail, drawn>>
          /\ spent' \subseteq Link /\ proven' \subseteq User /\ excused' \subseteq User
      BY DEF InsertUser, history, DataOK
    <3> QED BY <2>2, <3>1, <3>2, AccountData
  <2> DEFINE q == [req[r] EXCEPT !.pc = "sendFind", !.user = u]
  <2>4. /\ q \in Request /\ q.pc = "sendFind" /\ q.user = u
        /\ q.email = req[r].email /\ q.admin = req[r].admin /\ q.link = req[r].link
    BY <1>r, <2>1 DEF Request
  <2>5. req' = [req EXCEPT ![r] = q]
    BY <1>2, <1>r
  <2> HIDE DEF q, a
  <2>6. Local(req[r], Users')
    BY <1>r, <2>3, LocalGrows
  <2>7. Local(q, Users')
    BY <1>r, <2>1, <2>3, <2>4, <2>6, LocalNext
  <2>8. Users \subseteq Users'
    BY <2>3
  <2> QED BY <2>3, <2>4, <2>5, <2>7, <2>8, Moves DEF Kept
<1> QED BY <1>1, <1>2 DEF InsertUser

LEMMA RewriteData ==
  ASSUME DataOK, NEW u \in Users, NEW a \in AccountDoc, account' = [account EXCEPT ![u] = a],
         UNCHANGED <<token, session, mail, drawn, spent>>,
         proven' \subseteq User, excused' \subseteq User
  PROVE  DataOK' /\ Users' = Users
<1>1. u \in User /\ spent' \subseteq Link
  BY HoldersOK DEF DataOK
<1> QED BY <1>1, AccountData

LEMMA WritesKept ==
  ASSUME DataOK, ReqOK, NEW r \in Req,
         \/ VerifyWrite(r) \/ NullPassword(r)
         \/ SetPassword(r, "setPw", "dropResets") \/ SetPassword(r, "changePw", "signOutOthers")
  PROVE  Kept
<1>1. /\ req[r].pc \in {"verifyWrite", "nullPw", "setPw", "changePw"} /\ req[r].user \in Users
      /\ req[r] \in Request
  <2>1. req[r].pc \in {"verifyWrite", "nullPw", "setPw", "changePw"}
    BY DEF VerifyWrite, NullPassword, SetPassword, Await
  <2>2. req[r].pc \in UserPCs
    BY <2>1 DEF PCs, UserPCs
  <2> QED BY <2>1, <2>2, At
<1>2. PICK a \in AccountDoc : account' = [account EXCEPT ![req[r].user] = a]
  <2> DEFINE u == req[r].user
  <2>1. u \in Users /\ req[r].pw \in Password \cup {Nil} /\ u \in User
    BY <1>1, HoldersOK DEF Request
  <2>2. CASE VerifyWrite(r)
    <3>1. account' = [account EXCEPT ![u] = [account[u] EXCEPT !.verified = TRUE]]
      BY <2>1, <2>2 DEF VerifyWrite, DataOK
    <3>2. account[u] \in AccountDoc
      BY <2>1, HoldersOK
    <3>3. [account[u] EXCEPT !.verified = TRUE] \in AccountDoc
      BY <3>2 DEF AccountDoc
    <3> QED BY <3>1, <3>3
  <2>3. CASE NullPassword(r)
    <3>1. account' = [account EXCEPT ![u] = [account[u] EXCEPT !.pw = Nil]]
      BY <2>1, <2>3 DEF NullPassword, DataOK
    <3>2. account[u] \in AccountDoc
      BY <2>1, HoldersOK
    <3>3. [account[u] EXCEPT !.pw = Nil] \in AccountDoc
      BY <3>2 DEF AccountDoc
    <3> QED BY <3>1, <3>3
  <2>4. CASE account' = [account EXCEPT ![u].pw = req[r].pw]
    <3>1. account' = [account EXCEPT ![u] = [account[u] EXCEPT !.pw = req[r].pw]]
      BY <2>1, <2>4 DEF DataOK
    <3>2. account[u] \in AccountDoc
      BY <2>1, HoldersOK
    <3>3. [account[u] EXCEPT !.pw = req[r].pw] \in AccountDoc
      BY <2>1, <3>2 DEF AccountDoc
    <3> QED BY <3>1, <3>3
  <2> QED BY <2>2, <2>3, <2>4 DEF SetPassword
<1>3. UNCHANGED <<token, session, mail, drawn, spent>> /\ proven' \subseteq User
      /\ excused' \subseteq User
  BY <1>1, HoldersOK DEF VerifyWrite, NullPassword, SetPassword, history, DataOK
<1>4. DataOK' /\ Users' = Users
  BY <1>1, <1>2, <1>3, RewriteData
<1>5. PICK pc : /\ Goto(r, pc)
                /\ \/ Await(r, "verifyWrite") /\ pc = "verifyDrop"
                   \/ Await(r, "nullPw") /\ pc = "signOut"
                   \/ Await(r, "setPw") /\ pc = "dropResets"
                   \/ Await(r, "changePw") /\ pc = "signOutOthers"
  BY DEF VerifyWrite, NullPassword, SetPassword
<1>6. ReqOK'
  BY <1>4, <1>5, GoesOn DEF Await, PCs, UserPCs, EmailPCs
<1> QED BY <1>4, <1>6 DEF Kept

LEMMA MoveEmailKept ==
  ASSUME DataOK, ReqOK, NEW r \in Req, MoveEmail(r)
  PROVE  Kept
<1>1. req[r].pc = "moveEmail" /\ req[r].user \in Users /\ req[r].email \in Email
      /\ req[r].user \in User
  BY At DEF MoveEmail, Await, PCs, UserPCs, EmailPCs
<1>2. CASE Finish(r) /\ UNCHANGED <<account, proven>>
  <2>1. Reads
    BY <1>2 DEF MoveEmail, Reads, history
  <2> QED BY <1>2, <2>1, QuietData, EndKept
<1>3. CASE /\ account' = [account EXCEPT ![req[r].user].email = req[r].email,
                                         ![req[r].user].verified = TRUE]
           /\ proven' = proven \cup {req[r].user}
           /\ Goto(r, "dropAfterMove")
  <2> DEFINE a == [account[req[r].user] EXCEPT !.email = req[r].email, !.verified = TRUE]
  <2>1. a \in AccountDoc
    BY <1>1, HoldersOK DEF AccountDoc
  <2>2. account' = [account EXCEPT ![req[r].user] = a]
    BY <1>1, <1>3 DEF DataOK
  <2>3. /\ UNCHANGED <<token, session, mail, drawn, spent>>
        /\ proven' \subseteq User /\ excused' \subseteq User
    BY <1>1, <1>3 DEF MoveEmail, DataOK
  <2> HIDE DEF a
  <2>4. DataOK' /\ Users' = Users
    BY <1>1, <2>1, <2>2, <2>3, RewriteData
  <2>5. ReqOK'
    BY <1>1, <1>3, <2>4, GoesOn DEF PCs, UserPCs, EmailPCs
  <2> QED BY <2>4, <2>5 DEF Kept
<1> QED BY <1>2, <1>3 DEF MoveEmail

LEMMA UpdateWriteKept ==
  ASSUME DataOK, ReqOK, NEW r \in Req, UpdateWrite(r)
  PROVE  Kept
<1> DEFINE q == req[r]
           a == account[q.user]
           new == [a EXCEPT !.email = IF q.email = Nil THEN @ ELSE q.email,
                            !.verified = IF q.flag = Nil THEN @ ELSE q.flag]
<1>1. q.pc = "updWrite" /\ q.user \in Users /\ q \in Request /\ q.user \in User
  BY At DEF UpdateWrite, Await, PCs, UserPCs
<1>2. CASE Finish(r) /\ UNCHANGED <<account, proven, excused>>
  <2>1. Reads
    BY <1>2 DEF UpdateWrite, Reads, history
  <2> QED BY <1>2, <2>1, QuietData, EndKept
<1>3. CASE /\ account' = [account EXCEPT ![q.user] = new]
           /\ proven' = IF new.verified THEN proven \cup {q.user}
                        ELSE IF new.email = a.email THEN proven ELSE proven \ {q.user}
           /\ excused' = IF Pending(r, q.user) = {} THEN excused ELSE excused \cup {q.user}
           /\ IF q.email = Nil THEN Finish(r) ELSE Goto(r, "signOut")
  <2>1. a \in AccountDoc /\ q.email \in Email \cup {Nil} /\ q.flag \in BOOLEAN \cup {Nil}
    BY <1>1, HoldersOK DEF Request
  <2>2. new \in AccountDoc
    BY <2>1 DEF AccountDoc
  <2>3. UNCHANGED <<token, session, mail, drawn, spent>>
    BY DEF UpdateWrite
  <2>4. proven' \subseteq User /\ excused' \subseteq User
    BY <1>1, <1>3 DEF DataOK
  <2>5. DataOK' /\ Users' = Users
    <3> HIDE DEF new
    <3> QED BY <1>1, <1>3, <2>2, <2>3, <2>4, RewriteData
  <2>6. ReqOK'
    BY <1>1, <1>3, <2>5, GoesOn, Finishes DEF PCs, UserPCs, EmailPCs
  <2> QED BY <2>5, <2>6 DEF Kept
<1> QED BY <1>2, <1>3 DEF UpdateWrite

\* Writes of a session.
LEMMA SessionsKept ==
  ASSUME DataOK, ReqOK, NEW r \in Req,
         (\E s \in Sid : Start(r, s)) \/ SignOut(r) \/ SignOutOthers(r)
  PROVE  Kept
<1>1. /\ req[r].pc \in {"start", "signOut", "signOutOthers"} /\ req[r].user \in Users
      /\ req[r].user \in User /\ req[r] \in Request /\ Local(req[r], Users)
  <2>1. req[r].pc \in {"start", "signOut", "signOutOthers"}
    BY DEF Start, SignOut, SignOutOthers, Await
  <2>2. req[r].pc \in UserPCs
    BY <2>1 DEF PCs, UserPCs
  <2> QED BY <2>1, <2>2, At
<1>2. /\ session' \in [Sid -> SessionDoc \cup {NoDoc}]
      /\ \A s \in Sid : session'[s] # NoDoc => session'[s].user \in Users
  <2>1. ASSUME NEW s \in Sid, Start(r, s)
        PROVE  /\ session' \in [Sid -> SessionDoc \cup {NoDoc}]
               /\ \A x \in Sid : session'[x] # NoDoc => session'[x].user \in Users
    <3> DEFINE d == [user |-> req[r].user, email |-> req[r].email, pw |-> req[r].pw,
                     late |-> ~Matches(req[r].user, req[r].email, req[r].pw)]
    <3>1. req[r].email \in Email /\ req[r].pw \in Password \cup {Nil}
      BY <1>1, <2>1, At DEF Start, Await, EmailPCs, Request
    <3>2. d \in SessionDoc /\ d.user = req[r].user
      BY <1>1, <3>1 DEF SessionDoc
    <3>3. session' = [session EXCEPT ![s] = d]
      BY <2>1 DEF Start
    <3> HIDE DEF d
    <3> QED BY <1>1, <3>2, <3>3 DEF DataOK, Owned
  <2>2. CASE SignOut(r)
    BY <2>2 DEF SignOut, DataOK, Owned
  <2>3. CASE SignOutOthers(r)
    <3> DEFINE made(s) == [session[s] EXCEPT !.pw = account[req[r].user].pw]
    <3>1. account[req[r].user].pw \in Password \cup {Nil}
      BY <1>1, HoldersOK DEF AccountDoc
    <3>2. ASSUME NEW s \in Sid, session[s] # NoDoc
          PROVE  made(s) \in SessionDoc /\ made(s).user = session[s].user
      <4>1. session[s] \in SessionDoc
        BY <3>2 DEF DataOK
      <4> QED BY <3>1, <4>1 DEF SessionDoc
    <3>3. session' = [s \in Sid |->
             IF session[s] = NoDoc \/ session[s].user # req[r].user THEN session[s]
             ELSE IF s = req[r].sid THEN made(s) ELSE NoDoc]
      BY <2>3 DEF SignOutOthers
    <3> HIDE DEF made
    <3> QED BY <3>2, <3>3 DEF DataOK, Owned
  <2> QED BY <2>1, <2>2, <2>3
<1>3. mail' \in MailStates
  <2>1. CASE SignOut(r) /\ req[r].admin
    BY <2>1, MailTyped DEF SignOut
  <2>2. CASE UNCHANGED mail
    BY <2>2 DEF DataOK
  <2> QED BY <2>1, <2>2 DEF Start, SignOut, SignOutOthers
<1>4. UNCHANGED <<account, token, drawn, history>>
  BY DEF Start, SignOut, SignOutOthers
<1>5. DataOK' /\ Users' = Users
  BY <1>2, <1>3, <1>4, SessionData
<1>6. CASE Goto(r, "handOver") /\ SignOut(r)
  <2>1. ReqOK'
    BY <1>5, <1>6, GoesOn DEF SignOut, Await, PCs, UserPCs, EmailPCs
  <2> QED BY <1>5, <2>1 DEF Kept
<1> QED BY <1>5, <1>6, EndKept DEF Start, SignOut, SignOutOthers

\* Draws of a link.
LEMMA DrawsKept ==
  ASSUME DataOK, ReqOK, NEW r \in Req, SendWrite(r) \/ ResetWrite(r) \/ InsertChange(r)
  PROVE  Kept
<1>r. req[r] \in Request /\ Local(req[r], Users) /\ req \in [Req -> Request]
  BY At DEF ReqOK
<1>1. /\ req[r].pc \in {"sendWrite", "tokWrite", "insertChange"} /\ req[r].user \in Users
      /\ req[r].user \in User /\ req[r].email \in Email /\ req[r].doc \in Link \cup {Nil}
  <2>1. req[r].pc \in {"sendWrite", "tokWrite", "insertChange"}
    BY DEF SendWrite, ResetWrite, InsertChange, Await
  <2>2. req[r].pc \in UserPCs /\ req[r].pc \in EmailPCs
    BY <2>1 DEF PCs, UserPCs, EmailPCs
  <2> QED BY <1>r, <2>1, <2>2, At DEF Request
<1>2. PICK kind \in {"verify", "reset", "change"}, d \in Link \cup {Nil} :
        Issue(kind, req[r].user, d, req[r].email)
  BY <1>1 DEF SendWrite, ResetWrite, InsertChange
<1>3. mail' \in MailStates
  <2>1. CASE Post(drawn + 1)
    BY <2>1, MailTyped
  <2>2. CASE UNCHANGED mail
    BY <2>2 DEF DataOK
  <2> QED BY <2>1, <2>2 DEF SendWrite, ResetWrite, InsertChange
<1>4. UNCHANGED <<account, session, spent, proven>> /\ excused' \subseteq User
  BY <1>1 DEF SendWrite, ResetWrite, InsertChange, history, Excuse, DataOK
<1>5. DataOK' /\ Users' = Users
  BY <1>1, <1>2, <1>3, <1>4, IssueData
<1>6. CASE Finish(r)
  BY <1>5, <1>6, EndKept
<1>7. CASE /\ ResetWrite(r) /\ req[r].admin
           /\ req' = [req EXCEPT ![r].pc = "nullPw", ![r].link = drawn + 1]
  <2> DEFINE q == [req[r] EXCEPT !.pc = "nullPw", !.link = drawn + 1]
  <2>1. drawn + 1 \in Link /\ "nullPw" \in PCs /\ "nullPw" \notin EmailPCs
    <3>1. drawn + 1 \in Link
      BY <1>1, <1>2, IssueIs
    <3> QED BY <3>1 DEF PCs, EmailPCs
  <2>2. /\ q \in Request /\ q.pc = "nullPw" /\ q.user = req[r].user
        /\ q.email = req[r].email /\ q.admin = req[r].admin /\ q.link = drawn + 1
    BY <1>r, <2>1 DEF Request
  <2>3. req' = [req EXCEPT ![r] = q]
    BY <1>r, <1>7
  <2> HIDE DEF q
  <2>4. Local(q, Users)
    BY <1>1, <2>1, <2>2 DEF Local
  <2> QED BY <1>5, <2>2, <2>3, <2>4, MoveKept
<1> QED BY <1>6, <1>7 DEF SendWrite, ResetWrite, InsertChange

LEMMA AbortKept ==
  ASSUME DataOK, ReqOK, NEW r \in Req, Abort(r)
  PROVE  Kept
<1>1. Finish(r) /\ UNCHANGED <<account, token, session, drawn, spent, proven>>
  BY DEF Abort, Excuse
<1>m. mail' \in MailStates
  BY DEF Abort, DataOK, MailStates
<1>2. excused' \subseteq User
  <2>1. CASE Changing(r) \/ Await(r, "nullPw")
    <3>1. req[r].pc \in UserPCs
      BY <2>1 DEF Changing, Await, PCs, UserPCs
    <3>2. req[r].user \in User
      BY <3>1, At
    <3> QED BY <2>1, <3>2 DEF Abort, Excuse, DataOK
  <2>2. CASE ~(Changing(r) \/ Await(r, "nullPw"))
    BY <2>2 DEF Abort, Excuse, DataOK
  <2> QED BY <2>1, <2>2
<1>3. DataOK' /\ Users' = Users
  BY <1>1, <1>m, <1>2 DEF DataOK, Owned, Users
<1> QED BY <1>1, <1>3, EndKept

\* What becomes of a mail.
LEMMA MailData ==
  ASSUME DataOK, mail' \in MailStates, UNCHANGED <<account, token, session, drawn, history>>
  PROVE  DataOK' /\ Users' = Users
BY DEF DataOK, Owned, Users, history

LEMMA HandOverKept ==
  ASSUME DataOK, ReqOK, NEW r \in Req, HandOver(r)
  PROVE  Kept
<1>1. mail' \in MailStates
  BY DEF HandOver, DataOK, MailStates
<1> QED BY <1>1, MailData, EndKept DEF HandOver

\* What happens beside the requests.
Booting == \E u \in User : VouchForOwner(u) \/ \E p \in Password : CreateOwner(u, p)
Beside  == \/ \E l \in Link : Lapse(l) \/ Deliver(l)
           \/ \E s \in Sid : EndSession(s)
           \/ Booting

\* The start-up writes an account, as it was but for verified, or a new one.
Vouches(u, a) ==
  /\ account' = [account EXCEPT ![u] = a]
  /\ a.email = Owner /\ a.verified
  /\ IF u \in Users THEN a.email = account[u].email /\ a.pw = account[u].pw
                    ELSE Free(a.email, u)

LEMMA BootIs ==
  ASSUME DataOK, Booting
  PROVE  /\ UNCHANGED <<token, session, mail, drawn, req, history>>
         /\ \E u \in User, a \in AccountDoc : Vouches(u, a)
<1> USE DEF Vouches
<1>1. ASSUME NEW u \in User, VouchForOwner(u)
      PROVE  \E a \in AccountDoc : Vouches(u, a)
  <2> DEFINE a == [account[u] EXCEPT !.verified = TRUE]
  <2>1. u \in Users /\ account[u].email = Owner /\ account[u] \in AccountDoc
    BY <1>1, HoldersOK DEF VouchForOwner, Holders
  <2>2. account' = [account EXCEPT ![u] = a]
    BY <1>1, <2>1 DEF VouchForOwner, DataOK
  <2>3. a \in AccountDoc /\ a.email = account[u].email /\ a.pw = account[u].pw /\ a.verified
    BY <2>1 DEF AccountDoc
  <2> HIDE DEF a
  <2> QED BY <2>1, <2>2, <2>3
<1>2. ASSUME NEW u \in User, NEW p \in Password, CreateOwner(u, p)
      PROVE  \E a \in AccountDoc : Vouches(u, a)
  <2> DEFINE a == [email |-> Owner, verified |-> TRUE, pw |-> p]
  <2>1. u \notin Users /\ Owner \in Email /\ Free(Owner, u)
    BY <1>2, OwnerAssumption DEF CreateOwner, Free
  <2>2. account' = [account EXCEPT ![u] = a]
    BY <1>2 DEF CreateOwner
  <2>3. a \in AccountDoc /\ a.email = Owner /\ a.verified
    BY <2>1 DEF AccountDoc
  <2> HIDE DEF a
  <2> QED BY <2>1, <2>2, <2>3
<1> QED BY <1>1, <1>2 DEF Booting, VouchForOwner, CreateOwner

LEMMA BesideKept ==
  ASSUME DataOK, ReqOK, Beside
  PROVE  Kept
<1>1. UNCHANGED req
  BY DEF Beside, Booting, Lapse, Deliver, EndSession, VouchForOwner, CreateOwner
<1>2. DataOK' /\ Users \subseteq Users'
  <2>1. ASSUME NEW l \in Link, Lapse(l) PROVE DataOK' /\ Users' = Users
    BY <2>1, DropData DEF Lapse
  <2>2. ASSUME NEW l \in Link, Deliver(l) PROVE DataOK' /\ Users' = Users
    <3>1. mail' \in MailStates
      BY <2>2 DEF Deliver, DataOK, MailStates
    <3> QED BY <2>2, <3>1, MailData DEF Deliver
  <2>3. ASSUME NEW s \in Sid, EndSession(s) PROVE DataOK' /\ Users' = Users
    <3>1. /\ session' \in [Sid -> SessionDoc \cup {NoDoc}] /\ mail' \in MailStates
          /\ \A x \in Sid : session'[x] # NoDoc => session'[x].user \in Users
      BY <2>3 DEF EndSession, DataOK, Owned
    <3> QED BY <2>3, <3>1, SessionData DEF EndSession
  <2>4. CASE Booting
    <3>1. PICK u \in User, a \in AccountDoc : account' = [account EXCEPT ![u] = a]
      BY <2>4, BootIs DEF Vouches
    <3>2. /\ UNCHANGED <<token, session, mail, drawn>>
          /\ spent' \subseteq Link /\ proven' \subseteq User /\ excused' \subseteq User
      BY <2>4, BootIs DEF history, DataOK
    <3>3. DataOK' /\ Users' = Users \cup {u}
      BY <3>1, <3>2, AccountData
    <3> QED BY <3>3
  <2> QED BY <2>1, <2>2, <2>3, <2>4 DEF Beside
<1>3. \A r \in Req : Local(req'[r], Users')
  BY <1>1, <1>2, LocalGrows DEF ReqOK, Locals
<1>4. ReqOK'
  BY <1>1, <1>3 DEF ReqOK, Locals
<1> QED BY <1>2, <1>4 DEF Kept

LEMMA IdleIs ==
  /\ Idle \in Request /\ Idle.pc = "idle" /\ Idle.user = Nil /\ Idle.email = Nil
  /\ Idle.pw = Nil /\ Idle.flag = Nil /\ Idle.sid = Nil /\ Idle.admin = FALSE
  /\ Idle.link = Nil /\ Idle.doc = Nil
BY IdleOK DEF Idle

\* A call as it arrives.
LEMMA ArriveKept ==
  ASSUME DataOK, ReqOK, NEW r \in Req, Arrive(r)
  PROVE  Kept
<1>0. Reads
  BY DEF Arrive
<1>s. \A s \in Sid : session[s] # NoDoc => session[s].user \in Users /\ session[s].user \in User
  BY HoldersOK DEF DataOK, Owned
<1>1. ASSUME NEW e \in Email, NEW p \in Password,
             Begin(r, "signup", [[Idle EXCEPT !.email = e] EXCEPT !.pc = "signFind", !.pw = p])
      PROVE  Kept
  <2> DEFINE q == [[Idle EXCEPT !.email = e] EXCEPT !.pc = "signFind", !.pw = p]
  <2>1. "signFind" \in PCs /\ "signFind" \notin UserPCs
    BY DEF PCs, UserPCs
  <2>2. q \in Request /\ q.pc = "signFind" /\ q.email = e /\ ~q.admin
    BY <2>1, IdleIs DEF Request
  <2>3. Begin(r, "signup", q)
    BY <1>1
  <2> HIDE DEF q
  <2>4. Local(q, Users)
    BY <2>1, <2>2 DEF Local
  <2> QED BY <1>0, <2>2, <2>3, <2>4, BeginKept
<1>2. ASSUME NEW e \in Email, NEW pc \in {"resendFind", "loginFind", "forgotFind"}, NEW op,
             Begin(r, op, [[Idle EXCEPT !.email = e] EXCEPT !.pc = pc])
      PROVE  Kept
  <2> DEFINE q == [[Idle EXCEPT !.email = e] EXCEPT !.pc = pc]
  <2>1. pc \in PCs /\ pc \notin UserPCs
    BY DEF PCs, UserPCs
  <2>2. q \in Request /\ q.pc = pc /\ q.email = e /\ ~q.admin
    BY <2>1, IdleIs DEF Request
  <2>3. Begin(r, op, q)
    BY <1>2
  <2> HIDE DEF q
  <2>4. Local(q, Users)
    BY <2>1, <2>2 DEF Local
  <2> QED BY <1>0, <2>2, <2>3, <2>4, BeginKept
<1>3. ASSUME NEW e \in Email, NEW s \in {x \in Sid : session[x] # NoDoc},
             Begin(r, "change", [[Idle EXCEPT !.email = e] EXCEPT !.pc = "checkEmail",
                                                              !.user = session[s].user])
      PROVE  Kept
  <2> DEFINE q == [[Idle EXCEPT !.email = e] EXCEPT !.pc = "checkEmail",
                                                    !.user = session[s].user]
  <2>1. "checkEmail" \in PCs /\ session[s].user \in Users /\ session[s].user \in User
    BY <1>s DEF PCs
  <2>2. q \in Request /\ q.pc = "checkEmail" /\ q.email = e /\ q.user = session[s].user /\ ~q.admin
    BY <2>1, IdleIs DEF Request
  <2>3. Begin(r, "change", q)
    BY <1>3
  <2> HIDE DEF q
  <2>4. Local(q, Users)
    BY <2>1, <2>2 DEF Local
  <2> QED BY <1>0, <2>2, <2>3, <2>4, BeginKept
<1>4. ASSUME NEW l \in {x \in Link : mail[x] = "arrived"}, NEW pc \in {"verifyFind", "claimChange"},
             NEW op, Begin(r, op, [[Idle EXCEPT !.link = l] EXCEPT !.pc = pc])
      PROVE  Kept
  <2> DEFINE q == [[Idle EXCEPT !.link = l] EXCEPT !.pc = pc]
  <2>1. pc \in PCs /\ pc \notin UserPCs /\ pc \notin EmailPCs
    BY DEF PCs, UserPCs, EmailPCs
  <2>2. q \in Request /\ q.pc = pc /\ q.link = l /\ ~q.admin
    BY <2>1, IdleIs DEF Request
  <2>3. Begin(r, op, q)
    BY <1>4
  <2> HIDE DEF q
  <2>4. Local(q, Users)
    BY <2>1, <2>2 DEF Local
  <2> QED BY <1>0, <2>2, <2>3, <2>4, BeginKept
<1>5. ASSUME NEW l \in {x \in Link : mail[x] = "arrived"}, NEW p \in Password,
             Begin(r, "reset", [[Idle EXCEPT !.link = l] EXCEPT !.pc = "claim", !.pw = p])
      PROVE  Kept
  <2> DEFINE q == [[Idle EXCEPT !.link = l] EXCEPT !.pc = "claim", !.pw = p]
  <2>1. "claim" \in PCs /\ "claim" \notin UserPCs /\ "claim" \notin EmailPCs
    BY DEF PCs, UserPCs, EmailPCs
  <2>2. q \in Request /\ q.pc = "claim" /\ q.link = l /\ ~q.admin
    BY <2>1, IdleIs DEF Request
  <2>3. Begin(r, "reset", q)
    BY <1>5
  <2> HIDE DEF q
  <2>4. Local(q, Users)
    BY <2>1, <2>2 DEF Local
  <2> QED BY <1>0, <2>2, <2>3, <2>4, BeginKept
<1>6. ASSUME NEW s \in {x \in Sid : session[x] # NoDoc}, NEW p \in Password,
             Begin(r, "password", [Idle EXCEPT !.pc = "checkPw", !.user = session[s].user,
                                               !.sid = s, !.pw = p])
      PROVE  Kept
  <2> DEFINE q == [Idle EXCEPT !.pc = "checkPw", !.user = session[s].user, !.sid = s, !.pw = p]
  <2>1. /\ "checkPw" \in PCs /\ "checkPw" \notin EmailPCs /\ session[s].user \in Users
        /\ session[s].user \in User
    BY <1>s DEF PCs, EmailPCs
  <2>2. q \in Request /\ q.pc = "checkPw" /\ q.user = session[s].user /\ ~q.admin
    BY <2>1, IdleIs DEF Request
  <2>3. Begin(r, "password", q)
    BY <1>6
  <2> HIDE DEF q
  <2>4. Local(q, Users)
    BY <2>1, <2>2 DEF Local
  <2> QED BY <1>0, <2>2, <2>3, <2>4, BeginKept
<1>7. ASSUME NEW u \in Users,
             Begin(r, "adminReset", [[Idle EXCEPT !.user = u] EXCEPT !.pc = "tokDrop",
                                        !.admin = TRUE, !.email = account[u].email])
      PROVE  Kept
  <2> DEFINE q == [[Idle EXCEPT !.user = u] EXCEPT !.pc = "tokDrop", !.admin = TRUE,
                                                   !.email = account[u].email]
  <2>1. "tokDrop" \in PCs /\ u \in User /\ account[u].email \in Email
    BY HoldersOK DEF PCs, AccountDoc
  <2>2. /\ q \in Request /\ q.pc = "tokDrop" /\ q.email \in Email /\ q.user = u /\ q.link = Nil
    BY <2>1, IdleIs DEF Request
  <2>3. Begin(r, "adminReset", q)
    BY <1>7
  <2> HIDE DEF q
  <2>4. Local(q, Users)
    BY <2>1, <2>2 DEF Local
  <2> QED BY <1>0, <2>2, <2>3, <2>4, BeginKept
<1>8. ASSUME NEW u \in Users, NEW e \in Email \cup {Nil}, NEW flag \in BOOLEAN \cup {Nil},
             Begin(r, "update", [[Idle EXCEPT !.user = u] EXCEPT !.pc = "updFind", !.email = e,
                                                                 !.flag = flag])
      PROVE  Kept
  <2> DEFINE q == [[Idle EXCEPT !.user = u] EXCEPT !.pc = "updFind", !.email = e, !.flag = flag]
  <2>1. "updFind" \in PCs /\ "updFind" \notin EmailPCs /\ u \in User
    BY HoldersOK DEF PCs, EmailPCs
  <2>2. /\ q \in Request /\ q.pc = "updFind" /\ q.user = u /\ ~q.admin
    BY <2>1, IdleIs DEF Request
  <2>3. Begin(r, "update", q)
    BY <1>8
  <2> HIDE DEF q
  <2>4. Local(q, Users)
    BY <2>1, <2>2 DEF Local
  <2> QED BY <1>0, <2>2, <2>3, <2>4, BeginKept
<1> QED BY <1>1, <1>2, <1>3, <1>4, <1>5, <1>6, <1>7, <1>8 DEF Arrive

LEMMA StepKept ==
  ASSUME DataOK, ReqOK, Next
  PROVE  Kept
<1>1. ASSUME NEW r \in Req, Step(r) PROVE Kept
  <2> USE <1>1
  <2>1. CASE \/ SignupFind(r) \/ CheckPassword(r) \/ CheckForEmail(r) \/ RequestTaken(r)
             \/ ConfirmTaken(r) \/ UpdateConflict(r)
    BY <2>1, LookupsKept
  <2>2. CASE \/ VerifyDrop(r) \/ ForceDrop(r) \/ DropResets(r) \/ DropChanges(r)
             \/ DropAfterMove(r) \/ UpdateDropVerify(r)
             \/ UpdateDrop(r, "updDropChange", "change", "updDropVerify")
    BY <2>2, DropsKept
  <2>3. CASE ResendFind(r) \/ ForgotFind(r) \/ LoginFind(r) \/ UpdateFind(r)
    BY <2>3, FindsKept
  <2>4. CASE SendFind(r) \/ ResetFind(r)
    BY <2>4, SearchesKept
  <2>5. CASE VerifyFind(r) \/ ClaimUnused(r) \/ ClaimChange(r)
    BY <2>5, VerifyFindKept, ClaimUnusedKept, ClaimChangeKept
  <2>6. CASE (\E u \in User : InsertUser(r, u)) \/ MoveEmail(r) \/ UpdateWrite(r)
    BY <2>6, InsertUserKept, MoveEmailKept, UpdateWriteKept
  <2>7. CASE \/ VerifyWrite(r) \/ NullPassword(r)
             \/ SetPassword(r, "setPw", "dropResets")
             \/ SetPassword(r, "changePw", "signOutOthers")
    BY <2>7, WritesKept
  <2>8. CASE (\E s \in Sid : Start(r, s)) \/ SignOut(r) \/ SignOutOthers(r)
    BY <2>8, SessionsKept
  <2>h. CASE HandOver(r)
    BY <2>h, HandOverKept
  <2>9. CASE SendWrite(r) \/ ResetWrite(r) \/ InsertChange(r)
    BY <2>9, DrawsKept
  <2> QED BY <2>1, <2>2, <2>3, <2>4, <2>5, <2>6, <2>7, <2>8, <2>9, <2>h DEF Step
<1> QED BY <1>1, ArriveKept, AbortKept, BesideKept DEF Next, Beside, Booting

LEMMA BaseStep == Base /\ [Next]_vars => Base'
<1>1. ASSUME Base, Next PROVE Base'
  BY <1>1, StepKept, BaseIs, BaseIsPrimed DEF Kept
<1>2. ASSUME Base, UNCHANGED vars PROVE Base'
  BY <1>2 DEF Base, TypeOK, Locals, Owned, Users, vars, history
<1> QED BY <1>1, <1>2

\* The collections, and the local variables of every handler, hold what their
\* types say, and every document belongs to an account that exists.
THEOREM BaseInvariant == Spec => []Base
BY InitBase, BaseStep, PTL DEF Spec

\* Type correctness of the collections and of every handler's locals.
THEOREM TypeCorrect == Spec => []TypeOK
<1>1. Base => TypeOK
  BY DEF Base
<1> QED BY <1>1, BaseInvariant, PTL
-----------------------------------------------------------------------------
(* Which handler leads where *)

Others(r) == \A x \in Req \ {r} : req'[x] = req[x]
To(r, pcs) == req'[r].pc \in pcs /\ Others(r)

LEMMA Goes ==
  ASSUME ReqOK, NEW r \in Req
  PROVE  /\ Finish(r) => To(r, {"idle"}) /\ req'[r] = Idle
         /\ \A pc : Goto(r, pc) => /\ To(r, {pc}) /\ req'[r].user = req[r].user
                                   /\ req'[r].email = req[r].email
                                   /\ req'[r].link = req[r].link /\ req'[r].admin = req[r].admin
         /\ \A op, q : Begin(r, op, q) => To(r, {q.pc}) /\ req[r] = Idle /\ req'[r] = q
<1> USE DEF To, Others
<1>1. req \in [Req -> Request] /\ req[r] \in Request
  BY DEF ReqOK
<1>2. Finish(r) => To(r, {"idle"}) /\ req'[r] = Idle
  BY <1>1, IdleIs DEF Finish
<1>3. ASSUME NEW pc, Goto(r, pc)
      PROVE  /\ To(r, {pc}) /\ req'[r].user = req[r].user
             /\ req'[r].email = req[r].email
             /\ req'[r].link = req[r].link /\ req'[r].admin = req[r].admin
  <2>1. req'[r] = [req[r] EXCEPT !.pc = pc] /\ \A x \in Req \ {r} : req'[x] = req[x]
    BY <1>1, <1>3 DEF Goto
  <2> QED BY <1>1, <2>1 DEF Request
<1>4. ASSUME NEW op, NEW q, Begin(r, op, q)
      PROVE  To(r, {q.pc}) /\ req[r] = Idle /\ req'[r] = q
  BY <1>1, <1>4 DEF Begin
<1> QED BY <1>2, <1>3, <1>4

\* A handler that goes on with what it found.
LEMMA Sets ==
  ASSUME ReqOK, NEW r \in Req
  PROVE  /\ \A pc, u : req' = [req EXCEPT ![r].pc = pc, ![r].user = u]
              => /\ To(r, {pc}) /\ req'[r].user = u /\ req'[r].email = req[r].email
                 /\ req'[r].link = req[r].link /\ req'[r].admin = req[r].admin
         /\ \A pc, u, e : req' = [req EXCEPT ![r].pc = pc, ![r].user = u, ![r].email = e]
              => /\ To(r, {pc}) /\ req'[r].user = u /\ req'[r].email = e
                 /\ req'[r].link = req[r].link /\ req'[r].admin = req[r].admin
         /\ \A pc, u, w : req' = [req EXCEPT ![r].pc = pc, ![r].user = u, ![r].pw = w]
              => /\ To(r, {pc}) /\ req'[r].user = u /\ req'[r].email = req[r].email
                 /\ req'[r].link = req[r].link /\ req'[r].admin = req[r].admin
         /\ \A pc, d : req' = [req EXCEPT ![r].pc = pc, ![r].doc = d]
              => /\ To(r, {pc}) /\ req'[r].user = req[r].user /\ req'[r].email = req[r].email /\ req'[r].doc = d
                 /\ req'[r].link = req[r].link /\ req'[r].admin = req[r].admin
         /\ \A pc, l : req' = [req EXCEPT ![r].pc = pc, ![r].link = l]
              => /\ To(r, {pc}) /\ req'[r].user = req[r].user /\ req'[r].email = req[r].email
                 /\ req'[r].link = l /\ req'[r].admin = req[r].admin
         /\ \A pc, e : req' = [req EXCEPT ![r].pc = pc, ![r].email = e]
              => /\ To(r, {pc}) /\ req'[r].user = req[r].user /\ req'[r].email = e
                 /\ req'[r].link = req[r].link /\ req'[r].admin = req[r].admin
<1> USE DEF To, Others
<1>1. req \in [Req -> Request] /\ req[r] \in Request
  BY DEF ReqOK
<1>2. ASSUME NEW pc, NEW u,
             req' = [req EXCEPT ![r].pc = pc, ![r].user = u]
      PROVE  /\ To(r, {pc}) /\ req'[r].user = u /\ req'[r].email = req[r].email
             /\ req'[r].link = req[r].link /\ req'[r].admin = req[r].admin
  <2>1. /\ req'[r] = [req[r] EXCEPT !.pc = pc, !.user = u]
        /\ \A x \in Req \ {r} : req'[x] = req[x]
    BY <1>1, <1>2
  <2> QED BY <1>1, <2>1 DEF Request
<1>3. ASSUME NEW pc, NEW u, NEW e,
             req' = [req EXCEPT ![r].pc = pc, ![r].user = u, ![r].email = e]
      PROVE  /\ To(r, {pc}) /\ req'[r].user = u /\ req'[r].email = e
             /\ req'[r].link = req[r].link /\ req'[r].admin = req[r].admin
  <2>1. /\ req'[r] = [req[r] EXCEPT !.pc = pc, !.user = u, !.email = e]
        /\ \A x \in Req \ {r} : req'[x] = req[x]
    BY <1>1, <1>3
  <2> QED BY <1>1, <2>1 DEF Request
<1>4. ASSUME NEW pc, NEW u, NEW w,
             req' = [req EXCEPT ![r].pc = pc, ![r].user = u, ![r].pw = w]
      PROVE  /\ To(r, {pc}) /\ req'[r].user = u /\ req'[r].email = req[r].email
             /\ req'[r].link = req[r].link /\ req'[r].admin = req[r].admin
  <2>1. /\ req'[r] = [req[r] EXCEPT !.pc = pc, !.user = u, !.pw = w]
        /\ \A x \in Req \ {r} : req'[x] = req[x]
    BY <1>1, <1>4
  <2> QED BY <1>1, <2>1 DEF Request
<1>5. ASSUME NEW pc, NEW d,
             req' = [req EXCEPT ![r].pc = pc, ![r].doc = d]
      PROVE  /\ To(r, {pc}) /\ req'[r].user = req[r].user /\ req'[r].email = req[r].email /\ req'[r].doc = d
             /\ req'[r].link = req[r].link /\ req'[r].admin = req[r].admin
  <2>1. /\ req'[r] = [req[r] EXCEPT !.pc = pc, !.doc = d]
        /\ \A x \in Req \ {r} : req'[x] = req[x]
    BY <1>1, <1>5
  <2> QED BY <1>1, <2>1 DEF Request
<1>6. ASSUME NEW pc, NEW l,
             req' = [req EXCEPT ![r].pc = pc, ![r].link = l]
      PROVE  /\ To(r, {pc}) /\ req'[r].user = req[r].user /\ req'[r].email = req[r].email
             /\ req'[r].link = l /\ req'[r].admin = req[r].admin
  <2>1. /\ req'[r] = [req[r] EXCEPT !.pc = pc, !.link = l]
        /\ \A x \in Req \ {r} : req'[x] = req[x]
    BY <1>1, <1>6
  <2> QED BY <1>1, <2>1 DEF Request
<1>7. ASSUME NEW pc, NEW e,
             req' = [req EXCEPT ![r].pc = pc, ![r].email = e]
      PROVE  /\ To(r, {pc}) /\ req'[r].user = req[r].user /\ req'[r].email = e
             /\ req'[r].link = req[r].link /\ req'[r].admin = req[r].admin
  <2>1. /\ req'[r] = [req[r] EXCEPT !.pc = pc, !.email = e]
        /\ \A x \in Req \ {r} : req'[x] = req[x]
    BY <1>1, <1>7
  <2> QED BY <1>1, <2>1 DEF Request
<1> QED BY <1>2, <1>3, <1>4, <1>5, <1>6, <1>7

\* The handlers of Step by the pc they may leave a request at.
LEMMA Leads ==
  ASSUME ReqOK, NEW r \in Req
  PROVE  /\ SignupFind(r) => To(r, {"idle", "insertUser"})
         /\ (\E u \in User : InsertUser(r, u)) => To(r, {"idle", "sendFind"})
         /\ ResendFind(r) => To(r, {"idle", "sendFind"})
         /\ SendFind(r) => To(r, {"idle", "sendWrite"})
         /\ SendWrite(r) => To(r, {"idle"})
         /\ VerifyFind(r) => To(r, {"idle", "verifyWrite"})
         /\ VerifyWrite(r) => To(r, {"verifyDrop"})
         /\ VerifyDrop(r) => To(r, {"idle"})
         /\ LoginFind(r) => To(r, {"idle", "start"})
         /\ (\E s \in Sid : Start(r, s)) => To(r, {"idle"})
         /\ ForgotFind(r) => To(r, {"idle", "tokFind"})
         /\ ForceDrop(r) => To(r, {"tokFind"})
         /\ ResetFind(r) => To(r, {"idle", "tokWrite"})
         /\ ResetWrite(r) => To(r, {"idle", "nullPw"})
         /\ NullPassword(r) => To(r, {"signOut"})
         /\ ClaimUnused(r) => To(r, {"idle", "setPw"})
         /\ SetPassword(r, "setPw", "dropResets") => To(r, {"dropResets"})
         /\ DropResets(r) => To(r, {"signOut"})
         /\ SignOut(r) => To(r, {"idle", "handOver"})
         /\ HandOver(r) => To(r, {"idle"})
         /\ CheckPassword(r) => To(r, {"idle", "changePw"})
         /\ SetPassword(r, "changePw", "signOutOthers") => To(r, {"signOutOthers"})
         /\ SignOutOthers(r) => To(r, {"idle"})
         /\ CheckForEmail(r) => To(r, {"idle", "taken"})
         /\ RequestTaken(r) => To(r, {"idle", "dropChanges"})
         /\ DropChanges(r) => To(r, {"insertChange"})
         /\ InsertChange(r) => To(r, {"idle"})
         /\ ClaimChange(r) => To(r, {"idle", "confirmTaken"})
         /\ ConfirmTaken(r) => To(r, {"idle", "moveEmail"})
         /\ MoveEmail(r) => To(r, {"idle", "dropAfterMove"})
         /\ DropAfterMove(r) => To(r, {"signOut"})
         /\ UpdateFind(r) => To(r, {"updWrite", "updConflict"})
         /\ UpdateConflict(r) => To(r, {"idle", "updDropChange"})
         /\ UpdateDrop(r, "updDropChange", "change", "updDropVerify") => To(r, {"updDropVerify"})
         /\ UpdateDropVerify(r) => To(r, {"updWrite"})
         /\ UpdateWrite(r) => To(r, {"idle", "signOut"})
         /\ Abort(r) => To(r, {"idle"})
<1>0. req \in [Req -> Request] /\ Idle.pc = "idle"
  BY IdleIs DEF ReqOK
<1> USE Goes
<1>1. \A x, y : To(r, {x}) => To(r, {x, y}) /\ To(r, {y, x})
  BY DEF To
<1>2. /\ SignupFind(r) => To(r, {"idle", "insertUser"})
      /\ SendWrite(r) => To(r, {"idle"})
      /\ VerifyWrite(r) => To(r, {"verifyDrop"})
      /\ VerifyDrop(r) => To(r, {"idle"})
      /\ (\E s \in Sid : Start(r, s)) => To(r, {"idle"})
      /\ ForceDrop(r) => To(r, {"tokFind"})
      /\ NullPassword(r) => To(r, {"signOut"})
  BY <1>1 DEF SignupFind, SendWrite, VerifyWrite, VerifyDrop, Start, ForceDrop, NullPassword
<1>3. /\ SetPassword(r, "setPw", "dropResets") => To(r, {"dropResets"})
      /\ DropResets(r) => To(r, {"signOut"})
      /\ SignOut(r) => To(r, {"idle", "handOver"})
      /\ HandOver(r) => To(r, {"idle"})
      /\ CheckPassword(r) => To(r, {"idle", "changePw"})
      /\ SetPassword(r, "changePw", "signOutOthers") => To(r, {"signOutOthers"})
      /\ SignOutOthers(r) => To(r, {"idle"})
      /\ CheckForEmail(r) => To(r, {"idle", "taken"})
      /\ RequestTaken(r) => To(r, {"idle", "dropChanges"})
      /\ DropChanges(r) => To(r, {"insertChange"})
      /\ InsertChange(r) => To(r, {"idle"})
  BY <1>1 DEF SetPassword, DropResets, SignOut, HandOver, CheckPassword, SignOutOthers, CheckForEmail,
     RequestTaken, DropChanges, InsertChange
<1>4. /\ ConfirmTaken(r) => To(r, {"idle", "moveEmail"})
      /\ MoveEmail(r) => To(r, {"idle", "dropAfterMove"})
      /\ DropAfterMove(r) => To(r, {"signOut"})
      /\ UpdateConflict(r) => To(r, {"idle", "updDropChange"})
      /\ UpdateDrop(r, "updDropChange", "change", "updDropVerify") => To(r, {"updDropVerify"})
      /\ UpdateDropVerify(r) => To(r, {"updWrite"})
      /\ UpdateWrite(r) => To(r, {"idle", "signOut"})
      /\ Abort(r) => To(r, {"idle"})
  BY <1>1 DEF ConfirmTaken, MoveEmail, DropAfterMove, UpdateConflict, UpdateDrop,
     UpdateDropVerify, UpdateWrite, Abort
<1>5. ASSUME (\E u \in User : InsertUser(r, u)) PROVE To(r, {"idle", "sendFind"})
  BY <1>0, <1>5 DEF InsertUser, Goto, Finish, To, Others
<1>6. ASSUME ResendFind(r) PROVE To(r, {"idle", "sendFind"})
  BY <1>0, <1>6 DEF ResendFind, Goto, Finish, To, Others
<1>7. ASSUME ForgotFind(r) PROVE To(r, {"idle", "tokFind"})
  BY <1>0, <1>7 DEF ForgotFind, Goto, Finish, To, Others
<1>8. ASSUME LoginFind(r) PROVE To(r, {"idle", "start"})
  <2>1. ASSUME NEW u \in Holders(req[r].email),
               req' = [req EXCEPT ![r].pc = "start", ![r].user = u, ![r].pw = account[u].pw]
        PROVE  To(r, {"start"})
    BY <2>1, Sets
  <2> QED BY <1>1, <1>8, <2>1 DEF LoginFind
<1>9. ASSUME SendFind(r) PROVE To(r, {"idle", "sendWrite"})
  BY <1>0, <1>9 DEF SendFind, FindToken, Goto, Finish, To, Others
<1>10. ASSUME ResetFind(r) PROVE To(r, {"idle", "tokWrite"})
  BY <1>0, <1>10 DEF ResetFind, FindToken, Goto, Finish, To, Others
<1>11. ASSUME VerifyFind(r) PROVE To(r, {"idle", "verifyWrite"})
  <2>1. ASSUME NEW d \in Under("verify", req[r].link),
               req' = [req EXCEPT ![r].pc = "verifyWrite", ![r].user = token[d].user,
                                  ![r].email = token[d].email]
        PROVE  To(r, {"verifyWrite"})
    BY <2>1, Sets
  <2> QED BY <1>1, <1>11, <2>1 DEF VerifyFind
<1>12. ASSUME ResetWrite(r) PROVE To(r, {"idle", "nullPw"})
  BY <1>1, <1>12, Sets DEF ResetWrite
<1>13. ASSUME ClaimUnused(r) PROVE To(r, {"idle", "setPw"})
  BY <1>0, <1>13 DEF ClaimUnused, Goto, Finish, To, Others
<1>14. ASSUME ClaimChange(r) PROVE To(r, {"idle", "confirmTaken"})
  <2>1. ASSUME NEW d \in Under("change", req[r].link),
               req' = [req EXCEPT ![r].pc = "confirmTaken", ![r].user = token[d].user,
                                  ![r].email = token[d].email]
        PROVE  To(r, {"confirmTaken"})
    BY <2>1, Sets
  <2> QED BY <1>1, <1>14, <2>1 DEF ClaimChange
<1>15. ASSUME UpdateFind(r) PROVE To(r, {"updWrite", "updConflict"})
  BY <1>0, <1>15 DEF UpdateFind, Goto, Finish, To, Others
<1> QED BY <1>2, <1>3, <1>4, <1>5, <1>6, <1>7, <1>8, <1>9, <1>10, <1>11, <1>12, <1>13, <1>14, <1>15

ArrivalPCs == {"signFind", "resendFind", "loginFind", "forgotFind", "checkEmail", "verifyFind",
               "claimChange", "claim", "checkPw", "tokDrop", "updFind"}

LEMMA ArriveLeads ==
  ASSUME ReqOK, NEW r \in Req, Arrive(r)
  PROVE  To(r, ArrivalPCs) /\ req[r] = Idle /\ Reads
<1> DEFINE Came == To(r, ArrivalPCs) /\ req[r] = Idle
<1>0. \A op, q : Begin(r, op, q) /\ q.pc \in ArrivalPCs => Came
  BY Goes DEF To
<1>1. ASSUME NEW e \in Email, NEW p \in Password,
             Begin(r, "signup", [[Idle EXCEPT !.email = e] EXCEPT !.pc = "signFind", !.pw = p])
      PROVE  Came
  <2>1. [[Idle EXCEPT !.email = e] EXCEPT !.pc = "signFind", !.pw = p].pc \in ArrivalPCs
    BY IdleIs DEF Request, ArrivalPCs
  <2> QED BY <1>0, <1>1, <2>1
<1>2. ASSUME NEW e \in Email, NEW pc \in {"resendFind", "loginFind", "forgotFind"}, NEW op,
             Begin(r, op, [[Idle EXCEPT !.email = e] EXCEPT !.pc = pc])
      PROVE  Came
  <2>1. [[Idle EXCEPT !.email = e] EXCEPT !.pc = pc].pc \in ArrivalPCs
    BY IdleIs DEF Request, ArrivalPCs
  <2> QED BY <1>0, <1>2, <2>1
<1>3. ASSUME NEW e \in Email, NEW s \in {x \in Sid : session[x] # NoDoc},
             Begin(r, "change", [[Idle EXCEPT !.email = e] EXCEPT !.pc = "checkEmail",
                                !.user = session[s].user])
      PROVE  Came
  <2>1. [[Idle EXCEPT !.email = e] EXCEPT !.pc = "checkEmail",
                                !.user = session[s].user].pc \in ArrivalPCs
    BY IdleIs DEF Request, ArrivalPCs
  <2> QED BY <1>0, <1>3, <2>1
<1>4. ASSUME NEW l \in {x \in Link : mail[x] = "arrived"}, NEW pc \in {"verifyFind", "claimChange"}, NEW op,
             Begin(r, op, [[Idle EXCEPT !.link = l] EXCEPT !.pc = pc])
      PROVE  Came
  <2>1. [[Idle EXCEPT !.link = l] EXCEPT !.pc = pc].pc \in ArrivalPCs
    BY IdleIs DEF Request, ArrivalPCs
  <2> QED BY <1>0, <1>4, <2>1
<1>5. ASSUME NEW l \in {x \in Link : mail[x] = "arrived"}, NEW p \in Password,
             Begin(r, "reset", [[Idle EXCEPT !.link = l] EXCEPT !.pc = "claim", !.pw = p])
      PROVE  Came
  <2>1. [[Idle EXCEPT !.link = l] EXCEPT !.pc = "claim", !.pw = p].pc \in ArrivalPCs
    BY IdleIs DEF Request, ArrivalPCs
  <2> QED BY <1>0, <1>5, <2>1
<1>6. ASSUME NEW s \in {x \in Sid : session[x] # NoDoc}, NEW p \in Password,
             Begin(r, "password", [Idle EXCEPT !.pc = "checkPw", !.user = session[s].user,
                                !.sid = s, !.pw = p])
      PROVE  Came
  <2>1. [Idle EXCEPT !.pc = "checkPw", !.user = session[s].user,
                                !.sid = s, !.pw = p].pc \in ArrivalPCs
    BY IdleIs DEF Request, ArrivalPCs
  <2> QED BY <1>0, <1>6, <2>1
<1>7. ASSUME NEW u \in Users,
             Begin(r, "adminReset", [[Idle EXCEPT !.user = u] EXCEPT !.pc = "tokDrop",
                                !.admin = TRUE, !.email = account[u].email])
      PROVE  Came
  <2>1. [[Idle EXCEPT !.user = u] EXCEPT !.pc = "tokDrop",
                                !.admin = TRUE, !.email = account[u].email].pc \in ArrivalPCs
    BY IdleIs DEF Request, ArrivalPCs
  <2> QED BY <1>0, <1>7, <2>1
<1>8. ASSUME NEW u \in Users, NEW e \in Email \cup {Nil}, NEW flag \in BOOLEAN \cup {Nil},
             Begin(r, "update", [[Idle EXCEPT !.user = u] EXCEPT !.pc = "updFind",
                                !.email = e, !.flag = flag])
      PROVE  Came
  <2>1. [[Idle EXCEPT !.user = u] EXCEPT !.pc = "updFind",
                                !.email = e, !.flag = flag].pc \in ArrivalPCs
    BY IdleIs DEF Request, ArrivalPCs
  <2> QED BY <1>0, <1>8, <2>1
<1> HIDE DEF Came
<1>9. Came
  BY <1>1, <1>2, <1>3, <1>4, <1>5, <1>6, <1>7, <1>8 DEF Arrive
<1> QED BY <1>9 DEF Came, Arrive

\* Every action waits at a pc of its own.
LEMMA Awaits ==
  ASSUME NEW r \in Req
  PROVE  /\ SignupFind(r) => Await(r, "signFind")
         /\ (\E u \in User : InsertUser(r, u)) => Await(r, "insertUser")
         /\ ResendFind(r) => Await(r, "resendFind")
         /\ SendFind(r) => Await(r, "sendFind")
         /\ SendWrite(r) => Await(r, "sendWrite")
         /\ VerifyFind(r) => Await(r, "verifyFind")
         /\ VerifyWrite(r) => Await(r, "verifyWrite")
         /\ VerifyDrop(r) => Await(r, "verifyDrop")
         /\ LoginFind(r) => Await(r, "loginFind")
         /\ (\E s \in Sid : Start(r, s)) => Await(r, "start")
         /\ ForgotFind(r) => Await(r, "forgotFind")
         /\ ForceDrop(r) => Await(r, "tokDrop")
         /\ ResetFind(r) => Await(r, "tokFind")
         /\ ResetWrite(r) => Await(r, "tokWrite")
         /\ NullPassword(r) => Await(r, "nullPw")
         /\ ClaimUnused(r) => Await(r, "claim")
         /\ SetPassword(r, "setPw", "dropResets") => Await(r, "setPw")
         /\ DropResets(r) => Await(r, "dropResets")
         /\ SignOut(r) => Await(r, "signOut")
         /\ HandOver(r) => Await(r, "handOver")
         /\ CheckPassword(r) => Await(r, "checkPw")
         /\ SetPassword(r, "changePw", "signOutOthers") => Await(r, "changePw")
         /\ SignOutOthers(r) => Await(r, "signOutOthers")
         /\ CheckForEmail(r) => Await(r, "checkEmail")
         /\ RequestTaken(r) => Await(r, "taken")
         /\ DropChanges(r) => Await(r, "dropChanges")
         /\ InsertChange(r) => Await(r, "insertChange")
         /\ ClaimChange(r) => Await(r, "claimChange")
         /\ ConfirmTaken(r) => Await(r, "confirmTaken")
         /\ MoveEmail(r) => Await(r, "moveEmail")
         /\ DropAfterMove(r) => Await(r, "dropAfterMove")
         /\ UpdateFind(r) => Await(r, "updFind")
         /\ UpdateConflict(r) => Await(r, "updConflict")
         /\ UpdateDrop(r, "updDropChange", "change", "updDropVerify") => Await(r, "updDropChange")
         /\ UpdateDropVerify(r) => Await(r, "updDropVerify")
         /\ UpdateWrite(r) => Await(r, "updWrite")
<1>1. /\ SignupFind(r) => Await(r, "signFind")
      /\ (\E u \in User : InsertUser(r, u)) => Await(r, "insertUser")
      /\ ResendFind(r) => Await(r, "resendFind")
      /\ SendFind(r) => Await(r, "sendFind")
      /\ SendWrite(r) => Await(r, "sendWrite")
      /\ VerifyFind(r) => Await(r, "verifyFind")
      /\ VerifyWrite(r) => Await(r, "verifyWrite")
      /\ VerifyDrop(r) => Await(r, "verifyDrop")
      /\ LoginFind(r) => Await(r, "loginFind")
      /\ (\E s \in Sid : Start(r, s)) => Await(r, "start")
      /\ ForgotFind(r) => Await(r, "forgotFind")
      /\ ForceDrop(r) => Await(r, "tokDrop")
  BY DEF SignupFind, InsertUser, ResendFind, SendFind, SendWrite, VerifyFind, VerifyWrite,
     VerifyDrop, LoginFind, Start, ForgotFind, ForceDrop
<1>2. /\ ResetFind(r) => Await(r, "tokFind")
      /\ ResetWrite(r) => Await(r, "tokWrite")
      /\ NullPassword(r) => Await(r, "nullPw")
      /\ ClaimUnused(r) => Await(r, "claim")
      /\ SetPassword(r, "setPw", "dropResets") => Await(r, "setPw")
      /\ DropResets(r) => Await(r, "dropResets")
      /\ SignOut(r) => Await(r, "signOut")
      /\ HandOver(r) => Await(r, "handOver")
      /\ CheckPassword(r) => Await(r, "checkPw")
      /\ SetPassword(r, "changePw", "signOutOthers") => Await(r, "changePw")
      /\ SignOutOthers(r) => Await(r, "signOutOthers")
      /\ CheckForEmail(r) => Await(r, "checkEmail")
      /\ RequestTaken(r) => Await(r, "taken")
  BY DEF ResetFind, ResetWrite, NullPassword, ClaimUnused, SetPassword, DropResets, SignOut,
     HandOver, CheckPassword, SignOutOthers, CheckForEmail, RequestTaken
<1>3. /\ DropChanges(r) => Await(r, "dropChanges")
      /\ InsertChange(r) => Await(r, "insertChange")
      /\ ClaimChange(r) => Await(r, "claimChange")
      /\ ConfirmTaken(r) => Await(r, "confirmTaken")
      /\ MoveEmail(r) => Await(r, "moveEmail")
      /\ DropAfterMove(r) => Await(r, "dropAfterMove")
      /\ UpdateFind(r) => Await(r, "updFind")
      /\ UpdateConflict(r) => Await(r, "updConflict")
      /\ UpdateDrop(r, "updDropChange", "change", "updDropVerify") => Await(r, "updDropChange")
      /\ UpdateDropVerify(r) => Await(r, "updDropVerify")
      /\ UpdateWrite(r) => Await(r, "updWrite")
  BY DEF DropChanges, InsertChange, ClaimChange, ConfirmTaken, MoveEmail, DropAfterMove,
     UpdateFind, UpdateConflict, UpdateDrop, UpdateDropVerify, UpdateWrite
<1> QED BY <1>1, <1>2, <1>3

Moving(r) == Arrive(r) \/ Step(r) \/ Abort(r)

\* How a request comes to where it may write.
LEMMA Enters ==
  ASSUME ReqOK, NEW r \in Req, Moving(r)
  PROVE  /\ Others(r)
         /\ req'[r].pc = "sendFind" => ResendFind(r) \/ (\E u \in User : InsertUser(r, u))
         /\ req'[r].pc = "sendWrite" => SendFind(r)
         /\ req'[r].pc = "tokWrite" => ResetFind(r)
         /\ req'[r].pc = "setPw" => ClaimUnused(r)
         /\ req'[r].pc = "nullPw" => ResetWrite(r)
         /\ req'[r].pc = "verifyWrite" => VerifyFind(r)
         /\ req'[r].pc = "signOut" => \/ NullPassword(r) \/ DropResets(r) \/ DropAfterMove(r)
                                      \/ UpdateWrite(r)
         /\ req'[r].pc = "handOver" => SignOut(r)
         /\ req'[r].pc = "updDropVerify"
              => UpdateDrop(r, "updDropChange", "change", "updDropVerify")
         /\ req'[r].pc = "updWrite" => UpdateFind(r) \/ UpdateDropVerify(r)
         /\ req'[r].pc \in ArrivalPCs => Arrive(r)
BY Leads, ArriveLeads DEF Moving, Step, To, ArrivalPCs

\* What a request does at some of its pcs, unless it is lost there.
LEMMA Leaves ==
  ASSUME ReqOK, NEW r \in Req, Moving(r), ~Abort(r)
  PROVE  /\ req[r].pc = "nullPw" => NullPassword(r)
         /\ req[r].pc = "signOut" => SignOut(r)
         /\ req[r].pc = "handOver" => HandOver(r)
         /\ req[r].pc = "dropResets" => DropResets(r)
         /\ req[r].pc = "dropAfterMove" => DropAfterMove(r)
         /\ req[r].pc = "signOutOthers" => SignOutOthers(r)
         /\ req[r].pc = "updDropVerify" => UpdateDropVerify(r)
         /\ req[r].pc = "updWrite" => UpdateWrite(r)
BY Awaits, ArriveLeads, IdleIs DEF Moving, Step, Await

\* Looks something up, or drops tokens.
Dropping == /\ UNCHANGED token \/ \E gone : DropTokens(gone)
            /\ UNCHANGED <<account, session, mail, drawn, history>>

Drawing(r)  == SendWrite(r) \/ ResetWrite(r) \/ InsertChange(r)
Signing(r)  == SetPassword(r, "setPw", "dropResets") \/ SetPassword(r, "changePw", "signOutOthers")
Writing(r)  == \/ (\E u \in User : InsertUser(r, u)) \/ VerifyWrite(r) \/ NullPassword(r)
               \/ Signing(r) \/ MoveEmail(r) \/ UpdateWrite(r)
InAndOut(r) == (\E s \in Sid : Start(r, s)) \/ SignOut(r) \/ SignOutOthers(r)

LEMMA Kinds ==
  ASSUME ReqOK, NEW r \in Req, Moving(r)
  PROVE  \/ Dropping \/ ClaimUnused(r) \/ Drawing(r) \/ Writing(r) \/ InAndOut(r)
         \/ HandOver(r) \/ Abort(r)
<1>1. Reads => Dropping
  BY DEF Reads, Dropping
<1>2. CASE \/ SignupFind(r) \/ CheckPassword(r) \/ CheckForEmail(r) \/ RequestTaken(r)
           \/ ConfirmTaken(r) \/ UpdateConflict(r) \/ ResendFind(r) \/ ForgotFind(r)
           \/ LoginFind(r) \/ UpdateFind(r) \/ SendFind(r) \/ ResetFind(r) \/ Arrive(r)
  <2>1. Reads
    BY <1>2 DEF SignupFind, CheckPassword, CheckForEmail, RequestTaken, ConfirmTaken,
       UpdateConflict, ResendFind, ForgotFind, LoginFind, UpdateFind, SendFind, ResetFind,
       FindToken, Arrive
  <2> QED BY <1>1, <2>1
<1>3. CASE \/ VerifyDrop(r) \/ ForceDrop(r) \/ DropResets(r) \/ DropChanges(r) \/ DropAfterMove(r)
           \/ UpdateDrop(r, "updDropChange", "change", "updDropVerify") \/ UpdateDropVerify(r)
           \/ VerifyFind(r) \/ ClaimChange(r)
  BY <1>3 DEF VerifyDrop, ForceDrop, DropResets, DropChanges, DropAfterMove, UpdateDropVerify,
     UpdateDrop, VerifyFind, ClaimChange, Dropping
<1>4. CASE ClaimUnused(r) \/ Drawing(r) \/ Writing(r) \/ InAndOut(r) \/ HandOver(r) \/ Abort(r)
  BY <1>4
<1> QED BY <1>2, <1>3, <1>4 DEF Moving, Step, Drawing, Writing, Signing, InAndOut

\* The account that the start-up writes keeps its address and its password.
LEMMA BesideIs ==
  ASSUME DataOK, Beside
  PROVE  /\ UNCHANGED <<drawn, req, history>>
         /\ UNCHANGED token \/ \E gone : DropTokens(gone)
         /\ \A s \in Sid : session'[s] # NoDoc => session'[s] = session[s]
         /\ \A l \in Link : mail'[l] = "none" => mail[l] = "none"
         /\ UNCHANGED account \/ \E u \in User, a \in AccountDoc : Vouches(u, a)
<1>1. CASE \E l \in Link : Lapse(l)
  BY <1>1 DEF Lapse
<1>2. CASE \E l \in Link : Deliver(l)
  <2>1. \A l \in Link : mail'[l] = "none" => mail[l] = "none"
    BY <1>2 DEF Deliver, DataOK, MailStates
  <2> QED BY <1>2, <2>1 DEF Deliver
<1>3. CASE \E s \in Sid : EndSession(s)
  BY <1>3 DEF EndSession, DataOK
<1>4. CASE Booting
  BY <1>4, BootIs
<1> QED BY <1>1, <1>2, <1>3, <1>4 DEF Beside

LEMMA NextIs ==
  Next => (\E r \in Req : Moving(r)) \/ Beside
BY DEF Next, Moving, Beside, Booting
-----------------------------------------------------------------------------
(* Writes of accounts *)

\* Account u becomes a; whoever changes the address or the password of a user
\* goes on to sign the user out.
Rewrites(r, u, a) ==
  /\ account' = [account EXCEPT ![u] = a]
  /\ u \in Users \/ Free(a.email, u)
  /\ u \in Users =>
       /\ \/ a.email = account[u].email
          \/ Free(a.email, u) /\ To(r, {"dropAfterMove", "signOut"}) /\ req'[r].user = u
       /\ \/ a.pw = account[u].pw
          \/ To(r, {"dropResets", "signOut", "signOutOthers"}) /\ req'[r].user = u

LEMMA WriteIs ==
  ASSUME DataOK, ReqOK, NEW r \in Req, Writing(r)
  PROVE  UNCHANGED account \/ \E u \in User, a \in AccountDoc : Rewrites(r, u, a)
<1> SUFFICES ASSUME account' # account
             PROVE  \E u \in User, a \in AccountDoc : Rewrites(r, u, a)
  OBVIOUS
<1> USE DEF Rewrites
<1>r. req[r] \in Request /\ account \in [User -> AccountDoc \cup {NoDoc}]
  BY At DEF DataOK
<1>1. ASSUME NEW u \in User, InsertUser(r, u)
      PROVE  \E a \in AccountDoc : Rewrites(r, u, a)
  <2> DEFINE a == [email |-> req[r].email, verified |-> FALSE, pw |-> req[r].pw]
  <2>1. u \notin Users /\ Free(req[r].email, u) /\ account' = [account EXCEPT ![u] = a]
    BY <1>1 DEF InsertUser
  <2>2. req[r].email \in Email
    BY <1>1, At DEF InsertUser, Await, EmailPCs
  <2>3. a \in AccountDoc /\ a.email = req[r].email
    BY <1>r, <2>2 DEF AccountDoc, Request
  <2> QED BY <2>1, <2>3
<1>2. CASE VerifyWrite(r) \/ NullPassword(r) \/ Signing(r)
  <2> DEFINE u == req[r].user
  <2>1. /\ req[r].pc \in {"verifyWrite", "nullPw", "setPw", "changePw"}
        /\ u \in Users /\ u \in User
    <3>1. req[r].pc \in {"verifyWrite", "nullPw", "setPw", "changePw"}
      BY <1>2, Awaits DEF Await, Signing
    <3>2. req[r].pc \in UserPCs
      BY <3>1 DEF PCs, UserPCs
    <3> QED BY <3>1, <3>2, At
  <2>2. account[u] \in AccountDoc
    BY <2>1, HoldersOK
  <2>3. CASE VerifyWrite(r)
    <3> DEFINE a == [account[u] EXCEPT !.verified = TRUE]
    <3>1. account' = [account EXCEPT ![u] = a]
      BY <1>r, <2>1, <2>3 DEF VerifyWrite
    <3>2. a \in AccountDoc /\ a.email = account[u].email /\ a.pw = account[u].pw
      BY <2>2 DEF AccountDoc
    <3> QED BY <2>1, <3>1, <3>2
  <2>4. ASSUME NEW pw \in Password \cup {Nil}, account' = [account EXCEPT ![u].pw = pw],
               NEW pc \in {"dropResets", "signOut", "signOutOthers"}, Goto(r, pc)
        PROVE  \E a \in AccountDoc : Rewrites(r, u, a)
    <3> DEFINE a == [account[u] EXCEPT !.pw = pw]
    <3>1. account' = [account EXCEPT ![u] = a]
      BY <1>r, <2>1, <2>4
    <3>2. a \in AccountDoc /\ a.email = account[u].email
      BY <2>2 DEF AccountDoc
    <3>3. To(r, {"dropResets", "signOut", "signOutOthers"}) /\ req'[r].user = u
      BY <2>4, Goes DEF To
    <3> QED BY <2>1, <3>1, <3>2, <3>3
  <2>5. CASE NullPassword(r)
    BY <2>1, <2>4, <2>5 DEF NullPassword
  <2>6. CASE Signing(r)
    <3>1. req[r].pw \in Password \cup {Nil}
      BY <1>r DEF Request
    <3> QED BY <2>1, <2>4, <2>6, <3>1 DEF Signing, SetPassword
  <2> QED BY <1>2, <2>1, <2>3, <2>5, <2>6
<1>3. CASE MoveEmail(r)
  <2> DEFINE u == req[r].user
             a == [account[u] EXCEPT !.email = req[r].email, !.verified = TRUE]
  <2>1. u \in Users /\ u \in User /\ req[r].email \in Email
    BY <1>3, At DEF MoveEmail, Await, PCs, UserPCs, EmailPCs
  <2>2. account[u] \in AccountDoc
    BY <2>1, HoldersOK
  <2>3. a \in AccountDoc /\ a.email = req[r].email /\ a.pw = account[u].pw
    BY <2>1, <2>2 DEF AccountDoc
  <2>4. Free(req[r].email, u) /\ Goto(r, "dropAfterMove")
    BY <1>3 DEF MoveEmail
  <2>5. account' = [account EXCEPT ![u] = a]
    BY <1>3, <1>r, <2>1 DEF MoveEmail
  <2>6. To(r, {"dropAfterMove", "signOut"}) /\ req'[r].user = u
    BY <2>4, Goes DEF To
  <2> HIDE DEF a
  <2> QED BY <2>1, <2>3, <2>4, <2>5, <2>6
<1>4. CASE UpdateWrite(r)
  <2> DEFINE q == req[r]
             u == q.user
             a == [account[u] EXCEPT !.email = IF q.email = Nil THEN @ ELSE q.email,
                                     !.verified = IF q.flag = Nil THEN @ ELSE q.flag]
  <2>1. u \in Users /\ u \in User
    BY <1>4, At DEF UpdateWrite, Await, PCs, UserPCs
  <2>2. account[u] \in AccountDoc /\ q.email \in Email \cup {Nil} /\ q.flag \in BOOLEAN \cup {Nil}
    BY <1>r, <2>1, HoldersOK DEF Request
  <2>3. /\ a \in AccountDoc /\ a.pw = account[u].pw
        /\ a.email = IF q.email = Nil THEN account[u].email ELSE q.email
    BY <2>2 DEF AccountDoc
  <2>4. /\ account' = [account EXCEPT ![u] = a] /\ Free(a.email, u)
        /\ q.email # Nil => Goto(r, "signOut")
    BY <1>4 DEF UpdateWrite
  <2> HIDE DEF a
  <2>5. q.email # Nil => To(r, {"dropAfterMove", "signOut"}) /\ req'[r].user = u
    BY <2>4, Goes DEF To
  <2> QED BY <2>1, <2>3, <2>4, <2>5
<1> QED BY <1>1, <1>2, <1>3, <1>4 DEF Writing

\* Everything else leaves the accounts alone.
LEMMA NoWrite ==
  ASSUME ReqOK, NEW r \in Req, Moving(r), ~Writing(r)
  PROVE  UNCHANGED account
BY Kinds DEF Dropping, ClaimUnused, Drawing, SendWrite, ResetWrite, InsertChange, InAndOut,
   Start, SignOut, SignOutOthers, HandOver, Abort

LEMMA AccountSteps ==
  ASSUME Base, Next
  PROVE  \/ UNCHANGED account
         \/ \E u \in User, a \in AccountDoc : Vouches(u, a) \/ \E r \in Req : Rewrites(r, u, a)
<1>1. DataOK /\ ReqOK
  BY BaseIs
<1>2. ASSUME NEW r \in Req, Moving(r)
      PROVE  UNCHANGED account \/ \E u \in User, a \in AccountDoc : Rewrites(r, u, a)
  BY <1>1, <1>2, WriteIs, NoWrite
<1> QED BY <1>1, <1>2, NextIs, BesideIs

LEMMA UniqueStep ==
  ASSUME Base, UniqueEmail, [Next]_vars
  PROVE  UniqueEmail'
<1>1. CASE UNCHANGED account
  BY <1>1 DEF UniqueEmail, Users
<1>2. ASSUME NEW u \in User, NEW a \in AccountDoc,
             Vouches(u, a) \/ \E r \in Req : Rewrites(r, u, a)
      PROVE  UniqueEmail'
  <2>1. account \in [User -> AccountDoc \cup {NoDoc}] /\ account' = [account EXCEPT ![u] = a]
    BY <1>2 DEF Base, TypeOK, Rewrites, Vouches
  <2>0. Free(a.email, u) \/ (u \in Users /\ a.email = account[u].email)
    BY <1>2 DEF Rewrites, Vouches
  <2>2. \A v \in Users : v # u => account[v].email # a.email
    BY <2>0 DEF Free, Holders, UniqueEmail
  <2>3. \A v \in Users' : v = u \/ (v \in Users /\ account'[v] = account[v])
    BY <2>1 DEF Users
  <2>4. account'[u].email = a.email
    BY <2>1
  <2> QED BY <2>2, <2>3, <2>4 DEF UniqueEmail
<1>3. CASE UNCHANGED vars
  BY <1>1, <1>3 DEF vars
<1> QED BY <1>1, <1>2, <1>3, AccountSteps

\* Two accounts never have the same address, however sign-up, confirmation and
\* administration race: the unique index decides, not their checks.
THEOREM AddressesUnique == Spec => []UniqueEmail
<1>1. Init => UniqueEmail
  BY BootAssumption DEF Init, Sound, UniqueEmail, Users
<1> QED BY <1>1, UniqueStep, BaseInvariant, PTL DEF Spec
-----------------------------------------------------------------------------
(* Sessions against credentials *)

LEMMA ExcusedGrows ==
  ASSUME ReqOK, NEW r \in Req, Moving(r)
  PROVE  excused \subseteq excused'
<1>1. CASE Dropping \/ ClaimUnused(r) \/ InAndOut(r)
  BY <1>1 DEF Dropping, ClaimUnused, InAndOut, Start, SignOut, SignOutOthers, history
<1>2. CASE Drawing(r)
  BY <1>2 DEF Drawing, SendWrite, ResetWrite, InsertChange, history, Excuse
<1>3. CASE Writing(r)
  BY <1>3 DEF Writing, InsertUser, VerifyWrite, NullPassword, Signing, SetPassword, MoveEmail,
     UpdateWrite, history
<1>4. CASE HandOver(r) \/ Abort(r)
  BY <1>4 DEF HandOver, history, Abort, Excuse
<1> QED BY <1>1, <1>2, <1>3, <1>4, Kinds

\* What becomes of a session.
Fresh(d) == d.late \/ Matches(d.user, d.email, d.pw)

LEMMA SessionSteps ==
  ASSUME DataOK, ReqOK, NEW r \in Req, Moving(r), NEW s \in Sid, session'[s] # NoDoc
  PROVE  \/ /\ session'[s] = session[s]
            /\ SignOut(r) \/ SignOutOthers(r) => session[s].user # req[r].user
         \/ UNCHANGED account /\ Fresh(session'[s])
         \/ /\ SignOutOthers(r) /\ UNCHANGED account /\ session[s] # NoDoc
            /\ session[s].user = req[r].user
            /\ session'[s].user = session[s].user /\ session'[s].email = session[s].email
            /\ session'[s].late = session[s].late
            /\ session'[s].pw = account[session[s].user].pw
<1>1. CASE SignOut(r)
  <2>1. session'[s] = IF session[s] # NoDoc /\ session[s].user = req[r].user
                      THEN NoDoc ELSE session[s]
    BY <1>1 DEF SignOut
  <2>2. ~SignOutOthers(r)
    BY <1>1, Awaits DEF Await
  <2> QED BY <2>1, <2>2
<1>2. CASE SignOutOthers(r)
  <2>1. /\ UNCHANGED account
        /\ session'[s] =
             IF session[s] = NoDoc \/ session[s].user # req[r].user THEN session[s]
             ELSE IF s = req[r].sid THEN [session[s] EXCEPT !.pw = account[req[r].user].pw]
             ELSE NoDoc
    BY <1>2 DEF SignOutOthers
  <2>2. CASE session[s] = NoDoc \/ session[s].user # req[r].user
    BY <2>1, <2>2
  <2>3. CASE session[s] # NoDoc /\ session[s].user = req[r].user
    <3>1. session'[s] = [session[s] EXCEPT !.pw = account[req[r].user].pw]
      BY <2>1, <2>3
    <3>2. session[s] \in SessionDoc
      BY <2>3 DEF DataOK
    <3>3. /\ session'[s].user = session[s].user /\ session'[s].email = session[s].email
          /\ session'[s].late = session[s].late
          /\ session'[s].pw = account[session[s].user].pw
      BY <2>3, <3>1, <3>2 DEF SessionDoc
    <3> QED BY <1>2, <2>1, <2>3, <3>3
  <2> QED BY <2>2, <2>3
<1>3. ASSUME NEW x \in Sid, Start(r, x)
      PROVE  session'[s] = session[s] \/ (UNCHANGED account /\ Fresh(session'[s]))
  <2> DEFINE d == [user |-> req[r].user, email |-> req[r].email, pw |-> req[r].pw,
                   late |-> ~Matches(req[r].user, req[r].email, req[r].pw)]
  <2>1. UNCHANGED account /\ session' = [session EXCEPT ![x] = d]
    BY <1>3 DEF Start
  <2>2. Fresh(d)
    BY DEF Fresh
  <2>3. session'[s] = session[s] \/ session'[s] = d
    <3> HIDE DEF d
    <3> QED BY <2>1 DEF DataOK
  <2> HIDE DEF d
  <2> QED BY <2>1, <2>2, <2>3
<1>4. CASE ~InAndOut(r)
  <2>1. session' = session
    BY <1>4, Kinds DEF Dropping, ClaimUnused, Drawing, SendWrite, ResetWrite, InsertChange,
       Writing, InsertUser, VerifyWrite, NullPassword, Signing, SetPassword, MoveEmail,
       UpdateWrite, HandOver, Abort
  <2> QED BY <1>4, <2>1 DEF InAndOut
<1>5. (\E x \in Sid : Start(r, x)) => ~SignOut(r) /\ ~SignOutOthers(r)
  BY Awaits DEF Await
<1> QED BY <1>1, <1>2, <1>3, <1>4, <1>5 DEF InAndOut

\* A change of credentials that is under way goes on, or ends with the sign-out.
LEMMA ChangeGoesOn ==
  ASSUME ReqOK, NEW r \in Req, Moving(r), Changing(r)
  PROVE  \/ req[r].user \in excused'
         \/ SignOut(r)
         \/ SignOutOthers(r) /\ Await(r, "signOutOthers")
         \/ To(r, {"signOut"}) /\ req'[r].user = req[r].user
<1>1. CASE Abort(r)
  BY <1>1 DEF Abort, Excuse
<1>2. CASE ~Abort(r)
  <2>1. CASE DropResets(r) \/ DropAfterMove(r)
    BY <2>1, Goes DEF DropResets, DropAfterMove
  <2> QED BY <1>2, <2>1, Leaves DEF Changing, Await
<1> QED BY <1>1, <1>2

LEMMA AddressesStep ==
  ASSUME Base, AddressesCurrent, Next
  PROVE  AddressesCurrent'
<1>b. DataOK /\ ReqOK
  BY BaseIs
<1> SUFFICES ASSUME NEW s \in Sid, session'[s] # NoDoc,
                    account'[session'[s].user].email # session'[s].email,
                    ~session'[s].late, session'[s].user \notin excused'
             PROVE  \E x \in Req : /\ req'[x].pc \in {"dropResets", "signOut", "dropAfterMove"}
                                   /\ req'[x].user = session'[s].user
  BY DEF AddressesCurrent, Changing, Await
<1> DEFINE u == session[s].user
<1>1. ASSUME NEW r \in Req, Moving(r)
      PROVE  \E x \in Req : /\ req'[x].pc \in {"dropResets", "signOut", "dropAfterMove"}
                            /\ req'[x].user = session'[s].user
  <2>1. ~(UNCHANGED account /\ Fresh(session'[s]))
    BY DEF Fresh, Matches
  <2>2. /\ session[s] # NoDoc /\ session'[s].user = u /\ session'[s].email = session[s].email
        /\ session'[s].late = session[s].late
        /\ SignOut(r) => u # req[r].user
    <3>1. SignOut(r) => ~SignOutOthers(r)
      BY Awaits DEF Await
    <3> QED BY <1>b, <1>1, <2>1, <3>1, SessionSteps
  <2>3. u \notin excused /\ ~session[s].late /\ u \in Users
    BY <1>b, <1>1, <2>2, ExcusedGrows DEF DataOK, Owned
  <2>4. CASE account[u].email = session[s].email
    <3>1. PICK v \in User, a \in AccountDoc : Rewrites(r, v, a)
      BY <1>b, <1>1, <2>2, <2>4, WriteIs, NoWrite
    <3>2. account' = [account EXCEPT ![v] = a] /\ account \in [User -> AccountDoc \cup {NoDoc}]
          /\ u \in User
      BY <1>b, <2>3, <3>1, HoldersOK DEF Rewrites, DataOK
    <3>3. v = u /\ a.email # account[u].email
      BY <2>2, <2>4, <3>2
    <3>4. To(r, {"dropAfterMove", "signOut"}) /\ req'[r].user = u
      BY <2>3, <3>1, <3>3 DEF Rewrites
    <3> QED BY <2>2, <3>4 DEF To
  <2>5. CASE account[u].email # session[s].email
    <3>1. PICK x \in Req : Changing(x) /\ ~Await(x, "signOutOthers") /\ req[x].user = u
      BY <2>2, <2>3, <2>5 DEF AddressesCurrent
    <3>2. CASE x # r
      <4>1. req'[x] = req[x]
        BY <1>b, <1>1, <3>2, Enters DEF Others
      <4> QED BY <2>2, <3>1, <4>1 DEF Changing, Await
    <3>3. CASE x = r
      BY <1>b, <1>1, <2>2, <3>1, <3>3, ChangeGoesOn DEF To
    <3> QED BY <3>2, <3>3
  <2> QED BY <2>4, <2>5
<1>2. CASE Beside
  <2>1. UNCHANGED <<req, excused>> /\ session'[s] = session[s]
    BY <1>b, <1>2, BesideIs DEF history
  <2>2. u \in Users /\ u \in User
    BY <1>b, <2>1, HoldersOK DEF DataOK, Owned
  <2>3. account'[u].email = account[u].email
    BY <1>b, <1>2, <2>2, BesideIs DEF Vouches, DataOK
  <2> QED BY <2>1, <2>3 DEF AddressesCurrent, Changing, Await
<1> QED BY <1>1, <1>2, NextIs

LEMMA PasswordsStep ==
  ASSUME Base, PasswordsCurrent, Next
  PROVE  PasswordsCurrent'
<1>b. DataOK /\ ReqOK
  BY BaseIs
<1> SUFFICES ASSUME NEW s \in Sid, session'[s] # NoDoc,
                    account'[session'[s].user].pw # session'[s].pw,
                    ~session'[s].late, session'[s].user \notin excused'
             PROVE  \E x \in Req : /\ req'[x].pc \in {"dropResets", "signOut", "signOutOthers",
                                                      "dropAfterMove"}
                                   /\ req'[x].user = session'[s].user
  BY DEF PasswordsCurrent, Changing
<1> DEFINE u == session[s].user
<1>1. ASSUME NEW r \in Req, Moving(r)
      PROVE  \E x \in Req : /\ req'[x].pc \in {"dropResets", "signOut", "signOutOthers",
                                               "dropAfterMove"}
                            /\ req'[x].user = session'[s].user
  <2>1. ~(UNCHANGED account /\ Fresh(session'[s]))
    BY DEF Fresh, Matches
  <2>2. /\ session'[s] = session[s] /\ session[s] # NoDoc
        /\ SignOut(r) \/ SignOutOthers(r) => u # req[r].user
    BY <1>b, <1>1, <2>1, SessionSteps
  <2>3. u \notin excused /\ ~session[s].late /\ u \in Users
    BY <1>b, <1>1, <2>2, ExcusedGrows DEF DataOK, Owned
  <2>4. CASE account[u].pw = session[s].pw
    <3>1. PICK v \in User, a \in AccountDoc : Rewrites(r, v, a)
      BY <1>b, <1>1, <2>2, <2>4, WriteIs, NoWrite
    <3>2. account' = [account EXCEPT ![v] = a] /\ account \in [User -> AccountDoc \cup {NoDoc}]
          /\ u \in User
      BY <1>b, <2>3, <3>1, HoldersOK DEF Rewrites, DataOK
    <3>3. v = u /\ a.pw # account[u].pw
      BY <2>2, <2>4, <3>2
    <3>4. To(r, {"dropResets", "signOut", "signOutOthers"}) /\ req'[r].user = u
      BY <2>3, <3>1, <3>3 DEF Rewrites
    <3> QED BY <2>2, <3>4 DEF To
  <2>5. CASE account[u].pw # session[s].pw
    <3>1. PICK x \in Req : Changing(x) /\ req[x].user = u
      BY <2>2, <2>3, <2>5 DEF PasswordsCurrent
    <3>2. CASE x # r
      <4>1. req'[x] = req[x]
        BY <1>b, <1>1, <3>2, Enters DEF Others
      <4> QED BY <2>2, <3>1, <4>1 DEF Changing
    <3>3. CASE x = r
      BY <1>b, <1>1, <2>2, <3>1, <3>3, ChangeGoesOn DEF To
    <3> QED BY <3>2, <3>3
  <2> QED BY <2>4, <2>5
<1>2. CASE Beside
  <2>1. UNCHANGED <<req, excused>> /\ session'[s] = session[s]
    BY <1>b, <1>2, BesideIs DEF history
  <2>2. u \in Users /\ u \in User
    BY <1>b, <2>1, HoldersOK DEF DataOK, Owned
  <2>3. account'[u].pw = account[u].pw
    BY <1>b, <1>2, <2>2, BesideIs DEF Vouches, DataOK
  <2> QED BY <2>1, <2>3 DEF PasswordsCurrent, Changing
<1> QED BY <1>1, <1>2, NextIs

\* After a reset, a change of password or a change of address no session is left
\* that was opened with the old credentials, except the one the change was asked
\* from and those of logins already past their check: whoever writes a
\* credential signs the user out next, unless that request is lost.
THEOREM CredentialsCurrent == Spec => []SessionsCurrent
<1>1. Init => AddressesCurrent /\ PasswordsCurrent
  <2> SUFFICES ASSUME Init, NEW s \in Sid, session[s] # NoDoc
               PROVE  LET d == session[s] IN
                      d.late \/ (account[d.user].email = d.email /\ account[d.user].pw = d.pw)
    BY DEF AddressesCurrent, PasswordsCurrent
  <2> QED BY BootAssumption DEF Init, Sound
<1>2. Base /\ AddressesCurrent /\ PasswordsCurrent /\ [Next]_vars
        => AddressesCurrent' /\ PasswordsCurrent'
  <2>1. ASSUME UNCHANGED vars, AddressesCurrent, PasswordsCurrent
        PROVE  AddressesCurrent' /\ PasswordsCurrent'
    BY <2>1 DEF vars, history, AddressesCurrent, PasswordsCurrent, Changing, Await
  <2> QED BY <2>1, AddressesStep, PasswordsStep
<1>3. AddressesCurrent /\ PasswordsCurrent => SessionsCurrent
  BY DEF AddressesCurrent, PasswordsCurrent, SessionsCurrent, Matches
<1> QED BY <1>1, <1>2, <1>3, BaseInvariant, PTL DEF Spec
-----------------------------------------------------------------------------
(* Links *)

\* What becomes of the tokens: dropped, claimed, or issued.
Dropped == /\ UNCHANGED <<drawn, spent>>
           /\ \A d \in Link : token'[d] # NoDoc => token'[d] = token[d]

Issues(r) == \E kind \in {"verify", "reset", "change"}, d \in Link \cup {Nil} :
  /\ UNCHANGED spent
  /\ drawn' = drawn + 1 /\ drawn + 1 \in Link /\ drawn \in Nat
  /\ \/ SendWrite(r) /\ kind = "verify" /\ d = req[r].doc
     \/ ResetWrite(r) /\ kind = "reset" /\ d = req[r].doc
     \/ InsertChange(r) /\ kind = "change" /\ d = Nil
  /\ \A l \in Link : Issued(l, kind, req[r].user, d, req[r].email)

LEMMA DrawIs ==
  ASSUME DataOK, ReqOK, NEW r \in Req, Drawing(r)
  PROVE  Issues(r)
<1>1. /\ req[r].user \in User /\ req[r].email \in Email /\ req[r].doc \in Link \cup {Nil}
  <2>1. req[r].pc \in {"sendWrite", "tokWrite", "insertChange"}
    BY Awaits DEF Drawing, Await
  <2>2. req[r].pc \in UserPCs /\ req[r].pc \in EmailPCs
    BY <2>1 DEF PCs, UserPCs, EmailPCs
  <2> QED BY <2>2, At DEF Request
<1>2. UNCHANGED spent
  BY DEF Drawing, SendWrite, ResetWrite, InsertChange, Excuse, history
<1>3. PICK kind \in {"verify", "reset", "change"}, d \in Link \cup {Nil} :
        /\ Issue(kind, req[r].user, d, req[r].email)
        /\ \/ SendWrite(r) /\ kind = "verify" /\ d = req[r].doc
           \/ ResetWrite(r) /\ kind = "reset" /\ d = req[r].doc
           \/ InsertChange(r) /\ kind = "change" /\ d = Nil
  BY <1>1 DEF Drawing, SendWrite, ResetWrite, InsertChange
<1>4. /\ drawn' = drawn + 1 /\ drawn + 1 \in Link /\ drawn \in Nat
      /\ \A l \in Link : Issued(l, kind, req[r].user, d, req[r].email)
  BY <1>1, <1>3, IssueIs
<1> QED BY <1>2, <1>3, <1>4 DEF Issues

LEMMA TokenSteps ==
  ASSUME DataOK, ReqOK, NEW r \in Req, Moving(r)
  PROVE  Dropped \/ ClaimUnused(r) \/ Issues(r)
<1>1. CASE Dropping
  BY <1>1, DropIs DEF Dropping, Dropped, history
<1>2. CASE Writing(r) \/ InAndOut(r) \/ HandOver(r) \/ Abort(r)
  <2>1. UNCHANGED <<token, drawn, spent>>
    BY <1>2 DEF Writing, InsertUser, VerifyWrite, NullPassword, Signing, SetPassword, MoveEmail,
       UpdateWrite, InAndOut, Start, SignOut, SignOutOthers, HandOver, Abort, Excuse, history
  <2> QED BY <2>1 DEF Dropped
<1> QED BY <1>1, <1>2, DrawIs, Kinds

LEMMA BesideDrops ==
  ASSUME DataOK, Beside
  PROVE  Dropped /\ UNCHANGED <<req, proven, excused>>
BY BesideIs, DropIs DEF Dropped, history

\* claim_unused: the token, if one is claimed, is marked and its link spent.
ClaimsDoc(r, d) ==
  /\ d \in Link /\ token[d] # NoDoc /\ ~token[d].used /\ token[d].link = req[r].link
  /\ token'[d] # NoDoc /\ token'[d].used = TRUE
  /\ token'[d].link = token[d].link /\ token'[d].user = token[d].user
  /\ token'[d].kind = token[d].kind /\ token'[d].email = token[d].email
  /\ \A l \in Link \ {d} : token'[l] = token[l]
  /\ spent' = spent \cup {req[r].link}
  /\ To(r, {"idle", "setPw"}) /\ (req'[r].pc = "setPw" => req'[r].link = req[r].link)

LEMMA ClaimIs ==
  ASSUME DataOK, ReqOK, NEW r \in Req, ClaimUnused(r)
  PROVE  /\ UNCHANGED <<account, mail, drawn, proven, excused>>
         /\ \/ Dropped /\ To(r, {"idle"})
            \/ \E d \in Link : ClaimsDoc(r, d)
<1>1. UNCHANGED <<account, mail, drawn, proven, excused>>
  BY DEF ClaimUnused
<1>2. CASE Finish(r) /\ UNCHANGED <<token, spent>>
  BY <1>1, <1>2, Goes DEF Dropped
<1>3. ASSUME NEW d \in Under("reset", req[r].link), ~token[d].used,
             token' = [token EXCEPT ![d].used = TRUE], spent' = spent \cup {req[r].link},
             \/ req' = [req EXCEPT ![r].pc = "setPw", ![r].user = token[d].user]
             \/ Finish(r)
      PROVE  ClaimsDoc(r, d)
  <2> DEFINE t == [token[d] EXCEPT !.used = TRUE]
  <2>1. d \in Link /\ token[d] \in TokenDoc /\ token[d] # NoDoc /\ token[d].link = req[r].link
    BY UnderOK
  <2>2. /\ t \in TokenDoc /\ t # NoDoc /\ t.used = TRUE /\ t.link = token[d].link
        /\ t.user = token[d].user /\ t.kind = token[d].kind /\ t.email = token[d].email
    BY <2>1, DocApart DEF TokenDoc
  <2>3. token' = [token EXCEPT ![d] = t]
    BY <1>3, <2>1
  <2> HIDE DEF t
  <2>4. token'[d] = t /\ \A l \in Link \ {d} : token'[l] = token[l]
    BY <2>1, <2>3 DEF DataOK
  <2>5. To(r, {"idle", "setPw"})
    BY Leads
  <2>6. req'[r].pc = "setPw" => req'[r].link = req[r].link
    <3>1. CASE req' = [req EXCEPT ![r].pc = "setPw", ![r].user = token[d].user]
      BY <3>1, Sets
    <3>2. CASE Finish(r)
      BY <3>2, Goes, IdleIs
    <3> QED BY <1>3, <3>1, <3>2
  <2> QED BY <1>3, <2>1, <2>2, <2>4, <2>5, <2>6 DEF ClaimsDoc
<1>4. (\E d \in Under("reset", req[r].link) : ClaimsDoc(r, d)) => \E d \in Link : ClaimsDoc(r, d)
  BY UnderOK
<1> QED BY <1>1, <1>2, <1>3, <1>4 DEF ClaimUnused

LEMMA LinksOnceStep ==
  ASSUME Base, LinksOnce, Next
  PROVE  LinksOnce'
<1>b. DataOK /\ ReqOK /\ drawn \in Nat
  BY BaseIs, NilApart DEF DataOK
<1>1. CASE Dropped
  BY <1>1 DEF Dropped, LinksOnce
<1>2. ASSUME NEW r \in Req, NEW d \in Link, ClaimsDoc(r, d), UNCHANGED drawn PROVE LinksOnce'
  <2>1. \A l \in Link : token'[l] # NoDoc => token[l] # NoDoc /\ token'[l].link = token[l].link
    BY <1>2 DEF ClaimsDoc
  <2>2. \A l \in spent' : l <= drawn
    BY <1>2 DEF ClaimsDoc, LinksOnce
  <2> QED BY <1>2, <2>1, <2>2 DEF LinksOnce
<1>3. ASSUME NEW r \in Req, Issues(r) PROVE LinksOnce'
  <2>1. drawn' = drawn + 1 /\ drawn + 1 \in Link /\ UNCHANGED spent
    BY <1>3 DEF Issues
  <2>2. PICK n \in Link : \A l \in Link :
             \/ token'[l] = token[l]
             \/ l = n /\ token'[l].link = drawn + 1 /\ (l = drawn + 1 \/ token[l] # NoDoc)
    <3>1. PICK kind \in {"verify", "reset", "change"}, d \in Link \cup {Nil} :
            \A l \in Link : Issued(l, kind, req[r].user, d, req[r].email)
      BY <1>3 DEF Issues
    <3>2. CASE d = Nil
      <4>1. \A l \in Link : token'[l] = token[l] \/ (l = drawn + 1 /\ token'[l].link = drawn + 1)
        BY <3>1, <3>2, NilApart DEF Issued
      <4> QED BY <2>1, <4>1
    <3>3. CASE d \in Link
      BY <3>1, <3>3, NilApart DEF Issued
    <3> QED BY <3>2, <3>3
  <2>3. \A l \in Link : token[l] # NoDoc => l <= drawn /\ token[l].link <= drawn
    BY DEF LinksOnce
  <2>4. \A l \in Link : token[l] # NoDoc => l \in Nat /\ token[l].link \in Nat
    BY <1>b, NilApart DEF DataOK, TokenDoc
  <2>5. \A l \in Link : token'[l] # NoDoc =>
           \/ token'[l] = token[l] /\ l <= drawn /\ token'[l].link <= drawn
           \/ l = n /\ token'[l].link = drawn + 1 /\ l <= drawn + 1
    BY <1>b, <2>2, <2>3, <2>4
  <2>6. \A l \in Link : token'[l] # NoDoc => l <= drawn + 1 /\ token'[l].link <= drawn + 1
    BY <1>b, <2>4, <2>5
  <2>7. \A l, m \in Link : token'[l] # NoDoc /\ token'[m] # NoDoc /\ token'[l].link = token'[m].link
                             => l = m
    BY <1>b, <2>4, <2>5 DEF LinksOnce
  <2>8. \A l \in spent : l <= drawn + 1
    BY <1>b, NilApart DEF LinksOnce, DataOK
  <2> QED BY <2>1, <2>6, <2>7, <2>8 DEF LinksOnce
<1>4. ASSUME NEW r \in Req, Moving(r) PROVE LinksOnce'
  BY <1>b, <1>1, <1>2, <1>3, <1>4, TokenSteps, ClaimIs
<1> QED BY <1>b, <1>1, <1>4, NextIs, BesideDrops

LEMMA SingleUseStep ==
  ASSUME Base, LinksOnce, SingleUse, Claimed, Next
  PROVE  SingleUse' /\ Claimed'
<1>b. DataOK /\ ReqOK /\ drawn \in Nat
  BY BaseIs, NilApart DEF DataOK
<1> DEFINE Marked == \A d \in Link : token[d] # NoDoc /\ token[d].link \in spent => token[d].used
           Alone  == \A r, s \in Req : Await(r, "setPw") /\ Await(s, "setPw")
                                         /\ req[r].link = req[s].link => r = s
<1>1. ASSUME Dropped PROVE Marked'
  BY <1>1 DEF Dropped, SingleUse
<1>2. ASSUME NEW r \in Req, Issues(r) PROVE Marked'
  <2>1. \A l \in Link : token'[l] = token[l] \/ token'[l].link = drawn + 1
    BY <1>2 DEF Issues, Issued
  <2>2. drawn + 1 \notin spent /\ UNCHANGED spent
    BY <1>b, <1>2, NilApart DEF LinksOnce, Issues
  <2> QED BY <2>1, <2>2 DEF SingleUse
<1>3. ASSUME NEW r \in Req, NEW d \in Link, ClaimsDoc(r, d) PROVE Marked' /\ req[r].link \notin spent
  <2>1. req[r].link \notin spent
    BY <1>3 DEF ClaimsDoc, SingleUse
  <2>2. \A l \in Link : token'[l] # NoDoc /\ token'[l].link \in spent' => token'[l].used
    BY <1>3 DEF ClaimsDoc, SingleUse, LinksOnce
  <2> QED BY <2>1, <2>2
<1> HIDE DEF Marked
<1>4. ASSUME \A r \in Req : req'[r].pc = "setPw" => req'[r] = req[r], spent \subseteq spent'
      PROVE  Alone' /\ Claimed'
  BY <1>4 DEF SingleUse, Claimed, Await
<1>5. ASSUME NEW r \in Req, Moving(r) PROVE Marked' /\ Alone' /\ Claimed'
  <2>1. \A x \in Req : req'[x].pc = "setPw" => req'[x] = req[x] \/ (x = r /\ ClaimUnused(r))
    BY <1>b, <1>5, Enters DEF Others
  <2>2. CASE Dropped /\ (ClaimUnused(r) => To(r, {"idle"}))
    <3>1. \A x \in Req : req'[x].pc = "setPw" => req'[x] = req[x]
      BY <2>1, <2>2 DEF To
    <3>2. spent \subseteq spent'
      BY <2>2 DEF Dropped
    <3> QED BY <1>1, <1>4, <2>2, <3>1, <3>2
  <2>3. CASE Issues(r)
    <3>1. ~ClaimUnused(r) /\ spent \subseteq spent'
      BY <2>3, Awaits DEF Issues, Await
    <3>2. \A x \in Req : req'[x].pc = "setPw" => req'[x] = req[x]
      BY <2>1, <3>1
    <3> QED BY <1>2, <1>4, <2>3, <3>1, <3>2
  <2>4. ASSUME NEW d \in Link, ClaimsDoc(r, d) PROVE Marked' /\ Alone' /\ Claimed'
    <3>1. Marked' /\ req[r].link \notin spent
      BY <1>3, <2>4
    <3>2. spent' = spent \cup {req[r].link} /\ (req'[r].pc = "setPw" => req'[r].link = req[r].link)
          /\ \A x \in Req \ {r} : req'[x] = req[x]
      BY <2>4 DEF ClaimsDoc, To, Others
    <3>3. Claimed'
      BY <3>2 DEF Claimed, Await
    <3>4. \A x \in Req \ {r} : req'[x].pc = "setPw" => req'[x].link \in spent
      BY <3>2 DEF Claimed, Await
    <3>5. Alone'
      BY <3>1, <3>2, <3>4 DEF SingleUse, Await
    <3> QED BY <3>1, <3>3, <3>5
  <2>5. Dropped /\ ~ClaimUnused(r) => Marked' /\ Alone' /\ Claimed'
    BY <2>2
  <2> QED BY <1>b, <1>5, <2>2, <2>3, <2>4, <2>5, TokenSteps, ClaimIs
<1>6. ASSUME Beside
      PROVE  SingleUse' /\ Claimed'
  <2>1. Dropped /\ req' = req
    BY <1>b, <1>6, BesideDrops
  <2>2. spent \subseteq spent'
    BY <2>1 DEF Dropped
  <2>3. Alone' /\ Claimed'
    BY <1>4, <2>1, <2>2
  <2> QED BY <1>1, <2>1, <2>3 DEF Marked, SingleUse
<1>7. ASSUME NEW r \in Req, Moving(r) PROVE SingleUse' /\ Claimed'
  BY <1>5, <1>7 DEF Marked, SingleUse
<1> QED BY <1>6, <1>7, NextIs

LEMMA LinksStutter ==
  ASSUME UNCHANGED vars, LinksOnce, SingleUse, Claimed
  PROVE  LinksOnce' /\ SingleUse' /\ Claimed'
BY DEF vars, history, LinksOnce, SingleUse, Claimed, Await

LEMMA NothingDrawn ==
  Init => LinksOnce /\ SingleUse /\ Claimed
BY IdleIs DEF Init, LinksOnce, SingleUse, Claimed, Await

\* A document has one link at a time, and no link is in two of them.
THEOREM OneLinkOneDocument == Spec => []LinksOnce
<1>1. Base /\ LinksOnce /\ [Next]_vars => LinksOnce'
  <2>1. LinksOnce /\ UNCHANGED vars => LinksOnce'
    BY DEF vars, history, LinksOnce
  <2> QED BY <2>1, LinksOnceStep
<1> QED BY <1>1, NothingDrawn, BaseInvariant, PTL DEF Spec

\* A reset link is single use: claim_unused marks it at once, so that of two
\* requests with the same link one sets a password.
THEOREM ResetLinksSingleUse == Spec => []SingleUse
<1>1. Base /\ LinksOnce /\ SingleUse /\ Claimed /\ [Next]_vars => SingleUse' /\ Claimed'
  BY SingleUseStep, LinksStutter
<1> QED BY <1>1, NothingDrawn, BaseInvariant, OneLinkOneDocument, PTL DEF Spec

\* What becomes of a document: it stays as it is but for its use, or it comes
\* under the link that is drawn.
Stays(l) == /\ token[l] # NoDoc
            /\ token'[l].user = token[l].user /\ token'[l].kind = token[l].kind

StaysUnder(l) == /\ Stays(l)
                 /\ token'[l].link = token[l].link /\ token'[l].email = token[l].email

ComesUnder(r, l) ==
  /\ Issues(r) /\ token'[l].link = drawn + 1 /\ token'[l].email = req[r].email
  /\ SendWrite(r) => token'[l].kind = "verify" \/ Stays(l)
  /\ ResetWrite(r) => token'[l].kind = "reset" \/ Stays(l)
  /\ InsertChange(r) => token'[l].kind = "change"
  /\ \/ Stays(l) /\ l = req[r].doc
     \/ l = drawn + 1 /\ token'[l].user = req[r].user /\ ~Stays(l)

LEMMA DocSteps ==
  ASSUME Base, LinksOnce, NEW r \in Req, Moving(r), NEW l \in Link, token'[l] # NoDoc
  PROVE  StaysUnder(l) \/ ComesUnder(r, l)
<1>b. DataOK /\ ReqOK /\ drawn \in Nat
  BY BaseIs, NilApart DEF DataOK
<1>1. CASE Dropped
  BY <1>1 DEF Dropped, StaysUnder, Stays
<1>2. ASSUME NEW d \in Link, ClaimsDoc(r, d) PROVE StaysUnder(l)
  BY <1>2 DEF ClaimsDoc, StaysUnder, Stays
<1>3. CASE Issues(r)
  <2>1. PICK kind \in {"verify", "reset", "change"}, d \in Link \cup {Nil} :
          /\ Issued(l, kind, req[r].user, d, req[r].email)
          /\ drawn' = drawn + 1 /\ drawn + 1 \in Link /\ drawn \in Nat
          /\ \/ SendWrite(r) /\ kind = "verify" /\ d = req[r].doc
             \/ ResetWrite(r) /\ kind = "reset" /\ d = req[r].doc
             \/ InsertChange(r) /\ kind = "change" /\ d = Nil
    BY <1>3 DEF Issues
  <2>2. /\ SendWrite(r) => kind = "verify"
        /\ ResetWrite(r) => kind = "reset"
        /\ InsertChange(r) => kind = "change"
    BY <2>1, Awaits DEF Await
  <2>3. CASE token'[l] = token[l]
    BY <2>3 DEF StaysUnder, Stays
  <2>4. CASE l = drawn + 1 /\ token'[l].kind = kind /\ token'[l].user = req[r].user
             /\ token'[l].link = drawn + 1 /\ token'[l].email = req[r].email
    <3>1. ~Stays(l)
      <4>1. ~(drawn + 1 <= drawn)
        BY <2>1
      <4> QED BY <2>4, <4>1 DEF Stays, LinksOnce
    <3> QED BY <1>3, <2>2, <2>4, <3>1 DEF ComesUnder
  <2>5. CASE l = d /\ Stays(l) /\ token'[l].link = drawn + 1 /\ token'[l].email = req[r].email
    <3>1. ~InsertChange(r) /\ l = req[r].doc
      BY <2>1, <2>2, <2>5, NilApart
    <3> QED BY <1>3, <2>5, <3>1 DEF ComesUnder
  <2> QED BY <2>1, <2>3, <2>4, <2>5 DEF Issued, Stays
<1> QED BY <1>b, <1>1, <1>2, <1>3, TokenSteps, ClaimIs

LEMMA LapsedDocs ==
  ASSUME Base, Beside,
         NEW l \in Link, token'[l] # NoDoc
  PROVE  StaysUnder(l)
BY BaseIs, BesideDrops DEF Dropped, StaysUnder, Stays

LEMMA DrawnGrows ==
  ASSUME Base, NEW r \in Req, Moving(r)
  PROVE  drawn \in Nat /\ (drawn' = drawn \/ (Issues(r) /\ drawn' = drawn + 1))
<1>1. DataOK /\ ReqOK /\ drawn \in Nat
  BY BaseIs, NilApart DEF DataOK
<1> QED BY <1>1, TokenSteps, ClaimIs DEF Dropped, Issues

\* A handler that found a document finds it again, or none.
LEMMA HoldingStep ==
  ASSUME Base, LinksOnce, Holding, Next
  PROVE  Holding'
<1>b. DataOK /\ ReqOK /\ Base' /\ drawn \in Nat
  BY BaseIs, BaseStep, NilApart DEF DataOK
<1>1. ASSUME NEW r \in Req, Moving(r), NEW q \in Request, NEW kind, Found(q, kind)
      PROVE  q.doc # Nil => /\ q.doc <= drawn'
                            /\ token'[q.doc] # NoDoc => /\ token'[q.doc].user = q.user
                                                        /\ token'[q.doc].kind = kind
  <2> SUFFICES ASSUME q.doc # Nil
               PROVE  /\ q.doc <= drawn'
                      /\ token'[q.doc] # NoDoc => /\ token'[q.doc].user = q.user
                                                  /\ token'[q.doc].kind = kind
    OBVIOUS
  <2>1. q.doc \in Link /\ q.doc \in Nat /\ q.doc <= drawn
    BY <1>1, NilApart DEF Found, Request
  <2>2. q.doc <= drawn'
    BY <1>1, <2>1, DrawnGrows
  <2>3. ~(drawn + 1 <= drawn)
    BY <1>b
  <2>4. token'[q.doc] # NoDoc => Stays(q.doc)
    BY <1>1, <2>1, <2>3, DocSteps DEF StaysUnder, ComesUnder
  <2> QED BY <1>1, <2>2, <2>4 DEF Found, Stays
<1>2. ASSUME NEW r \in Req, Moving(r), NEW x \in Req, req'[x] = req[x], NEW kind, Found(req[x], kind)
      PROVE  Found(req[x], kind)'
  <2>1. req[x] \in Request
    BY <1>b DEF ReqOK
  <2> QED BY <1>1, <1>2, <2>1 DEF Found
<1>3. ASSUME NEW r \in Req, NEW ds \in SUBSET Link, NEW next, NEW kind,
             FindToken(r, ds, next), req'[r].pc = next, next # "idle",
             \A d \in ds : token[d] # NoDoc /\ token[d].kind = kind /\ token[d].user = req[r].user
      PROVE  Found(req[r], kind)'
  <2>0. ~Finish(r)
    BY <1>b, <1>3, Goes, IdleIs
  <2>1. PICK d \in Link \cup {Nil} : /\ req' = [req EXCEPT ![r].pc = next, ![r].doc = d]
                                     /\ d # Nil => d \in ds
    <3>1. Latest(ds) \in Link \cup {Nil} /\ (Latest(ds) # Nil => Latest(ds) \in ds)
      BY <1>3, LatestIs
    <3>2. req' = [req EXCEPT ![r].pc = next, ![r].doc = Latest(ds)]
      BY <1>3, <2>0 DEF FindToken
    <3> QED BY <3>1, <3>2
  <2>2. req'[r].doc = d /\ req'[r].user = req[r].user
    <3>1. req \in [Req -> Request] /\ req[r] \in Request
      BY <1>b DEF ReqOK
    <3>2. req'[r] = [req[r] EXCEPT !.pc = next, !.doc = d]
      BY <2>1, <3>1
    <3> QED BY <3>1, <3>2 DEF Request
  <2>3. UNCHANGED <<token, drawn>>
    BY <1>3 DEF FindToken, Reads
  <2>4. d # Nil => d <= drawn
    BY <1>3, <2>1 DEF LinksOnce
  <2> QED BY <1>3, <2>1, <2>2, <2>3, <2>4 DEF Found
<1>4. ASSUME NEW r \in Req, Moving(r) PROVE Holding'
  <2>1. ASSUME NEW x \in Req, req'[x].pc = "sendWrite" PROVE Found(req[x], "verify")'
    <3>1. CASE req'[x] = req[x]
      BY <1>2, <1>4, <2>1, <3>1 DEF Holding, Await
    <3>2. CASE req'[x] # req[x]
      <4>1. x = r /\ SendFind(r)
        BY <1>b, <1>4, <2>1, <3>2, Enters DEF Others
      <4>2. Docs("verify", req[r].user) \in SUBSET Link
        BY <1>b, DocsOK
      <4>3. FindToken(r, Docs("verify", req[r].user), "sendWrite")
        BY <1>b, <2>1, <4>1, Goes, IdleIs DEF SendFind
      <4>4. \A d \in Docs("verify", req[r].user) :
              token[d] # NoDoc /\ token[d].kind = "verify" /\ token[d].user = req[r].user
        BY <1>b, DocsOK
      <4> QED BY <1>3, <2>1, <4>1, <4>2, <4>3, <4>4
    <3> QED BY <3>1, <3>2
  <2>2. ASSUME NEW x \in Req, req'[x].pc = "tokWrite" PROVE Found(req[x], "reset")'
    <3>1. CASE req'[x] = req[x]
      BY <1>2, <1>4, <2>2, <3>1 DEF Holding, Await
    <3>2. CASE req'[x] # req[x]
      <4>1. x = r /\ ResetFind(r)
        BY <1>b, <1>4, <2>2, <3>2, Enters DEF Others
      <4>2. Unused(req[r].user) \in SUBSET Link
        BY <1>b, DocsOK
      <4>3. FindToken(r, Unused(req[r].user), "tokWrite")
        BY <4>1 DEF ResetFind
      <4>4. \A d \in Unused(req[r].user) :
              token[d] # NoDoc /\ token[d].kind = "reset" /\ token[d].user = req[r].user
        BY <1>b, DocsOK
      <4> QED BY <1>3, <2>2, <4>1, <4>2, <4>3, <4>4
    <3> QED BY <3>1, <3>2
  <2> QED BY <2>1, <2>2 DEF Holding, Await
<1>5. CASE Beside
  BY <1>b, <1>5, BesideDrops DEF Dropped, Holding, Found, Await, ReqOK, Request
<1> QED BY <1>4, <1>5, NextIs

\* A link once mailed stays so, whether its mail arrives or not.
LEMMA MailSteps ==
  ASSUME Base, NEW r \in Req, Moving(r), NEW l \in Link, mail'[l] = "none"
  PROVE  mail[l] = "none"
<1>b. DataOK /\ ReqOK /\ mail \in MailStates
  BY BaseIs DEF DataOK
<1>1. \A x : Post(x) => mail[l] = "none"
  BY <1>b DEF Post, MailStates
<1>2. CASE HandOver(r)
  BY <1>b, <1>2 DEF HandOver, MailStates
<1>3. CASE Abort(r)
  BY <1>b, <1>3 DEF Abort, MailStates
<1>4. UNCHANGED mail \/ (\E x : Post(x)) \/ HandOver(r) \/ Abort(r)
  BY <1>b, Kinds DEF Dropping, ClaimUnused, Drawing, SendWrite, ResetWrite, InsertChange,
     Writing, InsertUser, VerifyWrite, NullPassword, Signing, SetPassword, MoveEmail,
     UpdateWrite, InAndOut, Start, SignOut, SignOutOthers
<1> QED BY <1>1, <1>2, <1>3, <1>4

LEMMA LastLinkStep ==
  ASSUME Base, LinksOnce, LastLinkMailed, Next
  PROVE  LastLinkMailed'
<1>b. DataOK /\ ReqOK /\ Base' /\ drawn \in Nat /\ mail \in MailStates
  BY BaseIs, BaseStep, NilApart DEF DataOK
<1>1. ASSUME NEW r \in Req, Moving(r), NEW d \in Link, token'[d] # NoDoc,
             mail'[token'[d].link] = "none"
      PROVE  \E x \in Req : req'[x].admin /\ req'[x].link = token'[d].link
  <2>t. token'[d].link \in Link
    BY <1>b, <1>1 DEF Base, TypeOK, TokenDoc
  <2>1. CASE StaysUnder(d)
    <3>1. mail[token[d].link] = "none" /\ token[d].link = token'[d].link /\ token[d] # NoDoc
      BY <1>1, <2>1, <2>t, MailSteps DEF StaysUnder, Stays
    <3>2. PICK x \in Req : req[x].admin /\ req[x].link = token[d].link
      BY <3>1 DEF LastLinkMailed
    <3>3. CASE x # r
      <4>1. req'[x] = req[x]
        BY <1>b, <1>1, <3>3, Enters DEF Others
      <4> QED BY <3>1, <3>2, <4>1
    <3>4. CASE x = r
      <4>1. Local(req[r], Users) /\ req[r].link \in Link /\ req[r].link # Nil
        BY <1>b, <2>t, <3>1, <3>2, <3>4, At, NilApart
      <4>2. req[r].pc \in {"nullPw", "signOut", "handOver"}
        BY <3>2, <3>4, <4>1 DEF Local
      <4>3. ~Abort(r) /\ ~HandOver(r) /\ ~Post(req[r].link)
        BY <1>b, <1>1, <3>1, <3>2, <3>4, <4>1 DEF Abort, HandOver, Post, MailStates
      <4>4. Goto(r, "signOut")
        BY <1>b, <1>1, <3>2, <3>4, <4>2, <4>3, Leaves DEF NullPassword, SignOut
      <4>5. req'[r].admin = req[r].admin /\ req'[r].link = req[r].link
        BY <1>b, <4>4 DEF Goto, ReqOK, Request
      <4> QED BY <3>1, <3>2, <3>4, <4>5
    <3> QED BY <3>3, <3>4
  <2>2. CASE ComesUnder(r, d)
    <3>1. Drawing(r) /\ token'[d].link = drawn + 1 /\ drawn + 1 \in Link
      BY <2>2 DEF ComesUnder, Issues, Drawing
    <3>2. ~Post(drawn + 1)
      BY <1>b, <1>1, <3>1 DEF Post, MailStates
    <3>3. req[r].admin /\ req' = [req EXCEPT ![r].pc = "nullPw", ![r].link = drawn + 1]
      BY <3>1, <3>2 DEF Drawing, SendWrite, ResetWrite, InsertChange
    <3>4. req'[r].admin /\ req'[r].link = drawn + 1
      <4>1. req \in [Req -> Request] /\ req[r] \in Request
        BY <1>b DEF ReqOK
      <4>2. req'[r] = [req[r] EXCEPT !.pc = "nullPw", !.link = drawn + 1]
        BY <3>3, <4>1
      <4> QED BY <3>3, <4>1, <4>2 DEF Request
    <3> QED BY <3>1, <3>4
  <2> QED BY <1>1, <2>1, <2>2, DocSteps
<1>2. CASE Beside
  <2>1. /\ \A d \in Link : token'[d] # NoDoc => token'[d] = token[d]
        /\ \A l \in Link : mail'[l] = "none" => mail[l] = "none"
        /\ req' = req
    BY <1>b, <1>2, BesideDrops, BesideIs DEF Dropped
  <2>2. \A d \in Link : token[d] # NoDoc => token[d].link \in Link
    BY <1>b DEF DataOK, TokenDoc
  <2> QED BY <2>1, <2>2 DEF LastLinkMailed
<1> QED BY <1>1, <1>2, NextIs DEF LastLinkMailed

\* The document a handler found stays that of its user, or goes.
THEOREM FoundHeld == Spec => []Holding
<1>1. Init => Holding
  BY IdleIs DEF Init, Holding, Await
<1>2. Base /\ LinksOnce /\ Holding /\ [Next]_vars => Holding'
  <2>1. Holding /\ UNCHANGED vars => Holding'
    BY DEF vars, history, Holding, Found, Await
  <2> QED BY <2>1, HoldingStep
<1> QED BY <1>1, <1>2, BaseInvariant, OneLinkOneDocument, PTL DEF Spec

\* The link that works was mailed, whichever requests raced to replace it: who asks
\* for more is refused before update_resend replaces the link, and whoever replaces it
\* sends the mail, though it may be lost on its way.
THEOREM WorkingLinkMailed == Spec => []LastLinkMailed
<1>1. Init => LastLinkMailed
  BY DEF Init, LastLinkMailed
<1>2. Base /\ LinksOnce /\ LastLinkMailed /\ [Next]_vars => LastLinkMailed'
  <2>1. LastLinkMailed /\ UNCHANGED vars => LastLinkMailed'
    BY DEF vars, history, LastLinkMailed
  <2> QED BY <2>1, LastLinkStep
<1> QED BY <1>1, <1>2, BaseInvariant, OneLinkOneDocument, PTL DEF Spec
-----------------------------------------------------------------------------
(* Verification *)

\* An administrator gives u another address, which nobody vouches for.
Readdressed(r, u) ==
  /\ UpdateWrite(r) /\ req[r].user = u /\ req[r].email # Nil
  /\ Pending(r, u) # {} => u \in excused'

\* u has the address it had, and what was known of it is known.
AddressKept(u) == account'[u].email = account[u].email /\ (u \in proven => u \in proven')

\* u is verified for a reason: it was so already, or a mailed link says so.
VerifiedBefore(r, u) ==
  /\ u \in Users /\ AddressKept(u)
  /\ \/ account[u].verified
     \/ VerifyWrite(r) /\ req[r].user = u /\ (account[u].email = req[r].email => u \in proven')

LEMMA UpdateWriteIs ==
  ASSUME DataOK, ReqOK, NEW r \in Req, UpdateWrite(r), NEW u \in Users
  PROVE  /\ AddressKept(u) \/ u \in proven' \/ Readdressed(r, u)
         /\ account'[u].verified => u \in proven' \/ VerifiedBefore(r, u)
         /\ Users' = Users
<1> DEFINE q == req[r]
           v == q.user
           a == [account[v] EXCEPT !.email = IF q.email = Nil THEN @ ELSE q.email,
                                   !.verified = IF q.flag = Nil THEN @ ELSE q.flag]
<1>1. v \in Users /\ v \in User /\ u \in User /\ account \in [User -> AccountDoc \cup {NoDoc}]
  BY At, HoldersOK DEF UpdateWrite, Await, PCs, UserPCs, DataOK
<1>2. CASE Finish(r) /\ UNCHANGED <<account, proven, excused>>
  BY <1>2 DEF AddressKept, VerifiedBefore, Users
<1>3. CASE /\ account' = [account EXCEPT ![v] = a]
           /\ proven' = IF a.verified THEN proven \cup {v}
                        ELSE IF a.email = account[v].email THEN proven ELSE proven \ {v}
           /\ excused' = IF Pending(r, v) = {} THEN excused ELSE excused \cup {v}
  <2>1. account[v] \in AccountDoc
    BY <1>1, HoldersOK
  <2>2. a.email = IF q.email = Nil THEN account[v].email ELSE q.email
    BY <2>1 DEF AccountDoc
  <2>3. a # NoDoc
    <3>1. q.email \in Email \cup {Nil} /\ q.flag \in BOOLEAN \cup {Nil}
      BY At DEF Request
    <3>2. a \in AccountDoc
      BY <2>1, <3>1 DEF AccountDoc
    <3> HIDE DEF a
    <3> QED BY <3>2, DocApart
  <2> HIDE DEF a
  <2>4. account'[v] = a /\ \A w \in User \ {v} : account'[w] = account[w]
    BY <1>1, <1>3
  <2>5. Users' = Users
    BY <1>1, <1>3, <2>1, <2>3, DocApart DEF Users
  <2>6. CASE u # v
    BY <1>1, <1>3, <2>4, <2>5, <2>6 DEF AddressKept, VerifiedBefore
  <2>7. CASE u = v /\ a.verified
    BY <1>3, <2>5, <2>7
  <2>8. CASE u = v /\ ~a.verified
    <3>1. AddressKept(u) \/ Readdressed(r, u)
      BY <1>3, <2>2, <2>4, <2>8 DEF AddressKept, Readdressed
    <3> QED BY <2>4, <2>5, <2>8, <3>1
  <2> QED BY <2>6, <2>7, <2>8
<1> QED BY <1>2, <1>3 DEF UpdateWrite

LEMMA WriterIs ==
  ASSUME DataOK, ReqOK, NEW r \in Req, Writing(r), ~UpdateWrite(r), NEW u \in User
  PROVE  /\ u \in Users => u \in Users' /\ (AddressKept(u) \/ u \in proven')
         /\ u \in Users' /\ account'[u].verified => u \in proven' \/ VerifiedBefore(r, u)
<1>a. account \in [User -> AccountDoc \cup {NoDoc}]
  BY DEF DataOK
<1>1. ASSUME NEW v \in User, InsertUser(r, v)
      PROVE  /\ u \in Users => u \in Users' /\ (AddressKept(u) \/ u \in proven')
             /\ u \in Users' /\ account'[u].verified => u \in proven' \/ VerifiedBefore(r, u)
  <2>1. proven' = proven
    BY <1>1 DEF InsertUser, history
  <2>2. CASE UNCHANGED account
    BY <2>1, <2>2 DEF AddressKept, VerifiedBefore, Users
  <2>3. CASE account' = [account EXCEPT ![v] = [email |-> req[r].email, verified |-> FALSE,
                                                pw |-> req[r].pw]]
    <3>1. v \notin Users
      BY <1>1 DEF InsertUser
    <3>2. account'[v].verified = FALSE /\ \A w \in User \ {v} : account'[w] = account[w]
      BY <1>a, <2>3
    <3> QED BY <2>1, <3>1, <3>2 DEF AddressKept, VerifiedBefore, Users
  <2> QED BY <1>1, <2>2, <2>3 DEF InsertUser
<1>2. CASE VerifyWrite(r) \/ NullPassword(r) \/ Signing(r) \/ MoveEmail(r)
  <2> DEFINE v == req[r].user
  <2>1. v \in Users /\ v \in User
    <3>1. req[r].pc \in {"verifyWrite", "nullPw", "setPw", "changePw", "moveEmail"}
      BY <1>2, Awaits DEF Await, Signing
    <3>2. req[r].pc \in UserPCs
      BY <3>1 DEF PCs, UserPCs
    <3> QED BY <3>2, At
  <2>2. account[v] \in AccountDoc
    BY <2>1, HoldersOK
  <2>3. CASE VerifyWrite(r)
    <3>1. /\ account' = [account EXCEPT ![v] = [account[v] EXCEPT !.verified = TRUE]]
          /\ proven' = IF account[v].email = req[r].email THEN proven \cup {v} ELSE proven
      BY <1>a, <2>1, <2>3 DEF VerifyWrite
    <3>2. account'[v].email = account[v].email /\ account'[v] # NoDoc
          /\ \A w \in User \ {v} : account'[w] = account[w]
      <4>1. /\ [account[v] EXCEPT !.verified = TRUE] \in AccountDoc
            /\ [account[v] EXCEPT !.verified = TRUE].email = account[v].email
        BY <2>2 DEF AccountDoc
      <4> QED BY <1>a, <2>1, <3>1, <4>1, DocApart
    <3> QED BY <2>1, <2>3, <3>1, <3>2 DEF AddressKept, VerifiedBefore, Users
  <2>4. ASSUME NEW pw \in Password \cup {Nil}, account' = [account EXCEPT ![v].pw = pw],
               proven' = proven
        PROVE  /\ u \in Users => u \in Users' /\ AddressKept(u)
               /\ u \in Users' /\ account'[u].verified => VerifiedBefore(r, u)
    <3>1. account' = [account EXCEPT ![v] = [account[v] EXCEPT !.pw = pw]]
      BY <1>a, <2>1, <2>4
    <3>2. /\ account'[v].email = account[v].email /\ account'[v] # NoDoc
          /\ account'[v].verified = account[v].verified
          /\ \A w \in User \ {v} : account'[w] = account[w]
      <4>1. /\ [account[v] EXCEPT !.pw = pw] \in AccountDoc
            /\ [account[v] EXCEPT !.pw = pw].email = account[v].email
            /\ [account[v] EXCEPT !.pw = pw].verified = account[v].verified
        BY <2>2 DEF AccountDoc
      <4> QED BY <1>a, <2>1, <3>1, <4>1, DocApart
    <3> QED BY <2>1, <2>4, <3>2 DEF AddressKept, VerifiedBefore, Users
  <2>5. CASE NullPassword(r)
    BY <2>4, <2>5 DEF NullPassword, history
  <2>6. CASE Signing(r)
    <3>1. req[r].pw \in Password \cup {Nil}
      BY At DEF Request
    <3> QED BY <2>4, <2>6, <3>1 DEF Signing, SetPassword, history
  <2>7. CASE MoveEmail(r) /\ UNCHANGED <<account, proven>>
    BY <2>7 DEF AddressKept, VerifiedBefore, Users
  <2>8. CASE /\ MoveEmail(r) /\ proven' = proven \cup {v}
             /\ account' = [account EXCEPT ![v].email = req[r].email, ![v].verified = TRUE]
    <3>1. \A w \in User \ {v} : account'[w] = account[w]
      BY <1>a, <2>1, <2>8
    <3>2. Users \subseteq Users'
      BY <2>8, MoveEmailKept DEF Kept
    <3> QED BY <2>1, <2>8, <3>1, <3>2 DEF AddressKept, VerifiedBefore, Users
  <2> QED BY <1>2, <2>3, <2>5, <2>6, <2>7, <2>8 DEF MoveEmail
<1> QED BY <1>1, <1>2 DEF Writing

LEMMA NoWriteProven ==
  ASSUME ReqOK, NEW r \in Req, Moving(r), ~Writing(r)
  PROVE  UNCHANGED <<account, proven>>
BY NoWrite, Kinds DEF Dropping, ClaimUnused, Drawing, SendWrite, ResetWrite, InsertChange,
   InAndOut, Start, SignOut, SignOutOthers, HandOver, Abort, Excuse, history

LEMMA UserSteps ==
  ASSUME DataOK, ReqOK, NEW r \in Req, Moving(r), NEW u \in User
  PROVE  /\ u \in Users => u \in Users' /\ (AddressKept(u) \/ u \in proven' \/ Readdressed(r, u))
         /\ u \in Users' /\ account'[u].verified => u \in proven' \/ VerifiedBefore(r, u)
<1>1. CASE ~Writing(r)
  BY <1>1, NoWriteProven DEF AddressKept, VerifiedBefore, Users
<1>2. CASE Writing(r) /\ ~UpdateWrite(r)
  BY <1>2, WriterIs
<1>3. CASE UpdateWrite(r)
  <2>1. req[r].user \in Users
    BY <1>3, At DEF UpdateWrite, Await, PCs, UserPCs
  <2>2. Users' = Users
    BY <1>3, <2>1, UpdateWriteIs
  <2> QED BY <1>3, <2>2, UpdateWriteIs
<1> QED BY <1>1, <1>2, <1>3

AskedNext(u, e) == account'[u].email = e \/ u \in excused' \/ u \in proven'

\* An address a user is asked to prove stays the one to prove, or is excused;
\* unless the user is given another one with nobody waiting.
LEMMA AskedStays ==
  ASSUME DataOK, ReqOK, NEW r \in Req, Moving(r), NEW u \in Users, NEW e, Asked(u, e)
  PROVE  AskedNext(u, e) \/ (Readdressed(r, u) /\ u \notin excused')
<1>1. u \in User
  BY HoldersOK
<1> QED BY <1>1, UserSteps, ExcusedGrows DEF Asked, AskedNext, AddressKept

\* Requests that have an address to be proven.
LEMMA AsksStep ==
  ASSUME Base, Verifications, NEW r \in Req, Moving(r), NEW x \in Req,
         req'[x].pc \in {"sendFind", "sendWrite", "verifyWrite"}
  PROVE  AskedNext(req'[x].user, req'[x].email)
<1>b. DataOK /\ ReqOK
  BY BaseIs
<1>1. ASSUME req[x].pc \in {"sendFind", "sendWrite", "verifyWrite"},
             ~Readdressed(r, req[x].user) \/ x # r
      PROVE  AskedNext(req[x].user, req[x].email)
  <2>1. req[x].user \in Users
    BY <1>b, <1>1, At DEF PCs, UserPCs
  <2>2. Asked(req[x].user, req[x].email)
    BY <1>1 DEF Verifications
  <2>3. Readdressed(r, req[x].user) => req[x].user \in excused'
    BY <1>1 DEF Readdressed, Pending
  <2> QED BY <1>b, <2>1, <2>2, <2>3, AskedStays
<1>2. CASE x # r
  <2>1. req'[x] = req[x]
    BY <1>b, <1>2, Enters DEF Others
  <2> QED BY <1>1, <1>2, <2>1
<1>3. CASE x = r /\ req'[r].pc = "sendFind"
  <2>1. CASE ResendFind(r)
    <3>1. ~Finish(r)
      BY <1>b, <1>3, Goes, IdleIs
    <3>2. PICK u \in Holders(req[r].email) :
            /\ req' = [req EXCEPT ![r].pc = "sendFind", ![r].user = u] /\ UNCHANGED account
      <4>1. Holders(req[r].email) # {} =>
              (CHOOSE u \in Holders(req[r].email) : TRUE) \in Holders(req[r].email)
        OBVIOUS
      <4> QED BY <2>1, <3>1, <4>1 DEF ResendFind, Reads
    <3>3. req'[r].user = u /\ req'[r].email = req[r].email
      <4>1. req \in [Req -> Request] /\ req[r] \in Request
        BY <1>b DEF ReqOK
      <4>2. req'[r] = [req[r] EXCEPT !.pc = "sendFind", !.user = u]
        BY <3>2, <4>1
      <4> QED BY <4>1, <4>2 DEF Request
    <3> QED BY <1>3, <3>2, <3>3 DEF AskedNext, Holders
  <2>2. ASSUME NEW u \in User, InsertUser(r, u)
        PROVE  AskedNext(req'[r].user, req'[r].email)
    <3>1. ~Finish(r)
      BY <1>b, <1>3, Goes, IdleIs
    <3>2. /\ req' = [req EXCEPT ![r].pc = "sendFind", ![r].user = u]
          /\ account' = [account EXCEPT ![u] = [email |-> req[r].email, verified |-> FALSE,
                                                pw |-> req[r].pw]]
      BY <2>2, <3>1 DEF InsertUser
    <3>3. req'[r].user = u /\ req'[r].email = req[r].email
      <4>1. req \in [Req -> Request] /\ req[r] \in Request
        BY <1>b DEF ReqOK
      <4>2. req'[r] = [req[r] EXCEPT !.pc = "sendFind", !.user = u]
        BY <3>2, <4>1
      <4> QED BY <4>1, <4>2 DEF Request
    <3>4. account'[u].email = req[r].email
      BY <1>b, <3>2 DEF DataOK
    <3> QED BY <3>3, <3>4 DEF AskedNext
  <2> QED BY <1>b, <1>3, <2>1, <2>2, Enters
<1>4. CASE x = r /\ req'[r].pc = "sendWrite"
  <2>1. SendFind(r) /\ ~Finish(r)
    BY <1>b, <1>4, Enters, Goes, IdleIs
  <2>2. req[r].pc = "sendFind" /\ ~Readdressed(r, req[r].user)
    BY <2>1, Awaits DEF Await, Readdressed
  <2>3. req'[r].user = req[r].user /\ req'[r].email = req[r].email
    <3>1. PICK d : req' = [req EXCEPT ![r].pc = "sendWrite", ![r].doc = d]
      BY <2>1 DEF SendFind, FindToken
    <3> QED BY <1>b, <3>1, Sets
  <2> QED BY <1>1, <1>4, <2>2, <2>3
<1>5. CASE x = r /\ req'[r].pc = "verifyWrite"
  <2>1. VerifyFind(r) /\ ~Finish(r)
    BY <1>b, <1>5, Enters, Goes, IdleIs
  <2>2. PICK d \in Under("verify", req[r].link) :
          req' = [req EXCEPT ![r].pc = "verifyWrite", ![r].user = token[d].user,
                             ![r].email = token[d].email]
    BY <2>1 DEF VerifyFind
  <2>3. req'[r].user = token[d].user /\ req'[r].email = token[d].email
    <3>1. req \in [Req -> Request] /\ req[r] \in Request
      BY <1>b DEF ReqOK
    <3>2. req'[r] = [req[r] EXCEPT !.pc = "verifyWrite", !.user = token[d].user,
                                   !.email = token[d].email]
      BY <2>2, <3>1
    <3> QED BY <3>1, <3>2 DEF Request
  <2>4. Asked(token[d].user, token[d].email) /\ token[d].user \in Users
    BY <1>b, UnderOK DEF Verifications
  <2>5. ~Readdressed(r, token[d].user)
    BY <2>1, Awaits DEF Await, Readdressed
  <2>6. AskedNext(token[d].user, token[d].email)
    BY <1>b, <2>4, <2>5, AskedStays
  <2> QED BY <1>5, <2>3, <2>6
<1> QED BY <1>2, <1>3, <1>4, <1>5

\* A verification document comes from SendWrite, for the user it was found for.
LEMMA VerifyComes ==
  ASSUME Base, Holding, NEW r \in Req, NEW d \in Link, token'[d].kind = "verify", ComesUnder(r, d)
  PROVE  /\ SendWrite(r) /\ req[r].pc = "sendWrite" /\ drawn + 1 \in Link
         /\ token'[d].user = req[r].user /\ token'[d].link = drawn + 1
<1>1. SendWrite(r) \/ ResetWrite(r) \/ InsertChange(r)
  BY DEF ComesUnder, Issues
<1>2. Stays(d) => d = req[r].doc /\ d # Nil /\ token[d] # NoDoc /\ token[d].kind = "verify"
  BY NilApart DEF ComesUnder, Stays
<1>3. ~InsertChange(r)
  BY DEF ComesUnder
<1>4. ~ResetWrite(r)
  <2>1. ResetWrite(r) => Stays(d) /\ Found(req[r], "reset")
    BY Awaits DEF ComesUnder, Holding
  <2> QED BY <1>2, <2>1 DEF Found
<1>5. SendWrite(r) /\ req[r].pc = "sendWrite" /\ Found(req[r], "verify")
  BY <1>1, <1>3, <1>4, Awaits DEF Holding, Await
<1>6. token'[d].user = req[r].user
  BY <1>2, <1>5 DEF ComesUnder, Stays, Found
<1> QED BY <1>5, <1>6 DEF ComesUnder, Issues

\* What a verification document proves is what its user is asked to.
LEMMA DocsAsk ==
  ASSUME Base, LinksOnce, Holding, Verifications, NEW r \in Req, Moving(r),
         NEW d \in Link, token'[d] # NoDoc, token'[d].kind = "verify"
  PROVE  AskedNext(token'[d].user, token'[d].email)
<1>b. DataOK /\ ReqOK /\ drawn \in Nat
  BY BaseIs, NilApart DEF DataOK
<1>1. CASE StaysUnder(d)
  <2> DEFINE u == token[d].user
             e == token[d].email
  <2>1. /\ token[d] # NoDoc /\ token[d].kind = "verify" /\ token'[d].user = u
        /\ token'[d].email = e
    BY <1>1 DEF StaysUnder, Stays
  <2>2. u \in Users /\ Asked(u, e)
    BY <1>b, <2>1 DEF DataOK, Owned, Verifications
  <2>3. Readdressed(r, u) => u \in excused'
    <3>1. UpdateWrite(r) => Await(r, "updWrite")
      BY DEF UpdateWrite
    <3>2. excused \subseteq excused'
      BY <1>b, ExcusedGrows
    <3> QED BY <2>1, <3>1, <3>2 DEF Readdressed, Verifications
  <2> HIDE DEF u, e
  <2>4. AskedNext(u, e)
    BY <1>b, <2>2, <2>3, AskedStays
  <2> QED BY <2>1, <2>4
<1>2. CASE ComesUnder(r, d)
  <2>1. /\ SendWrite(r) /\ req[r].pc = "sendWrite" /\ token'[d].user = req[r].user
        /\ token'[d].email = req[r].email
    BY <1>2, VerifyComes DEF ComesUnder
  <2>2. Asked(req[r].user, req[r].email)
    BY <2>1 DEF Verifications
  <2>3. UNCHANGED <<account, proven>> /\ excused \subseteq excused'
    BY <2>1 DEF SendWrite, Excuse
  <2> QED BY <2>1, <2>2, <2>3 DEF Asked, AskedNext
<1> QED BY <1>1, <1>2, DocSteps

\* No administrator is replacing the address of a user who can still verify it.
LEMMA NotReaddressed ==
  ASSUME Base, LinksOnce, Holding, Verifications, NEW r \in Req, Moving(r),
         NEW d \in Link, token'[d] # NoDoc, token'[d].kind = "verify",
         NEW x \in Req, req'[x].pc = "updWrite", req'[x].email # Nil,
         req'[x].user = token'[d].user
  PROVE  token'[d].user \in excused'
<1>b. DataOK /\ ReqOK /\ drawn \in Nat
  BY BaseIs, NilApart DEF DataOK
<1>1. CASE req'[x] = req[x] /\ StaysUnder(d)
  <2>1. /\ token[d] # NoDoc /\ token[d].kind = "verify" /\ token'[d].user = token[d].user
        /\ excused \subseteq excused'
    BY <1>b, <1>1, ExcusedGrows DEF StaysUnder, Stays
  <2> QED BY <1>1, <2>1 DEF Verifications, Await
<1>2. CASE req'[x] = req[x] /\ ComesUnder(r, d)
  <2>1. SendWrite(r) /\ token'[d].user = req[r].user
    BY <1>2, VerifyComes
  <2>2. x \in Readdressing(req[r].user)
    BY <1>2, <2>1 DEF Readdressing
  <2> QED BY <2>1, <2>2 DEF SendWrite, Excuse
<1>3. CASE req'[x] # req[x]
  <2>1. x = r /\ (UpdateFind(r) \/ UpdateDropVerify(r))
    BY <1>b, <1>3, Enters DEF Others
  <2>2. ~UpdateFind(r)
    <3>1. CASE UpdateFind(r) /\ Goto(r, "updConflict")
      <4>1. req'[r].pc \in {"updConflict"}
        BY <1>b, <3>1, Goes DEF To
      <4> QED BY <2>1, <4>1
    <3>2. CASE req' = [req EXCEPT ![r].pc = "updWrite", ![r].email = Nil]
      <4>1. req \in [Req -> Request] /\ req[r] \in Request
        BY <1>b DEF ReqOK
      <4>2. req'[r] = [req[r] EXCEPT !.pc = "updWrite", !.email = Nil]
        BY <3>2, <4>1
      <4> QED BY <2>1, <4>1, <4>2 DEF Request
    <3> QED BY <3>1, <3>2 DEF UpdateFind
  <2>3. DropTokens(Docs("verify", req[r].user)) /\ Goto(r, "updWrite")
    BY <2>1, <2>2 DEF UpdateDropVerify, UpdateDrop
  <2>4. req'[r].user = req[r].user
    BY <1>b, <2>3, Goes
  <2>5. token'[d] = token[d] /\ d \notin Docs("verify", req[r].user)
    BY <2>3 DEF DropTokens
  <2> QED BY <2>1, <2>4, <2>5 DEF Docs
<1> QED BY <1>1, <1>2, <1>3, DocSteps

LEMMA VerificationsStep ==
  ASSUME Base, LinksOnce, Holding, Verifications, Next
  PROVE  Verifications'
<1>1. ASSUME NEW r \in Req, Moving(r) PROVE Verifications'
  BY <1>1, AsksStep, DocsAsk, NotReaddressed DEF Verifications, Asked, AskedNext, Await
<1>2. CASE Beside
  <2>1. Dropped /\ UNCHANGED <<req, excused, proven>>
    BY <1>2, BaseIs, BesideDrops
  <2>2. \A u \in Users : account'[u].email = account[u].email
    BY <1>2, BaseIs, BesideIs, HoldersOK DEF Vouches, DataOK
  <2>3. ASSUME NEW r \in Req, req[r].pc \in {"sendFind", "sendWrite", "verifyWrite"}
        PROVE  req[r].user \in Users
    BY <2>3, BaseIs, At DEF PCs, UserPCs
  <2>4. \A r \in Req : req'[r].pc \in {"sendFind", "sendWrite", "verifyWrite"} =>
                          AskedNext(req'[r].user, req'[r].email)
    BY <2>1, <2>2, <2>3 DEF Verifications, Asked, AskedNext
  <2>5. \A d \in Link : token'[d] # NoDoc => token[d] # NoDoc /\ token'[d] = token[d]
                                               /\ token[d].user \in Users
    BY <2>1 DEF Dropped, Base, Owned
  <2>6. \A d \in Link : token'[d] # NoDoc /\ token'[d].kind = "verify" =>
           /\ AskedNext(token'[d].user, token'[d].email)
           /\ \A r \in Req : req'[r].pc = "updWrite" /\ req'[r].email # Nil
                 /\ req'[r].user = token'[d].user => token'[d].user \in excused'
    BY <2>1, <2>2, <2>5 DEF Verifications, Asked, AskedNext, Await
  <2> QED BY <2>4, <2>6 DEF Verifications, Asked, AskedNext, Await
<1> QED BY <1>1, <1>2, NextIs

\* Whoever is verified after a step was verified for cause before, or is now.
LEMMA VerifiedProvenStep ==
  ASSUME Base, Verifications, VerifiedProven, Next
  PROVE  VerifiedProven'
<1>b. DataOK /\ ReqOK
  BY BaseIs
<1>1. ASSUME NEW r \in Req, Moving(r), NEW u \in Users', u \notin excused',
             account'[u].verified
      PROVE  u \in proven' \/ account'[u].email = Owner
  <2>1. u \in User /\ u \notin excused
    BY <1>b, <1>1, ExcusedGrows DEF Users
  <2>2. CASE VerifyWrite(r) /\ req[r].user = u /\ (account[u].email = req[r].email => u \in proven')
             /\ AddressKept(u)
    <3>1. Asked(u, req[r].email)
      BY <2>2 DEF VerifyWrite, Await, Verifications
    <3> QED BY <2>1, <2>2, <3>1 DEF Asked, AddressKept
  <2>3. CASE u \in Users /\ account[u].verified /\ AddressKept(u)
    BY <2>1, <2>3 DEF VerifiedProven, AddressKept
  <2> QED BY <1>b, <1>1, <2>1, <2>2, <2>3, UserSteps DEF VerifiedBefore
<1>2. CASE Beside
  <2>1. UNCHANGED <<excused, proven>>
    BY <1>b, <1>2, BesideIs DEF history
  <2>2. ASSUME NEW u \in Users', u \notin excused, account'[u].verified
        PROVE  u \in proven \/ account'[u].email = Owner
    <3>1. CASE account'[u] = account[u]
      BY <2>2, <3>1 DEF VerifiedProven, Users
    <3>2. CASE account'[u] # account[u]
      BY <1>b, <1>2, <2>2, <3>2, BesideIs DEF Vouches, Users, DataOK
    <3> QED BY <3>1, <3>2
  <2> QED BY <2>1, <2>2 DEF VerifiedProven
<1> QED BY <1>1, <1>2, NextIs DEF VerifiedProven

\* A verified address was shown to be the user's, by a link mailed to it, or
\* vouched for by an administrator or, if it is OWNER_EMAIL, by the start-up:
\* update_user drops the links mailed to the address it replaces, and only a mail
\* or a change under way at that moment crosses it (excused).
THEOREM VerifiedForCause == Spec => []VerifiedProven
<1>1. Init => Verifications /\ VerifiedProven
  BY IdleIs DEF Init, Verifications, VerifiedProven, Users, Await
<1>2. Base /\ LinksOnce /\ Holding /\ Verifications /\ VerifiedProven /\ [Next]_vars
        => Verifications' /\ VerifiedProven'
  <2>1. Verifications /\ VerifiedProven /\ UNCHANGED vars => Verifications' /\ VerifiedProven'
    BY DEF vars, history, Verifications, VerifiedProven, Asked, Await, Users
  <2> QED BY <2>1, VerificationsStep, VerifiedProvenStep
<1> QED BY <1>1, <1>2, BaseInvariant, OneLinkOneDocument, FoundHeld, PTL DEF Spec
=============================================================================
