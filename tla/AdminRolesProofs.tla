-------------------------- MODULE AdminRolesProofs --------------------------
(***************************************************************************)
(* Theorems about AdminRoles, for any number of users, roles, applications *)
(* and requests, with start-ups, requests that die and restarts.           *)
(***************************************************************************)
EXTENDS AdminRoles, TLAPS, FiniteSetTheorems

-----------------------------------------------------------------------------
(* Types *)

\* What a handler's locals say of the collections.
Local(q, rs, us) ==
  /\ q.pc = "newRole" => q.role \in Role
  /\ q.pc \in {"findUser", "count", "setRole"} => q.role \in rs
  /\ q.pc \in {"count", "setRole"} => q.user \in us
  /\ q.pc = "setApp" => q.user \in User /\ q.found[q.user] \in Maps

ReqOK == /\ req \in [Req -> Request]
         /\ \A r \in Req : Local(req[r], roles, users)

DataOK ==
  /\ boot \in {"roles", "apps", "owner", "up"}
  /\ roles \subseteq Role /\ users \subseteq User
  /\ role_id \in [User -> roles \cup {Nil}]
  /\ \A u \in users : role_id[u] # Nil
  /\ app_roles \in [User -> Maps]
  /\ clients \in [App -> ClientDoc \cup {NoDoc}]
  /\ overlapped \in BOOLEAN
  /\ tainted \subseteq User \X App
  /\ boot # "roles" => Seeds \subseteq roles

Base == DataOK /\ ReqOK

LEMMA BaseIsTyped == Base => TypeOK
BY DEF Base, DataOK, ReqOK, TypeOK

LEMMA IdleOK == Idle \in Request /\ \A rs, us : Local(Idle, rs, us)
BY DEF Idle, Request, PCs, Unread, Local, Maps

LEMMA InitBase == Init => Base
<1> SUFFICES ASSUME Init PROVE Base
  OBVIOUS
<1>1. NoRoles \in Maps
  BY DEF NoRoles, Maps
<1>2. DataOK
  BY <1>1 DEF Init, DataOK
<1>3. ReqOK
  BY IdleOK DEF Init, ReqOK
<1> QED BY <1>2, <1>3 DEF Base

\* A handler that moves on with good locals, while roles and users only grow.
LEMMA MoveOn ==
  ASSUME ReqOK, NEW r \in Req, NEW q \in Request, Local(q, roles', users'),
         req' = [req EXCEPT ![r] = q],
         roles \subseteq roles', users \subseteq users'
  PROVE  ReqOK'
BY DEF ReqOK, Local

LEMMA EndsOK ==
  ASSUME ReqOK, NEW r \in Req, Finish(r), roles \subseteq roles', users \subseteq users'
  PROVE  ReqOK'
BY MoveOn, IdleOK DEF Finish

LEMMA GoesOK ==
  ASSUME ReqOK, NEW r \in Req, NEW pc \in PCs, Goto(r, pc),
         Local([req[r] EXCEPT !.pc = pc], roles', users'),
         roles \subseteq roles', users \subseteq users'
  PROVE  ReqOK'
<1> DEFINE q == [req[r] EXCEPT !.pc = pc]
<1>1. q \in Request
  BY DEF ReqOK, Request
<1>2. req' = [req EXCEPT ![r] = q]
  BY DEF Goto, ReqOK
<1> HIDE DEF q
<1> QED BY <1>1, <1>2, MoveOn DEF q

LEMMA ReadsKeep == DataOK /\ Reads => DataOK' /\ roles' = roles /\ users' = users
BY DEF DataOK, Reads, accounts

LEMMA TaintTyped == ASSUME NEW pairs, Taint(pairs) PROVE tainted' \subseteq User \X App
BY DEF Taint, Excess

\* The whole map of a user is written.
LEMMA WriteBackKeeps ==
  ASSUME DataOK, NEW u, NEW was, NEW now \in Maps, NEW a, WriteBack(u, was, now, a)
  PROVE  DataOK' /\ roles' = roles /\ users' = users
<1>1. tainted' \subseteq User \X App
  BY TaintTyped DEF WriteBack
<1>2. app_roles' \in [User -> Maps]
  BY DEF WriteBack, DataOK
<1> QED BY <1>1, <1>2 DEF WriteBack, DataOK

LEMMA PutClientKeeps ==
  ASSUME DataOK, NEW a, NEW doc \in ClientDoc \cup {NoDoc}, PutClient(a, doc)
  PROVE  DataOK' /\ roles' = roles /\ users' = users
<1>1. tainted' \subseteq User \X App
  BY TaintTyped DEF PutClient
<1>2. clients' \in [App -> ClientDoc \cup {NoDoc}]
  BY DEF PutClient, DataOK
<1> QED BY <1>1, <1>2 DEF PutClient, DataOK, accounts

LEMMA AddUserKeeps ==
  ASSUME DataOK, NEW u \in User, NEW role \in roles, AddUser(u, role),
         boot' \in {"roles", "apps", "owner", "up"}, Seeds \subseteq roles
  PROVE  DataOK' /\ roles' = roles /\ users \subseteq users'
<1>1. role # Nil
  BY NilAssumption DEF DataOK
<1> QED BY <1>1 DEF AddUser, DataOK
-----------------------------------------------------------------------------
(* Every step keeps the types *)

LEMMA ArriveBase ==
  ASSUME Base, NEW r \in Req, Arrive(r) PROVE Base'
<1> USE DEF Base
<1> DEFINE Enters(q) == q \in Request /\ Local(q, roles, users)
<1>1. ASSUME NEW op, NEW q, Enters(q), Admit(r, op, q), DataOK', roles' = roles, users' = users
      PROVE  Base'
  BY <1>1, MoveOn DEF Admit
<1>2. ASSUME NEW role \in Role, Admit(r, "newRole", [Idle EXCEPT !.pc = "newRole", !.role = role]),
             Reads
      PROVE  Base'
  <2>1. Enters([Idle EXCEPT !.pc = "newRole", !.role = role])
    BY IdleOK DEF Idle, Request, PCs, Local
  <2> QED BY <1>1, <1>2, <2>1, ReadsKeep
<1>3. ASSUME NEW role \in Role, NEW u \in User, ChangeRole(r, u, role)
      PROVE  Base'
  <2>1. Enters([Idle EXCEPT !.pc = "findRole", !.user = u, !.role = role])
    BY IdleOK DEF Idle, Request, PCs, Local
  <2>2. DataOK' /\ roles' = roles /\ users' = users
    <3>1. boot' = boot
      BY <1>3 DEF ChangeRole
    <3>2. overlapped' \in BOOLEAN
      BY <1>3 DEF ChangeRole
    <3> QED BY <1>3, <3>1, <3>2 DEF ChangeRole, DataOK, accounts
  <2> QED BY <1>1, <1>3, <2>1, <2>2 DEF ChangeRole
<1>4. ASSUME NEW a \in App, NEW wanted \in SUBSET AppRole
      PROVE  LET call == [Idle EXCEPT !.app = a, !.wanted = wanted] IN
             /\ \A u \in User : Enters([call EXCEPT !.pc = "findApp", !.user = u])
             /\ Enters([call EXCEPT !.pc = "newApp"])
             /\ Enters([call EXCEPT !.pc = "updateApp"])
             /\ Enters([call EXCEPT !.pc = "deleteApp"])
  <2> DEFINE call == [Idle EXCEPT !.app = a, !.wanted = wanted]
  <2>1. call \in Request
    BY IdleOK DEF Request
  <2> HIDE DEF call
  <2>2. ASSUME NEW u \in User PROVE Enters([call EXCEPT !.pc = "findApp", !.user = u])
    BY <2>1 DEF Request, PCs, Local
  <2>3. ASSUME NEW pc \in {"newApp", "updateApp", "deleteApp"} PROVE Enters([call EXCEPT !.pc = pc])
    BY <2>1 DEF Request, PCs, Local
  <2> HIDE DEF Enters
  <2>4. /\ \A u \in User : Enters([call EXCEPT !.pc = "findApp", !.user = u])
        /\ Enters([call EXCEPT !.pc = "newApp"])
        /\ Enters([call EXCEPT !.pc = "updateApp"])
        /\ Enters([call EXCEPT !.pc = "deleteApp"])
    BY <2>2, <2>3
  <2> QED BY <2>4 DEF call
<1>6. ASSUME NEW op, NEW q, Enters(q), Admit(r, op, q), Reads PROVE Base'
  BY <1>1, <1>6, ReadsKeep
<1> HIDE DEF Enters
<1> QED BY <1>2, <1>3, <1>4, <1>6 DEF Arrive

LEMMA StepBase ==
  ASSUME Base, NEW r \in Req, Step(r) PROVE Base'
<1> USE DEF Base
<1> DEFINE q == req[r]
<1>0. q \in Request /\ Local(q, roles, users)
  BY DEF ReqOK
<1>1. CASE NewRole(r)
  <2>1. q.role \in Role
    BY <1>0, <1>1 DEF NewRole, Await, Local
  <2>2. DataOK'
    BY <1>1, <2>1 DEF NewRole, DataOK, accounts
  <2> QED BY <1>1, <2>2, EndsOK DEF NewRole, accounts
<1>2. CASE FindRole(r)
  <2>1. q.role \in roles => Local([q EXCEPT !.pc = "findUser"], roles, users)
    BY <1>0 DEF Local, Request
  <2> QED BY <1>2, <2>1, ReadsKeep, EndsOK, GoesOK DEF FindRole, PCs
<1>3. CASE FindUser(r)
  <2>1. q.user \in users => \A pc \in {"count", "setRole"} :
                              Local([q EXCEPT !.pc = pc], roles, users)
    BY <1>0, <1>3 DEF Local, Request, FindUser, Await
  <2> QED BY <1>3, <2>1, ReadsKeep, EndsOK, GoesOK DEF FindUser, PCs
<1>4. CASE CountOwners(r)
  <2>1. Local([q EXCEPT !.pc = "setRole"], roles, users)
    BY <1>0, <1>4 DEF Local, Request, CountOwners, Await
  <2> QED BY <1>4, <2>1, ReadsKeep, EndsOK, GoesOK DEF CountOwners, PCs
<1>5. CASE SetRole(r)
  <2>1. q.role \in roles /\ q.role # Nil
    BY <1>0, <1>5, NilAssumption DEF SetRole, Await, Local, DataOK
  <2>2. DataOK'
    BY <1>5, <2>1 DEF SetRole, DataOK
  <2> QED BY <1>5, <2>2, EndsOK DEF SetRole
<1>6. CASE FindApp(r)
  <2>1. Local([q EXCEPT !.pc = "findHolder"], roles, users)
    BY <1>0 DEF Local, Request
  <2> QED BY <1>6, <2>1, ReadsKeep, EndsOK, GoesOK DEF FindApp, PCs
<1>7. CASE FindHolder(r)
  <2>1. CASE q.user \in users
    <3> DEFINE map == [Unread EXCEPT ![q.user] = app_roles[q.user]]
               n == [q EXCEPT !.pc = "setApp", !.found = map]
    <3>1. q.user \in User /\ app_roles[q.user] \in Maps
      BY <2>1 DEF DataOK
    <3>2. map \in [User -> Maps \cup {NoDoc}] /\ map[q.user] \in Maps
      BY <3>1 DEF Unread
    <3> HIDE DEF map
    <3>3. n \in Request /\ Local(n, roles, users)
      BY <1>0, <3>1, <3>2 DEF Request, PCs, Local
    <3>4. req' = [req EXCEPT ![r] = n]
      BY <1>7, <2>1 DEF FindHolder, ReqOK, map
    <3> QED BY <1>7, <3>3, <3>4, ReadsKeep, MoveOn DEF FindHolder
  <2>2. CASE q.user \notin users
    BY <1>7, <2>2, ReadsKeep, EndsOK DEF FindHolder
  <2> QED BY <2>1, <2>2
<1>8. CASE SetAppRoles(r)
  <2> DEFINE was == q.found[q.user]
             now == [was EXCEPT ![q.app] = q.wanted]
  <2>1. was \in Maps
    BY <1>0, <1>8 DEF SetAppRoles, Await, Local
  <2>2. now \in Maps
    BY <1>0, <2>1 DEF Maps, Request
  <2>3. WriteBack(q.user, was, now, q.app) /\ Finish(r)
    BY <1>8 DEF SetAppRoles
  <2> HIDE DEF was, now
  <2> QED BY <2>2, <2>3, WriteBackKeeps, EndsOK
<1>9. CASE CreateClient(r)
  <2>1. [roles |-> q.wanted] \in ClientDoc
    BY <1>0 DEF Request, ClientDoc
  <2> QED BY <1>9, <2>1, ReadsKeep, PutClientKeeps, EndsOK DEF CreateClient
<1>10. CASE UpdateClient(r)
  <2>1. [roles |-> q.wanted] \in ClientDoc
    BY <1>0 DEF Request, ClientDoc
  <2>2. Local([q EXCEPT !.pc = "list"], roles, users)
    BY <1>0 DEF Local, Request
  <2> QED BY <1>10, <2>1, <2>2, ReadsKeep, PutClientKeeps, EndsOK, GoesOK DEF UpdateClient, PCs
<1>11. CASE ListHolders(r)
  <2> DEFINE cut == {u \in User : ~(app_roles[u][q.app] \subseteq q.wanted)}
             map == [u \in User |-> IF u \in cut THEN app_roles[u] ELSE NoDoc]
             n == [q EXCEPT !.pc = "prune", !.found = map]
  <2>1. Reads /\ (Finish(r) \/ req' = [req EXCEPT ![r].pc = "prune", ![r].found = map])
    BY <1>11 DEF ListHolders
  <2>2. map \in [User -> Maps \cup {NoDoc}]
    BY DEF DataOK
  <2> HIDE DEF map
  <2>3. n \in Request /\ Local(n, roles, users)
    BY <1>0, <2>2 DEF Request, PCs, Local
  <2>4. Finish(r) \/ req' = [req EXCEPT ![r] = n]
    BY <2>1 DEF ReqOK
  <2> HIDE DEF n
  <2> QED BY <2>1, <2>3, <2>4, ReadsKeep, MoveOn, EndsOK
<1>12. ASSUME NEW u \in User, Prune(r, u) PROVE Base'
  <2> DEFINE was == q.found[u]
             now == [was EXCEPT ![q.app] = @ \cap q.wanted]
             left == [q.found EXCEPT ![u] = NoDoc]
             n == [q EXCEPT !.found = left]
  <2>1. was \in Maps
    BY <1>0, <1>12 DEF Prune, Request
  <2>2. now \in Maps
    BY <2>1 DEF Maps
  <2>3. WriteBack(u, was, now, q.app)
    BY <1>12 DEF Prune
  <2>4. left \in [User -> Maps \cup {NoDoc}]
    BY <1>0 DEF Request
  <2>5. Finish(r) \/ req' = [req EXCEPT ![r].found = left]
    BY <1>12 DEF Prune
  <2>6. q.pc = "prune"
    BY <1>12 DEF Prune, Await
  <2> HIDE DEF was, now, left
  <2>7. n \in Request /\ Local(n, roles, users)
    BY <1>0, <2>4, <2>6 DEF Request, Local
  <2>8. Finish(r) \/ req' = [req EXCEPT ![r] = n]
    BY <2>5 DEF ReqOK
  <2> QED BY <2>2, <2>3, <2>7, <2>8, WriteBackKeeps, EndsOK, MoveOn
<1>13. CASE DeleteClient(r)
  <2>1. Local([q EXCEPT !.pc = "unset"], roles, users)
    BY <1>0 DEF Local, Request
  <2> QED BY <1>13, <2>1, ReadsKeep, PutClientKeeps, EndsOK, GoesOK DEF DeleteClient, PCs
<1>14. CASE UnsetApp(r)
  <2>1. app_roles' \in [User -> Maps]
    BY <1>14 DEF UnsetApp, DataOK, Maps
  <2>2. DataOK'
    BY <1>14, <2>1, TaintTyped DEF UnsetApp, DataOK
  <2> QED BY <1>14, <2>2, EndsOK DEF UnsetApp
<1> QED BY <1>1, <1>2, <1>3, <1>4, <1>5, <1>6, <1>7, <1>8, <1>9, <1>10, <1>11, <1>12,
           <1>13, <1>14 DEF Step

\* Every request is idle, or r alone becomes so.
LEMMA AbortBase ==
  ASSUME Base, NEW r \in Req, Abort(r) PROVE Base'
<1>1. DataOK'
  BY TaintTyped DEF Base, Abort, DataOK, accounts
<1> QED BY <1>1, EndsOK DEF Base, Abort, accounts

LEMMA RestartBase ==
  ASSUME Base, Restart PROVE Base'
<1>1. DataOK'
  BY TaintTyped DEF Base, Restart, DataOK, accounts
<1>2. ReqOK'
  BY IdleOK DEF Restart, ReqOK
<1> QED BY <1>1, <1>2 DEF Base

LEMMA EnvironmentBase ==
  ASSUME Base, Startup \/ \E u \in User : Signup(u) PROVE Base'
<1> USE DEF Base
<1> DEFINE Grows == UNCHANGED req /\ roles \subseteq roles' /\ users \subseteq users'
<1>1. Grows => ReqOK'
  BY DEF ReqOK, Local
<1>2. ASSUME NEW n \in Seeds, SeedRole(n) PROVE Base'
  <2>1. n \in Role
    BY RoleAssumption
  <2>2. DataOK'
    BY <1>2, <2>1 DEF SeedRole, DataOK, accounts
  <2> QED BY <1>1, <1>2, <2>2 DEF SeedRole, accounts
<1>3. ASSUME NEW a \in FirstParty, SeedClient(a) PROVE Base'
  <2>1. [roles |-> {Admin}] \in ClientDoc
    BY AppAssumption DEF ClientDoc
  <2>2. clients' \in [App -> ClientDoc \cup {NoDoc}]
    BY <1>3, <2>1 DEF SeedClient, DataOK
  <2>3. DataOK'
    BY <1>3, <2>2, TaintTyped DEF SeedClient, DataOK, accounts
  <2> QED BY <1>1, <1>3, <2>3 DEF SeedClient, accounts
<1>4. CASE SeedOwner
  <2>1. boot = "owner" /\ boot' = "up" /\ UNCHANGED req /\ Seeds \subseteq roles
    BY <1>4 DEF SeedOwner, DataOK
  <2>2. Owner \in roles
    BY <2>1, RoleAssumption
  <2>3. ASSUME NEW u \in User, AddUser(u, Owner) PROVE Base'
    BY <1>1, <2>1, <2>2, <2>3, AddUserKeeps
  <2>4. ASSUME UNCHANGED <<roles, accounts, clients, overlapped, tainted>> PROVE Base'
    <3>1. DataOK'
      BY <2>1, <2>4 DEF DataOK, accounts
    <3> QED BY <1>1, <2>1, <2>4, <3>1 DEF accounts
  <2> QED BY <1>4, <2>3, <2>4 DEF SeedOwner
<1>5. ASSUME NEW u \in User, Signup(u) PROVE Base'
  <2>1. boot = "up" /\ boot' = "up" /\ UNCHANGED req /\ Seeds \subseteq roles
    BY <1>5 DEF Signup, DataOK
  <2>2. Default \in roles
    BY <2>1, RoleAssumption
  <2> QED BY <1>1, <1>5, <2>1, <2>2, AddUserKeeps DEF Signup
<1> QED BY <1>2, <1>3, <1>4, <1>5 DEF Startup

LEMMA NextBase == Base /\ [Next]_vars => Base'
<1> SUFFICES ASSUME Base, [Next]_vars PROVE Base'
  OBVIOUS
<1>1. CASE UNCHANGED vars
  BY <1>1 DEF vars, accounts, Base, DataOK, ReqOK, Local
<1>2. CASE Next
  BY <1>2, ArriveBase, StepBase, AbortBase, RestartBase, EnvironmentBase DEF Next
<1> QED BY <1>1, <1>2

\* The collections and the handlers' locals keep their types; an account only
\* ever names a role that exists, and has one.
THEOREM RolesTypeCorrect == Spec => []TypeOK
<1>1. Spec => []Base
  BY InitBase, NextBase, PTL DEF Spec
<1> QED BY <1>1, BaseIsTyped, PTL
-----------------------------------------------------------------------------
(* An owner remains *)

\* One change of a role at a time, and a demotion that was let through leaves
\* another owner.
OneByOne ==
  /\ \A r, s \in Req : ChangesRole(r) /\ ChangesRole(s) => r = s
  /\ \A r \in Req : Await(r, "setRole") /\ Demotes(req[r].user, req[r].role) =>
       \E v \in Owners : v # req[r].user

OwnerInv == overlapped \/ OneByOne

LEMMA InitOwner == Init => OwnerInv
BY DEF Init, OwnerInv, OneByOne, ChangesRole, Await, Idle

\* A step that is not about roles, or takes a change of one a call further
\* back, keeps the invariant.
LEMMA NotAboutRoles ==
  ASSUME OwnerInv, UNCHANGED <<users, role_id, overlapped>>,
         \A s \in Req : ChangesRole(s)' => req'[s] = req[s]
  PROVE  OwnerInv'
<1>1. \A s \in Req : ChangesRole(s)' => ChangesRole(s)
  BY DEF ChangesRole
<1>2. \A s \in Req : Await(s, "setRole")' => Await(s, "setRole") /\ req'[s] = req[s]
  BY DEF ChangesRole, Await
<1>3. Owners' = Owners
  BY DEF Owners
<1>4. \A u, role : Demotes(u, role)' = Demotes(u, role)
  BY DEF Demotes
<1> QED BY <1>1, <1>2, <1>3, <1>4 DEF OwnerInv, OneByOne, Demotes

\* Only r moves, and it awaits nothing about roles afterwards.
LEMMA MovesElsewhere ==
  ASSUME OwnerInv, UNCHANGED <<users, role_id, overlapped>>, NEW r \in Req,
         \A s \in Req \ {r} : req'[s] = req[s], ~ChangesRole(r)'
  PROVE  OwnerInv'
BY NotAboutRoles

\* A request to change a role takes the next call, and may have to show that
\* another owner is there.
LEMMA RoleStep ==
  ASSUME Base, OwnerInv, UNCHANGED <<users, role_id, overlapped>>, NEW r \in Req,
         ChangesRole(r), \A s \in Req \ {r} : req'[s] = req[s],
         (Await(r, "setRole") /\ Demotes(req[r].user, req[r].role))'
            => \E v \in Owners : v # req'[r].user
  PROVE  OwnerInv'
<1>1. SUFFICES ASSUME OneByOne PROVE OneByOne'
  BY DEF OwnerInv
<1>2. Owners' = Owners
  BY DEF Owners
<1>3. \A s \in Req : ChangesRole(s) => s = r
  BY <1>1 DEF OneByOne
<1>4. \A s \in Req : ChangesRole(s)' => s = r
  BY <1>3 DEF ChangesRole
<1>5. \A s \in Req : Await(s, "setRole")' => s = r
  BY <1>4 DEF Await, ChangesRole
<1> QED BY <1>2, <1>4, <1>5 DEF OneByOne

LEMMA AnotherOwner ==
  ASSUME Base, ~(Cardinality(Owners) <= 1), NEW u
  PROVE  \E v \in Owners : v # u
<1> SUFFICES ASSUME Owners \subseteq {u} PROVE FALSE
  OBVIOUS
<1>1. IsFiniteSet({u}) /\ Cardinality({u}) = 1
  BY FS_Singleton
<1>2. Cardinality(Owners) <= 1
  BY <1>1, FS_Subset
<1> QED BY <1>2

LEMMA AddUserOwner ==
  ASSUME Base, OwnerInv, NEW u \in User \ users, NEW role, AddUser(u, role), UNCHANGED req
  PROVE  OwnerInv' /\ Owners \subseteq Owners'
<1>1. Owners \subseteq Owners'
  BY DEF AddUser, Owners, Base, DataOK
<1>2. \A r \in Req : Await(r, "setRole") => req[r].user \in users
  BY DEF Base, ReqOK, Local, Await
<1>3. \A v \in users : \A w : Demotes(v, w)' <=> Demotes(v, w)
  BY DEF AddUser, Demotes, Base, DataOK
<1>4. \A r \in Req : /\ ChangesRole(r)' = ChangesRole(r)
                     /\ Await(r, "setRole")' = Await(r, "setRole")
  BY DEF ChangesRole, Await
<1>5. ASSUME OneByOne PROVE OneByOne'
  BY <1>1, <1>2, <1>3, <1>4, <1>5 DEF OneByOne
<1>6. overlapped' = overlapped
  BY DEF AddUser
<1> QED BY <1>1, <1>5, <1>6 DEF OwnerInv

LEMMA ArriveOwner ==
  ASSUME Base, OwnerInv, NEW r \in Req, Arrive(r) PROVE OwnerInv'
<1> DEFINE Elsewhere(q) == q.pc \in {"newRole", "findApp", "newApp", "updateApp", "deleteApp"}
<1>0. req \in [Req -> Request]
  BY DEF Base, ReqOK
<1>1. ASSUME NEW op, NEW q, Elsewhere(q), Admit(r, op, q), Reads PROVE OwnerInv'
  <2>1. req'[r] = q /\ \A s \in Req \ {r} : req'[s] = req[s]
    BY <1>0, <1>1 DEF Admit
  <2>2. ~ChangesRole(r)'
    BY <1>1, <2>1 DEF ChangesRole
  <2> QED BY <1>1, <2>1, <2>2, MovesElsewhere DEF Reads, accounts
<1>2. ASSUME NEW u \in User, NEW role \in Role, ChangeRole(r, u, role) PROVE OwnerInv'
  <2>1. SUFFICES ASSUME ~overlapped' PROVE OneByOne'
    BY DEF OwnerInv
  <2>2. \A s \in Req : ~ChangesRole(s)
    BY <1>2, <2>1 DEF ChangeRole
  <2>3. req'[r].pc = "findRole" /\ \A s \in Req \ {r} : req'[s] = req[s]
    BY <1>0, <1>2 DEF ChangeRole, Admit, Idle
  <2>4. \A s \in Req : (ChangesRole(s)' => s = r) /\ ~Await(s, "setRole")'
    BY <2>2, <2>3 DEF ChangesRole, Await
  <2> QED BY <2>4 DEF OneByOne
<1>3. \A role, a, wanted, u :
        LET call == [Idle EXCEPT !.app = a, !.wanted = wanted] IN
        /\ Elsewhere([Idle EXCEPT !.pc = "newRole", !.role = role])
        /\ Elsewhere([call EXCEPT !.pc = "findApp", !.user = u])
        /\ Elsewhere([call EXCEPT !.pc = "newApp"])
        /\ Elsewhere([call EXCEPT !.pc = "updateApp"])
        /\ Elsewhere([call EXCEPT !.pc = "deleteApp"])
  BY DEF Idle
<1> HIDE DEF Elsewhere
<1> QED BY <1>1, <1>2, <1>3 DEF Arrive

LEMMA StepOwner ==
  ASSUME Base, OwnerInv, NEW r \in Req, Step(r) PROVE OwnerInv'
<1> DEFINE q == req[r]
           Others == \A s \in Req \ {r} : req'[s] = req[s]
           Same == UNCHANGED <<users, role_id, overlapped>>
<1>0. req \in [Req -> Request]
  BY DEF Base, ReqOK
<1>a. Finish(r) => Others /\ req'[r].pc = "idle"
  BY <1>0 DEF Finish, Idle
<1>b. \A pc : Goto(r, pc) => /\ Others /\ req'[r].pc = pc
                            /\ req'[r].user = q.user /\ req'[r].role = q.role
  BY <1>0 DEF Goto, Request
<1>c. Reads => Same
  BY DEF Reads, accounts
<1>d. \A u, was, now, a : WriteBack(u, was, now, a) => Same
  BY DEF WriteBack
<1>e. \A a, doc : PutClient(a, doc) => Same
  BY DEF PutClient, accounts
<1>f. \A u, role : Demotes(u, role) <=> role_id[u] = Owner /\ role # Owner
  BY DEF Demotes
<1>1. CASE NewRole(r)
  <2>1. Same /\ Others /\ ~ChangesRole(r)'
    BY <1>1, <1>a DEF NewRole, ChangesRole, accounts
  <2> QED BY <2>1, MovesElsewhere
<1>2. CASE FindRole(r)
  <2>1. Same /\ Others /\ ChangesRole(r) /\ ~Await(r, "setRole")'
    BY <1>2, <1>a, <1>b, <1>c DEF FindRole, ChangesRole, Await
  <2> QED BY <2>1, RoleStep
<1>3. CASE FindUser(r)
  <2>1. Same /\ Others /\ ChangesRole(r)
    BY <1>3, <1>a, <1>b, <1>c DEF FindUser, ChangesRole, Await
  <2>2. Await(r, "setRole")' => ~Demotes(req[r].user, req[r].role)'
    BY <1>3, <1>a, <1>b, <2>1 DEF FindUser, Await, Demotes
  <2> QED BY <2>1, <2>2, RoleStep
<1>4. CASE CountOwners(r)
  <2>1. Same /\ Others /\ ChangesRole(r)
    BY <1>4, <1>a, <1>b, <1>c DEF CountOwners, ChangesRole, Await
  <2>2. Await(r, "setRole")' => \E v \in Owners : v # req'[r].user
    BY <1>4, <1>a, AnotherOwner DEF CountOwners, Await
  <2> QED BY <2>1, <2>2, RoleStep
<1>5. CASE SetRole(r)
  <2>1. SUFFICES ASSUME OneByOne PROVE OneByOne'
    BY <1>5 DEF OwnerInv, SetRole
  <2>2. Others /\ req'[r].pc = "idle" /\ ChangesRole(r)
    BY <1>5, <1>a DEF SetRole, ChangesRole, Await
  <2>3. \A s \in Req : ~ChangesRole(s)'
    BY <2>1, <2>2 DEF OneByOne, ChangesRole
  <2> QED BY <2>3 DEF OneByOne, ChangesRole, Await
<1>6. CASE FindApp(r) \/ FindHolder(r) \/ ListHolders(r)
  <2>1. Same /\ Others /\ ~ChangesRole(r)'
    BY <1>6, <1>0, <1>a, <1>b, <1>c
    DEF FindApp, FindHolder, ListHolders, ChangesRole, Request
  <2> QED BY <2>1, MovesElsewhere
<1>7. CASE SetAppRoles(r)
  <2>1. Same /\ Others /\ ~ChangesRole(r)'
    BY <1>7, <1>a, <1>d DEF SetAppRoles, ChangesRole
  <2> QED BY <2>1, MovesElsewhere
<1>8. CASE CreateClient(r) \/ UpdateClient(r) \/ DeleteClient(r)
  <2>1. Same /\ Others /\ ~ChangesRole(r)'
    BY <1>8, <1>a, <1>b, <1>c, <1>e
    DEF CreateClient, UpdateClient, DeleteClient, ChangesRole
  <2> QED BY <2>1, MovesElsewhere
<1>9. ASSUME NEW u \in User, Prune(r, u) PROVE OwnerInv'
  <2>1. Same
    BY <1>9, <1>d DEF Prune
  <2>2. Others /\ ~ChangesRole(r)'
    BY <1>9, <1>0, <1>a DEF Prune, ChangesRole, Await, Request
  <2> QED BY <2>1, <2>2, MovesElsewhere
<1>10. CASE UnsetApp(r)
  <2>1. Same /\ Others /\ ~ChangesRole(r)'
    BY <1>10, <1>a DEF UnsetApp, ChangesRole
  <2> QED BY <2>1, MovesElsewhere
<1> QED BY <1>1, <1>2, <1>3, <1>4, <1>5, <1>6, <1>7, <1>8, <1>9, <1>10 DEF Step

LEMMA OthersOwner ==
  ASSUME Base, OwnerInv, Startup \/ Restart \/ (\E u \in User : Signup(u))
                           \/ \E r \in Req : Abort(r)
  PROVE  OwnerInv'
<1>1. CASE Restart
  <2>1. \A s \in Req : ~ChangesRole(s)'
    BY <1>1 DEF Restart, ChangesRole, Idle
  <2> QED BY <1>1, <2>1, NotAboutRoles DEF Restart, accounts
<1>2. ASSUME NEW r \in Req, Abort(r) PROVE OwnerInv'
  <2>1. ~ChangesRole(r)' /\ \A s \in Req \ {r} : req'[s] = req[s]
    BY <1>2 DEF Abort, Finish, ChangesRole, Idle, Base, ReqOK
  <2> QED BY <1>2, <2>1, MovesElsewhere DEF Abort, accounts
<1>3. ASSUME UNCHANGED <<users, role_id, overlapped, req>> PROVE OwnerInv'
  BY <1>3, NotAboutRoles
<1>4. ASSUME NEW u \in User, Signup(u) PROVE OwnerInv'
  BY <1>4, AddUserOwner DEF Signup
<1>5. CASE SeedOwner
  BY <1>3, <1>5, AddUserOwner DEF SeedOwner, accounts
<1>6. CASE (\E a \in FirstParty : SeedClient(a)) \/ \E n \in Seeds : SeedRole(n)
  BY <1>3, <1>6 DEF SeedClient, SeedRole, accounts
<1> QED BY <1>1, <1>2, <1>4, <1>5, <1>6 DEF Startup

LEMMA NextOwner == Base /\ OwnerInv /\ [Next]_vars => OwnerInv'
<1> SUFFICES ASSUME Base, OwnerInv, [Next]_vars PROVE OwnerInv'
  OBVIOUS
<1>1. CASE UNCHANGED vars
  BY <1>1, NotAboutRoles DEF vars, accounts
<1>2. CASE Next
  BY <1>2, ArriveOwner, StepOwner, OthersOwner DEF Next
<1> QED BY <1>1, <1>2

\* Only SetRole takes the owner role from anyone.
LEMMA OwnersStay ==
  ASSUME Base, [Next]_vars, \A r \in Req : ~SetRole(r)
  PROVE  Owners \subseteq Owners'
<1>1. ASSUME UNCHANGED <<users, role_id>> PROVE Owners \subseteq Owners'
  BY <1>1 DEF Owners
<1>2. ASSUME NEW u \in User \ users, NEW role, AddUser(u, role) PROVE Owners \subseteq Owners'
  BY <1>2 DEF AddUser, Owners, Base, DataOK
<1>3. CASE UNCHANGED vars
  BY <1>1, <1>3 DEF vars, accounts
<1>4. ASSUME NEW r \in Req, Arrive(r) PROVE Owners \subseteq Owners'
  BY <1>1, <1>4 DEF Arrive, ChangeRole, Reads, accounts
<1>5. ASSUME NEW r \in Req, Step(r) PROVE Owners \subseteq Owners'
  <2>1. UNCHANGED <<users, role_id>>
    BY <1>5 DEF Step, NewRole, FindRole, FindUser, CountOwners, FindApp, FindHolder,
      SetAppRoles, CreateClient, UpdateClient, ListHolders, Prune, DeleteClient, UnsetApp,
      WriteBack, PutClient, Reads, accounts
  <2> QED BY <1>1, <2>1
<1>6. ASSUME NEW r \in Req, Abort(r) PROVE Owners \subseteq Owners'
  BY <1>1, <1>6 DEF Abort, accounts
<1>7. CASE Restart
  BY <1>1, <1>7 DEF Restart, accounts
<1>8. CASE Startup
  BY <1>1, <1>2, <1>8 DEF Startup, SeedRole, SeedClient, SeedOwner, accounts
<1>9. ASSUME NEW u \in User, Signup(u) PROVE Owners \subseteq Owners'
  BY <1>2, <1>9 DEF Signup
<1> QED BY <1>3, <1>4, <1>5, <1>6, <1>7, <1>8, <1>9 DEF Next

LEMMA StepLeavesOwner ==
  ASSUME Base, OwnerInv, [Next]_vars
  PROVE  Owners # {} => Owners' # {} \/ overlapped
<1> SUFFICES ASSUME Owners # {}, ~overlapped PROVE Owners' # {}
  OBVIOUS
<1>1. CASE \A r \in Req : ~SetRole(r)
  BY <1>1, OwnersStay
<1>2. ASSUME NEW r \in Req, SetRole(r) PROVE Owners' # {}
  <2> DEFINE u == req[r].user
  <2>1. u \in users /\ u \in User
    BY <1>2 DEF SetRole, Await, Base, ReqOK, Local, DataOK
  <2>2. /\ users' = users /\ role_id'[u] = req[r].role
        /\ \A v \in User \ {u} : role_id'[v] = role_id[v]
    BY <1>2, <2>1 DEF SetRole, Base, DataOK
  <2>3. CASE req[r].role = Owner
    BY <2>1, <2>2, <2>3 DEF Owners
  <2>4. CASE role_id[u] = Owner /\ req[r].role # Owner
    <3>1. PICK v \in Owners : v # u
      BY <1>2, <2>4 DEF OwnerInv, OneByOne, Demotes, SetRole
    <3> QED BY <2>2, <3>1 DEF Owners, Base, DataOK
  <2>5. CASE role_id[u] # Owner
    BY <2>1, <2>2, <2>5 DEF Owners, Base, DataOK
  <2> QED BY <2>3, <2>4, <2>5
<1> QED BY <1>1, <1>2

\* "Cannot remove the last owner" holds as long as no two changes of a role have
\* been in flight at once: sign-ups, changes of anything else, requests that die
\* and restarts never take the last owner.
THEOREM AnOwnerRemains == Spec => OwnerKept
<1>1. Spec => [](Base /\ OwnerInv)
  BY InitBase, NextBase, InitOwner, NextOwner, PTL DEF Spec
<1>2. Base /\ OwnerInv /\ [Next]_vars => [Owners # {} => Owners' # {} \/ overlapped]_vars
  BY StepLeavesOwner
<1> QED BY <1>1, <1>2, PTL DEF Spec, OwnerKept
-----------------------------------------------------------------------------
(* App roles *)

LEMMA WriterOnly ==
  ASSUME Base, [Next]_vars, NEW u \in User, NEW a \in App,
         app_roles'[u][a] # app_roles[u][a]
  PROVE  \E r \in Req : req'[r] # req[r] /\ (req[r].app = a \/ ~Fresh(r, u))
<1>0. /\ app_roles \in [User -> Maps] /\ req \in [Req -> Request]
      /\ \A r \in Req : Local(req[r], roles, users)
  BY DEF Base, DataOK, ReqOK
<1>1. app_roles' # app_roles
  OBVIOUS
<1>2. PICK r \in Req : SetAppRoles(r) \/ (\E v \in User : Prune(r, v)) \/ UnsetApp(r)
  BY <1>1 DEF Next, vars, Startup, Restart, Signup, Arrive, Step, Abort, SeedRole, SeedClient,
    SeedOwner, AddUser, ChangeRole, Reads, NewRole, FindRole, FindUser, CountOwners, SetRole,
    FindApp, FindHolder, CreateClient, UpdateClient, ListHolders, DeleteClient, PutClient,
    accounts
<1> DEFINE q == req[r]
<1>3. CASE UnsetApp(r)
  <2>1. req'[r] # req[r]
    BY <1>0, <1>3 DEF UnsetApp, Await, Finish, Idle
  <2>2. q.app = a
    BY <1>0, <1>3 DEF UnsetApp, Maps
  <2> QED BY <2>1, <2>2
<1>4. CASE SetAppRoles(r)
  <2>1. req'[r] # req[r]
    BY <1>0, <1>4 DEF SetAppRoles, Await, Finish, Idle
  <2>2. q.user \in User /\ q.found[q.user] \in Maps
    BY <1>0, <1>4 DEF SetAppRoles, Await, Local
  <2>3. app_roles' = [app_roles EXCEPT ![q.user] = [q.found[q.user] EXCEPT ![q.app] = q.wanted]]
    BY <1>4 DEF SetAppRoles, WriteBack
  <2>4. u = q.user
    BY <1>0, <2>3
  <2>5. CASE q.app # a
    <3>1. app_roles'[u][a] = q.found[u][a]
      BY <1>0, <2>2, <2>3, <2>4, <2>5 DEF Maps
    <3>2. ~Fresh(r, u)
      BY <2>2, <2>4, <3>1, NilAssumption DEF Fresh
    <3> QED BY <2>1, <3>2
  <2> QED BY <2>1, <2>5
<1>5. ASSUME NEW v \in User, Prune(r, v)
      PROVE  req'[r] # req[r] /\ (q.app = a \/ ~Fresh(r, u))
  <2>1. q.found \in [User -> Maps \cup {NoDoc}] /\ q.found[v] # NoDoc /\ q.pc = "prune"
    BY <1>0, <1>5 DEF Prune, Await, Request
  <2>2. req'[r] # req[r]
    <3>1. CASE Finish(r)
      BY <1>0, <2>1, <3>1 DEF Finish, Idle
    <3>2. CASE req' = [req EXCEPT ![r].found = [q.found EXCEPT ![v] = NoDoc]]
      <4>1. req'[r].found = [q.found EXCEPT ![v] = NoDoc]
        BY <1>0, <3>2 DEF Request
      <4> QED BY <2>1, <4>1
    <3> QED BY <1>5, <3>1, <3>2 DEF Prune
  <2>3. app_roles' = [app_roles EXCEPT ![v] =
                        [q.found[v] EXCEPT ![q.app] = @ \cap q.wanted]]
    BY <1>5 DEF Prune, WriteBack
  <2>4. u = v
    BY <1>0, <2>3
  <2>5. CASE q.app # a
    <3>1. app_roles'[u][a] = q.found[u][a]
      BY <1>0, <2>1, <2>3, <2>4, <2>5 DEF Maps
    <3>2. ~Fresh(r, u)
      BY <2>1, <2>4, <3>1 DEF Fresh
    <3> QED BY <2>2, <3>2
  <2> QED BY <2>2, <2>5
<1> QED BY <1>2, <1>3, <1>4, <1>5

\* The roles of a user in one application change only at the hand of a request
\* about that application, or one whose copy of the user went stale.
THEOREM OtherApplicationsUntouched == Spec => OtherAppsKept
<1>1. Spec => []Base
  BY InitBase, NextBase, PTL DEF Spec
<1>2. Base /\ [Next]_vars =>
        [\A u \in User, a \in App : app_roles'[u][a] # app_roles[u][a] =>
           \E r \in Req : req'[r] # req[r] /\ (req[r].app = a \/ ~Fresh(r, u))]_vars
  BY WriterOnly
<1> QED BY <1>1, <1>2, PTL DEF Spec, OtherAppsKept
-----------------------------------------------------------------------------
(* App roles of roles an application no longer defines *)

\* Request r is going to cut pair p, and its list, if it has read it, has p's user.
Covers(r, p) ==
  /\ req[r].app = p[2]
  /\ \/ req[r].pc = "unset"
     \/ req[r].pc = "list" /\ ~(app_roles[p[1]][p[2]] \subseteq req[r].wanted)
     \/ req[r].pc = "prune" /\ req[r].found[p[1]] # NoDoc

Left == Excess(app_roles, clients) \ tainted
Covered == \A p \in Left : \E r \in Req : Covers(r, p)

Cutting == {"list", "prune", "unset"}

LEMMA CoveredIsDefined == Covered => DefinedOnly
BY DEF Covered, Left, Covers, DefinedOnly, WillCut, Await

LEMMA InitCovered == Init => Covered
<1> SUFFICES ASSUME Init, NEW p \in Left PROVE FALSE
  BY DEF Covered
<1>1. p \in User \X App /\ ~(app_roles[p[1]][p[2]] \subseteq DefinedIn(clients, p[2]))
  BY DEF Left, Excess
<1>2. app_roles[p[1]][p[2]] = {}
  BY <1>1 DEF Init, NoRoles
<1> QED BY <1>1, <1>2

\* What is left over was left over before, with the same roles, and is covered still.
LEMMA KeepCovered ==
  ASSUME Covered,
         \A p \in Left' : p \in Left /\ \A r \in Req : Covers(r, p) => Covers(r, p)'
  PROVE  Covered'
BY DEF Covered

\* Only r moves, and it was not cutting; no application defines less.
LEMMA NotCutting ==
  ASSUME Base, Covered, UNCHANGED <<app_roles, tainted>>, NEW r \in Req,
         UNCHANGED clients, \A s \in Req \ {r} : req'[s] = req[s], req[r].pc \notin Cutting
  PROVE  Covered'
<1>1. Left' = Left
  BY DEF Left, Excess
<1>2. \A p : \A s \in Req : Covers(s, p) => Covers(s, p)'
  BY DEF Covers, Cutting
<1> QED BY <1>1, <1>2, KeepCovered

\* What is left over after a write of the roles or the applications.
LEMMA LeftOver ==
  ASSUME NEW pairs, Taint(pairs), NEW p \in Left'
  PROVE  /\ p \notin tainted /\ p \notin pairs /\ p \in User \X App
         /\ ~(app_roles'[p[1]][p[2]] \subseteq DefinedIn(clients', p[2]))
<1>1. p \in Excess(app_roles', clients') /\ p \notin tainted'
  BY DEF Left
<1>2. p \notin tainted /\ p \notin pairs
  BY <1>1 DEF Taint
<1> QED BY <1>1, <1>2 DEF Excess

\* A pair whose roles were not written, of an application that defines no less.
LEMMA WasLeft ==
  ASSUME NEW p \in User \X App, p \notin tainted,
         app_roles'[p[1]][p[2]] = app_roles[p[1]][p[2]],
         ~(app_roles'[p[1]][p[2]] \subseteq DefinedIn(clients', p[2])),
         DefinedIn(clients, p[2]) \subseteq DefinedIn(clients', p[2])
  PROVE  p \in Left
BY DEF Left, Excess

LEMMA WriteBackLeaves ==
  ASSUME Base, NEW u \in User, NEW was \in Maps, NEW a, NEW own,
         WriteBack(u, was, [was EXCEPT ![a] = own], a), NEW p \in Left'
  PROVE  /\ p \in Left /\ p # <<u, a>>
         /\ app_roles'[p[1]][p[2]] = app_roles[p[1]][p[2]]
<1> DEFINE now == [was EXCEPT ![a] = own]
           pairs == {u} \X (IF was # app_roles[u] THEN App ELSE {a})
<1>0. app_roles \in [User -> Maps]
  BY DEF Base, DataOK
<1>1. Taint(pairs) /\ clients' = clients /\ app_roles' = [app_roles EXCEPT ![u] = now]
  BY DEF WriteBack
<1>2. /\ p \notin tainted /\ p \notin pairs /\ p \in User \X App
      /\ ~(app_roles'[p[1]][p[2]] \subseteq DefinedIn(clients', p[2]))
  BY <1>1, LeftOver
<1>3. p # <<u, a>>
  BY <1>2
<1>4. p[1] = u => was = app_roles[u] /\ p[2] # a
  BY <1>2
<1>5. app_roles'[p[1]][p[2]] = app_roles[p[1]][p[2]]
  BY <1>0, <1>1, <1>2, <1>4 DEF Maps
<1> QED BY <1>1, <1>2, <1>3, <1>5, WasLeft

LEMMA PruneCovers ==
  ASSUME Base, Covered, NEW r \in Req, NEW u \in User, Prune(r, u) PROVE Covered'
<1> DEFINE q == req[r]
           left == [q.found EXCEPT ![u] = NoDoc]
<1>0. req \in [Req -> Request] /\ q.found \in [User -> Maps \cup {NoDoc}]
  BY DEF Base, ReqOK, Request
<1>1. q.found[u] \in Maps /\ q.pc = "prune"
  BY <1>0 DEF Prune, Await
<1>2. \A p \in Left' : /\ p \in Left /\ p # <<u, q.app>>
                       /\ app_roles'[p[1]][p[2]] = app_roles[p[1]][p[2]]
  BY <1>1, WriteBackLeaves DEF Prune
<1>3. SUFFICES ASSUME NEW p \in Left', NEW s \in Req, Covers(s, p) PROVE Covers(s, p)'
  BY <1>2, KeepCovered
<1>4. p \in User \X App /\ app_roles'[p[1]][p[2]] = app_roles[p[1]][p[2]]
  BY <1>2 DEF Left, Excess
<1>5. CASE s # r
  <2>1. req'[s] = req[s]
    BY <1>0, <1>5 DEF Prune, Finish
  <2> QED BY <1>3, <1>4, <2>1 DEF Covers
<1>6. CASE s = r
  <2>1. p[1] # u /\ q.app = p[2] /\ q.found[p[1]] # NoDoc
    BY <1>1, <1>2, <1>3, <1>4, <1>6 DEF Covers
  <2>2. left[p[1]] # NoDoc /\ left # Unread
    BY <1>0, <1>4, <2>1 DEF Unread
  <2>3. req' = [req EXCEPT ![r].found = left]
    BY <2>2 DEF Prune
  <2>4. req'[r].app = q.app /\ req'[r].pc = q.pc /\ req'[r].found = left
    BY <1>0, <2>3 DEF Request
  <2> QED BY <1>1, <1>6, <2>1, <2>2, <2>4 DEF Covers
<1> QED BY <1>5, <1>6

LEMMA ListCovers ==
  ASSUME Base, Covered, NEW r \in Req, ListHolders(r) PROVE Covered'
<1> DEFINE q == req[r]
           cut == {u \in User : ~(app_roles[u][q.app] \subseteq q.wanted)}
           map == [u \in User |-> IF u \in cut THEN app_roles[u] ELSE NoDoc]
<1>0. req \in [Req -> Request] /\ app_roles \in [User -> Maps]
  BY DEF Base, ReqOK, DataOK
<1>1. UNCHANGED <<app_roles, clients, tainted>> /\ q.pc = "list"
  BY DEF ListHolders, Reads, accounts, Await
<1>2. Left' = Left
  BY <1>1 DEF Left, Excess
<1>3. SUFFICES ASSUME NEW p \in Left, NEW s \in Req, Covers(s, p) PROVE Covers(s, p)'
  BY <1>2, KeepCovered
<1>4. CASE s # r
  <2>1. req'[s] = req[s]
    BY <1>0, <1>4 DEF ListHolders, Finish
  <2> QED BY <1>1, <1>3, <2>1 DEF Covers
<1>5. CASE s = r
  <2>1. p[1] \in User /\ q.app = p[2] /\ p[1] \in cut
    BY <1>1, <1>3, <1>5 DEF Covers, Left, Excess
  <2>2. req' = [req EXCEPT ![r].pc = "prune", ![r].found = map]
    BY <2>1 DEF ListHolders
  <2>3. req'[r].pc = "prune" /\ req'[r].app = q.app /\ req'[r].found = map
    BY <1>0, <2>2 DEF Request
  <2>4. map[p[1]] = app_roles[p[1]] /\ map[p[1]] # NoDoc
    BY <1>0, <2>1, NilAssumption
  <2> HIDE DEF map, cut
  <2> QED BY <1>5, <2>1, <2>3, <2>4 DEF Covers
<1> QED BY <1>4, <1>5

LEMMA UnsetCovers ==
  ASSUME Base, Covered, NEW r \in Req, UnsetApp(r) PROVE Covered'
<1> DEFINE a == req[r].app
<1>0. app_roles \in [User -> Maps] /\ req \in [Req -> Request]
  BY DEF Base, ReqOK, DataOK
<1>1. Taint({}) /\ clients' = clients
  BY DEF UnsetApp
<1>2. SUFFICES ASSUME NEW p \in Left'
               PROVE  p \in Left /\ \A s \in Req : Covers(s, p) => Covers(s, p)'
  BY KeepCovered
<1>3. /\ p \notin tainted /\ p \in User \X App
      /\ ~(app_roles'[p[1]][p[2]] \subseteq DefinedIn(clients', p[2]))
  BY <1>1, LeftOver
<1>4. app_roles'[p[1]] = [app_roles[p[1]] EXCEPT ![a] = {}] /\ app_roles[p[1]] \in Maps
  BY <1>0, <1>3 DEF UnsetApp
<1>5. p[2] # a
  BY <1>3, <1>4 DEF Maps
<1>6. app_roles'[p[1]][p[2]] = app_roles[p[1]][p[2]]
  BY <1>4, <1>5 DEF Maps
<1>7. \A s \in Req : Covers(s, p) => s # r /\ req'[s] = req[s]
  BY <1>0, <1>5 DEF Covers, UnsetApp, Finish
<1> QED BY <1>1, <1>3, <1>6, <1>7, WasLeft DEF Covers

LEMMA PutCovers ==
  ASSUME Base, Covered, NEW r \in Req, NEW a, NEW doc \in ClientDoc \cup {NoDoc},
         PutClient(a, doc), \A s \in Req \ {r} : req'[s] = req[s], req[r].pc \notin Cutting,
         \/ DefinedIn(clients, a) \subseteq DefinedIn(clients', a)
         \/ /\ req'[r].app = a
            /\ \/ req'[r].pc = "unset"
               \/ req'[r].pc = "list" /\ req'[r].wanted = DefinedIn(clients', a)
  PROVE  Covered'
<1>1. Taint({}) /\ app_roles' = app_roles /\ clients' = [clients EXCEPT ![a] = doc]
  BY DEF PutClient, accounts
<1>2. SUFFICES ASSUME NEW p \in Left' PROVE \E s \in Req : Covers(s, p)'
  BY DEF Covered
<1>3. /\ p \notin tainted /\ p \in User \X App
      /\ ~(app_roles'[p[1]][p[2]] \subseteq DefinedIn(clients', p[2]))
  BY <1>1, LeftOver
<1>4. CASE DefinedIn(clients, p[2]) \subseteq DefinedIn(clients', p[2])
  <2>1. p \in Left
    BY <1>1, <1>3, <1>4, WasLeft
  <2>2. PICK s \in Req : Covers(s, p)
    BY <2>1 DEF Covered
  <2>3. s # r
    BY <2>2 DEF Covers, Cutting
  <2> QED BY <1>1, <2>2, <2>3 DEF Covers
<1>5. CASE ~(DefinedIn(clients, p[2]) \subseteq DefinedIn(clients', p[2]))
  <2>1. p[2] = a
    BY <1>1, <1>3, <1>5 DEF DefinedIn, Base, DataOK
  <2>2. Covers(r, p)'
    BY <1>1, <1>3, <1>5, <2>1 DEF Covers
  <2> QED BY <2>2
<1> QED BY <1>4, <1>5

LEMMA StepMoves ==
  ASSUME Base, NEW r \in Req, Arrive(r) \/ Step(r) PROVE \A s \in Req \ {r} : req'[s] = req[s]
<1>0. req \in [Req -> Request]
  BY DEF Base, ReqOK
<1>1. CASE Arrive(r)
  BY <1>0, <1>1 DEF Arrive, Admit, ChangeRole
<1>2. CASE Step(r)
  BY <1>0, <1>2 DEF Step, NewRole, FindRole, FindUser, CountOwners, SetRole, FindApp, FindHolder,
    SetAppRoles, CreateClient, UpdateClient, ListHolders, Prune, DeleteClient, UnsetApp,
    Finish, Goto
<1> QED BY <1>1, <1>2

LEMMA SetAppCovers ==
  ASSUME Base, Covered, NEW r \in Req, SetAppRoles(r) PROVE Covered'
<1> DEFINE q == req[r]
<1>0. req \in [Req -> Request] /\ q.pc = "setApp"
  BY DEF Base, ReqOK, SetAppRoles, Await
<1>1. q.user \in User /\ q.found[q.user] \in Maps
  BY <1>0 DEF Base, ReqOK, Local
<1>2. WriteBack(q.user, q.found[q.user], [q.found[q.user] EXCEPT ![q.app] = q.wanted], q.app)
  BY DEF SetAppRoles
<1> SUFFICES ASSUME NEW p \in Left'
             PROVE  p \in Left /\ \A s \in Req : Covers(s, p) => Covers(s, p)'
  BY KeepCovered
<1>3. p \in Left /\ app_roles'[p[1]][p[2]] = app_roles[p[1]][p[2]]
  BY <1>1, <1>2, WriteBackLeaves
<1>4. \A s \in Req : Covers(s, p) => req'[s] = req[s]
  BY <1>0 DEF Covers, SetAppRoles, Finish
<1> QED BY <1>3, <1>4 DEF Covers

LEMMA ClientCovers ==
  ASSUME Base, Covered, NEW r \in Req, CreateClient(r) \/ UpdateClient(r) \/ DeleteClient(r)
  PROVE  Covered'
<1> DEFINE q == req[r]
<1>0. /\ req \in [Req -> Request] /\ q \in Request
      /\ clients \in [App -> ClientDoc \cup {NoDoc}]
  BY DEF Base, ReqOK, DataOK
<1>1. [roles |-> q.wanted] \in ClientDoc /\ [roles |-> q.wanted] # NoDoc
  BY <1>0, NilAssumption DEF Request, ClientDoc
<1>2. q.pc \in {"newApp", "updateApp", "deleteApp"}
  BY DEF CreateClient, UpdateClient, DeleteClient, Await
<1>3. q.pc \notin Cutting
  BY <1>2 DEF Cutting
<1>4. \A s \in Req \ {r} : req'[s] = req[s]
  BY StepMoves DEF Step
<1>5. CASE Reads
  BY <1>3, <1>4, <1>5, NotCutting DEF Reads, accounts
<1>6. CASE CreateClient(r) /\ ~Reads
  <2>1. clients[q.app] = NoDoc /\ PutClient(q.app, [roles |-> q.wanted])
    BY <1>6 DEF CreateClient
  <2>2. DefinedIn(clients, q.app) \subseteq DefinedIn(clients', q.app)
    BY <2>1 DEF DefinedIn
  <2> QED BY <1>1, <1>3, <1>4, <2>1, <2>2, PutCovers
<1>7. CASE UpdateClient(r) /\ ~Reads
  <2>1. PutClient(q.app, [roles |-> q.wanted]) /\ Goto(r, "list") /\ clients[q.app] # NoDoc
    BY <1>7 DEF UpdateClient
  <2>2. req'[r].app = q.app /\ req'[r].pc = "list" /\ req'[r].wanted = q.wanted
    BY <1>0, <2>1 DEF Goto, Request
  <2>3. CASE q.app \in App
    <3>1. clients'[q.app] = [roles |-> q.wanted]
      BY <1>0, <2>1, <2>3 DEF PutClient
    <3>2. DefinedIn(clients', q.app) = q.wanted
      BY <1>1, <3>1 DEF DefinedIn
    <3> QED BY <1>1, <1>3, <1>4, <2>1, <2>2, <3>2, PutCovers
  <2>4. CASE q.app \notin App
    <3>1. clients' = clients
      BY <1>0, <2>1, <2>4 DEF PutClient
    <3> QED BY <1>1, <1>3, <1>4, <2>1, <3>1, PutCovers
  <2> QED BY <2>3, <2>4
<1>8. CASE DeleteClient(r) /\ ~Reads
  <2>1. PutClient(q.app, NoDoc) /\ Goto(r, "unset")
    BY <1>8 DEF DeleteClient
  <2>2. req'[r].app = q.app /\ req'[r].pc = "unset"
    BY <1>0, <2>1 DEF Goto, Request
  <2> QED BY <1>3, <1>4, <2>1, <2>2, PutCovers
<1> QED BY <1>5, <1>6, <1>7, <1>8

LEMMA StepCovers ==
  ASSUME Base, Covered, NEW r \in Req, Arrive(r) \/ Step(r) PROVE Covered'
<1>1. \A s \in Req \ {r} : req'[s] = req[s]
  BY StepMoves
<1>2. ASSUME UNCHANGED <<app_roles, clients, tainted>>, req[r].pc \notin Cutting PROVE Covered'
  BY <1>1, <1>2, NotCutting
<1>3. CASE Arrive(r)
  <2>a. \A op, call : Admit(r, op, call) => req[r] = Idle
    BY DEF Admit
  <2>b. req[r] = Idle
    BY <1>3, <2>a DEF Arrive, ChangeRole
  <2>1. req[r].pc \notin Cutting
    BY <2>b DEF Idle, Cutting
  <2>2. UNCHANGED <<app_roles, clients, tainted>>
    BY <1>3 DEF Arrive, ChangeRole, Reads, accounts
  <2> QED BY <1>2, <2>1, <2>2
<1>4. CASE NewRole(r) \/ FindRole(r) \/ FindUser(r) \/ CountOwners(r) \/ SetRole(r)
           \/ FindApp(r) \/ FindHolder(r)
  <2>1. req[r].pc \notin Cutting
    BY <1>4 DEF NewRole, FindRole, FindUser, CountOwners, SetRole, FindApp, FindHolder, Await,
      Cutting
  <2>2. UNCHANGED <<app_roles, clients, tainted>>
    BY <1>4 DEF NewRole, FindRole, FindUser, CountOwners, SetRole, FindApp, FindHolder, Reads,
      accounts
  <2> QED BY <1>2, <2>1, <2>2
<1> QED BY <1>3, <1>4, SetAppCovers, ClientCovers, ListCovers, PruneCovers, UnsetCovers DEF Step

\* The pairs a dying request covers are set apart.
LEMMA DyingCovers ==
  ASSUME Base, Covered, (\E r \in Req : Abort(r)) \/ Restart PROVE Covered'
<1>0. req \in [Req -> Request] /\ app_roles' = app_roles /\ clients' = clients
  BY DEF Base, ReqOK, Abort, Restart, accounts
<1> SUFFICES ASSUME NEW p \in Left' PROVE \E s \in Req : Covers(s, p)'
  BY DEF Covered
<1>1. ASSUME NEW pairs, Taint(pairs) PROVE p \in Left /\ p \in User \X App /\ p \notin pairs
  BY <1>0, <1>1, LeftOver, WasLeft
<1>2. \A r \in Req : p \in User \X App /\ Covers(r, p) => p \in Orphans(r)
  BY DEF Covers, Orphans
<1>3. ASSUME NEW r \in Req, Abort(r) PROVE \E s \in Req : Covers(s, p)'
  <2>1. p \in Left /\ p \in User \X App /\ p \notin Orphans(r)
    BY <1>1, <1>3 DEF Abort
  <2>2. PICK s \in Req : Covers(s, p)
    BY <2>1 DEF Covered
  <2>3. s # r
    BY <1>2, <2>1, <2>2
  <2>4. req'[s] = req[s]
    BY <1>0, <1>3, <2>3 DEF Abort, Finish
  <2> QED BY <1>0, <2>2, <2>4 DEF Covers
<1>4. ASSUME Restart PROVE FALSE
  <2>1. /\ p \in Left /\ p \in User \X App
        /\ p \notin UNION {Orphans(r) : r \in Req}
    BY <1>1, <1>4 DEF Restart
  <2>2. PICK s \in Req : Covers(s, p)
    BY <2>1 DEF Covered
  <2> QED BY <1>2, <2>1, <2>2
<1> QED BY <1>3, <1>4

LEMMA NextCovered == Base /\ Covered /\ [Next]_vars => Covered'
<1> SUFFICES ASSUME Base, Covered, [Next]_vars PROVE Covered'
  OBVIOUS
<1>1. ASSUME UNCHANGED <<app_roles, clients, tainted, req>> PROVE Covered'
  BY <1>1 DEF Covered, Left, Excess, Covers
<1>2. CASE UNCHANGED vars
  BY <1>1, <1>2 DEF vars, accounts
<1>3. ASSUME NEW b \in FirstParty, SeedClient(b) PROVE Covered'
  <2>1. app_roles' = app_roles /\ req' = req /\ Taint({})
    BY <1>3 DEF SeedClient, accounts
  <2>2. \A a \in App : DefinedIn(clients, a) \subseteq DefinedIn(clients', a)
    BY <1>3 DEF SeedClient, DefinedIn, Base, DataOK
  <2>3. SUFFICES ASSUME NEW p \in Left'
                 PROVE  p \in Left /\ \A s \in Req : Covers(s, p) => Covers(s, p)'
    BY KeepCovered
  <2>4. p \in Left
    BY <2>1, <2>2, LeftOver, WasLeft
  <2> QED BY <2>1, <2>4 DEF Covers
<1>4. CASE SeedOwner \/ (\E n \in Seeds : SeedRole(n)) \/ (\E u \in User : Signup(u))
  BY <1>1, <1>4 DEF SeedOwner, SeedRole, Signup, AddUser, accounts
<1> QED BY <1>2, <1>3, <1>4, StepCovers, DyingCovers DEF Next, Startup

\* A user holds an app role that the application does not define, a deleted
\* application included, only while a request is about to cut it, or where an
\* older copy written back or a failed request left it.
THEOREM RolesAreDefined == Spec => []DefinedOnly
<1>1. Spec => [](Base /\ Covered)
  BY InitBase, NextBase, InitCovered, NextCovered, PTL DEF Spec
<1> QED BY <1>1, CoveredIsDefined, PTL
=============================================================================
