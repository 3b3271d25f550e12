------------------------------ MODULE AdminRoles ------------------------------
(***************************************************************************)
(* Roles, applications and the start-up that seeds them                    *)
(* (app/services/admin_service.py, app/dependencies/role.py, bootstrap.py).*)
(*                                                                         *)
(* Every user has one global role and, per application, a set of app       *)
(* roles; the owner role opens the administration.  A request is a slot of *)
(* `req` as in Sessions: its pc names the database call it awaits next.    *)
(* What delete_client does to OAuth tokens and consents is in OAuthGrants. *)
(***************************************************************************)
EXTENDS Naturals, FiniteSets

CONSTANTS
  User,        \* accounts, those not yet created included
  Role,        \* global role names
  Seeds,       \* the roles bootstrap creates
  Owner, Default,
  App,         \* client_ids
  FirstParty,  \* the applications bootstrap registers
  AppRole,
  Admin,       \* the app role those applications start with
  Nil, NoDoc,
  Req, Ops, Aborts   \* as in Sessions

ASSUME RoleAssumption == {Owner, Default} \subseteq Seeds /\ Seeds \subseteq Role
                         /\ Owner # Default /\ IsFiniteSet(User)
ASSUME AppAssumption == FirstParty \subseteq App /\ FirstParty # {} /\ Admin \in AppRole

Maps == [App -> SUBSET AppRole]     \* a user's app_roles; {} is an absent key
NoRoles == [a \in App |-> {}]
ClientDoc == [roles : SUBSET AppRole]

ASSUME NilAssumption == Nil \notin User \cup Role \cup App
                        /\ NoDoc \notin Maps \cup ClientDoc

PCs == {"idle", "newRole", "findRole", "findUser", "count", "setRole",
        "findApp", "findHolder", "setApp",
        "newApp", "updateApp", "list", "prune", "deleteApp", "unset"}

Request == [pc     : PCs,
            user   : User \cup {Nil},
            role   : Role \cup {Nil},
            app    : App \cup {Nil},
            wanted : SUBSET AppRole,
            found  : [User -> Maps \cup {NoDoc}]]   \* app_roles as read

Unread == [u \in User |-> NoDoc]
Idle == [pc |-> "idle", user |-> Nil, role |-> Nil, app |-> Nil, wanted |-> {},
         found |-> Unread]

VARIABLES
  boot,       \* what seed_roles_and_owner does next, or "up"
  roles,      \* the roles collection
  users,      \* the users collection: accounts,
  role_id,    \* their global role
  app_roles,  \* and app roles
  clients,    \* the applications and the roles they define, or NoDoc
  req,
  overlapped, \* history: two changes of a global role were in flight at once
  tainted     \* history: app roles that a stale write or a failure left behind

accounts == <<users, role_id, app_roles>>
vars == <<boot, roles, accounts, clients, req, overlapped, tainted>>

Owners == {u \in users : role_id[u] = Owner}
-----------------------------------------------------------------------------
\* An empty database; the service starts by seeding it.
Init ==
  /\ boot = "roles"
  /\ roles = {} /\ users = {}
  /\ role_id = [u \in User |-> Nil]
  /\ app_roles = [u \in User |-> NoRoles]
  /\ clients = [a \in App |-> NoDoc]
  /\ req = [r \in Req |-> Idle]
  /\ overlapped = FALSE
  /\ tainted = {}

\* require_role("owner"): the role is read from the database, not from the token.
Admit(r, op, call) ==
  /\ boot = "up" /\ op \in Ops
  /\ req[r] = Idle
  /\ Owners # {}
  /\ req' = [req EXCEPT ![r] = call]

Finish(r) == req' = [req EXCEPT ![r] = Idle]
Goto(r, pc) == req' = [req EXCEPT ![r].pc = pc]
Await(r, pc) == req[r].pc = pc
Reads == UNCHANGED <<boot, roles, accounts, clients, overlapped, tainted>>

DefinedIn(cl, a) == IF cl[a] = NoDoc THEN {} ELSE cl[a].roles

\* App roles held that their application does not define.
Excess(held, cl) ==
  {p \in User \X App : ~(held[p[1]][p[2]] \subseteq DefinedIn(cl, p[2]))}

Taint(pairs) == tainted' = (tainted \cup pairs) \cap Excess(app_roles', clients')
-----------------------------------------------------------------------------
(* Global roles *)

\* Find and insert, under the unique index on names.
NewRole(r) ==
  /\ Await(r, "newRole")
  /\ roles' = roles \cup {req[r].role}
  /\ Finish(r)
  /\ UNCHANGED <<boot, accounts, clients, overlapped, tainted>>

ChangesRole(r) == req[r].pc \in {"findRole", "findUser", "count", "setRole"}

ChangeRole(r, u, role) ==
  /\ Admit(r, "role", [Idle EXCEPT !.pc = "findRole", !.user = u, !.role = role])
  /\ overlapped' = (overlapped \/ \E s \in Req : ChangesRole(s))
  /\ UNCHANGED <<boot, roles, accounts, clients, tainted>>

FindRole(r) ==
  /\ Await(r, "findRole")
  /\ IF req[r].role \in roles THEN Goto(r, "findUser") ELSE Finish(r)
  /\ Reads

Demotes(u, role) == role_id[u] = Owner /\ role # Owner

FindUser(r) ==
  LET q == req[r] IN
  /\ Await(r, "findUser")
  /\ IF q.user \in users
     THEN Goto(r, IF Demotes(q.user, q.role) THEN "count" ELSE "setRole")
     ELSE Finish(r)
  /\ Reads

\* Fault: an owner is the last one only when there is none.
CountOwnersLess(r) ==
  /\ Await(r, "count")
  /\ IF Cardinality(Owners) < 1 THEN Finish(r) ELSE Goto(r, "setRole")
  /\ Reads

\* "Cannot remove the last owner".
CountOwners(r) ==
  /\ Await(r, "count")
  /\ IF Cardinality(Owners) <= 1 THEN Finish(r) ELSE Goto(r, "setRole")
  /\ Reads

SetRole(r) ==
  /\ Await(r, "setRole")
  /\ role_id' = [role_id EXCEPT ![req[r].user] = req[r].role]
  /\ Finish(r)
  /\ UNCHANGED <<boot, roles, users, app_roles, clients, overlapped, tainted>>
-----------------------------------------------------------------------------
(* App roles of a user: read the application, read the user, write the map *)

FindApp(r) ==
  LET q == req[r] IN
  /\ Await(r, "findApp")
  /\ IF clients[q.app] # NoDoc /\ q.wanted \subseteq clients[q.app].roles
     THEN Goto(r, "findHolder") ELSE Finish(r)
  /\ Reads

FindHolder(r) ==
  LET q == req[r] IN
  /\ Await(r, "findHolder")
  /\ IF q.user \in users
     THEN req' = [req EXCEPT ![r].pc = "setApp",
                             ![r].found = [Unread EXCEPT ![q.user] = app_roles[q.user]]]
     ELSE Finish(r)
  /\ Reads

\* A map read from user u is written back whole.
WriteBack(u, was, now, a) ==
  /\ app_roles' = [app_roles EXCEPT ![u] = now]
  /\ UNCHANGED <<boot, roles, users, role_id, clients, overlapped>>
  /\ Taint({u} \X (IF was # app_roles[u] THEN App ELSE {a}))

\* Fault: the new map holds this application only.
SetAppRolesAlone(r) ==
  LET q == req[r] IN
  /\ Await(r, "setApp")
  /\ WriteBack(q.user, q.found[q.user], [NoRoles EXCEPT ![q.app] = q.wanted], q.app)
  /\ Finish(r)

SetAppRoles(r) ==
  LET q == req[r]
      was == q.found[q.user] IN
  /\ Await(r, "setApp")
  /\ WriteBack(q.user, was, [was EXCEPT ![q.app] = q.wanted], q.app)
  /\ Finish(r)
-----------------------------------------------------------------------------
(* Applications *)

\* Writes the application's document, which leaves roles to be pruned.
PutClient(a, doc) ==
  /\ clients' = [clients EXCEPT ![a] = doc]
  /\ UNCHANGED <<boot, roles, accounts, overlapped>>
  /\ Taint({})

\* Find and insert, under the unique index on client_id.
CreateClient(r) ==
  LET q == req[r] IN
  /\ Await(r, "newApp")
  /\ Finish(r)
  /\ IF clients[q.app] = NoDoc THEN PutClient(q.app, [roles |-> q.wanted]) ELSE Reads

UpdateClient(r) ==
  LET q == req[r] IN
  /\ Await(r, "updateApp")
  /\ IF clients[q.app] = NoDoc
     THEN Finish(r) /\ Reads
     ELSE PutClient(q.app, [roles |-> q.wanted]) /\ Goto(r, "list")

\* Fault: a user who would keep no role is passed over.
ListHoldersKept(r) ==
  LET q == req[r]
      cut == {u \in User : /\ ~(app_roles[u][q.app] \subseteq q.wanted)
                           /\ app_roles[u][q.app] \cap q.wanted # {}} IN
  /\ Await(r, "list")
  /\ IF cut = {} THEN Finish(r)
     ELSE req' = [req EXCEPT ![r].pc = "prune",
            ![r].found = [u \in User |-> IF u \in cut THEN app_roles[u] ELSE NoDoc]]
  /\ Reads

\* list_with_app: the users whose roles are to be cut.
ListHolders(r) ==
  LET q == req[r]
      cut == {u \in User : ~(app_roles[u][q.app] \subseteq q.wanted)} IN
  /\ Await(r, "list")
  /\ IF cut = {} THEN Finish(r)
     ELSE req' = [req EXCEPT ![r].pc = "prune",
            ![r].found = [u \in User |-> IF u \in cut THEN app_roles[u] ELSE NoDoc]]
  /\ Reads

\* One turn of _prune_app_roles.
Prune(r, u) ==
  LET q == req[r]
      left == [q.found EXCEPT ![u] = NoDoc] IN
  /\ Await(r, "prune") /\ q.found[u] # NoDoc
  /\ WriteBack(u, q.found[u], [q.found[u] EXCEPT ![q.app] = @ \cap q.wanted], q.app)
  /\ IF left = Unread THEN Finish(r) ELSE req' = [req EXCEPT ![r].found = left]

DeleteClient(r) ==
  LET q == req[r] IN
  /\ Await(r, "deleteApp")
  /\ IF clients[q.app] = NoDoc
     THEN Finish(r) /\ Reads
     ELSE PutClient(q.app, NoDoc) /\ Goto(r, "unset")

UnsetApp(r) ==
  /\ Await(r, "unset")
  /\ app_roles' = [u \in User |-> [app_roles[u] EXCEPT ![req[r].app] = {}]]
  /\ Finish(r)
  /\ UNCHANGED <<boot, roles, users, role_id, clients, overlapped>>
  /\ Taint({})
-----------------------------------------------------------------------------
(* Sign-up, start-up and failures *)

AddUser(u, role) ==
  /\ users' = users \cup {u}
  /\ role_id' = [role_id EXCEPT ![u] = role]
  /\ UNCHANGED <<roles, app_roles, clients, overlapped, tainted>>

Signup(u) ==
  /\ boot = "up" /\ u \notin users
  /\ AddUser(u, Default)
  /\ UNCHANGED <<boot, req>>

\* Fault: a role found ends the loop.
SeedRoleUntil(n) ==
  /\ boot = "roles" /\ n \in Seeds
  /\ roles' = roles \cup {n}
  /\ boot' = IF n \in roles \/ Seeds \subseteq roles' THEN "apps" ELSE boot
  /\ UNCHANGED <<accounts, clients, req, overlapped, tainted>>

\* One role at a time: find, and insert what is missing.
SeedRole(n) ==
  /\ boot = "roles" /\ n \in Seeds
  /\ roles' = roles \cup {n}
  /\ boot' = IF Seeds \subseteq roles' THEN "apps" ELSE boot
  /\ UNCHANGED <<accounts, clients, req, overlapped, tainted>>

\* One application at a time; $setOnInsert: one that is there keeps its settings.
SeedClient(a) ==
  /\ boot = "apps" /\ a \in FirstParty
  /\ clients' = IF clients[a] = NoDoc
                THEN [clients EXCEPT ![a] = [roles |-> {Admin}]] ELSE clients
  /\ boot' = IF \A b \in FirstParty : clients'[b] # NoDoc THEN "owner" ELSE boot
  /\ UNCHANGED <<roles, accounts, req, overlapped>>
  /\ Taint({})

\* The configured address belongs to an account, or none is configured; or the
\* account is created, with the owner role.  (What the start-up does to
\* email_verified is in Accounts.)
SeedOwner ==
  /\ boot = "owner"
  /\ boot' = "up"
  /\ \/ \E u \in User \ users : AddUser(u, Owner)
     \/ UNCHANGED <<roles, accounts, clients, overlapped, tainted>>
  /\ UNCHANGED req

\* Pairs a request that dies now leaves unpruned.
Orphans(r) ==
  IF req[r].pc \in {"list", "prune", "unset"} THEN User \X {req[r].app} ELSE {}

\* A deployment or a crash: every request dies and the start-up runs again.
Restart ==
  /\ Aborts
  /\ boot' = "roles"
  /\ req' = [r \in Req |-> Idle]
  /\ UNCHANGED <<roles, accounts, clients, overlapped>>
  /\ Taint(UNION {Orphans(r) : r \in Req})

\* A database call fails and the handler ends there.
Abort(r) ==
  /\ Aborts /\ ~Await(r, "idle")
  /\ Finish(r)
  /\ UNCHANGED <<boot, roles, accounts, clients, overlapped>>
  /\ Taint(Orphans(r))
-----------------------------------------------------------------------------
Arrive(r) ==
  \/ \E role \in Role :
       \/ Admit(r, "newRole", [Idle EXCEPT !.pc = "newRole", !.role = role]) /\ Reads
       \/ \E u \in User : ChangeRole(r, u, role)
  \/ \E a \in App, wanted \in SUBSET AppRole :
       LET call == [Idle EXCEPT !.app = a, !.wanted = wanted] IN
       /\ \/ \E u \in User :
               Admit(r, "appRoles", [call EXCEPT !.pc = "findApp", !.user = u])
          \/ Admit(r, "create", [call EXCEPT !.pc = "newApp"])
          \/ Admit(r, "update", [call EXCEPT !.pc = "updateApp"])
          \/ wanted = {} /\ Admit(r, "delete", [call EXCEPT !.pc = "deleteApp"])
       /\ Reads

Step(r) ==
  \/ NewRole(r) \/ FindRole(r) \/ FindUser(r) \/ CountOwners(r) \/ SetRole(r)
  \/ FindApp(r) \/ FindHolder(r) \/ SetAppRoles(r)
  \/ CreateClient(r) \/ UpdateClient(r) \/ ListHolders(r)
  \/ \E u \in User : Prune(r, u)
  \/ DeleteClient(r) \/ UnsetApp(r)

Startup == (\E n \in Seeds : SeedRole(n)) \/ (\E a \in FirstParty : SeedClient(a)) \/ SeedOwner

Next ==
  \/ Startup \/ Restart
  \/ \E u \in User : Signup(u)
  \/ \E r \in Req : Arrive(r) \/ Step(r) \/ Abort(r)

Spec == Init /\ [][Next]_vars
-----------------------------------------------------------------------------
(* Properties *)

\* Type correctness; accounts only name roles that exist.
TypeOK ==
  /\ boot \in {"roles", "apps", "owner", "up"}
  /\ roles \subseteq Role /\ users \subseteq User
  /\ role_id \in [User -> roles \cup {Nil}]
  /\ \A u \in users : role_id[u] # Nil
  /\ app_roles \in [User -> Maps]
  /\ clients \in [App -> ClientDoc \cup {NoDoc}]
  /\ req \in [Req -> Request]
  /\ overlapped \in BOOLEAN
  /\ tainted \subseteq User \X App

\* "Cannot remove the last owner": as long as changes of a role do not overlap,
\* an owner remains, whatever else runs, fails or restarts in between.
OwnerKept == [][Owners # {} => Owners' # {} \/ overlapped]_vars

\* Request r is still going to take the roles of pair p away.
WillCut(r, p) ==
  /\ req[r].app = p[2]
  /\ \/ req[r].pc \in {"list", "unset"}
     \/ Await(r, "prune") /\ req[r].found[p[1]] # NoDoc

\* "Drop user grants for roles the application no longer defines": a user holds
\* a role its application does not define, a deleted one included, only while
\* a request is about to cut it, or where a write of an older copy or a failed
\* request left it.  So an application registered anew starts without holders.
DefinedOnly ==
  \A p \in Excess(app_roles, clients) \ tainted : \E r \in Req : WillCut(r, p)

\* Request r writes u's map from what u's map still is.
Fresh(r, u) == req[r].found[u] # NoDoc => req[r].found[u] = app_roles[u]

\* The roles of a user in one application change only at the hand of a request
\* about that application, unless a copy went stale on its way back.
OtherAppsKept ==
  [][\A u \in User, a \in App : app_roles'[u][a] # app_roles[u][a] =>
       \E r \in Req : req'[r] # req[r] /\ (req[r].app = a \/ ~Fresh(r, u))]_vars
=============================================================================
