\* Refreshes of a grant race each other, its revocation and its session.
SPECIFICATION Spec
CONSTANTS
  Nil = Nil
  NoDoc = NoDoc
  u1 = u1 c1 = c1 s1 = s1 k1 = k1 t1 = t1
  Token = {t1, t2, t3}
  User = {u1}
  Client = {c1}
  Sid = {s1}
  Code = {k1}
  Ask = {a1}
  Scope = {"openid", "offline"}
  Offline = "offline"
  ScopeSets <- OnlyOffline
  FirstParty = {c1}
  Boot <- BootGrant
  Grace = 1
  Lifetime = 2
  CodeTTL = 1
  PurgeAfter = 2
  AskTTL = 1
  Req = {r1, r2}
  MaxTime = 2
  Ops = {"refresh", "revoke", "signout"}
  Aborts = TRUE
SYMMETRY Alike
INVARIANTS OneGrant BoundToSession GrantInGrace
PROPERTIES GrantStaysDead OverIssuesNothing
CHECK_DEADLOCK FALSE
