\* Two accounts, two roles, two applications, crashes and restarts.
SPECIFICATION Spec
CONSTANTS
  User = {u1, u2}
  Role = {"owner", "user"}
  Seeds = {"owner", "user"}
  Owner = "owner"
  Default = "user"
  App = {a1, a2}
  FirstParty = {a1, a2}
  AppRole = {"admin"}
  Admin = "admin"
  Nil = Nil
  NoDoc = NoDoc
  Req = {r1, r2}
  Ops = {"role", "newRole", "appRoles", "create", "update", "delete"}
  Aborts = TRUE
SYMMETRY Alike
INVARIANTS TypeOK DefinedOnly
PROPERTIES OwnerKept OtherAppsKept
