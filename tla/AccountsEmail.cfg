\* Sign-up, verification and change of an address, two accounts.
SPECIFICATION Spec
CONSTANTS
  Nil = Nil
  Owner = e1
  NoDoc = NoDoc
  User = {u1, u2}
  Email = {e1, e2}
  Password = {p1}
  Sid = {s1}
  MaxLinks = 1
  MaxSends = 2
  Boot <- BootNew
  Req = {r1, r2}
  Ops = {"signup", "verify", "change", "confirm", "update"}
  Aborts = FALSE
SYMMETRY Alike
INVARIANTS TypeOK SessionsCurrent UniqueEmail VerifiedProven
CHECK_DEADLOCK FALSE
