\* Reset, change and login of one account.
SPECIFICATION Spec
CONSTANTS
  Nil = Nil
  Owner = Nil
  NoDoc = NoDoc
  User = {u1}
  Email = {e1}
  Password = {p1, p2}
  Sid = {s1, s2}
  MaxLinks = 2
  MaxSends = 2
  Boot <- BootEither
  Req = {r1, r2}
  Ops = {"login", "forgot", "reset", "password", "adminReset", "resend", "verify"}
  Aborts = TRUE
SYMMETRY Alike
INVARIANTS SessionsCurrent SingleUse LastLinkMailed
CHECK_DEADLOCK FALSE
