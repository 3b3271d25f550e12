\* Replay detection and clean-up, with no request dying.
SPECIFICATION FairSpec
CONSTANTS
  t1 = t1 t2 = t2 t3 = t3 t4 = t4
  u1 = u1 u2 = u2 c1 = c1
  Token = {t1, t2}
  User = {u1}
  Client = {c1}
  Nil = Nil
  NoDoc = NoDoc
  Req = {r1, r2}
  Grace = 1
  Lifetimes = {3}
  MaxTime = 3
  Boot <- BootLogin
  Ops = {"refresh"}
  Aborts = FALSE
PROPERTIES ReplayEndsSession ExpiredSwept
CHECK_DEADLOCK FALSE
