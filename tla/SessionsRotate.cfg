\* Racing refreshes of a stored session, a recent or an old one.
SPECIFICATION Spec
CONSTANTS
  t1 = t1 t2 = t2 t3 = t3 t4 = t4
  u1 = u1 u2 = u2 c1 = c1
  Token = {t1, t2, t3, t4}
  User = {u1}
  Client = {c1}
  Nil = Nil
  NoDoc = NoDoc
  Req = {r1, r2}
  Grace = 1
  Lifetimes = {2}
  MaxTime = 2
  Boot <- BootStored
  Ops = {"refresh", "session"}
  Aborts = TRUE
SYMMETRY Alike
INVARIANTS TypeOK OneSession SuccessorInGrace
PROPERTIES WriteOnce
