\* Every way a session starts and ends, two users.
SPECIFICATION Spec
CONSTANTS
  t1 = t1 t2 = t2 t3 = t3 t4 = t4
  u1 = u1 u2 = u2 c1 = c1
  Token = {t1, t2, t3}
  User = {u1, u2}
  Client = {c1}
  Nil = Nil
  NoDoc = NoDoc
  Req = {r1, r2}
  Grace = 1
  Lifetimes = {1}
  MaxTime = 1
  Boot <- BootEmpty
  Ops = {"login", "refresh", "logout", "revoke", "others", "reset"}
  Aborts = FALSE
SYMMETRY AlikeUsers
PROPERTIES DeadStaysDead EndsOwnOnly KeepsContract
