\* Consent of a third-party client; a replayed code takes its grant down.
SPECIFICATION FairSpec
CONSTANTS
  Nil = Nil
  NoDoc = NoDoc
  u1 = u1 c1 = c1 s1 = s1 k1 = k1 t1 = t1
  Token = {t1, t2}
  User = {u1}
  Client = {c1}
  Sid = {s1}
  Code = {k1, k2}
  Ask = {a1}
  Scope = {"openid", "offline"}
  Offline = "offline"
  ScopeSets <- WithOrWithout
  FirstParty = {}
  Boot <- BootEither
  Grace = 1
  Lifetime = 2
  CodeTTL = 1
  PurgeAfter = 2
  AskTTL = 1
  Req = {r1, r2}
  MaxTime = 1
  Ops = {"authorize", "consent", "exchange", "delete"}
  Aborts = FALSE
INVARIANTS CodesConsented OneDecision
PROPERTIES ReplayRevokes
CHECK_DEADLOCK FALSE
