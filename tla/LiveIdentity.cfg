\* Two requests, a rotation of the signing keys, outages and restarts.
SPECIFICATION Spec
CONSTANTS
  k1 = k1
  k2 = k2
  t1 = t1
  t2 = t2
  Kid = {k1, k2}
  FirstKid = k1
  Token = {t1, t2}
  KeyOf <- SignedBy
  Req = {r1, r2}
  TTL = 1
  MinRefresh = 0
  MaxAge = 1
  Flight = 1
  Nil = Nil
SYMMETRY Alike
INVARIANTS TypeOK
PROPERTIES GrantFresh RefusalFounded KeyTrusted FetchesSpaced
