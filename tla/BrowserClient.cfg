\* Two tabs of an application, two logins.
SPECIFICATION Spec
CONSTANTS
  Tab = {t1, t2}
  Sid = {1, 2}
  Nil = Nil
  Undefined = Undefined
  MaxInbox = 1
  MaxPending = 3
SYMMETRY Alike
INVARIANTS TypeOK LogoutFollowed 
 
