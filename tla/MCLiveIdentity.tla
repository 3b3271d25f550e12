--------------------------- MODULE MCLiveIdentity ---------------------------
(* Instances of LiveIdentity for TLC. *)
EXTENDS LiveIdentity, TLC

CONSTANTS k1, k2, t1, t2

SignedBy == [t \in Token |-> IF t = t1 THEN k1 ELSE k2]
Alike == Permutations(Req)
=============================================================================
