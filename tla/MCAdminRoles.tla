---------------------------- MODULE MCAdminRoles ----------------------------
(* Instances of AdminRoles for TLC. *)
EXTENDS AdminRoles, TLC

Alike == Permutations(Req) \cup Permutations(User)
=============================================================================
