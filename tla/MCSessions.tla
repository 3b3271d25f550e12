----------------------------- MODULE MCSessions -----------------------------
(* Instances of Sessions for TLC. *)
EXTENDS Sessions, TLC

CONSTANTS t1, t2, t3, t4, c1, u1, u2

Empty == [t \in Token |-> NoDoc]

FirstParty(u, f, deadline) ==
  [user_id |-> u, family_id |-> f, expires_at |-> deadline, created_at |-> 0,
   rotated_at |-> Nil, client_id |-> Nil, session_id |-> Nil]

OneLogin == [Empty EXCEPT ![t1] = FirstParty(u1, t1, 3)]

\* A record that predates families, and an OAuth grant of that session.
OldRecords == [Empty EXCEPT
  ![t1] = FirstParty(u1, Nil, 3),
  ![t2] = [FirstParty(u1, t2, 3) EXCEPT !.client_id = c1, !.session_id = t1]]

BootEmpty == {Empty}
BootLogin == {OneLogin}
BootStored == {OneLogin, OldRecords}

\* The tokens no starting store names, and the request slots, are alike.
FreshTokens == Token \ UNION {Records(st) : st \in Boot}
Alike == Permutations(Req) \cup Permutations(FreshTokens)
AlikeUsers == Alike \cup Permutations(User)   \* with an empty starting store
=============================================================================
