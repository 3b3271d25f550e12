--------------------------- MODULE MCOAuthGrants ---------------------------
(* Instances of OAuthGrants for TLC. *)
EXTENDS OAuthGrants, TLC

CONSTANTS u1, c1, s1, k1, t1

Profile == {"openid"}
Both    == {"openid", Offline}

OnlyOffline   == {Both}
WithOrWithout == {Profile, Both}

Nothing == [session |-> [s \in Sid |-> Unborn],
            store   |-> [t \in Token |-> NoDoc],
            codes   |-> [k \in Code |-> NoDoc],
            consents |-> [uc \in User \X Client |-> {}],
            used    |-> {}]

\* A session until 3, and the grant t1 that code k1 was exchanged for.
OneGrantStored ==
  [session |-> [Nothing.session EXCEPT ![s1] =
     [phase |-> "live", owner |-> u1, start |-> 0, deadline |-> 3]],
   store |-> [Nothing.store EXCEPT ![t1] =
     [user_id |-> u1, family_id |-> t1, expires_at |-> 3, created_at |-> 0,
      rotated_at |-> Nil, client_id |-> c1, session_id |-> s1, scopes |-> Both,
      auth_time |-> 0]],
   codes |-> [Nothing.codes EXCEPT ![k1] =
     [client_id |-> c1, user_id |-> u1, sid |-> s1, scopes |-> Both, auth_time |-> 0,
      expires_at |-> 1, purge_at |-> 2, consumed_at |-> 0, grant_id |-> t1,
      replayed |-> FALSE, ask |-> Nil]],
   consents |-> [uc \in User \X Client |-> Both],
   used |-> {t1} \cup Code]

\* A session until 3 and nothing else, with no name left for a token.
OneSignedIn == [Nothing EXCEPT !.session = OneGrantStored.session, !.used = Token]

BootNothing  == {Nothing}
BootEither   == {OneSignedIn, OneGrantStored}
BootGrant    == {OneGrantStored}

FreshTokens == Token \ UNION {b.used : b \in Boot}
Alike == Permutations(Req) \cup Permutations(FreshTokens)
=============================================================================
