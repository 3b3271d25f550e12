------------------------- MODULE RefreshTokenStore -------------------------
(***************************************************************************)
(* The refresh_tokens collection (app/models/refresh_token.py).            *)
(*                                                                         *)
(* A store maps every token to the record stored under its hash, or to     *)
(* NoDoc.  Each operator below is one MongoDB call, which is atomic; the   *)
(* services combine them with other requests running in between.           *)
(*                                                                         *)
(* A session ("family", `sid`) and an OAuth grant are named by the first   *)
(* token issued in them.  The code draws a random id instead and falls     *)
(* back to the record's own _id for records older than families, which is  *)
(* what a family_id of Nil stands for.                                     *)
(***************************************************************************)
EXTENDS Naturals

CONSTANTS
  Token,    \* refresh tokens, each standing for its record's _id and hash
  User,
  Client,   \* OAuth clients; first-party records have client_id Nil
  Nil,      \* an absent field (None)
  NoDoc,    \* no record under this token
  Grace     \* REFRESH_REUSE_GRACE_SECONDS

Doc == [user_id    : User,
        family_id  : Token \cup {Nil},
        expires_at : Nat,
        created_at : Nat,
        rotated_at : Nat \cup {Nil},
        client_id  : Client \cup {Nil},
        session_id : Token \cup {Nil}]   \* the SSO session behind an OAuth grant

Store == [Token -> Doc \cup {NoDoc}]

ASSUME NilAssumption == Nil \notin Token \cup User \cup Client \cup Nat
ASSUME NoDocAssumption == NoDoc \notin Doc
ASSUME GraceAssumption == Grace \in Nat
-----------------------------------------------------------------------------
FamilyOf(store, t) ==
  IF store[t].family_id = Nil THEN t ELSE store[t].family_id

Records(store) == {t \in Token : store[t] # NoDoc}

Family(store, s) == {t \in Records(store) : FamilyOf(store, t) = s}

\* The current (never rotated) tokens of a family; more than one when
\* concurrent refreshes added siblings.
Current(store, s) == {t \in Family(store, s) : store[t].rotated_at = Nil}

UserRecords(store, u) == {t \in Records(store) : store[t].user_id = u}

Expired(store, now) == {t \in Records(store) : store[t].expires_at <= now}

Without(store, gone) == [t \in Token |-> IF t \in gone THEN NoDoc ELSE store[t]]
-----------------------------------------------------------------------------
(* Reads *)

FamilyIsActive(store, s, now) ==
  \E t \in Current(store, s) : store[t].expires_at > now

FindSession(store, u, s) == Current(store, s) \cap UserRecords(store, u)
-----------------------------------------------------------------------------
(* Writes *)

InsertRecord(store, t, doc) == [store EXCEPT ![t] = doc]

\* Fault: the filter forgets `rotated_at: None`.
CanClaimTwice(store, t) == t \in Records(store)

CanClaim(store, t) == t \in Records(store) /\ store[t].rotated_at = Nil

\* Fault: the same for the update itself.
ClaimOver(store, t, now) ==
  IF t \in Records(store) THEN [store EXCEPT ![t].rotated_at = now] ELSE store

ClaimRotation(store, t, now) ==
  IF CanClaim(store, t) THEN [store EXCEPT ![t].rotated_at = now] ELSE store

SetFamily(store, t, s) ==
  IF t \in Records(store) /\ store[t].family_id = Nil
  THEN [store EXCEPT ![t].family_id = s]
  ELSE store

RevokeFamily(store, s) == Without(store, Family(store, s))

RevokeSession(store, u, s) ==
  Without(store, Family(store, s) \cap UserRecords(store, u))

\* The records delete_all_for_user matches; keep = Nil keeps nothing.
UserRecordsBut(store, u, keep) ==
  {t \in UserRecords(store, u) : keep = Nil \/ FamilyOf(store, t) # keep}

DeleteAllForUser(store, u, keep) == Without(store, UserRecordsBut(store, u, keep))

DeleteForClient(store, c) ==
  Without(store, {t \in Records(store) : store[t].client_id = c})

\* Fault: the job only collects rotated records.
DeleteExpiredRotated(store, now) ==
  Without(store, {t \in Expired(store, now) : store[t].rotated_at # Nil})

DeleteExpired(store, now) == Without(store, Expired(store, now))
-----------------------------------------------------------------------------
(* Rotation, which sessions and OAuth grants handle alike *)

InGrace(now, rotated_at) == now <= rotated_at + Grace

\* Fault: a rotated token is honoured whenever it is presented.
AfterReadTrusting(now, rotated_at) == IF rotated_at = Nil THEN "claim" ELSE "insert"

\* Where a rotation goes with the rotated_at it knows of.
AfterRead(now, rotated_at) ==
  IF rotated_at = Nil THEN "claim"
  ELSE IF InGrace(now, rotated_at) THEN "insert" ELSE "reuse"
=============================================================================
