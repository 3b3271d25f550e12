------------------------------- MODULE Accounts -------------------------------
(***************************************************************************)
(* Accounts and credentials (app/services/auth_service.py, models/token.py *)
(* and the user administration of admin_service.py): sign-up, the login    *)
(* check, e-mail verification, password reset and change, e-mail change.   *)
(*                                                                         *)
(* A request is a slot of `req` as in Sessions: its pc names the database  *)
(* call it awaits next.  Rotation, logout and expiry of a session are      *)
(* module Sessions; here it is there or gone.  But for the mail that       *)
(* follows a sign-up, rate limits refuse a request before it has changed   *)
(* anything: it is then one that was not made.                             *)
(*                                                                         *)
(* A link stands for its token and its hash; links are numbered in the     *)
(* order they are drawn, and a token document is named by the link it was  *)
(* inserted with, so the latest document of a user has the highest name.   *)
(* Time is not kept: a link may turn out to have expired whenever a request*)
(* looks at it.  A mail goes out beside the request that asked for it, and *)
(* may be lost.  The start-up may run beside requests, too.                *)
(***************************************************************************)
EXTENDS Naturals

CONSTANTS
  User,      \* accounts, those not yet created included
  Email, Password,
  Sid,       \* sessions
  MaxLinks,  \* links that can be drawn
  MaxSends,  \* MAX_EMAILS_PER_TOKEN
  Owner,     \* OWNER_EMAIL, or Nil
  Nil, NoDoc,
  Boot,      \* the accounts and sessions the service may start on
  Req, Ops, Aborts   \* as in Sessions

ASSUME LinkAssumption == MaxLinks \in Nat /\ MaxSends \in Nat \ {0}
ASSUME OwnerAssumption == Owner \in Email \cup {Nil}
ASSUME NilAssumption == Nil \notin User \cup Email \cup Password \cup Sid \cup Nat

Link == 1 .. MaxLinks

AccountDoc == [email : Email, verified : BOOLEAN, pw : Password \cup {Nil}]

TokenDoc == [kind  : {"verify", "reset", "change"},   \* the collection
             user  : User,
             link  : Link,      \* token_hash
             count : Nat,       \* resend_count
             used  : BOOLEAN,
             email : Email]     \* new_email; otherwise history: where it went

SessionDoc == [user  : User,
               email : Email, pw : Password \cup {Nil},   \* history: what its login verified,
               late  : BOOLEAN]                \* the account having changed since

ASSUME NoDocAssumption == NoDoc \notin AccountDoc \cup TokenDoc \cup SessionDoc

\* A database the service may start on: addresses are unique, and sessions are
\* those of logins with what the account says.
Sound(b) ==
  /\ b.account \in [User -> AccountDoc \cup {NoDoc}]
  /\ b.session \in [Sid -> SessionDoc \cup {NoDoc}]
  /\ \A u, v \in User :
       b.account[u] # NoDoc /\ b.account[v] # NoDoc /\ b.account[u].email = b.account[v].email
         => u = v
  /\ \A s \in Sid : b.session[s] # NoDoc =>
       LET d == b.session[s]
           a == b.account[d.user] IN
       a # NoDoc /\ (d.late \/ (a.email = d.email /\ a.pw = d.pw))

ASSUME BootAssumption == \A b \in Boot : Sound(b)

PCs == {"idle", "signFind", "insertUser", "resendFind", "sendFind", "sendWrite",
        "verifyFind", "verifyWrite", "verifyDrop", "loginFind", "start",
        "forgotFind", "tokDrop", "tokFind", "tokWrite", "nullPw", "claim", "setPw",
        "dropResets", "signOut", "handOver", "checkPw", "changePw", "signOutOthers",
        "checkEmail", "taken", "dropChanges", "insertChange", "claimChange",
        "confirmTaken", "moveEmail", "dropAfterMove",
        "updFind", "updConflict", "updDropChange", "updDropVerify", "updWrite"}

Request == [pc    : PCs,
            user  : User \cup {Nil},
            email : Email \cup {Nil},
            pw    : Password \cup {Nil},
            flag  : BOOLEAN \cup {Nil},   \* email_verified of update_user
            sid   : Sid \cup {Nil},
            admin : BOOLEAN,              \* reset by the administrator
            link  : Link \cup {Nil},      \* the link presented or drawn
            doc   : Link \cup {Nil}]      \* the token document found

Idle == [pc |-> "idle", user |-> Nil, email |-> Nil, pw |-> Nil, flag |-> Nil,
         sid |-> Nil, admin |-> FALSE, link |-> Nil, doc |-> Nil]

VARIABLES
  account,  \* users
  token,    \* the three token collections
  session,  \* first-party sessions
  mail,     \* what became of the mail, or of the reset_link, with each link
  drawn,    \* links drawn so far
  req,
  spent,    \* history: reset links claimed
  proven,   \* history: users who have shown their address, or been vouched for
  excused   \* history: users a change of credentials failed for halfway, or whose
            \* address an administrator changed while a mail was in flight

history == <<spent, proven, excused>>
vars == <<account, token, session, mail, drawn, req, history>>

Init ==
  /\ \E b \in Boot : account = b.account /\ session = b.session
  /\ token = [l \in Link |-> NoDoc]
  /\ mail = [l \in Link |-> "none"]
  /\ drawn = 0
  /\ req = [r \in Req |-> Idle]
  /\ spent = {}
  /\ proven = {u \in User : account[u] # NoDoc /\ account[u].verified}
  /\ excused = {}

Begin(r, op, call) ==
  /\ op \in Ops
  /\ req[r] = Idle
  /\ req' = [req EXCEPT ![r] = call]

Finish(r) == req' = [req EXCEPT ![r] = Idle]
Goto(r, pc) == req' = [req EXCEPT ![r].pc = pc]
Await(r, pc) == req[r].pc = pc
Reads == UNCHANGED <<account, token, session, mail, drawn, history>>

Users == {u \in User : account[u] # NoDoc}
Holders(e) == {u \in Users : account[u].email = e}
Docs(kind, u) == {l \in Link : token[l] # NoDoc /\ token[l].kind = kind /\ token[l].user = u}

\* Tokens under a link, which a later mail may have replaced.
Under(kind, l) == {d \in Link : token[d] # NoDoc /\ token[d].kind = kind /\ token[d].link = l}

DropTokens(gone) == token' = [l \in Link |-> IF l \in gone THEN NoDoc ELSE token[l]]

\* update_resend of document d, or the insert of a new one, under the next link.
Issue(kind, u, d, e) ==
  /\ drawn < MaxLinks
  /\ drawn' = drawn + 1
  /\ token' =
       IF d = Nil
       THEN [token EXCEPT ![drawn + 1] = [kind |-> kind, user |-> u, link |-> drawn + 1,
                                          count |-> 1, used |-> FALSE, email |-> e]]
       ELSE IF token[d] = NoDoc THEN token
       ELSE [token EXCEPT ![d] = [token[d] EXCEPT !.link = drawn + 1, !.count = @ + 1,
                                                  !.email = e]]

\* send_background: what becomes of the mail the request does not wait to see.
Post(l) == mail' = [mail EXCEPT ![l] = "sending"]

\* find_latest_for_user
Latest(ds) == IF ds = {} THEN Nil ELSE CHOOSE d \in ds : \A x \in ds : x <= d
-----------------------------------------------------------------------------
(* signup and verification *)

SignupFind(r) ==
  /\ Await(r, "signFind")
  /\ IF Holders(req[r].email) # {} THEN Finish(r) ELSE Goto(r, "insertUser")
  /\ Reads

\* Fault: no unique index on the address.
FreeAnyway(e, u) == TRUE

\* The unique index on users.email.
Free(e, u) == Holders(e) \subseteq {u}

\* Fault: the verification is sent without the id of the new account.
InsertUserUnnamed(r, u) ==
  /\ Await(r, "insertUser")
  /\ u \notin Users
  /\ account' = [account EXCEPT ![u] =
                    [email |-> req[r].email, verified |-> FALSE, pw |-> req[r].pw]]
  /\ Goto(r, "sendWrite")
  /\ UNCHANGED <<token, session, mail, drawn, history>>

InsertUser(r, u) ==
  LET q == req[r] IN
  /\ Await(r, "insertUser")
  /\ u \notin Users
  /\ IF Free(q.email, u)
     THEN /\ account' = [account EXCEPT ![u] =
                           [email |-> q.email, verified |-> FALSE, pw |-> q.pw]]
          /\ req' = [req EXCEPT ![r].pc = "sendFind", ![r].user = u]
     ELSE Finish(r) /\ UNCHANGED account
  /\ UNCHANGED <<token, session, mail, drawn, history>>

ResendFind(r) ==
  LET e == req[r].email IN
  /\ Await(r, "resendFind")
  /\ IF \E u \in Holders(e) : ~account[u].verified
     THEN req' = [req EXCEPT ![r].pc = "sendFind", ![r].user = CHOOSE u \in Holders(e) : TRUE]
     ELSE Finish(r)
  /\ Reads

\* The latest document, unless it was sent too often.
FindToken(r, ds, next) ==
  LET d == Latest(ds) IN
  /\ IF d # Nil /\ token[d].count >= MaxSends
     THEN Finish(r)
     ELSE req' = [req EXCEPT ![r].pc = next, ![r].doc = d]
  /\ Reads

\* The address may have had its mails of the day, and then nothing is sent.
SendFind(r) ==
  /\ Await(r, "sendFind")
  /\ \/ FindToken(r, Docs("verify", req[r].user), "sendWrite")
     \/ Finish(r) /\ Reads

\* Requests of update_user that are changing u's address.
Readdressing(u) == {s \in Req : req[s].user = u
                      /\ req[s].pc \in {"updDropChange", "updDropVerify", "updWrite"}}

Excuse(us) == excused' = excused \cup us /\ UNCHANGED <<spent, proven>>

\* The mail goes to the address read when the request began.
SendWrite(r) ==
  LET q == req[r] IN
  /\ Await(r, "sendWrite")
  /\ Issue("verify", q.user, q.doc, q.email)
  /\ Post(drawn + 1)
  /\ Excuse(IF Readdressing(q.user) = {} THEN {} ELSE {q.user})
  /\ Finish(r)
  /\ UNCHANGED <<account, session>>

VerifyFind(r) ==
  LET q == req[r] IN
  /\ Await(r, "verifyFind")
  /\ \/ Under("verify", q.link) = {} /\ Finish(r) /\ UNCHANGED token
     \/ \E d \in Under("verify", q.link) :
          \/ /\ req' = [req EXCEPT ![r].pc = "verifyWrite", ![r].user = token[d].user,
                                   ![r].email = token[d].email]
             /\ UNCHANGED token
          \/ DropTokens({d}) /\ Finish(r)    \* it had expired
  /\ UNCHANGED <<account, session, mail, drawn, history>>

VerifyWrite(r) ==
  LET q == req[r] IN
  /\ Await(r, "verifyWrite")
  /\ account' = [account EXCEPT ![q.user].verified = TRUE]
  /\ proven' = IF account[q.user].email = q.email THEN proven \cup {q.user} ELSE proven
  /\ Goto(r, "verifyDrop")
  /\ UNCHANGED <<token, session, mail, drawn, spent, excused>>

VerifyDrop(r) ==
  /\ Await(r, "verifyDrop")
  /\ DropTokens(Docs("verify", req[r].user))
  /\ Finish(r)
  /\ UNCHANGED <<account, session, mail, drawn, history>>
-----------------------------------------------------------------------------
(* login *)

\* The password is that of the document read, and the address verified.
LoginFind(r) ==
  /\ Await(r, "loginFind")
  /\ \/ Finish(r)
     \/ \E u \in Holders(req[r].email) :
          /\ account[u].pw # Nil /\ account[u].verified
          /\ req' = [req EXCEPT ![r].pc = "start", ![r].user = u, ![r].pw = account[u].pw]
  /\ Reads

Matches(u, e, pw) == account[u].email = e /\ account[u].pw = pw

Start(r, s) ==
  LET q == req[r] IN
  /\ Await(r, "start")
  /\ session[s] = NoDoc
  /\ session' = [session EXCEPT ![s] = [user |-> q.user, email |-> q.email, pw |-> q.pw,
                                        late |-> ~Matches(q.user, q.email, q.pw)]]
  /\ Finish(r)
  /\ UNCHANGED <<account, token, mail, drawn, history>>
-----------------------------------------------------------------------------
(* Password reset, asked for by the user or forced by an administrator *)

ForgotFind(r) ==
  LET e == req[r].email IN
  /\ Await(r, "forgotFind")
  /\ IF Holders(e) = {} THEN Finish(r)
     ELSE req' = [req EXCEPT ![r].pc = "tokFind", ![r].user = CHOOSE u \in Holders(e) : TRUE]
  /\ Reads

Unused(u) == {d \in Docs("reset", u) : ~token[d].used}

\* create_password_reset_token(force=True) starts by dropping pending tokens.
ForceDrop(r) ==
  /\ Await(r, "tokDrop")
  /\ DropTokens(Unused(req[r].user))
  /\ Goto(r, "tokFind")
  /\ UNCHANGED <<account, session, mail, drawn, history>>

ResetFind(r) ==
  /\ Await(r, "tokFind")
  /\ FindToken(r, Unused(req[r].user), "tokWrite")

\* Fault: the limit is looked at after the write.
ResetWriteFirst(r) ==
  LET q == req[r] IN
  /\ Await(r, "tokWrite")
  /\ Issue("reset", q.user, q.doc, q.email)
  /\ Finish(r)
  /\ IF \E d \in Unused(q.user) : token[d].count + 1 >= MaxSends
     THEN UNCHANGED mail ELSE Post(drawn + 1)
  /\ UNCHANGED <<account, session, history>>

ResetWrite(r) ==
  LET q == req[r] IN
  /\ Await(r, "tokWrite")
  /\ Issue("reset", q.user, q.doc, q.email)
  /\ IF q.admin
     THEN /\ req' = [req EXCEPT ![r].pc = "nullPw", ![r].link = drawn + 1]
          /\ UNCHANGED mail
     ELSE Finish(r) /\ Post(drawn + 1)
  /\ UNCHANGED <<account, session, history>>

NullPassword(r) ==
  /\ Await(r, "nullPw")
  /\ account' = [account EXCEPT ![req[r].user].pw = Nil]
  /\ Goto(r, "signOut")
  /\ UNCHANGED <<token, session, mail, drawn, history>>

\* Fault: the link is looked up and marked later.
ClaimUnusedRead(r) ==
  LET q == req[r] IN
  /\ Await(r, "claim")
  /\ IF \E d \in Under("reset", q.link) : ~token[d].used
     THEN /\ req' = [req EXCEPT ![r].pc = "setPw",
                ![r].user = token[CHOOSE d \in Under("reset", q.link) : TRUE].user]
          /\ spent' = spent \cup {q.link}
     ELSE Finish(r) /\ UNCHANGED spent
  /\ UNCHANGED <<account, token, session, mail, drawn, proven, excused>>

\* claim_unused; an expired link is spent as well.
ClaimUnused(r) ==
  LET q == req[r] IN
  /\ Await(r, "claim")
  /\ \/ /\ \A d \in Under("reset", q.link) : token[d].used
        /\ Finish(r)
        /\ UNCHANGED <<token, spent>>
     \/ \E d \in Under("reset", q.link) :
          /\ ~token[d].used
          /\ token' = [token EXCEPT ![d].used = TRUE]
          /\ spent' = spent \cup {q.link}
          /\ \/ req' = [req EXCEPT ![r].pc = "setPw", ![r].user = token[d].user]
             \/ Finish(r)
  /\ UNCHANGED <<account, session, mail, drawn, proven, excused>>

SetPassword(r, from, to) ==
  LET q == req[r] IN
  /\ Await(r, from)
  /\ account' = [account EXCEPT ![q.user].pw = q.pw]
  /\ Goto(r, to)
  /\ UNCHANGED <<token, session, mail, drawn, history>>

DropResets(r) ==
  /\ Await(r, "dropResets")
  /\ DropTokens(Unused(req[r].user))
  /\ Goto(r, "signOut")
  /\ UNCHANGED <<account, session, mail, drawn, history>>

\* delete_all_for_user, the last database call of what changes a credential; the
\* administrator's link is mailed after it.
SignOut(r) ==
  LET q == req[r] IN
  /\ Await(r, "signOut")
  /\ session' = [s \in Sid |-> IF session[s] # NoDoc /\ session[s].user = q.user
                               THEN NoDoc ELSE session[s]]
  /\ IF q.admin THEN Post(q.link) /\ Goto(r, "handOver") ELSE UNCHANGED mail /\ Finish(r)
  /\ UNCHANGED <<account, token, drawn, history>>

\* send_async has returned; the answer carries a link that was not mailed.
HandOver(r) ==
  LET q == req[r] IN
  /\ Await(r, "handOver") /\ mail[q.link] # "sending"
  /\ mail' = [mail EXCEPT ![q.link] = "arrived"]
  /\ Finish(r)
  /\ UNCHANGED <<account, token, session, drawn, history>>

\* Fault: the password changes without another look at who is signed in.
SignOutNobody(r) ==
  /\ Await(r, "signOutOthers")
  /\ Finish(r)
  /\ Reads

\* change_password keeps the session it was asked from, which vouches for it.
SignOutOthers(r) ==
  LET q == req[r] IN
  /\ Await(r, "signOutOthers")
  /\ session' = [s \in Sid |->
       IF session[s] = NoDoc \/ session[s].user # q.user THEN session[s]
       ELSE IF s = q.sid THEN [session[s] EXCEPT !.pw = account[q.user].pw] ELSE NoDoc]
  /\ Finish(r)
  /\ UNCHANGED <<account, token, mail, drawn, history>>

\* The current password is wrong, or it is the one of the document read.
CheckPassword(r) ==
  /\ Await(r, "checkPw")
  /\ Finish(r) \/ (account[req[r].user].pw # Nil /\ Goto(r, "changePw"))
  /\ Reads
-----------------------------------------------------------------------------
(* E-mail change *)

CheckForEmail(r) ==
  LET a == account[req[r].user] IN
  /\ Await(r, "checkEmail")
  /\ Finish(r) \/ (a.pw # Nil /\ a.email # req[r].email /\ Goto(r, "taken"))
  /\ Reads

\* The same answer whether or not the address is registered.
RequestTaken(r) ==
  /\ Await(r, "taken")
  /\ IF Holders(req[r].email) # {} THEN Finish(r) ELSE Goto(r, "dropChanges")
  /\ Reads

DropChanges(r) ==
  /\ Await(r, "dropChanges")
  /\ DropTokens(Docs("change", req[r].user))
  /\ Goto(r, "insertChange")
  /\ UNCHANGED <<account, session, mail, drawn, history>>

InsertChange(r) ==
  LET q == req[r] IN
  /\ Await(r, "insertChange")
  /\ Issue("change", q.user, Nil, q.email)
  /\ Post(drawn + 1)
  /\ Finish(r)
  /\ UNCHANGED <<account, session, history>>

\* claim: find and delete.
ClaimChange(r) ==
  LET q == req[r] IN
  /\ Await(r, "claimChange")
  /\ \/ Under("change", q.link) = {} /\ Finish(r) /\ UNCHANGED token
     \/ \E d \in Under("change", q.link) :
          /\ DropTokens({d})
          /\ \/ req' = [req EXCEPT ![r].pc = "confirmTaken", ![r].user = token[d].user,
                                   ![r].email = token[d].email]
             \/ Finish(r)
  /\ UNCHANGED <<account, session, mail, drawn, history>>

ConfirmTaken(r) ==
  /\ Await(r, "confirmTaken")
  /\ IF Holders(req[r].email) # {} THEN Finish(r) ELSE Goto(r, "moveEmail")
  /\ Reads

\* Fault: the sessions outlive the address they were opened with.
MoveEmailOnly(r) ==
  LET q == req[r] IN
  /\ Await(r, "moveEmail")
  /\ IF Free(q.email, q.user)
     THEN /\ account' = [account EXCEPT ![q.user].email = q.email, ![q.user].verified = TRUE]
          /\ proven' = proven \cup {q.user}
     ELSE UNCHANGED <<account, proven>>
  /\ Finish(r)
  /\ UNCHANGED <<token, session, mail, drawn, spent, excused>>

\* The unique index may refuse the address; its link is spent by then.
MoveEmail(r) ==
  LET q == req[r] IN
  /\ Await(r, "moveEmail")
  /\ IF Free(q.email, q.user)
     THEN /\ account' = [account EXCEPT ![q.user].email = q.email, ![q.user].verified = TRUE]
          /\ proven' = proven \cup {q.user}
          /\ Goto(r, "dropAfterMove")
     ELSE Finish(r) /\ UNCHANGED <<account, proven>>
  /\ UNCHANGED <<token, session, mail, drawn, spent, excused>>

DropAfterMove(r) ==
  /\ Await(r, "dropAfterMove")
  /\ DropTokens(Docs("change", req[r].user))
  /\ Goto(r, "signOut")
  /\ UNCHANGED <<account, session, mail, drawn, history>>
-----------------------------------------------------------------------------
(* update_user by an administrator *)

\* An address that is already the user's is no change (email becomes Nil).
UpdateFind(r) ==
  LET q == req[r] IN
  /\ Await(r, "updFind")
  /\ IF q.email = Nil \/ q.email = account[q.user].email
     THEN req' = [req EXCEPT ![r].pc = "updWrite", ![r].email = Nil]
     ELSE Goto(r, "updConflict")
  /\ Reads

UpdateConflict(r) ==
  /\ Await(r, "updConflict")
  /\ IF Free(req[r].email, req[r].user) THEN Goto(r, "updDropChange") ELSE Finish(r)
  /\ Reads

UpdateDrop(r, from, kind, to) ==
  /\ Await(r, from)
  /\ DropTokens(Docs(kind, req[r].user))
  /\ Goto(r, to)
  /\ UNCHANGED <<account, session, mail, drawn, history>>

\* Fault: links mailed to the old address stay valid.
UpdateDropNothing(r) ==
  /\ Await(r, "updDropVerify") /\ Goto(r, "updWrite") /\ Reads

UpdateDropVerify(r) == UpdateDrop(r, "updDropVerify", "verify", "updWrite")

\* Requests about to act on what they read of u's address.
Pending(r, u) ==
  {s \in Req \ {r} : req[s].user = u /\ req[s].pc \in {"sendFind", "sendWrite", "verifyWrite",
                                                     "moveEmail", "updWrite"}}

UpdateWrite(r) ==
  LET q == req[r]
      a == account[q.user]
      new == [a EXCEPT !.email = IF q.email = Nil THEN @ ELSE q.email,
                       !.verified = IF q.flag = Nil THEN @ ELSE q.flag] IN
  /\ Await(r, "updWrite")
  /\ IF Free(new.email, q.user)
     THEN /\ account' = [account EXCEPT ![q.user] = new]
          /\ proven' = IF new.verified THEN proven \cup {q.user}
                      ELSE IF new.email = a.email THEN proven ELSE proven \ {q.user}
          /\ excused' = IF Pending(r, q.user) = {} THEN excused ELSE excused \cup {q.user}
          /\ IF q.email = Nil THEN Finish(r) ELSE Goto(r, "signOut")
     ELSE Finish(r) /\ UNCHANGED <<account, proven, excused>>
  /\ UNCHANGED <<token, session, mail, drawn, spent>>
-----------------------------------------------------------------------------
(* The start-up: seed_roles_and_owner *)

\* "The configured owner must never be locked out": verified, whoever it is.
VouchForOwner(u) ==
  /\ u \in Holders(Owner) /\ ~account[u].verified
  /\ account' = [account EXCEPT ![u].verified = TRUE]
  /\ UNCHANGED <<token, session, mail, drawn, req, history>>

\* If OWNER_PASSWORD is set: find and insert, under the unique index.
CreateOwner(u, p) ==
  /\ Owner # Nil /\ Holders(Owner) = {} /\ u \notin Users
  /\ account' = [account EXCEPT ![u] = [email |-> Owner, verified |-> TRUE, pw |-> p]]
  /\ UNCHANGED <<token, session, mail, drawn, req, history>>
-----------------------------------------------------------------------------
(* Time and failures *)

\* A mail arrives or is lost: no credentials, trouble with the mail server, or the
\* process, or the request before it came to the mail, is gone.
Deliver(l) ==
  /\ mail[l] = "sending"
  /\ \E end \in {"arrived", "lost"} : mail' = [mail EXCEPT ![l] = end]
  /\ UNCHANGED <<account, token, session, drawn, req, history>>

\* The TTL indexes and the nightly job remove tokens that have expired or were used.
Lapse(l) ==
  /\ token[l] # NoDoc
  /\ DropTokens({l})
  /\ UNCHANGED <<account, session, mail, drawn, req, history>>

\* Logged out, revoked or expired.
EndSession(s) ==
  /\ session[s] # NoDoc
  /\ session' = [session EXCEPT ![s] = NoDoc]
  /\ UNCHANGED <<account, token, mail, drawn, req, history>>

\* Between the change of a credential and the sign-out.
Changing(r) == req[r].pc \in {"dropResets", "signOut", "signOutOthers", "dropAfterMove"}

\* The administrator's link is lost with a request that was yet to mail it.
Abort(r) ==
  LET q == req[r] IN
  /\ Aborts /\ ~Await(r, "idle")
  /\ Finish(r)
  /\ Excuse(IF Changing(r) \/ Await(r, "nullPw") THEN {q.user} ELSE {})
  /\ mail' = IF q.admin /\ q.link # Nil /\ mail[q.link] = "none"
             THEN [mail EXCEPT ![q.link] = "lost"] ELSE mail
  /\ UNCHANGED <<account, token, session, drawn>>
-----------------------------------------------------------------------------
Arrive(r) ==
  /\ \/ \E e \in Email :
          LET call == [Idle EXCEPT !.email = e] IN
          \/ \E p \in Password :
               Begin(r, "signup", [call EXCEPT !.pc = "signFind", !.pw = p])
          \/ Begin(r, "resend", [call EXCEPT !.pc = "resendFind"])
          \/ Begin(r, "login", [call EXCEPT !.pc = "loginFind"])
          \/ Begin(r, "forgot", [call EXCEPT !.pc = "forgotFind"])
          \/ \E s \in {x \in Sid : session[x] # NoDoc} :
               Begin(r, "change", [call EXCEPT !.pc = "checkEmail", !.user = session[s].user])
     \/ \E l \in {x \in Link : mail[x] = "arrived"} :
          LET call == [Idle EXCEPT !.link = l] IN
          \/ Begin(r, "verify", [call EXCEPT !.pc = "verifyFind"])
          \/ Begin(r, "confirm", [call EXCEPT !.pc = "claimChange"])
          \/ \E p \in Password : Begin(r, "reset", [call EXCEPT !.pc = "claim", !.pw = p])
     \/ \E s \in {x \in Sid : session[x] # NoDoc}, p \in Password :
          Begin(r, "password", [Idle EXCEPT !.pc = "checkPw", !.user = session[s].user,
                                            !.sid = s, !.pw = p])
     \/ \E u \in Users :
          LET call == [Idle EXCEPT !.user = u] IN
          \/ Begin(r, "adminReset", [call EXCEPT !.pc = "tokDrop", !.admin = TRUE,
                                                 !.email = account[u].email])
          \/ \E e \in Email \cup {Nil}, flag \in BOOLEAN \cup {Nil} :
               /\ e # Nil \/ flag # Nil
               /\ Begin(r, "update", [call EXCEPT !.pc = "updFind", !.email = e,
                                                  !.flag = flag])
  /\ Reads

Step(r) ==
  \/ SignupFind(r) \/ (\E u \in User : InsertUser(r, u))
  \/ ResendFind(r) \/ SendFind(r) \/ SendWrite(r)
  \/ VerifyFind(r) \/ VerifyWrite(r) \/ VerifyDrop(r)
  \/ LoginFind(r) \/ (\E s \in Sid : Start(r, s))
  \/ ForgotFind(r) \/ ForceDrop(r) \/ ResetFind(r) \/ ResetWrite(r) \/ NullPassword(r)
  \/ ClaimUnused(r) \/ SetPassword(r, "setPw", "dropResets") \/ DropResets(r)
  \/ SignOut(r) \/ HandOver(r)
  \/ CheckPassword(r) \/ SetPassword(r, "changePw", "signOutOthers") \/ SignOutOthers(r)
  \/ CheckForEmail(r) \/ RequestTaken(r) \/ DropChanges(r) \/ InsertChange(r)
  \/ ClaimChange(r) \/ ConfirmTaken(r) \/ MoveEmail(r) \/ DropAfterMove(r)
  \/ UpdateFind(r) \/ UpdateConflict(r)
  \/ UpdateDrop(r, "updDropChange", "change", "updDropVerify") \/ UpdateDropVerify(r)
  \/ UpdateWrite(r)

Next ==
  \/ \E r \in Req : Arrive(r) \/ Step(r) \/ Abort(r)
  \/ \E l \in Link : Lapse(l) \/ Deliver(l)
  \/ \E s \in Sid : EndSession(s)
  \/ \E u \in User : VouchForOwner(u) \/ \E p \in Password : CreateOwner(u, p)

Spec == Init /\ [][Next]_vars
-----------------------------------------------------------------------------
(* Properties *)

\* Type correctness of the collections and of every handler's locals.
TypeOK ==
  /\ account \in [User -> AccountDoc \cup {NoDoc}]
  /\ token \in [Link -> TokenDoc \cup {NoDoc}]
  /\ session \in [Sid -> SessionDoc \cup {NoDoc}]
  /\ mail \in [Link -> {"none", "sending", "arrived", "lost"}]
  /\ drawn \in 0 .. MaxLinks
  /\ req \in [Req -> Request]
  /\ spent \subseteq Link /\ proven \subseteq User /\ excused \subseteq User

\* After a reset, a change of password or a change of address no session is left
\* that was opened with the old credentials, except the one the change was asked
\* from and those of logins already past their check.
SessionsCurrent ==
  \A s \in Sid : session[s] # NoDoc =>
    LET d == session[s] IN
    \/ Matches(d.user, d.email, d.pw) \/ d.late
    \/ d.user \in excused
    \/ \E r \in Req : Changing(r) /\ req[r].user = d.user

\* A reset link is single use: once claimed it is never good again, and no two
\* requests are setting a password on the strength of the same link.
SingleUse ==
  /\ \A d \in Link : token[d] # NoDoc /\ token[d].link \in spent => token[d].used
  /\ \A r, s \in Req : Await(r, "setPw") /\ Await(s, "setPw") /\ req[r].link = req[s].link
                         => r = s

\* The link that works was mailed, whichever requests raced to replace it: its mail
\* has arrived, is on its way or was itself lost, or an administrator is about to
\* send it.  So who is refused more links, having used up MAX_EMAILS_PER_TOKEN, has
\* the last one unless that very mail was lost; then the limit leaves no other.
LastLinkMailed ==
  \A d \in Link : token[d] # NoDoc =>
    \/ mail[token[d].link] # "none"
    \/ \E r \in Req : req[r].admin /\ req[r].link = token[d].link

\* Two accounts never have the same address, however sign-up, confirmation and
\* administration race between their check and their write.
UniqueEmail == \A u, v \in Users : account[u].email = account[v].email => u = v

\* A verified address was shown to be the user's, by a link mailed to it, or vouched
\* for by an administrator or, if it is OWNER_EMAIL, by the start-up: a link mailed
\* to an earlier address does not verify a later one, unless the two crossed.
VerifiedProven ==
  \A u \in Users \ excused : account[u].verified => u \in proven \/ account[u].email = Owner

-----------------------------------------------------------------------------
(* The inductive invariants behind the theorems of AccountsProofs *)

\* Where a handler has found its user, and has an address to mail to or to take.
UserPCs == PCs \ {"idle", "signFind", "insertUser", "resendFind", "verifyFind", "loginFind",
                  "forgotFind", "claim", "claimChange"}
EmailPCs == {"signFind", "insertUser", "resendFind", "sendFind", "sendWrite", "loginFind",
             "start", "forgotFind", "tokDrop", "tokFind", "tokWrite", "checkEmail", "taken",
             "dropChanges", "insertChange", "confirmTaken", "moveEmail", "updConflict",
             "updDropChange", "updDropVerify"}

\* What the local variables of a request say, the accounts being those of us.
Local(q, us) ==
  /\ q.pc \in UserPCs => q.user \in us
  /\ q.pc \in EmailPCs => q.email \in Email
  /\ q.pc \in {"verifyFind", "claim", "claimChange"} => q.link \in Link
  /\ q.admin => \/ q.pc \in {"tokDrop", "tokFind", "tokWrite"} /\ q.link = Nil
                \/ q.pc \in {"nullPw", "signOut", "handOver"} /\ q.link \in Link

Locals == \A r \in Req : Local(req[r], Users)
Owned  == /\ \A l \in Link : token[l] # NoDoc => token[l].user \in Users
          /\ \A s \in Sid : session[s] # NoDoc => session[s].user \in Users

\* A document has one link at a time, and no link is in two of them.
LinksOnce ==
  /\ \A d \in Link : token[d] # NoDoc => d <= drawn /\ token[d].link <= drawn
  /\ \A d, e \in Link : token[d] # NoDoc /\ token[e] # NoDoc /\ token[d].link = token[e].link
                           => d = e
  /\ \A l \in spent : l <= drawn

\* The document a handler found is still that user's, if it is there.
Found(q, kind) ==
  q.doc # Nil => /\ q.doc <= drawn
                 /\ token[q.doc] # NoDoc => /\ token[q.doc].user = q.user
                                           /\ token[q.doc].kind = kind

Holding ==
  \A r \in Req : /\ Await(r, "sendWrite") => Found(req[r], "verify")
                 /\ Await(r, "tokWrite") => Found(req[r], "reset")

\* Whoever sets a password has claimed the link.
Claimed == \A r \in Req : Await(r, "setPw") => req[r].link \in spent

\* SessionsCurrent, apart for addresses and passwords: a change of password that
\* keeps a session makes good its password only.
AddressesCurrent ==
  \A s \in Sid : session[s] # NoDoc =>
    LET d == session[s] IN
    \/ account[d.user].email = d.email \/ d.late \/ d.user \in excused
    \/ \E r \in Req : Changing(r) /\ ~Await(r, "signOutOthers") /\ req[r].user = d.user

PasswordsCurrent ==
  \A s \in Sid : session[s] # NoDoc =>
    LET d == session[s] IN
    \/ account[d.user].pw = d.pw \/ d.late \/ d.user \in excused
    \/ \E r \in Req : Changing(r) /\ req[r].user = d.user

\* Address e is the one user u is asked to prove, if that is still to be shown.
Asked(u, e) == account[u].email = e \/ u \in excused \/ u \in proven

\* Verifications under way, and those a mailed link may start, are about the
\* address of their user; none is left when an administrator replaces it.
Verifications ==
  /\ \A r \in Req : req[r].pc \in {"sendFind", "sendWrite", "verifyWrite"} =>
                       Asked(req[r].user, req[r].email)
  /\ \A d \in Link : token[d] # NoDoc /\ token[d].kind = "verify" =>
       /\ Asked(token[d].user, token[d].email)
       /\ \A r \in Req : Await(r, "updWrite") /\ req[r].email # Nil
                            /\ req[r].user = token[d].user => token[d].user \in excused
=============================================================================
