----------------------------- MODULE BrowserClient -----------------------------
(***************************************************************************)
(* The browser SDK (sdk/web/sso-client.ts) in the tabs of one application, *)
(* with the cookies SSO sets and clears (app/api/cookies.py).              *)
(*                                                                         *)
(* Tabs run beside each other and share the cookies of the browser; a call *)
(* carries the cookies of the moment it is sent, and the cookies of its    *)
(* answer are stored when it arrives, in any order.  Tabs tell each other  *)
(* of a change over a BroadcastChannel.                                    *)
(*                                                                         *)
(* SSO takes a refresh in two steps, the claim of the token and the insert *)
(* of its successor, and a logout in two, the look for the session and its *)
(* end: in between a session may end, and an insert brings it back.  Which *)
(* of a session's tokens the cookies hold is not kept (module Sessions     *)
(* does), only that those of before its end are not good for the session   *)
(* that came back.  The CSRF cookie comes and goes with the others; a call *)
(* refused for it changes nothing at SSO, like one that does not arrive.   *)
(***************************************************************************)
EXTENDS Naturals, Sequences, FiniteSets

CONSTANTS
  Tab,
  Sid,        \* sessions of this browser, in the order of their logins: 1..n
  Nil,        \* signed out: ANONYMOUS, no cookies, no session id
  Undefined,
  MaxInbox,   \* messages waiting in a tab
  MaxPending  \* calls under way and tabs with messages, once a page begins a call

ASSUME SidAssumption == Sid \subseteq Nat /\ MaxInbox \in Nat \ {0} /\ MaxPending \in Nat \ {0}
ASSUME NilAssumption == Nil # Undefined /\ {Nil, Undefined} \cap Sid = {}

Session == Sid \cup {Nil}

\* GET /session; "claimed": past its claim, or past the look at the grace window,
\* and about to insert; "late": its answer is on its way to a tab that signed out
Lookup == [pc  : {"none", "sent", "claimed", "answered", "late"},
           sid : Session,                   \* of the cookies sent, of the answer
           jar : {"keep", "set", "clear"}]  \* cookies of the answer
NoLookup == [pc |-> "none", sid |-> Nil, jar |-> "keep"]

\* POST /logout
Logout == [pc   : {"none", "sent", "found", "served"},
           sids : SUBSET Sid]   \* of the cookies sent, found, ended
NoLogout == [pc |-> "none", sids |-> {}]

VARIABLES
  alive,    \* the sessions SSO has tokens of
  current,  \* the last login in this browser
  cookie,   \* the session of the browser's cookies
  inflight, \* each tab's lookup
  logout,   \* and logout
  last,     \* lastSessionId, which is also what the page was last given
  inbox,    \* messages of the channel a tab has yet to handle
  ended,    \* history: sessions that have ended, those that came back included
  left,     \* history: sessions ended by a logout of a tab, and not back since
  raced,    \* history: the last login crossed another call
  crossed   \* history: tabs whose last answer was late

tabs == <<inflight, logout, last, inbox>>
sso == <<alive, ended, left>>
vars == <<sso, current, cookie, tabs, raced, crossed>>

Init ==
  /\ alive = {} /\ current = Nil /\ cookie = Nil
  /\ inflight = [t \in Tab |-> NoLookup]
  /\ logout = [t \in Tab |-> NoLogout]
  /\ last = [t \in Tab |-> Undefined]
  /\ inbox = [t \in Tab |-> <<>>]
  /\ ended = {} /\ left = {} /\ raced = FALSE /\ crossed = {}

Box(t, event) == IF event = "none" THEN inbox[t] ELSE Append(inbox[t], event)

\* A tab does not hear itself; it may take a message from its own inbox.
Broadcast(t, event, own) ==
  inbox' = [u \in Tab |-> IF u = t THEN own ELSE Box(u, event)]

\* The browser's cookies once those of an answer are stored.
Stored(jar, s) == CASE jar = "keep" -> cookie [] jar = "set" -> s [] jar = "clear" -> Nil

CanBroadcast(t) == \A u \in Tab \ {t} : Len(inbox[u]) < MaxInbox

\* Messages are always handled, and may begin one more call.
CanCall == Cardinality({t \in Tab : inflight[t].pc # "none"})
             + Cardinality({t \in Tab : logout[t].pc # "none"})
             + Cardinality({t \in Tab : inbox[t] # <<>>}) < MaxPending
-----------------------------------------------------------------------------
(* The sessions of SSO *)

\* delete_many: the sessions of `gone` have no token left.
End(gone) ==
  /\ alive' = alive \ gone
  /\ ended' = ended \cup gone

\* The insert of a refresh, whether or not its session has ended meanwhile.
Bring(s) ==
  /\ alive' = alive \cup {s}
  /\ left' = left \ {s}
  /\ UNCHANGED ended

\* Expired, replayed, revoked, ended by a change of credentials or by a logout
\* whose tab has given it up.
EndSession(s) ==
  /\ s \in alive
  /\ End({s})
  /\ UNCHANGED <<left, current, cookie, tabs, raced, crossed>>

\* A refresh that claimed before the end inserts, and nobody waits for its answer.
Revive(s) ==
  /\ s \in ended \ alive
  /\ Bring(s)
  /\ UNCHANGED <<current, cookie, tabs, raced, crossed>>

\* What SSO makes of the cookies of sids: their tokens went when the session ended.
Known(sids) == IF sids \subseteq ended THEN {sids, {}} ELSE {sids}

\* A login on the pages of SSO retires the session it replaces and sets the cookies.
Login(s) ==
  /\ s = IF current = Nil THEN 1 ELSE current + 1
  /\ \E gone \in Known({cookie} \ {Nil}) :
       alive' = (alive \ gone) \cup {s} /\ ended' = ended \cup gone
  /\ current' = s /\ cookie' = Stored("set", s)
  /\ raced' = \E t \in Tab : inflight[t].pc # "none" \/ logout[t].pc # "none"
  /\ UNCHANGED <<left, tabs, crossed>>
-----------------------------------------------------------------------------
(* getSession *)

Send(t) == inflight' = [inflight EXCEPT ![t] =
             [pc |-> "sent", sid |-> cookie, jar |-> "keep"]]

\* A call while one is in flight shares it.
Join(t) == IF inflight[t].pc = "none" THEN Send(t) ELSE UNCHANGED inflight

GetSession(t) ==
  /\ inflight[t].pc = "none" /\ CanCall
  /\ Send(t)
  /\ UNCHANGED <<sso, current, cookie, logout, last, inbox, raced, crossed>>

Answer(t, s, jar) == inflight' = [inflight EXCEPT ![t] =
                       [pc |-> "answered", sid |-> s, jar |-> jar]]

AtSSO == UNCHANGED <<current, cookie, logout, last, inbox, raced, crossed>>

\* resolve_session: the access token is good enough and its session there.
Recognize(t) ==
  LET q == inflight[t] IN
  /\ q.pc = "sent" /\ q.sid \in alive
  /\ Answer(t, q.sid, "keep")
  /\ UNCHANGED sso /\ AtSSO

\* Nobody: no cookies, or cookies of a session that has ended, which are cleared.
Refuse(t) ==
  LET q == inflight[t] IN
  /\ q.pc = "sent" /\ (q.sid \notin alive \/ q.sid \in ended)
  /\ Answer(t, Nil, IF q.sid = Nil THEN "keep" ELSE "clear")
  /\ UNCHANGED sso /\ AtSSO

\* refresh_tokens: the token is found and claimed, or was within the grace window.
ClaimRotation(t) ==
  LET q == inflight[t] IN
  /\ q.pc = "sent" /\ q.sid \in alive
  /\ inflight' = [inflight EXCEPT ![t].pc = "claimed"]
  /\ UNCHANGED sso /\ AtSSO

\* Fault: the session is not named in the answer.
InsertSuccessorUnnamed(t) ==
  LET q == inflight[t] IN
  /\ q.pc = "claimed"
  /\ Bring(q.sid) /\ Answer(t, Undefined, "set")
  /\ AtSSO

\* The successor is stored, and the answer sets its cookies.
InsertSuccessor(t) ==
  LET q == inflight[t] IN
  /\ q.pc = "claimed"
  /\ Bring(q.sid) /\ Answer(t, q.sid, "set")
  /\ AtSSO

\* The answer arrives: its cookies are stored, track() tells the other tabs of a
\* change, and the page is given the session.
Answered(t) ==
  LET q == inflight[t]
      changed == last[t] # Undefined /\ q.sid # last[t] IN
  /\ q.pc \in {"answered", "late"}
  /\ changed => CanBroadcast(t)
  /\ cookie' = Stored(q.jar, q.sid)
  /\ Broadcast(t, IF ~changed THEN "none" ELSE IF q.sid = Nil THEN "logout" ELSE "login",
               inbox[t])
  /\ last' = [last EXCEPT ![t] = q.sid]
  /\ crossed' = IF q.pc = "late" THEN crossed \cup {t} ELSE crossed \ {t}
  /\ inflight' = [inflight EXCEPT ![t] = NoLookup]
  /\ UNCHANGED <<sso, current, logout, raced>>

\* A tab no longer waits for its lookup; SSO may be past the claim, and of an
\* answer the cookies may have been stored.
GiveUp(t) ==
  LET q == inflight[t] IN
  /\ inflight' = [inflight EXCEPT ![t] = NoLookup]
  /\ \/ UNCHANGED cookie
     \/ q.pc \in {"answered", "late"} /\ cookie' = Stored(q.jar, q.sid)

\* Fault: trouble with the service is taken for "not signed in".
LookupFailsAnonymous(t) ==
  /\ inflight[t].pc # "none"
  /\ GiveUp(t)
  /\ last' = [last EXCEPT ![t] = Nil]
  /\ UNCHANGED <<sso, current, logout, inbox, raced, crossed>>

\* SsoNetworkError, or an answer that does not parse.
LookupFails(t) ==
  /\ inflight[t].pc # "none"
  /\ GiveUp(t)
  /\ UNCHANGED <<sso, current, logout, last, inbox, raced, crossed>>
-----------------------------------------------------------------------------
(* logout *)

BeginLogout(t) ==
  /\ logout[t].pc = "none" /\ CanCall
  /\ logout' = [logout EXCEPT ![t] = [pc |-> "sent", sids |-> {cookie} \ {Nil}]]
  /\ UNCHANGED <<sso, current, cookie, inflight, last, inbox, raced, crossed>>

\* The session of the refresh token or, without a record of it, of the access token,
\* which may have expired.
FindSession(t) ==
  LET q == logout[t] IN
  /\ q.pc = "sent"
  /\ \E found \in Known(q.sids) :
       logout' = [logout EXCEPT ![t] = [pc |-> "found", sids |-> found]]
  /\ UNCHANGED <<sso, current, cookie, inflight, last, inbox, raced, crossed>>

\* revoke_family, or delete_all_for_user with `everywhere`: the sessions of
\* one browser may be of one user.
RevokeFamily(t) ==
  LET q == logout[t] IN
  /\ q.pc = "found"
  /\ \E others \in {{}, IF q.sids = {} THEN {} ELSE alive} :
       LET gone == q.sids \cup others IN
       /\ End(gone)
       /\ left' = left \cup gone
       /\ logout' = [logout EXCEPT ![t] = [pc |-> "served", sids |-> gone]]
  /\ UNCHANGED <<current, cookie, inflight, last, inbox, raced, crossed>>

\* Tab t is signed out; an answer given before may still arrive.
SignedOut(t) ==
  /\ last' = [last EXCEPT ![t] = Nil]
  /\ inflight' = IF inflight[t].pc = "answered" /\ inflight[t].sid # Nil
                 THEN [inflight EXCEPT ![t].pc = "late"] ELSE inflight
  /\ crossed' = crossed \ {t}

\* Fault: nothing is said when the call fails.
EndLogoutQuietly(t) ==
  LET q == logout[t] IN
  /\ q.pc # "none" /\ CanBroadcast(t)
  /\ logout' = [logout EXCEPT ![t] = NoLogout]
  /\ \/ /\ q.pc = "served" /\ cookie' = Stored("clear", Nil)
        /\ SignedOut(t) /\ Broadcast(t, "logout", inbox[t])
     \/ UNCHANGED <<cookie, last, inflight, crossed, inbox>>
  /\ UNCHANGED <<sso, current, raced>>

\* Fault: a refusal clears the cookies too.
EndLogoutClearing(t) ==
  LET q == logout[t] IN
  /\ q.pc # "none" /\ CanBroadcast(t)
  /\ logout' = [logout EXCEPT ![t] = NoLogout]
  /\ cookie' \in {Nil, cookie}
  /\ SignedOut(t) /\ Broadcast(t, "logout", inbox[t])
  /\ UNCHANGED <<sso, current, raced>>

\* The cookies of the answer, if it arrives, and then, in any case, `finally`.
EndLogout(t) ==
  LET q == logout[t] IN
  /\ q.pc # "none" /\ CanBroadcast(t)
  /\ logout' = [logout EXCEPT ![t] = NoLogout]
  /\ \/ UNCHANGED cookie
     \/ q.pc = "served" /\ cookie' = Stored("clear", Nil)
  /\ SignedOut(t) /\ Broadcast(t, "logout", inbox[t])
  /\ UNCHANGED <<sso, current, raced>>
-----------------------------------------------------------------------------
(* Messages and pages *)

\* channel.onmessage
Hears(t, event) == inbox[t] # <<>> /\ Head(inbox[t]) = event

HearLogout(t) ==
  /\ Hears(t, "logout")
  /\ Broadcast(t, "none", Tail(inbox[t]))
  /\ SignedOut(t)
  /\ UNCHANGED <<sso, current, cookie, logout, raced>>

HearLogin(t) ==
  /\ Hears(t, "login")
  /\ Broadcast(t, "none", Tail(inbox[t]))
  /\ Join(t)
  /\ UNCHANGED <<sso, current, cookie, logout, last, raced, crossed>>

\* The page is loaded anew, not before a logout it waits for is over.
Load(t) ==
  /\ logout[t].pc = "none"
  /\ GiveUp(t)
  /\ last' = [last EXCEPT ![t] = Undefined]
  /\ Broadcast(t, "none", <<>>)
  /\ crossed' = crossed \ {t}
  /\ UNCHANGED <<sso, current, logout, raced>>

Next ==
  \/ \E t \in Tab :
       \/ GetSession(t) \/ Recognize(t) \/ Refuse(t)
       \/ ClaimRotation(t) \/ InsertSuccessor(t) \/ Answered(t) \/ LookupFails(t)
       \/ BeginLogout(t) \/ FindSession(t) \/ RevokeFamily(t) \/ EndLogout(t)
       \/ HearLogout(t) \/ HearLogin(t) \/ Load(t)
  \/ \E s \in Sid : Login(s) \/ EndSession(s) \/ Revive(s)

Spec == Init /\ [][Next]_vars
-----------------------------------------------------------------------------
(* Properties *)

\* Type correctness of the cookies, the calls and what tabs hold.
TypeOK ==
  /\ alive \subseteq Sid
  /\ current \in Session /\ cookie \in Session
  /\ inflight \in [Tab -> Lookup] /\ logout \in [Tab -> Logout]
  /\ \A t \in Tab : inflight[t].pc = "claimed" => inflight[t].sid # Nil
  /\ last \in [Tab -> Session \cup {Undefined}]
  /\ inbox \in [Tab -> Seq({"login", "logout"})]
  /\ ended \subseteq Sid /\ left \subseteq Sid
  /\ raced \in BOOLEAN /\ crossed \subseteq Tab

\* Tab t has yet to hear of the end of session s.
Untold(t, s) ==
  \/ \E i \in 1 .. Len(inbox[t]) : inbox[t][i] = "logout"
  \/ \E u \in Tab : logout[u].pc = "served" /\ s \in logout[u].sids

\* "Other tabs are notified": a session ended by logout(), here or everywhere, is
\* shown as signed in only by tabs that have yet to hear of it, whether or not the
\* call's answer arrived, or where an answer given before it arrived after it.
\* A session that a refresh past its claim has brought back is not ended.
LogoutFollowed ==
  \A t \in Tab \ crossed, s \in left : last[t] = s => Untold(t, s)

\* The browser keeps the cookies of its last login until that session is ended,
\* whatever the tabs ask at once, unless that login crossed another call.
CookiesCurrent == current \in Sid \ ended /\ ~raced => cookie = current

\* "A signed-in user is never shown as signed out": outages, answers in any
\* order and other tabs' calls do not do it before the session is ended; a
\* logout does, and a login that crossed another call may.
SignedInStays ==
  [][\A t \in Tab : last[t] = current /\ current \in Sid \ ended /\ ~raced /\ last'[t] = Nil =>
       logout[t].pc # "none" \/ Hears(t, "logout")]_vars
-----------------------------------------------------------------------------
(* The inductive invariants behind the theorems of BrowserClientProofs *)

\* Sessions are met in the order of their logins: none after the last one.
Met(s) == s \in Sid => current # Nil /\ s <= current

OnlyMet ==
  /\ Met(cookie) /\ \A s \in alive \cup ended \cup left : Met(s)
  /\ \A t \in Tab : Met(inflight[t].sid) /\ \A s \in logout[t].sids : Met(s)

\* A session ended by a logout, and not brought back, has no token, and has ended.
LeftForGood == left \cap alive = {} /\ left \subseteq ended

\* The session of the last login lives until it is ended.
CurrentLives == current \in Sid \ ended => current \in alive

\* LogoutFollowed also of the answer a tab is about to get.
AnswersFollowed ==
  \A t \in Tab, s \in left :
    inflight[t].pc = "answered" /\ inflight[t].sid = s => Untold(t, s)

\* Every call under way since the last login is about that login's session, and
\* leaves its cookies alone.
CallsCurrent ==
  current \in Sid \ ended /\ ~raced =>
    \A t \in Tab :
      /\ inflight[t].pc # "none" => inflight[t].sid = current /\ inflight[t].jar # "clear"
      /\ logout[t].pc # "none" => logout[t].pc # "served" /\ logout[t].sids = {current}
=============================================================================
