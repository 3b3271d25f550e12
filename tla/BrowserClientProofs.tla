-------------------------- MODULE BrowserClientProofs --------------------------
(***************************************************************************)
(* Theorems about BrowserClient, for any number of tabs, logins and        *)
(* waiting messages.                                                       *)
(***************************************************************************)
EXTENDS BrowserClient, TLAPS

-----------------------------------------------------------------------------
(* Types *)

Message == {"login", "logout"}

LEMMA Signed == Nil \notin Sid /\ Undefined \notin Sid /\ Nil # Undefined
BY NilAssumption

LEMMA InitTyped == Init => TypeOK
<1> SUFFICES ASSUME Init PROVE TypeOK
  OBVIOUS
<1>1. <<>> \in Seq(Message)
  OBVIOUS
<1>2. inbox \in [Tab -> Seq(Message)]
  BY <1>1 DEF Init
<1>3. inflight \in [Tab -> Lookup] /\ logout \in [Tab -> Logout]
  BY DEF Init, NoLookup, NoLogout, Lookup, Logout, Session
<1>4. \A t \in Tab : inflight[t].pc # "claimed"
  BY DEF Init, NoLookup
<1> QED BY <1>2, <1>3, <1>4 DEF Init, TypeOK, Session, Message

LEMMA BroadcastTyped ==
  ASSUME TypeOK, NEW t \in Tab, NEW event \in Message \cup {"none"},
         NEW own \in Seq(Message), Broadcast(t, event, own)
  PROVE  inbox' \in [Tab -> Seq(Message)]
<1>1. ASSUME NEW u \in Tab PROVE Box(u, event) \in Seq(Message)
  <2>1. inbox[u] \in Seq(Message)
    BY DEF TypeOK, Message
  <2>2. CASE event = "none"
    BY <2>1, <2>2 DEF Box
  <2>3. CASE event \in Message
    <3>1. Append(inbox[u], event) \in Seq(Message)
      BY <2>1, <2>3
    <3> QED BY <2>3, <3>1 DEF Box, Message
  <2> QED BY <2>2, <2>3
<1> QED BY <1>1 DEF Broadcast

\* What a tab hears it had in its inbox; the rest of the inbox stays.
LEMMA Hearing ==
  ASSUME TypeOK, NEW t \in Tab, NEW event, Hears(t, event)
  PROVE  /\ Tail(inbox[t]) \in Seq(Message)
         /\ inbox[t] \in Seq(Message) /\ inbox[t] # <<>>
         /\ inbox[t][1] = event
BY DEF TypeOK, Message, Hears

LEMMA SignedOutTyped ==
  ASSUME TypeOK, NEW t \in Tab, SignedOut(t)
  PROVE  /\ inflight' \in [Tab -> Lookup] /\ last' \in [Tab -> Session \cup {Undefined}]
         /\ crossed' \subseteq Tab
         /\ \A u \in Tab : inflight'[u].pc = "claimed" => inflight'[u].sid # Nil
BY DEF TypeOK, SignedOut, Lookup, Session

\* What a logout ends it has found, or lives.
LEMMA Ends ==
  ASSUME NEW t, RevokeFamily(t)
  PROVE  \E gone : /\ logout[t].sids \subseteq gone /\ gone \subseteq logout[t].sids \cup alive
                   /\ End(gone) /\ left' = left \cup gone
                   /\ logout' = [logout EXCEPT ![t] = [pc |-> "served", sids |-> gone]]
BY DEF RevokeFamily

LEMMA SendTyped ==
  ASSUME TypeOK, NEW t \in Tab, Send(t)
  PROVE  /\ inflight' \in [Tab -> Lookup]
         /\ \A u \in Tab : inflight'[u].pc = "claimed" => inflight'[u].sid # Nil
BY DEF TypeOK, Send, Lookup

LEMMA AnswerTyped ==
  ASSUME TypeOK, NEW t \in Tab, NEW s \in Session, NEW jar \in {"keep", "set", "clear"},
         Answer(t, s, jar)
  PROVE  /\ inflight' \in [Tab -> Lookup]
         /\ \A u \in Tab : inflight'[u].pc = "claimed" => inflight'[u].sid # Nil
BY DEF TypeOK, Answer, Lookup

LEMMA GiveUpTyped ==
  ASSUME TypeOK, NEW t \in Tab, GiveUp(t)
  PROVE  /\ inflight' \in [Tab -> Lookup] /\ cookie' \in Session
         /\ \A u \in Tab : inflight'[u].pc = "claimed" => inflight'[u].sid # Nil
<1>1. inflight[t] \in Lookup
  BY DEF TypeOK
<1>2. cookie' \in Session
  BY <1>1 DEF GiveUp, Stored, Lookup, TypeOK, Session
<1> QED BY <1>2 DEF GiveUp, TypeOK, Lookup, NoLookup, Session

\* The steps of a lookup at SSO, in the form the proofs use.
LEMMA AtSSOIs ==
  ASSUME NEW t, Recognize(t) \/ Refuse(t) \/ ClaimRotation(t) \/ InsertSuccessor(t)
  PROVE  UNCHANGED <<current, cookie, logout, last, inbox, raced, crossed>>
BY DEF Recognize, Refuse, ClaimRotation, InsertSuccessor, AtSSO

LEMMA StepTyped == TypeOK /\ [Next]_vars => TypeOK'
<1> SUFFICES ASSUME TypeOK, [Next]_vars PROVE TypeOK'
  OBVIOUS
<1> USE DEF sso
<1>1. ASSUME NEW t \in Tab, GetSession(t) PROVE TypeOK'
  BY <1>1, SendTyped DEF GetSession, TypeOK
<1>2. ASSUME NEW t \in Tab,
             Recognize(t) \/ Refuse(t) \/ ClaimRotation(t) \/ InsertSuccessor(t)
      PROVE  TypeOK'
  <2>0. inflight[t] \in Lookup /\ (inflight[t].pc = "claimed" => inflight[t].sid # Nil)
    BY DEF TypeOK
  <2>1. ASSUME Recognize(t) PROVE TypeOK'
    <3>1. inflight[t].sid \in Session
      BY <2>0 DEF Lookup
    <3> QED BY <2>1, <3>1, AnswerTyped DEF Recognize, AtSSO, TypeOK
  <2>2. ASSUME Refuse(t) PROVE TypeOK'
    <3>1. Nil \in Session /\ (IF inflight[t].sid = Nil THEN "keep" ELSE "clear") \in {"keep", "set", "clear"}
      BY DEF Session
    <3> QED BY <2>2, <3>1, AnswerTyped DEF Refuse, AtSSO, TypeOK
  <2>3. ASSUME ClaimRotation(t) PROVE TypeOK'
    <3>1. inflight' = [inflight EXCEPT ![t].pc = "claimed"] /\ inflight[t].sid # Nil
      BY <2>3, Signed DEF ClaimRotation, TypeOK
    <3>2. /\ inflight' \in [Tab -> Lookup]
          /\ \A u \in Tab : inflight'[u].pc = "claimed" => inflight'[u].sid # Nil
      BY <2>0, <3>1 DEF TypeOK, Lookup
    <3> QED BY <2>3, <3>2 DEF ClaimRotation, AtSSO, TypeOK
  <2>4. ASSUME InsertSuccessor(t) PROVE TypeOK'
    <3>1. inflight[t].sid \in Sid /\ inflight[t].sid \in Session
      BY <2>0, <2>4 DEF InsertSuccessor, Lookup, Session
    <3>2. alive' \subseteq Sid /\ left' \subseteq Sid /\ ended' = ended
      BY <2>4, <3>1 DEF InsertSuccessor, Bring, TypeOK
    <3> QED BY <2>4, <3>1, <3>2, AnswerTyped DEF InsertSuccessor, AtSSO, TypeOK
  <2> QED BY <1>2, <2>1, <2>2, <2>3, <2>4
<1>3. ASSUME NEW t \in Tab, Answered(t) PROVE TypeOK'
  <2>1. inflight[t] \in Lookup /\ inbox[t] \in Seq(Message)
    BY DEF TypeOK, Message
  <2>2. inbox' \in [Tab -> Seq(Message)]
    BY <1>3, <2>1, BroadcastTyped DEF Answered, Message
  <2>3. cookie' \in Session
    BY <1>3, <2>1 DEF Answered, Stored, Lookup, TypeOK, Session
  <2>4. last' \in [Tab -> Session \cup {Undefined}] /\ crossed' \subseteq Tab
    BY <1>3, <2>1 DEF Answered, Lookup, TypeOK
  <2>5. /\ inflight' \in [Tab -> Lookup]
        /\ \A u \in Tab : inflight'[u].pc = "claimed" => inflight'[u].sid # Nil
    BY <1>3 DEF Answered, Lookup, NoLookup, TypeOK, Session
  <2> QED BY <1>3, <2>2, <2>3, <2>4, <2>5 DEF Answered, TypeOK, Message
<1>4. ASSUME NEW t \in Tab, LookupFails(t) PROVE TypeOK'
  BY <1>4, GiveUpTyped DEF LookupFails, TypeOK
<1>5. ASSUME NEW t \in Tab, BeginLogout(t) PROVE TypeOK'
  <2>1. {cookie} \ {Nil} \subseteq Sid
    BY DEF TypeOK, Session
  <2>2. logout' \in [Tab -> Logout]
    BY <1>5, <2>1 DEF BeginLogout, TypeOK, Logout
  <2> QED BY <1>5, <2>2 DEF BeginLogout, TypeOK
<1>6. ASSUME NEW t \in Tab, FindSession(t) PROVE TypeOK'
  <2>1. PICK found \in Known(logout[t].sids) :
          logout' = [logout EXCEPT ![t] = [pc |-> "found", sids |-> found]]
    BY <1>6 DEF FindSession
  <2>2. found \subseteq Sid
    BY <2>1 DEF Known, TypeOK, Logout
  <2>3. logout' \in [Tab -> Logout]
    BY <2>1, <2>2 DEF TypeOK, Logout
  <2> QED BY <1>6, <2>3 DEF FindSession, TypeOK
<1>7. ASSUME NEW t \in Tab, RevokeFamily(t) PROVE TypeOK'
  <2>1. PICK gone :
          /\ gone \subseteq logout[t].sids \cup alive
          /\ End(gone) /\ left' = left \cup gone
          /\ logout' = [logout EXCEPT ![t] = [pc |-> "served", sids |-> gone]]
    BY <1>7, Ends
  <2>2. gone \subseteq Sid
    BY <2>1 DEF TypeOK, Logout
  <2>3. logout' \in [Tab -> Logout]
    BY <2>1, <2>2 DEF TypeOK, Logout
  <2> QED BY <1>7, <2>1, <2>2, <2>3 DEF RevokeFamily, End, TypeOK
<1>8. ASSUME NEW t \in Tab, EndLogout(t) PROVE TypeOK'
  <2>1. inbox' \in [Tab -> Seq(Message)]
    BY <1>8, BroadcastTyped DEF EndLogout, Message, TypeOK
  <2>2. logout' \in [Tab -> Logout]
    BY <1>8 DEF EndLogout, TypeOK, Logout, NoLogout
  <2>3. cookie' \in Session
    BY <1>8 DEF EndLogout, Stored, TypeOK, Session
  <2>4. SignedOut(t)
    BY <1>8 DEF EndLogout
  <2> QED BY <1>8, <2>1, <2>2, <2>3, <2>4, SignedOutTyped DEF EndLogout, TypeOK, Message
<1>9. ASSUME NEW t \in Tab, HearLogout(t) PROVE TypeOK'
  <2>1. inbox' \in [Tab -> Seq(Message)]
    BY <1>9, BroadcastTyped, Hearing DEF HearLogout
  <2>2. SignedOut(t)
    BY <1>9 DEF HearLogout
  <2> QED BY <1>9, <2>1, <2>2, SignedOutTyped DEF HearLogout, TypeOK, Message
<1>10. ASSUME NEW t \in Tab, HearLogin(t) PROVE TypeOK'
  <2>1. inbox' \in [Tab -> Seq(Message)]
    BY <1>10, BroadcastTyped, Hearing DEF HearLogin
  <2>2. /\ inflight' \in [Tab -> Lookup]
        /\ \A u \in Tab : inflight'[u].pc = "claimed" => inflight'[u].sid # Nil
    BY <1>10, SendTyped DEF HearLogin, Join, TypeOK
  <2> QED BY <1>10, <2>1, <2>2 DEF HearLogin, TypeOK, Message
<1>11. ASSUME NEW t \in Tab, Load(t) PROVE TypeOK'
  <2>1. inbox' \in [Tab -> Seq(Message)]
    <3>1. <<>> \in Seq(Message)
      OBVIOUS
    <3> QED BY <1>11, <3>1, BroadcastTyped DEF Load
  <2> QED BY <1>11, <2>1, GiveUpTyped DEF Load, TypeOK, Message
<1>12. ASSUME NEW s \in Sid, Login(s) PROVE TypeOK'
  <2>1. PICK gone \in Known({cookie} \ {Nil}) :
          alive' = (alive \ gone) \cup {s} /\ ended' = ended \cup gone
    BY <1>12 DEF Login
  <2>2. gone \subseteq Sid
    BY <2>1 DEF Known, TypeOK, Session
  <2> QED BY <1>12, <2>1, <2>2 DEF Login, Stored, TypeOK, Session, tabs
<1>13. ASSUME NEW s \in Sid, EndSession(s) PROVE TypeOK'
  BY <1>13 DEF EndSession, End, TypeOK, tabs
<1>14. ASSUME NEW s \in Sid, Revive(s) PROVE TypeOK'
  BY <1>14 DEF Revive, Bring, TypeOK, tabs
<1>15. CASE UNCHANGED vars
  BY <1>15 DEF vars, tabs, TypeOK
<1> QED BY <1>1, <1>2, <1>3, <1>4, <1>5, <1>6, <1>7, <1>8, <1>9, <1>10, <1>11, <1>12, <1>13,
           <1>14, <1>15 DEF Next

\* Type correctness of the cookies, the calls under way and what tabs hold, for
\* any number of tabs and waiting messages.
THEOREM TypeCorrect == Spec => []TypeOK
BY InitTyped, StepTyped, PTL DEF Spec
-----------------------------------------------------------------------------
(* The order of the logins *)

LEMMA InitMet == Init => OnlyMet /\ LeftForGood /\ CurrentLives
BY Signed DEF Init, OnlyMet, Met, LeftForGood, CurrentLives, NoLookup, NoLogout

\* A new session is later than all that were met.
LEMMA LoginIsNew ==
  ASSUME TypeOK, NEW s \in Sid, Login(s)
  PROVE  /\ current' = s /\ s # Nil
         /\ \A x : Met(x) /\ x \in Sid => x < s
<1>1. s \in Nat /\ s # Nil
  BY SidAssumption, Signed
<1>2. ASSUME NEW x, Met(x), x \in Sid PROVE x < s
  <2>1. x \in Nat /\ current # Nil /\ x <= current
    BY <1>2, SidAssumption DEF Met
  <2>2. current \in Nat /\ s = current + 1
    BY <2>1, SidAssumption DEF Login, TypeOK, Session
  <2> QED BY <2>1, <2>2
<1> QED BY <1>1, <1>2 DEF Login

LEMMA StepMet == TypeOK /\ OnlyMet /\ [Next]_vars => OnlyMet'
<1> SUFFICES ASSUME TypeOK, OnlyMet, [Next]_vars PROVE OnlyMet'
  OBVIOUS
<1> USE Signed
<1>0. Met(Nil)
  BY DEF Met
<1>1. ASSUME NEW t \in Tab, GetSession(t) PROVE OnlyMet'
  BY <1>1 DEF GetSession, Send, sso, OnlyMet, Met, TypeOK
<1>2. ASSUME NEW t \in Tab,
             Recognize(t) \/ Refuse(t) \/ ClaimRotation(t) \/ InsertSuccessor(t)
      PROVE  OnlyMet'
  <2>1. \A u \in Tab : inflight'[u].sid \in {inflight[u].sid, Nil}
    <3>1. ASSUME NEW s, NEW jar, Answer(t, s, jar), s \in {inflight[t].sid, Nil}
          PROVE  \A u \in Tab : inflight'[u].sid \in {inflight[u].sid, Nil}
      BY <3>1 DEF Answer, TypeOK
    <3>2. ASSUME ClaimRotation(t) PROVE \A u \in Tab : inflight'[u].sid = inflight[u].sid
      BY <3>2 DEF ClaimRotation, TypeOK, Lookup
    <3> QED BY <1>2, <3>1, <3>2 DEF Recognize, Refuse, InsertSuccessor
  <2>2. current' = current /\ cookie' = cookie /\ logout' = logout
    BY <1>2, AtSSOIs
  <2>3. alive' \subseteq alive \cup {inflight[t].sid} /\ ended' = ended /\ left' \subseteq left
    BY <1>2 DEF Recognize, Refuse, ClaimRotation, InsertSuccessor, Bring, sso
  <2> QED BY <2>1, <2>2, <2>3 DEF OnlyMet, Met
<1>3. ASSUME NEW t \in Tab, NEW jar, cookie' = Stored(jar, inflight[t].sid), OnlyMet,
             current' = current, jar \in {"keep", "set", "clear"}
      PROVE  Met(cookie)'
  BY <1>3 DEF Stored, OnlyMet, Met
<1>4. ASSUME NEW t \in Tab, Answered(t) PROVE OnlyMet'
  <2>1. inflight[t].jar \in {"keep", "set", "clear"}
    BY DEF TypeOK, Lookup
  <2>2. Met(cookie)'
    BY <1>3, <1>4, <2>1 DEF Answered
  <2>3. \A u \in Tab : inflight'[u].sid \in {inflight[u].sid, Nil}
    BY <1>4 DEF Answered, TypeOK, NoLookup
  <2> QED BY <1>4, <2>2, <2>3 DEF Answered, OnlyMet, Met, sso
<1>5. ASSUME NEW t \in Tab, LookupFails(t) \/ Load(t) PROVE OnlyMet'
  <2>1. /\ current' = current /\ logout' = logout
        /\ alive' = alive /\ ended' = ended /\ left' = left
        /\ GiveUp(t)
    BY <1>5 DEF LookupFails, Load, sso
  <2>2. inflight[t].jar \in {"keep", "set", "clear"}
    BY DEF TypeOK, Lookup
  <2>3. Met(cookie)'
    <3>1. cookie' = cookie \/ cookie' = Stored(inflight[t].jar, inflight[t].sid)
      BY <2>1 DEF GiveUp
    <3>2. CASE cookie' = cookie
      BY <2>1, <3>2 DEF OnlyMet, Met
    <3> QED BY <1>3, <2>1, <2>2, <3>1, <3>2
  <2>4. \A u \in Tab : inflight'[u].sid \in {inflight[u].sid, Nil}
    BY <2>1 DEF GiveUp, TypeOK, NoLookup
  <2> QED BY <2>1, <2>3, <2>4 DEF OnlyMet, Met
<1>6. ASSUME NEW t \in Tab, BeginLogout(t) PROVE OnlyMet'
  <2>1. \A u \in Tab : logout'[u].sids \subseteq logout[u].sids \cup {cookie}
    BY <1>6 DEF BeginLogout, TypeOK
  <2> QED BY <1>6, <2>1 DEF BeginLogout, OnlyMet, Met, sso
<1>7. ASSUME NEW t \in Tab, FindSession(t) PROVE OnlyMet'
  <2>1. PICK found \in Known(logout[t].sids) :
          logout' = [logout EXCEPT ![t] = [pc |-> "found", sids |-> found]]
    BY <1>7 DEF FindSession
  <2>2. found \subseteq logout[t].sids
    BY <2>1 DEF Known
  <2>3. \A u \in Tab : logout'[u].sids \subseteq logout[u].sids
    BY <2>1, <2>2 DEF TypeOK
  <2> QED BY <1>7, <2>3 DEF FindSession, OnlyMet, Met, sso
<1>8. ASSUME NEW t \in Tab, RevokeFamily(t) PROVE OnlyMet'
  <2>1. PICK gone :
          /\ gone \subseteq logout[t].sids \cup alive
          /\ End(gone) /\ left' = left \cup gone
          /\ logout' = [logout EXCEPT ![t] = [pc |-> "served", sids |-> gone]]
    BY <1>8, Ends
  <2>2. \A s \in gone : Met(s)
    BY <2>1 DEF OnlyMet
  <2>3. \A u \in Tab : logout'[u].sids \subseteq logout[u].sids \cup gone
    BY <2>1 DEF TypeOK
  <2>4. /\ current' = current /\ cookie' = cookie /\ inflight' = inflight
        /\ alive' \subseteq alive /\ ended' = ended \cup gone
    BY <1>8, <2>1 DEF RevokeFamily, End
  <2> QED BY <2>1, <2>2, <2>3, <2>4 DEF OnlyMet, Met
<1>9. ASSUME NEW t \in Tab, SignedOut(t)
      PROVE  \A u \in Tab : inflight'[u].sid = inflight[u].sid
  BY <1>9 DEF SignedOut, TypeOK, Lookup
<1>10. ASSUME NEW t \in Tab, EndLogout(t) PROVE OnlyMet'
  <2>1. \A u \in Tab : inflight'[u].sid = inflight[u].sid
    BY <1>9, <1>10 DEF EndLogout
  <2>2. cookie' \in {cookie, Nil} /\ \A u \in Tab : logout'[u].sids \subseteq logout[u].sids
    BY <1>10 DEF EndLogout, Stored, NoLogout, TypeOK
  <2> QED BY <1>10, <2>1, <2>2 DEF EndLogout, OnlyMet, Met, sso
<1>11. ASSUME NEW t \in Tab, HearLogout(t) PROVE OnlyMet'
  <2>1. \A u \in Tab : inflight'[u].sid = inflight[u].sid
    BY <1>9, <1>11 DEF HearLogout
  <2> QED BY <1>11, <2>1 DEF HearLogout, OnlyMet, Met, sso
<1>12. ASSUME NEW t \in Tab, HearLogin(t) PROVE OnlyMet'
  <2>1. \A u \in Tab : inflight'[u].sid \in {inflight[u].sid, cookie}
    <3>1. Send(t) \/ inflight' = inflight
      BY <1>12 DEF HearLogin, Join
    <3>2. ASSUME Send(t) PROVE \A u \in Tab : inflight'[u].sid \in {inflight[u].sid, cookie}
      BY <3>2 DEF Send, TypeOK
    <3> QED BY <3>1, <3>2
  <2> QED BY <1>12, <2>1 DEF HearLogin, OnlyMet, Met, sso
<1>13. ASSUME NEW s \in Sid, Login(s) PROVE OnlyMet'
  <2>1. current' = s /\ s # Nil /\ s \in Nat
    BY <1>13, LoginIsNew, SidAssumption
  <2>2. \A x : Met(x) \/ x = s => (x \in Sid => x <= s)
    BY <1>13, <2>1, LoginIsNew, SidAssumption
  <2>3. /\ cookie' = s /\ alive' \subseteq alive \cup {s} /\ left' = left
        /\ ended' \subseteq ended \cup {cookie}
        /\ inflight' = inflight /\ logout' = logout
    BY <1>13 DEF Login, Known, Stored, tabs
  <2> QED BY <2>1, <2>2, <2>3 DEF OnlyMet, Met
<1>14. ASSUME NEW s \in Sid, EndSession(s) \/ Revive(s) PROVE OnlyMet'
  BY <1>14 DEF EndSession, Revive, End, Bring, tabs, OnlyMet, Met
<1>15. CASE UNCHANGED vars
  BY <1>15 DEF vars, sso, tabs, OnlyMet, Met
<1> QED BY <1>1, <1>2, <1>4, <1>5, <1>6, <1>7, <1>8, <1>10, <1>11, <1>12, <1>13, <1>14,
           <1>15 DEF Next

\* What lives, has ended and was left, step by step.
LEMMA SSOStep ==
  ASSUME TypeOK, [Next]_vars
  PROVE  \/ \E s \in Sid : Login(s)
         \/ \E t \in Tab : RevokeFamily(t)
         \/ \E s \in Sid : End({s}) /\ left' = left /\ current' = current
         \/ \E s : Bring(s) /\ current' = current
         \/ UNCHANGED sso /\ current' = current
<1>1. ASSUME NEW t \in Tab, InsertSuccessor(t) PROVE \E s : Bring(s) /\ current' = current
  BY <1>1 DEF InsertSuccessor, AtSSO
<1>2. ASSUME NEW s \in Sid, EndSession(s)
      PROVE  End({s}) /\ left' = left /\ current' = current
  BY <1>2 DEF EndSession
<1>3. ASSUME NEW s \in Sid, Revive(s) PROVE Bring(s) /\ current' = current
  BY <1>3 DEF Revive
<1>4. ASSUME NEW t \in Tab,
             \/ GetSession(t) \/ Recognize(t) \/ Refuse(t) \/ ClaimRotation(t) \/ Answered(t)
             \/ LookupFails(t) \/ BeginLogout(t) \/ FindSession(t) \/ EndLogout(t)
             \/ HearLogout(t) \/ HearLogin(t) \/ Load(t)
      PROVE  UNCHANGED sso /\ current' = current
  BY <1>4 DEF GetSession, Recognize, Refuse, ClaimRotation, AtSSO, Answered, LookupFails,
       BeginLogout, FindSession, EndLogout, HearLogout, HearLogin, Load
<1>5. CASE UNCHANGED vars
  BY <1>5 DEF vars
<1> QED BY <1>1, <1>2, <1>3, <1>4, <1>5 DEF Next

LEMMA StepLeft ==
  TypeOK /\ OnlyMet /\ LeftForGood /\ CurrentLives /\ [Next]_vars => LeftForGood' /\ CurrentLives'
<1> SUFFICES ASSUME TypeOK, OnlyMet, LeftForGood, CurrentLives, [Next]_vars
             PROVE  LeftForGood' /\ CurrentLives'
  OBVIOUS
<1>1. ASSUME NEW s \in Sid, Login(s) PROVE LeftForGood' /\ CurrentLives'
  <2>1. s \notin left
    BY <1>1, LoginIsNew, SidAssumption DEF OnlyMet
  <2> QED BY <1>1, <2>1 DEF Login, LeftForGood, CurrentLives
<1>2. ASSUME NEW t \in Tab, RevokeFamily(t) PROVE LeftForGood' /\ CurrentLives'
  <2>1. PICK gone : End(gone) /\ left' = left \cup gone
    BY <1>2, Ends
  <2> QED BY <1>2, <2>1 DEF RevokeFamily, End, LeftForGood, CurrentLives
<1>3. ASSUME NEW s \in Sid, End({s}), left' = left, current' = current
      PROVE  LeftForGood' /\ CurrentLives'
  BY <1>3 DEF End, LeftForGood, CurrentLives
<1>4. ASSUME NEW s, Bring(s), current' = current PROVE LeftForGood' /\ CurrentLives'
  BY <1>4 DEF Bring, LeftForGood, CurrentLives
<1>5. CASE UNCHANGED sso /\ current' = current
  BY <1>5 DEF sso, LeftForGood, CurrentLives
<1> QED BY <1>1, <1>2, <1>3, <1>4, <1>5, SSOStep
-----------------------------------------------------------------------------
(* A logout is followed by the other tabs *)

Waiting(t) == \E i \in 1 .. Len(inbox[t]) : inbox[t][i] = "logout"

\* A logout broadcast waits in the inboxes of the others, and so does one that
\* waited there before.
LEMMA BroadcastReaches ==
  ASSUME TypeOK, NEW t \in Tab, NEW event \in Message \cup {"none"}, NEW own,
         Broadcast(t, event, own), NEW u \in Tab, u # t, Waiting(u) \/ event = "logout"
  PROVE  Waiting(u)'
<1> DEFINE box == inbox[u]
<1>1. box \in Seq(Message) /\ inbox'[u] = Box(u, event)
  BY DEF TypeOK, Broadcast, Message
<1>2. CASE event = "none"
  BY <1>1, <1>2 DEF Box, Waiting, Message
<1>3. CASE event # "none"
  <2>1. inbox'[u] = Append(box, event)
    BY <1>1, <1>3 DEF Box
  <2>2. /\ Len(Append(box, event)) = Len(box) + 1
        /\ Append(box, event)[Len(box) + 1] = event
        /\ \A i \in 1 .. Len(box) : Append(box, event)[i] = box[i]
        /\ Len(box) \in Nat
    BY <1>1, <1>3
  <2>3. CASE event = "logout"
    BY <2>1, <2>2, <2>3 DEF Waiting
  <2>4. CASE Waiting(u)
    <3>1. PICK i \in 1 .. Len(box) : box[i] = "logout"
      BY <2>4 DEF Waiting
    <3>2. i \in 1 .. Len(Append(box, event)) /\ Append(box, event)[i] = "logout"
      BY <2>2, <3>1
    <3> QED BY <2>1, <3>2 DEF Waiting
  <2> QED BY <2>3, <2>4
<1> QED BY <1>2, <1>3

\* Handling a login leaves a logout that waits behind it.
LEMMA LoginHeard ==
  ASSUME TypeOK, NEW t \in Tab, Hears(t, "login"), inbox'[t] = Tail(inbox[t]), Waiting(t)
  PROVE  Waiting(t)'
<1> DEFINE box == inbox[t]
<1>1. box \in Seq(Message) /\ box # <<>> /\ box[1] = "login"
  BY Hearing
<1>2. PICK i \in 1 .. Len(box) : box[i] = "logout"
  BY DEF Waiting
<1>3. i \in Nat /\ i > 1 /\ Len(box) \in Nat
  BY <1>1, <1>2
<1>4. Len(Tail(box)) = Len(box) - 1 /\ \A j \in 1 .. Len(box) - 1 : Tail(box)[j] = box[j + 1]
  BY <1>1
<1>5. i - 1 \in 1 .. Len(Tail(box)) /\ Tail(box)[i - 1] = "logout"
  BY <1>2, <1>3, <1>4
<1> QED BY <1>5 DEF Waiting

LEMMA UntoldIs ==
  ASSUME NEW t, NEW s
  PROVE  Untold(t, s) <=> Waiting(t) \/ \E u \in Tab : logout[u].pc = "served" /\ s \in logout[u].sids
BY DEF Untold, Waiting

LEMMA UntoldIsPrimed ==
  ASSUME NEW t, NEW s
  PROVE  Untold(t, s)' <=> Waiting(t)' \/ \E u \in Tab : logout'[u].pc = "served" /\ s \in logout'[u].sids
BY DEF Untold, Waiting

\* A tab that has yet to hear of a logout still has after a step, but one of those
\* that make it forget what it was shown.
LEMMA UntoldStays ==
  ASSUME TypeOK, [Next]_vars, NEW t \in Tab, NEW s, Untold(t, s)
  PROVE  Untold(t, s)' \/ HearLogout(t) \/ EndLogout(t) \/ Load(t)
<1>1. CASE inbox'[t] = inbox[t] /\ logout' = logout
  BY <1>1, UntoldIs, UntoldIsPrimed DEF Waiting
<1>2. ASSUME NEW u \in Tab, Answered(u) PROVE Untold(t, s)'
  <2>1. logout' = logout
    BY <1>2 DEF Answered
  <2>2. PICK event \in Message \cup {"none"} : Broadcast(u, event, inbox[u])
    BY <1>2 DEF Answered, Message
  <2>3. Waiting(t) => Waiting(t)'
    <3>1. CASE t = u
      BY <2>2, <3>1 DEF Broadcast, Waiting
    <3>2. CASE t # u
      BY <2>2, <3>2, BroadcastReaches
    <3> QED BY <3>1, <3>2
  <2> QED BY <2>1, <2>3, UntoldIs, UntoldIsPrimed
<1>3. ASSUME NEW u \in Tab, BeginLogout(u) PROVE Untold(t, s)'
  <2>1. \A v \in Tab : logout[v].pc = "served" => logout'[v] = logout[v]
    BY <1>3 DEF BeginLogout, TypeOK
  <2>2. inbox'[t] = inbox[t]
    BY <1>3 DEF BeginLogout
  <2> QED BY <2>1, <2>2, UntoldIs, UntoldIsPrimed DEF Waiting
<1>4. ASSUME NEW u \in Tab, FindSession(u) \/ RevokeFamily(u) PROVE Untold(t, s)'
  <2>1. \A v \in Tab : logout[v].pc = "served" => logout'[v] = logout[v]
    BY <1>4 DEF FindSession, RevokeFamily, TypeOK
  <2>2. inbox'[t] = inbox[t]
    BY <1>4 DEF FindSession, RevokeFamily
  <2> QED BY <2>1, <2>2, UntoldIs, UntoldIsPrimed DEF Waiting
<1>5. ASSUME NEW u \in Tab, EndLogout(u) PROVE Untold(t, s)' \/ EndLogout(t)
  <2>1. CASE t = u
    BY <1>5, <2>1
  <2>2. CASE t # u
    <3>1. Waiting(t)'
      BY <1>5, <2>2, BroadcastReaches DEF EndLogout, Message
    <3> QED BY <3>1, UntoldIsPrimed
  <2> QED BY <2>1, <2>2
<1>6. ASSUME NEW u \in Tab, HearLogout(u) \/ HearLogin(u) \/ Load(u)
      PROVE  Untold(t, s)' \/ HearLogout(t) \/ Load(t)
  <2>1. logout' = logout
    BY <1>6 DEF HearLogout, HearLogin, Load
  <2>2. PICK own : Broadcast(u, "none", own)
    BY <1>6 DEF HearLogout, HearLogin, Load
  <2>3. CASE t # u
    <3>1. Waiting(t) => Waiting(t)'
      BY <2>2, <2>3, BroadcastReaches
    <3> QED BY <2>1, <3>1, UntoldIs, UntoldIsPrimed
  <2>4. CASE t = u /\ HearLogin(u)
    <3>1. Hears(t, "login") /\ inbox'[t] = Tail(inbox[t])
      BY <2>4 DEF HearLogin, Broadcast
    <3>2. Waiting(t) => Waiting(t)'
      BY <3>1, LoginHeard
    <3> QED BY <2>1, <3>2, UntoldIs, UntoldIsPrimed
  <2> QED BY <1>6, <2>3, <2>4
<1> QED
  BY <1>1, <1>2, <1>3, <1>4, <1>5, <1>6, AtSSOIs
  DEF Next, tabs, vars, GetSession, LookupFails, Login, EndSession, Revive

\* A tab that handles a logout or is loaded anew shows no session, nor will it
\* but for an answer that is late by then.
LEMMA Forgets ==
  ASSUME TypeOK, NEW t \in Tab, HearLogout(t) \/ EndLogout(t) \/ Load(t)
  PROVE  /\ last'[t] \in {Nil, Undefined}
         /\ inflight'[t].pc = "answered" => inflight'[t].sid = Nil
<1>1. CASE EndLogout(t) \/ HearLogout(t)
  <2>1. SignedOut(t)
    BY <1>1 DEF EndLogout, HearLogout
  <2> QED BY <2>1 DEF SignedOut, TypeOK
<1>2. CASE Load(t)
  BY <1>2 DEF Load, GiveUp, NoLookup, TypeOK
<1> QED BY <1>1, <1>2

\* Otherwise only answers change what a tab shows and may come to show.
LEMMA TabStep ==
  ASSUME TypeOK, [Next]_vars, NEW t \in Tab,
         ~(HearLogout(t) \/ EndLogout(t) \/ Load(t))
  PROVE  \/ /\ last'[t] = last[t] /\ (t \in crossed' <=> t \in crossed)
            /\ inflight'[t].pc = "answered" => inflight'[t] = inflight[t]
         \/ Answered(t) \/ Recognize(t) \/ Refuse(t) \/ InsertSuccessor(t)
<1> USE DEF TypeOK
<1>1. ASSUME NEW u \in Tab, u # t,
             Recognize(u) \/ Refuse(u) \/ ClaimRotation(u) \/ InsertSuccessor(u)
      PROVE  inflight'[t] = inflight[t] /\ last' = last /\ crossed' = crossed
  BY <1>1, AtSSOIs DEF Recognize, Refuse, ClaimRotation, InsertSuccessor, Answer
<1>2. ASSUME NEW u \in Tab, u # t,
             \/ Answered(u) \/ LookupFails(u) \/ EndLogout(u)
             \/ HearLogout(u) \/ HearLogin(u) \/ Load(u) \/ GetSession(u)
      PROVE  /\ inflight'[t] = inflight[t] /\ last'[t] = last[t]
             /\ t \in crossed' <=> t \in crossed
  BY <1>2 DEF Answered, LookupFails, EndLogout, HearLogout, HearLogin, Load, GiveUp,
       GetSession, SignedOut, Join, Send
<1>3. ASSUME GetSession(t) \/ LookupFails(t) \/ HearLogin(t) \/ ClaimRotation(t)
      PROVE  /\ last'[t] = last[t] /\ (t \in crossed' <=> t \in crossed)
             /\ inflight'[t].pc = "answered" => inflight'[t] = inflight[t]
  <2>1. last'[t] = last[t] /\ crossed' = crossed
    BY <1>3, AtSSOIs DEF GetSession, LookupFails, HearLogin
  <2>2. ASSUME ClaimRotation(t) PROVE inflight'[t].pc # "answered"
    BY <2>2 DEF ClaimRotation, Lookup
  <2>3. inflight'[t].pc = "answered" => inflight'[t] = inflight[t]
    BY <1>3, <2>2 DEF GetSession, LookupFails, GiveUp, HearLogin, NoLookup, Join, Send
  <2> QED BY <2>1, <2>3
<1>4. ASSUME NEW u \in Tab, BeginLogout(u) \/ FindSession(u) \/ RevokeFamily(u)
      PROVE  inflight' = inflight /\ last' = last /\ crossed' = crossed
  BY <1>4 DEF BeginLogout, FindSession, RevokeFamily
<1>5. ASSUME \/ UNCHANGED vars \/ \E s \in Sid : Login(s) \/ EndSession(s) \/ Revive(s)
      PROVE  inflight' = inflight /\ last' = last /\ crossed' = crossed
  BY <1>5 DEF vars, tabs, Login, EndSession, Revive
<1> QED BY <1>1, <1>2, <1>3, <1>4, <1>5 DEF Next

Followed == TypeOK /\ OnlyMet /\ LeftForGood /\ CurrentLives /\ AnswersFollowed /\ LogoutFollowed

LEMMA StepFollowed == Followed /\ [Next]_vars => AnswersFollowed' /\ LogoutFollowed'
<1> SUFFICES ASSUME Followed, [Next]_vars, NEW t \in Tab, NEW s \in left'
             PROVE  /\ t \notin crossed' /\ last'[t] = s => Untold(t, s)'
                    /\ inflight'[t].pc = "answered" /\ inflight'[t].sid = s => Untold(t, s)'
  BY DEF AnswersFollowed, LogoutFollowed
<1> USE Signed
<1>1. TypeOK /\ TypeOK' /\ s \in Sid /\ s # Nil /\ s # Undefined
  BY StepTyped DEF Followed, TypeOK
<1>2. CASE s \notin left
  <2>1. PICK u \in Tab : RevokeFamily(u)
    BY <1>1, <1>2, SSOStep DEF Login, Bring, sso
  <2>2. PICK gone : /\ left' = left \cup gone
                    /\ logout' = [logout EXCEPT ![u] = [pc |-> "served", sids |-> gone]]
    BY <2>1, Ends
  <2>3. logout'[u].pc = "served" /\ s \in logout'[u].sids
    BY <1>1, <1>2, <2>2 DEF TypeOK
  <2> QED BY <2>3, UntoldIsPrimed
<1>3. CASE s \in left /\ (HearLogout(t) \/ EndLogout(t) \/ Load(t))
  BY <1>1, <1>3, Forgets
<1>4. CASE s \in left /\ ~(HearLogout(t) \/ EndLogout(t) \/ Load(t))
  <2>1. Untold(t, s) => Untold(t, s)'
    BY <1>1, <1>4, UntoldStays
  <2>2. /\ t \notin crossed /\ last[t] = s => Untold(t, s)
        /\ inflight[t].pc = "answered" /\ inflight[t].sid = s => Untold(t, s)
    BY <1>4 DEF Followed, AnswersFollowed, LogoutFollowed
  <2>3. ASSUME Answered(t)
        PROVE  /\ t \notin crossed' => inflight[t].pc = "answered"
               /\ last'[t] = inflight[t].sid /\ inflight'[t].pc # "answered"
    BY <1>1, <2>3 DEF Answered, TypeOK, NoLookup
  <2>4. s \notin alive
    BY <1>4 DEF Followed, LeftForGood
  <2>5. ASSUME Recognize(t) \/ Refuse(t) \/ InsertSuccessor(t)
        PROVE  last' = last /\ crossed' = crossed /\ inflight'[t].sid # s
    <3>1. ASSUME NEW x, NEW jar, Answer(t, x, jar) PROVE inflight'[t].sid = x
      BY <1>1, <3>1 DEF Answer, TypeOK
    <3>2. ASSUME Recognize(t) PROVE inflight'[t].sid # s
      BY <2>4, <3>1, <3>2 DEF Recognize
    <3>3. ASSUME Refuse(t) PROVE inflight'[t].sid # s
      BY <1>1, <3>1, <3>3 DEF Refuse
    <3>4. ASSUME InsertSuccessor(t) PROVE inflight'[t].sid # s
      BY <3>1, <3>4 DEF InsertSuccessor, Bring
    <3> QED BY <2>5, <3>2, <3>3, <3>4, AtSSOIs
  <2> QED BY <1>1, <1>4, <2>1, <2>2, <2>3, <2>5, TabStep
<1> QED BY <1>2, <1>3, <1>4

LEMMA InitFollowed == Init => Followed
BY InitTyped, InitMet DEF Init, Followed, AnswersFollowed, LogoutFollowed

LEMMA AlwaysFollowed == Spec => []Followed
<1>1. Followed /\ [Next]_vars => Followed'
  BY StepTyped, StepMet, StepLeft, StepFollowed DEF Followed
<1> QED BY InitFollowed, <1>1, PTL DEF Spec

\* "Other tabs are notified" of a logout (logout and the channel of sso-client.ts):
\* a session ended by a tab's logout, and not brought back by a refresh past its
\* claim, is shown as signed in only by tabs that a message or the end of that
\* logout will still reach, or by an answer that came too late.
THEOREM LogoutsFollowed == Spec => []LogoutFollowed
<1>1. Followed => LogoutFollowed
  BY DEF Followed
<1> QED BY <1>1, AlwaysFollowed, PTL
-----------------------------------------------------------------------------
(* The last login *)

Current == TypeOK /\ CurrentLives /\ CallsCurrent /\ CookiesCurrent

LEMMA InitCurrent == Init => Current
BY InitTyped, InitMet, Signed DEF Init, Current, CallsCurrent, CookiesCurrent

LEMMA StepCurrent ==
  TypeOK /\ OnlyMet /\ LeftForGood /\ Current /\ [Next]_vars => Current'
<1> SUFFICES ASSUME TypeOK, OnlyMet, LeftForGood, Current, [Next]_vars PROVE Current'
  OBVIOUS
<1> USE Signed
<1>0. TypeOK /\ TypeOK' /\ CurrentLives /\ CurrentLives'
  BY StepTyped, StepLeft DEF Current
<1>1. ASSUME NEW s \in Sid, Login(s) PROVE CallsCurrent' /\ CookiesCurrent'
  BY <1>0, <1>1 DEF Login, Stored, tabs, CallsCurrent, CookiesCurrent
<1>2. ASSUME ~ \E s \in Sid : Login(s) PROVE raced' = raced
  <2>1. ASSUME NEW t \in Tab,
               \/ GetSession(t) \/ Recognize(t) \/ Refuse(t) \/ ClaimRotation(t)
               \/ InsertSuccessor(t) \/ Answered(t)
               \/ LookupFails(t) \/ BeginLogout(t) \/ FindSession(t) \/ RevokeFamily(t)
               \/ EndLogout(t) \/ HearLogout(t) \/ HearLogin(t) \/ Load(t)
        PROVE  raced' = raced
    BY <2>1, AtSSOIs DEF GetSession, Answered, LookupFails, BeginLogout, FindSession,
         RevokeFamily, EndLogout, HearLogout, HearLogin, Load
  <2> QED BY <1>2, <2>1 DEF Next, EndSession, Revive, vars
<1>3. CASE current \in ended \/ current = Nil \/ raced
  <2>1. CASE \E s \in Sid : Login(s)
    BY <1>0, <1>1, <2>1 DEF Current
  <2>2. CASE ~ \E s \in Sid : Login(s)
    <3>1. current' = current /\ ended \subseteq ended'
      <4>1. ASSUME NEW t \in Tab, RevokeFamily(t) PROVE current' = current /\ ended \subseteq ended'
        BY <4>1 DEF RevokeFamily, End
      <4> QED BY <1>0, <2>2, <4>1, SSOStep DEF End, Bring, sso
    <3> QED BY <1>0, <1>2, <1>3, <2>2, <3>1 DEF Current, CallsCurrent, CookiesCurrent
  <2> QED BY <2>1, <2>2
<1>4. CASE current \in Sid \ ended /\ ~raced
  <2> DEFINE Calls(t) ==
        /\ inflight'[t].pc # "none" => inflight'[t].sid = current /\ inflight'[t].jar # "clear"
        /\ logout'[t].pc # "none" => logout'[t].pc # "served" /\ logout'[t].sids = {current}
  <2>0. /\ cookie = current /\ current \in Sid /\ current # Nil /\ current \in alive
        /\ \A t \in Tab :
             /\ inflight[t].pc # "none" => inflight[t].sid = current /\ inflight[t].jar # "clear"
             /\ logout[t].pc # "none" => logout[t].pc # "served" /\ logout[t].sids = {current}
    BY <1>0, <1>4 DEF Current, CallsCurrent, CookiesCurrent, CurrentLives
  <2> SUFFICES ASSUME ~ \E s \in Sid : Login(s), current \notin ended'
               PROVE  cookie' = current /\ current' = current /\ \A t \in Tab : Calls(t)
    <3>1. CASE \E s \in Sid : Login(s)
      BY <1>0, <1>1, <3>1 DEF Current
    <3>2. CASE ~ \E s \in Sid : Login(s)
      <4>1. current' = current
        <5>1. ASSUME NEW t \in Tab, RevokeFamily(t) PROVE current' = current
          BY <5>1 DEF RevokeFamily
        <5> QED BY <1>0, <3>2, <5>1, SSOStep DEF sso
      <4> QED BY <1>0, <3>2, <4>1 DEF Current, CallsCurrent, CookiesCurrent
    <3> QED BY <3>1, <3>2
  <2>1. ASSUME NEW t \in Tab, GetSession(t) \/ HearLogin(t)
        PROVE  /\ \A u \in Tab : Calls(u)
               /\ current' = current /\ cookie' = current
    <3>1. \/ inflight' = inflight
          \/ inflight' = [inflight EXCEPT ![t] = [pc |-> "sent", sid |-> cookie, jar |-> "keep"]]
      BY <2>1 DEF GetSession, HearLogin, Join, Send
    <3>2. cookie' = cookie /\ current' = current /\ logout' = logout
      BY <2>1 DEF GetSession, HearLogin
    <3>3. \A u \in Tab : \/ inflight'[u] = inflight[u]
                        \/ inflight'[u] = [pc |-> "sent", sid |-> cookie, jar |-> "keep"]
      BY <1>0, <3>1 DEF TypeOK
    <3> QED BY <2>0, <3>2, <3>3
  <2>2. ASSUME NEW t \in Tab,
               Recognize(t) \/ Refuse(t) \/ ClaimRotation(t) \/ InsertSuccessor(t)
        PROVE  /\ \A u \in Tab : Calls(u)
               /\ current' = current /\ cookie' = current
    <3>1. inflight[t].sid = current /\ inflight[t].jar # "clear"
      BY <2>0, <2>2 DEF Recognize, Refuse, ClaimRotation, InsertSuccessor
    <3>2. ~Refuse(t)
      BY <1>4, <2>0, <3>1 DEF Refuse
    <3>3. \A u \in Tab : inflight'[u].pc # "none" =>
            inflight'[u].sid = current /\ inflight'[u].jar # "clear"
      <4>1. ASSUME NEW jar \in {"keep", "set"}, Answer(t, current, jar)
            PROVE  \A u \in Tab : inflight'[u].pc # "none" =>
                     inflight'[u].sid = current /\ inflight'[u].jar # "clear"
        BY <1>0, <2>0, <4>1 DEF Answer, TypeOK
      <4>2. CASE Recognize(t) \/ InsertSuccessor(t)
        BY <3>1, <4>1, <4>2 DEF Recognize, InsertSuccessor
      <4>3. CASE ClaimRotation(t)
        BY <1>0, <2>0, <3>1, <4>3 DEF ClaimRotation, TypeOK, Lookup
      <4> QED BY <2>2, <3>2, <4>2, <4>3
    <3> QED BY <2>0, <2>2, <3>3, AtSSOIs
  <2>3. ASSUME NEW t \in Tab, Answered(t)
        PROVE  /\ \A u \in Tab : Calls(u)
               /\ current' = current /\ cookie' = current
    <3>1. inflight[t] \in Lookup /\ inflight[t].pc # "none"
      BY <1>0, <2>3 DEF TypeOK, Answered
    <3>2. cookie' = current
      BY <2>0, <2>3, <3>1 DEF Answered, Stored, Lookup
    <3> QED BY <1>0, <2>0, <2>3, <3>2 DEF Answered, TypeOK, NoLookup
  <2>4. ASSUME NEW t \in Tab, LookupFails(t) \/ Load(t)
        PROVE  /\ \A u \in Tab : Calls(u)
               /\ current' = current /\ cookie' = current
    <3>1. GiveUp(t) /\ logout' = logout /\ current' = current
      BY <2>4 DEF LookupFails, Load
    <3>2. inflight' = [inflight EXCEPT ![t] = NoLookup]
      BY <3>1 DEF GiveUp
    <3>3. inflight[t] \in Lookup
      BY <1>0 DEF TypeOK
    <3>4. cookie' = current
      BY <2>0, <3>1, <3>3 DEF GiveUp, Stored, Lookup
    <3> QED BY <1>0, <2>0, <3>1, <3>2, <3>4 DEF TypeOK, NoLookup
  <2>5. ASSUME NEW t \in Tab, BeginLogout(t)
        PROVE  /\ \A u \in Tab : Calls(u)
               /\ current' = current /\ cookie' = current
    BY <1>0, <2>0, <2>5 DEF BeginLogout, TypeOK
  <2>6. ASSUME NEW t \in Tab, FindSession(t)
        PROVE  /\ \A u \in Tab : Calls(u)
               /\ current' = current /\ cookie' = current
    <3>1. logout[t].sids = {current}
      BY <2>0, <2>6 DEF FindSession
    <3>2. logout' = [logout EXCEPT ![t] = [pc |-> "found", sids |-> {current}]]
      BY <1>4, <2>6, <3>1 DEF FindSession, Known
    <3> QED BY <1>0, <2>0, <2>6, <3>2 DEF FindSession, TypeOK
  <2>7. ASSUME NEW t \in Tab, RevokeFamily(t) PROVE FALSE
    <3>1. current \in logout[t].sids
      BY <2>0, <2>7 DEF RevokeFamily
    <3>2. PICK gone : logout[t].sids \subseteq gone /\ End(gone)
      BY <2>7, Ends
    <3> QED BY <3>1, <3>2 DEF End
  <2>8. ASSUME NEW t \in Tab, SignedOut(t)
        PROVE  \A u \in Tab : /\ inflight'[u].pc # "none" => inflight[u].pc # "none"
                              /\ inflight'[u].sid = inflight[u].sid
                              /\ inflight'[u].jar = inflight[u].jar
    BY <1>0, <2>8 DEF SignedOut, TypeOK, Lookup
  <2>9. ASSUME NEW t \in Tab, EndLogout(t)
        PROVE  /\ \A u \in Tab : Calls(u)
               /\ current' = current /\ cookie' = current
    <3>1. cookie' = cookie
      BY <2>0, <2>9 DEF EndLogout
    <3>2. \A u \in Tab : logout'[u].pc # "none" => logout'[u] = logout[u]
      BY <1>0, <2>9 DEF EndLogout, TypeOK, NoLogout
    <3> QED BY <2>0, <2>8, <2>9, <3>1, <3>2 DEF EndLogout
  <2>10. ASSUME NEW t \in Tab, HearLogout(t)
        PROVE  /\ \A u \in Tab : Calls(u)
               /\ current' = current /\ cookie' = current
    BY <2>0, <2>8, <2>10 DEF HearLogout
  <2>11. CASE UNCHANGED vars \/ \E s \in Sid : EndSession(s) \/ Revive(s)
    BY <2>0, <2>11 DEF vars, tabs, EndSession, Revive
  <2> QED
    BY <2>1, <2>2, <2>3, <2>4, <2>5, <2>6, <2>7, <2>9, <2>10, <2>11 DEF Next
<1>5. current \in Sid \cup {Nil}
  BY DEF TypeOK, Session
<1> QED BY <1>3, <1>4, <1>5

LEMMA AlwaysCurrent == Spec => []Current
<1>1. Followed => TypeOK /\ OnlyMet /\ LeftForGood
  BY DEF Followed
<1> QED BY InitCurrent, StepCurrent, AlwaysFollowed, <1>1, PTL DEF Spec

\* The browser keeps the cookies of its last login until that session is ended,
\* whatever lookups and logouts of its tabs are answered in which order, unless
\* that login itself crossed a call (cookies.py, resolve_session and logout).
THEOREM CookiesOfLastLogin == Spec => []CookiesCurrent
<1>1. Current => CookiesCurrent
  BY DEF Current
<1> QED BY <1>1, AlwaysCurrent, PTL

LEMMA StepShown ==
  ASSUME Current, [Next]_vars, NEW t \in Tab, last[t] = current,
         current \in Sid \ ended, ~raced, last'[t] = Nil
  PROVE  logout[t].pc # "none" \/ Hears(t, "logout")
<1> USE Signed
<1>1. TypeOK /\ current # Nil
  BY DEF Current
<1>2. CASE EndLogout(t)
  BY <1>2 DEF EndLogout
<1>3. CASE HearLogout(t)
  BY <1>3 DEF HearLogout
<1>4. CASE Load(t)
  BY <1>1, <1>4 DEF Load, TypeOK
<1>5. ASSUME Answered(t) PROVE FALSE
  BY <1>1, <1>5 DEF Answered, TypeOK, Current, CallsCurrent
<1>6. ASSUME Recognize(t) \/ Refuse(t) \/ InsertSuccessor(t) PROVE FALSE
  BY <1>1, <1>6, AtSSOIs
<1> QED BY <1>1, <1>2, <1>3, <1>4, <1>5, <1>6, TabStep

\* "A signed-in user is never shown as signed out" (README.md): until the session of
\* the last login is ended, a tab that shows it goes to "signed out" only for a
\* logout of its own or one it is told of, unless that login crossed a call.
THEOREM SignedInStaysShown == Spec => SignedInStays
<1>1. Current /\ [Next]_vars =>
        [\A t \in Tab : last[t] = current /\ current \in Sid \ ended /\ ~raced /\ last'[t] = Nil =>
           logout[t].pc # "none" \/ Hears(t, "logout")]_vars
  BY StepShown
<1> QED BY <1>1, AlwaysCurrent, PTL DEF Spec, SignedInStays
=============================================================================
