-------------------------- MODULE SessionContract --------------------------
(***************************************************************************)
(* What the service promises about a session, whatever requests, failures  *)
(* and clean-ups it takes to get there.  A session is started once, by a   *)
(* login; its owner, start and deadline are fixed from then on; it may be  *)
(* ended at any time.  While a refresh rotates its token it has no current *)
(* one ("rotating"); and a refresh that already claimed its token when the *)
(* session was ended can bring it back ("ending").  Once no such refresh   *)
(* is left, the session is over for good.                                  *)
(***************************************************************************)
EXTENDS Naturals

CONSTANTS Sid, User, Nil

VARIABLE session

OpenPhases == {"live", "rotating", "ending"}

State == [phase    : {"unborn", "over"} \cup OpenPhases,
          owner    : User \cup {Nil},
          start    : Nat \cup {Nil},
          deadline : Nat \cup {Nil}]

Open(a) == a.phase \in OpenPhases

SameOwnerAndTimes(a, b) ==
  b.owner = a.owner /\ b.start = a.start /\ b.deadline = a.deadline

\* An id may also go unused: it is then over without ever having been live.
Move(a, b) ==
  \/ b = a
  \/ a.phase = "unborn" /\ b.phase \in {"live", "over"}
  \/ Open(a) /\ Open(b) /\ SameOwnerAndTimes(a, b)
  \/ Open(a) /\ b.phase = "over"

Init == session \in [Sid -> State]

\* One write can move many sessions (sign out everywhere, clean-up).
Next == /\ session' \in [Sid -> State]
        /\ \A s \in Sid : Move(session[s], session'[s])

Spec == Init /\ [][Next]_session
=============================================================================
