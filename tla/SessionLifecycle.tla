--------------------------- MODULE SessionLifecycle ---------------------------
(***************************************************************************)
(* What the session manager promises of a session, without tasks, locks    *)
(* and awaits.  A session is live until somebody ends it, then ending,     *)
(* then over.  While it ends, those it was about are told, all with the    *)
(* same reason; it is over only when everybody who was inside when it      *)
(* ended has been told.  Those who enter later are promised nothing.       *)
(*                                                                         *)
(* SessionManager implements this specification (ImplementsLifecycle).     *)
(***************************************************************************)
CONSTANTS
  Session, Participant, Conn, Subscriber,
  Reason  \* why a session ends

Member == Participant \X Conn

VARIABLES
  stage,   \* session -> "live", "ending" or "over"
  inside,  \* session -> the members it owes a SessionEnded
  told     \* session -> <<to, reason>> of the SessionEnded events sent

vars == <<stage, inside, told>>

TypeOK ==
  /\ stage \in [Session -> {"live", "ending", "over"}]
  /\ inside \in [Session -> SUBSET Member]
  /\ told \in [Session -> SUBSET ((Member \cup Subscriber) \X Reason)]

Init ==
  /\ stage = [s \in Session |-> "live"]
  /\ inside = [s \in Session |-> {}]
  /\ told = [s \in Session |-> {}]

Without(s, p) == {m \in inside[s] : m[1] # p}

\* A participant enters a live session, or comes back on another connection.
Enter(s, p, c) ==
  /\ stage[s] = "live"
  /\ inside' = [inside EXCEPT ![s] = Without(s, p) \cup {<<p, c>>}]
  /\ UNCHANGED <<stage, told>>

\* One who comes back while the session ends gives up what it was promised.
Waive(s, p) ==
  /\ stage[s] # "live"
  /\ inside' = [inside EXCEPT ![s] = Without(s, p)]
  /\ UNCHANGED <<stage, told>>

End(s) ==
  /\ stage[s] = "live"
  /\ stage' = [stage EXCEPT ![s] = "ending"]
  /\ UNCHANGED <<inside, told>>

\* Members and system subscribers are told, in one voice.
Tell(s, x, r) ==
  /\ stage[s] = "ending"
  /\ \A n \in told[s] : n[2] = r
  /\ told' = [told EXCEPT ![s] = @ \cup {<<x, r>>}]
  /\ UNCHANGED <<stage, inside>>

EverybodyTold(s) == \A m \in inside[s] : \E r \in Reason : <<m, r>> \in told[s]

\* The session is forgotten, or left behind empty-handed by who ended it.
Finish(s) ==
  /\ stage[s] = "ending"
  /\ EverybodyTold(s)
  /\ stage' = [stage EXCEPT ![s] = "over"]
  /\ \/ inside' = [inside EXCEPT ![s] = {}]
     \/ inside' = inside
  /\ UNCHANGED told

Next ==
  \E s \in Session :
    \/ End(s)
    \/ Finish(s)
    \/ \E p \in Participant : Waive(s, p) \/ \E c \in Conn : Enter(s, p, c)
    \/ \E x \in Member \cup Subscriber, r \in Reason : Tell(s, x, r)

Spec == Init /\ [][Next]_vars
=============================================================================
