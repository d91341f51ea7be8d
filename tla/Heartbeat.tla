------------------------------- MODULE Heartbeat -------------------------------
(***************************************************************************)
(* The select loop of a WebSocket with its clock (handle_session_websocket *)
(* and handle_system_websocket, src/websocket/handler.rs): a tick every    *)
(* Interval, a ping at each tick, and the end of the loop at the first     *)
(* tick that finds the last sign of life more than Timeout ago.            *)
(*                                                                         *)
(* The body of a branch runs to its end before the loop looks at anything  *)
(* else: a request that waits for the SFU, or a write to a client that     *)
(* does not read, delays the tick and the pongs behind it, and so does the *)
(* ping of the tick and the pong to a ping of the client, which wait for   *)
(* room in the same channel as the writes.  biased takes a due tick before *)
(* the client's frames; a late tick is followed by the missed ones at once *)
(* (interval's default, Burst).                                            *)
(***************************************************************************)
EXTENDS Naturals, Sequences, FiniteSets

CONSTANTS
  Interval,  \* HEARTBEAT_INTERVAL
  Timeout,   \* CLIENT_TIMEOUT
  RoundTrip, \* a live client answers a ping within this time
  MaxBody,   \* the longest time the body of a branch waits
  MaxRequests, \* bound on the frames but pongs the client has sent ahead
  MaxWrites,   \* bound on the messages written before the inbound branch has its turn
  MaxTime    \* bound on the clock

ASSUME HeartbeatAssumption ==
  /\ {Interval, Timeout, MaxBody, MaxTime} \subseteq Nat \ {0}
  /\ {RoundTrip, MaxRequests, MaxWrites} \subseteq Nat
  /\ RoundTrip < Interval

VARIABLES
  now,       \* the clock
  last,      \* last_heartbeat
  nextTick,  \* when heartbeat_interval is due
  body,      \* the end of the body that runs; 0 when the loop is in select
  inbox,     \* frames the client sent, oldest first
  writes,    \* messages written since the inbound branch had its turn
  ping,      \* when the oldest ping a live client has not answered is sent, or None
  alive,     \* the client still answers
  open       \* the loop runs

vars == <<now, last, nextTick, body, inbox, writes, ping, alive, open>>

None == MaxTime + MaxBody + 1
Frame == {"pong", "ping", "request"}

Requests == Cardinality({i \in DOMAIN inbox : inbox[i] # "pong"})

TypeOK ==
  /\ now \in 0..MaxTime
  /\ last \in 0..now
  /\ nextTick \in 0..(now + Interval)
  /\ body \in 0..(now + MaxBody)
  /\ inbox \in Seq(Frame) /\ Requests <= MaxRequests
  /\ writes \in 0..MaxWrites
  /\ ping \in 0..(now + MaxBody) \cup {None}
  /\ alive \in BOOLEAN
  /\ open \in BOOLEAN

\* The first tick of an interval is due at once.
Init ==
  /\ now = 0 /\ last = 0 /\ nextTick = 0 /\ body = 0
  /\ inbox = <<>> /\ writes = 0 /\ ping = None /\ alive = TRUE /\ open = TRUE

-------------------------------------------------------------------------------
(* The loop.                                                               *)

Selecting == open /\ body = 0
TickDue   == nextTick <= now

\* Mutant of TimedOut: one interval without a pong is enough.
TimedOut_OneInterval == now - last > Interval

TimedOut == now - last > Timeout

\* A body takes some time, during which the loop looks at nothing.
Takes(d) == body' = IF d = 0 THEN 0 ELSE now + d

\* The ping is sent when there is room for it.
SendPing(d) ==
  /\ Takes(d)
  /\ ping' = IF alive /\ ping = None THEN now + d ELSE ping

\* Mutant of Tick: the interval moves on once by itself and once by hand.
Tick_Twice ==
  /\ Selecting /\ TickDue
  /\ nextTick' = nextTick + 2 * Interval
  /\ \/ TimedOut /\ open' = FALSE /\ UNCHANGED <<body, ping>>
     \/ ~TimedOut /\ (\E d \in 0..MaxBody : SendPing(d)) /\ UNCHANGED open
  /\ UNCHANGED <<now, last, inbox, writes, alive>>

\* The heartbeat branch: leave the loop, or ping and wait for the next tick.
Tick ==
  /\ Selecting /\ TickDue
  /\ nextTick' = nextTick + Interval
  /\ \/ TimedOut /\ open' = FALSE /\ UNCHANGED <<body, ping>>
     \/ ~TimedOut /\ (\E d \in 0..MaxBody : SendPing(d)) /\ UNCHANGED open
  /\ UNCHANGED <<now, last, inbox, writes, alive>>

\* Mutant of MayServe: select! without biased.
MayServe_Unbiased == Selecting

\* biased: messages and frames are served when no tick is due.
MayServe == Selecting /\ ~TickDue

\* The inbound branch: a pong and the client's own ping, which is answered, are signs of
\* life; a request is handled to its end and is none.
ReadFrame ==
  /\ MayServe
  /\ inbox # <<>>
  /\ inbox' = Tail(inbox)
  /\ writes' = 0
  /\ last' = IF Head(inbox) = "request" THEN last ELSE now
  /\ \E d \in 0..MaxBody : (Head(inbox) = "pong" => d = 0) /\ Takes(d)
  /\ UNCHANGED <<now, nextTick, ping, alive, open>>

\* The outbound branch, taken before the inbound one, waits for the client to read.
Write ==
  /\ MayServe
  /\ writes < MaxWrites
  /\ writes' = IF inbox = <<>> THEN 0 ELSE writes + 1
  /\ \E d \in 0..MaxBody : Takes(d)
  /\ UNCHANGED <<now, last, nextTick, inbox, ping, alive, open>>

BodyEnds ==
  /\ open /\ body # 0 /\ body = now
  /\ body' = 0
  /\ UNCHANGED <<now, last, nextTick, inbox, writes, ping, alive, open>>

-------------------------------------------------------------------------------
(* The client and the clock.                                               *)

Answer ==
  /\ alive /\ ping <= now
  /\ inbox' = Append(inbox, "pong")
  /\ ping' = None
  /\ UNCHANGED <<now, last, nextTick, body, writes, alive, open>>

\* The client sends a request, or a ping of its own.
SendRequest ==
  /\ alive /\ open
  /\ Requests < MaxRequests
  /\ \E f \in Frame \ {"pong"} : inbox' = Append(inbox, f)
  /\ UNCHANGED <<now, last, nextTick, body, writes, ping, alive, open>>

\* The client is gone and the network does not say so.
Vanish ==
  /\ alive
  /\ alive' = FALSE
  /\ ping' = None
  /\ UNCHANGED <<now, last, nextTick, body, inbox, writes, open>>

\* Time passes when the loop waits, and no further than a live client's answer is due.
Pass ==
  /\ now < MaxTime
  /\ open
  /\ IF body = 0 THEN ~TickDue /\ inbox = <<>> ELSE now < body
  /\ ping # None => now < ping + RoundTrip
  /\ now' = now + 1
  /\ UNCHANGED <<last, nextTick, body, inbox, writes, ping, alive, open>>

Next == Tick \/ ReadFrame \/ Write \/ BodyEnds \/ Answer \/ SendRequest \/ Vanish \/ Pass

Spec == Init /\ [][Next]_vars

-------------------------------------------------------------------------------
(* Properties.                                                             *)

\* The loop does not go on for long after the last sign of life it saw, however busy it is:
\* a tick falls due at most an interval after the timeout, and then waits for one body.
SilenceIsNoticed == open => now - last < Timeout + Interval + MaxBody

\* A client that answers every ping is not cut off, whatever the loop does, as long as a
\* ping, its answer, the frames and writes before it and the pings of the ticks in between
\* fit in what Timeout leaves beyond an interval.
LiveClientKept == alive => open
=============================================================================
