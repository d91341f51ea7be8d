---------------------------- MODULE OutboundQueues ----------------------------
(***************************************************************************)
(* The bounded channels (mpsc::channel(150)) that carry messages to the    *)
(* clients: who fills them, who empties them and who waits for whom        *)
(* (src/websocket/handler.rs, src/signal/core.rs, src/signal/manager.rs).  *)
(*                                                                         *)
(* A handler empties its own channel only in its select loop; while it     *)
(* handles a request, or cleans up, it sends to channels, its own among    *)
(* them.  Event tasks and the tracker send too.  send().await waits while  *)
(* the channel is full, in FIFO order: queue[x] holds the messages in the  *)
(* channel, line[x] those whose senders still wait for room.               *)
(*                                                                         *)
(* The manager is reduced to what decides where messages go; module        *)
(* SessionManager has its interleavings.  A client may enter a session as  *)
(* several participants, which then all have its channel.                  *)
(***************************************************************************)
EXTENDS Naturals, Sequences, FiniteSets

CONSTANTS
  Conn,        \* session WebSockets
  Subscriber,  \* system WebSockets
  Session,     \* session ids the SFU may hand out, and the empty one where it is considered
  EmptySession, \* the session id in the envelope of a refused register_session
  Participant, \* participant ids
  Ids,         \* connection -> the ids under which its client enters sessions
  Listener,    \* participants whose SFU events are subscribed to (bounds the event tasks)
  Capacity,    \* of each channel (150 in the code for every one)
  Tracker,     \* the usage tracker
  None

Channel == Conn \cup Subscriber

\* A participant of a session with the channel its sender leads to.
Member == {m \in Participant \X Conn : m[1] \in Ids[m[2]]}

\* Whom broadcasts are sent to.
Receiver == Member \cup Subscriber

ASSUME QueueAssumption ==
  /\ Capacity \in [Channel -> Nat \ {0}]
  /\ Conn \cap Subscriber = {}
  /\ Ids \in [Conn -> SUBSET Participant]
  /\ \A c \in Conn : IsFiniteSet(Ids[c])
  /\ Listener \subseteq Participant
  /\ Conn \cap (Session \X Listener) = {}
  /\ Subscriber \cap (Participant \X Conn) = {}
  /\ Tracker \notin Conn \cup (Session \X Listener)
  /\ None \notin Session

VARIABLES
  queue,        \* channel -> the messages in it
  line,         \* channel -> the tasks that wait for room in it, with their messages
  phase,        \* what the owner of a channel is doing; a subscriber is absent or in its loop
  op,           \* task -> the operation it is in: step, session, whom it still has to send to
  status,       \* session -> "fresh", "live" or "marked" (terminating_sessions)
  members,      \* session -> its participants map, as pairs of participant and connection
  streams,      \* event tasks that run: <<session, participant>>
  bound,        \* connection -> the session its cleanup terminates
  known,        \* sessions whose id some client has been told
  announced,    \* ghost: session -> subscribers that were sent SessionCreated,
  endedTo       \*   or SessionEnded, while the session is being announced

vars == <<queue, line, phase, op, status, members, streams, bound, known,
          announced, endedTo>>

Stream  == Session \X Listener
Task    == Conn \cup Stream \cup {Tracker}

\* A reply, a SessionCreated, or any other event.  sid is the session a client learns from
\* it; own tells whether the channel belongs to the sender.
Kind == {"reply", "created", "event"}
Messages == [kind : Kind, sid : Session \cup {None}, own : BOOLEAN]

Broadcast == {"announcing", "warning", "farewell", "telling", "tellingSystem"}
Op(step, s, todo) == [step |-> step, sid |-> s, todo |-> todo]
NoOp == Op("none", None, {})

TypeOK ==
  /\ queue \in [Channel -> Seq(Messages)]
  /\ line \in [Channel -> Seq(Task \X Messages)]
  /\ \A x \in Channel : /\ Len(queue[x]) <= Capacity[x]
                        /\ line[x] # <<>> => Len(queue[x]) = Capacity[x]
  /\ phase \in [Channel -> {"absent", "loop", "rejecting", "away", "cleanup", "gone"}]
  /\ op \in [Task -> [step : Broadcast \cup {"none", "replying", "replied"},
                      sid : Session \cup {None}, todo : SUBSET Receiver]]
  /\ status \in [Session -> {"fresh", "live", "marked"}]
  /\ members \in [Session -> SUBSET Member]
  /\ streams \subseteq Stream
  /\ bound \in [Conn -> Session \cup {None}]
  /\ known \subseteq Session
  /\ announced \in [Session -> SUBSET Subscriber]
  /\ endedTo \in [Session -> SUBSET Subscriber]

-------------------------------------------------------------------------------
(* The channels.                                                           *)

\* t waits for room in the channel x.
WaitsFor(t, x) == \E i \in DOMAIN line[x] : line[x][i][1] = t
Waiting(t) == \E x \in Channel : WaitsFor(t, x)

\* Mutant of Put: an unbounded channel.
Put_Unbounded(t, x, kind, s) ==
  /\ queue' = [queue EXCEPT ![x] = Append(@, [kind |-> kind, sid |-> s, own |-> t = x])]
  /\ UNCHANGED line

\* send().await of t: into the channel, or into the line when it is full; an error at once
\* when the receiver is gone.
Put(t, x, kind, s) ==
  LET m == [kind |-> kind, sid |-> s, own |-> t = x]
      open == phase[x] \notin {"absent", "gone"}
      full == Len(queue[x]) = Capacity[x]
  IN /\ queue' = IF open /\ ~full THEN [queue EXCEPT ![x] = Append(@, m)] ELSE queue
     /\ line'  = IF open /\ full THEN [line EXCEPT ![x] = Append(@, <<t, m>>)] ELSE line

\* The channel of a receiver of a broadcast.
ChannelOf(x) == IF x \in Subscriber THEN x ELSE x[2]

\* participants.insert: the sender of p is replaced.
Enter(s, p, c) == members' = [members EXCEPT ![s] = {m \in @ : m[1] # p} \cup {<<p, c>>}]

\* The line q without the senders in gone: a future that is dropped gives up its place.
Without(q, gone) ==
  LET kept == {i \in DOMAIN q : q[i][1] \notin gone}
      place(i) == Cardinality({k \in kept : k <= i})
  IN [j \in 1 .. Cardinality(kept) |-> q[CHOOSE i \in kept : place(i) = j]]

\* system_subscribers
SystemSubscribers == {u \in Subscriber : phase[u] = "loop"}

\* register_session is broadcasting SessionCreated of s.
Announcing(s) == \E t \in Task : op[t].step = "announcing" /\ op[t].sid = s

\* t has made all the sends of that broadcast, and the last has found room.
Sent(t, step) == op[t].step = step /\ op[t].todo = {} /\ ~Waiting(t)

Init ==
  /\ queue = [x \in Channel |-> <<>>]
  /\ line = [x \in Channel |-> <<>>]
  /\ phase = [x \in Channel |-> IF x \in Conn THEN "loop" ELSE "absent"]
  /\ op = [t \in Task |-> NoOp]
  /\ status = [s \in Session |-> "fresh"]
  /\ members = [s \in Session |-> {}]
  /\ streams = {}
  /\ bound = [c \in Conn |-> None]
  /\ known = {}
  /\ announced = [s \in Session |-> {}]
  /\ endedTo = [s \in Session |-> {}]

-------------------------------------------------------------------------------
(* The select loop of a handler.                                           *)

\* Mutant of MayRead: select! without biased.
MayRead_Unbiased(x) == phase[x] = "loop"

\* biased: the client's frames are looked at when the channel is empty.
MayRead(x) == phase[x] = "loop" /\ queue[x] = <<>>

\* The outbound branch takes a message, which lets the first in line in, and from then on the
\* client may know the session it is about.  Waiting in session.binary, for however long, is
\* being slow to take the next step.
Receive(x) ==
  /\ phase[x] = "loop"
  /\ queue[x] # <<>>
  /\ known' = known \cup ({Head(queue[x]).sid} \ {None})
  /\ IF line[x] = <<>>
       THEN queue' = [queue EXCEPT ![x] = Tail(@)] /\ UNCHANGED line
       ELSE /\ queue' = [queue EXCEPT ![x] = Append(Tail(@), Head(line[x])[2])]
            /\ line' = [line EXCEPT ![x] = Tail(@)]
  /\ UNCHANGED <<phase, op, status, members, streams, bound, announced, endedTo>>

\* The client has taken the error of Malformed.
Written(x) ==
  /\ phase[x] = "rejecting"
  /\ phase' = [phase EXCEPT ![x] = "loop"]
  /\ UNCHANGED <<queue, line, op, status, members, streams, bound, known,
                 announced, endedTo>>

\* The handler of x is over: its receiver is dropped, and with it the line.
DropReceiver(x) ==
  /\ phase' = [phase EXCEPT ![x] = IF x \in Conn THEN "gone" ELSE "absent"]
  /\ queue' = [queue EXCEPT ![x] = <<>>]
  /\ line' = [line EXCEPT ![x] = <<>>]

\* The mark is set by the first caller; the broadcast clones the participants later.
Mark(t, s) ==
  /\ status' = [status EXCEPT ![s] = "marked"]
  /\ op' = [op EXCEPT ![t] = Op("telling", s, members[s])]

\* The connection is bound to a session nobody terminates yet.
MustTerminate(c) == \E s \in Session : s = bound[c] /\ status[s] # "marked"

\* The loop of a session WebSocket ends; cleanup terminates the session it is bound to.
Leave(c) ==
  \/ ~MustTerminate(c) /\ DropReceiver(c) /\ UNCHANGED <<op, status>>
  \/ /\ MustTerminate(c)
     /\ phase' = [phase EXCEPT ![c] = "cleanup"]
     /\ Mark(c, bound[c])
     /\ UNCHANGED <<queue, line>>

\* Broken connection while writing, close frame, end of the stream or heartbeat timeout.
LoopEnds(x) ==
  /\ phase[x] = "loop"
  /\ \/ x \in Conn /\ Leave(x)
     \/ x \in Subscriber /\ DropReceiver(x) /\ UNCHANGED <<op, status>>
  /\ UNCHANGED <<members, streams, bound, known, announced, endedTo>>

\* A system WebSocket subscribes.  It may take the name of an earlier one that no broadcast
\* in progress has in its snapshot any more.
SystemConnects(u) ==
  /\ phase[u] = "absent"
  /\ \A t \in Task : u \notin op[t].todo
  /\ phase' = [phase EXCEPT ![u] = "loop"]
  /\ UNCHANGED <<queue, line, op, status, members, streams, bound, known, announced, endedTo>>

-------------------------------------------------------------------------------
(* Requests.  The handler is away from its loop until the reply is queued. *)

Away(c, o) ==
  /\ MayRead(c)
  /\ phase' = [phase EXCEPT ![c] = "away"]
  /\ op' = [op EXCEPT ![c] = o]

\* Mutant of Announce: the broadcast is left to a background task, the reply does not wait.
Announce_Background(c, s) ==
  op' = [op EXCEPT ![c] = Op("replying", s, {}), ![Tracker] = Op("announcing", s, SystemSubscribers)]

\* register_session tells the subscribers before it replies.
Announce(c, s) == op' = [op EXCEPT ![c] = Op("announcing", s, SystemSubscribers)]

\* register_session accepted by the SFU: insert the creator, then announce the session.
Register(c, p, s) ==
  /\ p \in Ids[c]
  /\ status[s] = "fresh" /\ s # EmptySession
  /\ MayRead(c)
  /\ phase' = [phase EXCEPT ![c] = "away"]
  /\ Announce(c, s)
  /\ status' = [status EXCEPT ![s] = "live"]
  /\ Enter(s, p, c)
  /\ UNCHANGED <<queue, line, streams, bound, known, announced, endedTo>>

\* join_session accepted by the SFU, which may be just before the session is marked.
Join(c, p, s) ==
  /\ p \in Ids[c]
  /\ s \in known
  /\ status[s] = "live"
  /\ Away(c, Op("replying", s, {}))
  /\ Enter(s, p, c)
  /\ UNCHANGED <<queue, line, status, streams, bound, known, announced, endedTo>>

\* subscribe_to_events accepted by the SFU: the event task runs before the reply is queued.
Subscribe(c, p, s) ==
  /\ p \in Listener
  /\ s \in known
  /\ status[s] = "live"
  /\ streams' = streams \cup {<<s, p>>}
  /\ Away(c, Op("replying", None, {}))
  /\ UNCHANGED <<queue, line, status, members, bound, known, announced, endedTo>>

\* close_session by a participant of a live session.
Close(c, s) ==
  /\ s \in known
  /\ status[s] = "live"
  /\ members[s] # {}
  /\ MayRead(c)
  /\ phase' = [phase EXCEPT ![c] = "away"]
  /\ Mark(c, s)
  /\ UNCHANGED <<queue, line, members, streams, bound, known, announced, endedTo>>

\* A register_session or join_session that is refused: the session in the error envelope, the
\* empty or the requested one, binds the connection like that of a success.
Refused(c, s) ==
  /\ s \in known \cup {EmptySession}
  /\ Away(c, Op("replying", s, {}))
  /\ UNCHANGED <<queue, line, status, members, streams, bound, known,
                 announced, endedTo>>

\* Everything else is a call to the SFU, or a refusal, and a reply.
Relay(c) ==
  /\ Away(c, Op("replying", None, {}))
  /\ UNCHANGED <<queue, line, status, members, streams, bound, known,
                 announced, endedTo>>

\* An envelope that cannot be decoded or is empty: the error goes past the channel.
Malformed(c) ==
  /\ MayRead(c)
  /\ phase' = [phase EXCEPT ![c] = "rejecting"]
  /\ UNCHANGED <<queue, line, op, status, members, streams, bound, known,
                 announced, endedTo>>

\* The session clients learn from a reply about s.
Learnt(s) == IF s \in known \cup {EmptySession} THEN None ELSE s

\* The reply enters the handler's own channel; register and join have bound the connection.
\* When that is full the handler waits for room which only its own loop would make: it never
\* comes back.
Reply(c) ==
  /\ phase[c] = "away"
  /\ op[c].step = "replying" \/ Sent(c, "announcing")
  /\ Put(c, c, "reply", Learnt(op[c].sid))
  /\ bound' = [bound EXCEPT ![c] = IF op[c].sid = None THEN @ ELSE op[c].sid]
  /\ LET full == Len(queue[c]) = Capacity[c]
     IN /\ op' = [op EXCEPT ![c] = IF full THEN [@ EXCEPT !.step = "replied"] ELSE NoOp]
        /\ phase' = [phase EXCEPT ![c] = IF full THEN @ ELSE "loop"]
  /\ LET over == IF op[c].step = "announcing" THEN {op[c].sid} ELSE {}
     IN /\ announced' = [s \in Session |-> IF s \in over THEN {} ELSE announced[s]]
        /\ endedTo' = [s \in Session |-> IF s \in over THEN {} ELSE endedTo[s]]
  /\ UNCHANGED <<status, members, streams, known>>

-------------------------------------------------------------------------------
(* Broadcasts: one send after the other, each waiting for room.            *)

\* The next send of the broadcast t is in; the previous one has found room.
SendNext(t, x) ==
  /\ op[t].step \in Broadcast
  /\ x \in op[t].todo
  /\ ~Waiting(t)
  /\ IF op[t].step = "announcing" THEN Put(t, ChannelOf(x), "created", op[t].sid)
                                  ELSE Put(t, ChannelOf(x), "event", None)
  /\ op' = [op EXCEPT ![t].todo = @ \ {x}]
  /\ announced' = IF op[t].step = "announcing" THEN [announced EXCEPT ![op[t].sid] = @ \cup {x}]
                                               ELSE announced
  /\ endedTo' = IF op[t].step = "tellingSystem" /\ Announcing(op[t].sid)
                  THEN [endedTo EXCEPT ![op[t].sid] = @ \cup {x}] ELSE endedTo
  /\ UNCHANGED <<phase, status, members, streams, bound, known>>

\* terminate_session: the participants are told, the subscribers are next.
ParticipantsTold(t) ==
  /\ Sent(t, "telling")
  /\ op' = [op EXCEPT ![t] = Op("tellingSystem", @.sid, SystemSubscribers)]
  /\ UNCHANGED <<queue, line, phase, status, members, streams, bound, known,
                 announced, endedTo>>

\* terminate_session: abort the event tasks, also those that wait for room; remove the session.
EndTermination(t) ==
  /\ Sent(t, "tellingSystem")
  /\ LET s       == op[t].sid
         aborted == {s} \X Listener
         over    == t \in Conn /\ phase[t] = "cleanup"
         dropped == IF over THEN {t} ELSE {}
     IN /\ streams' = streams \ aborted
        /\ members' = [members EXCEPT ![s] = {}]
        /\ queue' = [x \in Channel |-> IF x \in dropped THEN <<>> ELSE queue[x]]
        /\ line'  = [x \in Channel |-> IF x \in dropped THEN <<>> ELSE Without(line[x], aborted)]
        /\ phase' = [x \in Channel |-> IF x \in dropped THEN "gone" ELSE phase[x]]
        /\ op' = [u \in Task |-> IF u = t /\ t \in Conn /\ ~over THEN Op("replying", None, {})
                                 ELSE IF u = t \/ u \in aborted THEN NoOp ELSE op[u]]
  /\ UNCHANGED <<status, bound, known, announced, endedTo>>

-------------------------------------------------------------------------------
(* Event tasks and the tracker.                                            *)

\* An event of the SFU for the participant: the task waits for room in its channel.
Forward(s, p) ==
  /\ <<s, p>> \in streams
  /\ op[<<s, p>>] = NoOp
  /\ ~Waiting(<<s, p>>)
  /\ \E m \in members[s] : m[1] = p /\ Put(<<s, p>>, m[2], "event", None)
  /\ UNCHANGED <<phase, op, status, members, streams, bound, known,
                 announced, endedTo>>

\* A media failure: the task terminates the session unless it already is.
MediaCloses(s, p) ==
  /\ <<s, p>> \in streams
  /\ op[<<s, p>>] = NoOp
  /\ ~Waiting(<<s, p>>)
  /\ \/ status[s] = "live" /\ Mark(<<s, p>>, s) /\ UNCHANGED streams
     \/ status[s] = "marked" /\ streams' = streams \ {<<s, p>>} /\ UNCHANGED <<op, status>>
  /\ UNCHANGED <<queue, line, phase, members, bound, known, announced, endedTo>>

\* The first report is due a minute after Start: by then the announcement of the session is
\* over or held up by a full channel.
Reportable(s) ==
  /\ status[s] = "live"
  /\ op[Tracker] = NoOp
  /\ \A t \in Task : op[t].step = "announcing" /\ op[t].sid = s => Waiting(t)

\* A warning to the participants, or the farewell that precedes a termination.
Report(s) ==
  /\ Reportable(s)
  /\ \/ op' = [op EXCEPT ![Tracker] = Op("warning", s, members[s])]
     \/ op' = [op EXCEPT ![Tracker] = Op("farewell", s, SystemSubscribers)]
  /\ UNCHANGED <<queue, line, phase, status, members, streams, bound, known,
                 announced, endedTo>>

Reported ==
  /\ \/ Sent(Tracker, "warning") /\ op' = [op EXCEPT ![Tracker] = NoOp] /\ UNCHANGED status
     \/ /\ Sent(Tracker, "farewell")
        /\ LET s == op[Tracker].sid
           IN \/ status[s] = "live" /\ Mark(Tracker, s)
              \/ status[s] = "marked" /\ op' = [op EXCEPT ![Tracker] = NoOp] /\ UNCHANGED status
  /\ UNCHANGED <<queue, line, phase, members, streams, bound, known,
                 announced, endedTo>>

-------------------------------------------------------------------------------
Request(c) ==
  \/ Relay(c)
  \/ Malformed(c)
  \/ \E s \in Session : Refused(c, s) \/ Close(c, s)
  \/ \E s \in Session, p \in Participant :
       Register(c, p, s) \/ Join(c, p, s) \/ Subscribe(c, p, s)

\* What t does once its last send has found room.
Proceed(t) ==
  \/ \E x \in Receiver : SendNext(t, x)
  \/ ParticipantsTold(t)
  \/ EndTermination(t)
  \/ t \in Conn /\ Reply(t)
  \/ t = Tracker /\ Reported

Next ==
  \/ \E x \in Channel : Receive(x) \/ Written(x) \/ LoopEnds(x)
  \/ \E u \in Subscriber : SystemConnects(u)
  \/ \E c \in Conn : Request(c)
  \/ \E t \in Task : Proceed(t)
  \/ \E s \in Session : Report(s) \/ \E p \in Listener : Forward(s, p) \/ MediaCloses(s, p)

Spec == Init /\ [][Next]_vars

-------------------------------------------------------------------------------
(* Properties.                                                             *)

\* How many messages of other tasks are in the channel of c, and how many of its own at most
\* while c waits for room: a request finds the channel empty, and puts in a SessionEnded for
\* each participant of the client ahead of the reply; the cleanup may find all these and adds
\* a SessionEnded for each participant again.
Foreign(c) == Cardinality({i \in DOMAIN queue[c] : ~queue[c][i].own})
OwnAtMost(c) == LET k == Cardinality(Ids[c]) IN IF phase[c] = "cleanup" THEN 2 * k + 1 ELSE k

\* The sends of a circle of handlers that wait for each other, or of one that waits for itself,
\* never find room; each handler of the circle is waited for and waits.  Then its channel was
\* filled by others but for a few messages for each participant its client entered as: the
\* replies to the requests a client sends ahead, however many, do not add up (biased drains
\* the channel before it reads a request).  A client with as many participants as its channel
\* has room fills it alone.  The waits of event tasks and of the tracker are not bounded.
DeadlockNeedsBurst ==
  \A c, d \in Conn : WaitsFor(c, d) /\ Waiting(d) => Foreign(d) + OwnAtMost(d) >= Capacity[d]

\* The error for an undecodable request goes past the channel; it must not overtake the
\* reply to an earlier request that still is in the channel.
RepliesInOrder ==
  \A c \in Conn : phase[c] = "rejecting" => \A i \in DOMAIN queue[c] : queue[c][i].kind # "reply"

\* A subscriber may be sent SessionEnded while SessionCreated still is on its way to it, but
\* only after another subscriber was sent SessionCreated: until then nobody knows the id.
EndedFirstNeedsLeak ==
  \A t \in Task : \A s \in Session :
    op[t].step = "announcing" /\ op[t].sid = s /\ op[t].todo \cap endedTo[s] # {} =>
      announced[s] # {}
=============================================================================
