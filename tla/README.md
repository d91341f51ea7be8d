# Verification of saasy-signal

TLA+ specifications of saasy-signal, the signaling server of the SaasyByte
platform, with TLC configurations and TLAPS proofs. Paths are those of the
repository (`src/signal/manager.rs`).

## The system

One process, tokio tasks, no persistent state: the concurrency of the tasks is
what there is to verify, and what the process shares with the SFU, which
remembers sessions a restart has forgotten.

| Component | Source | State | Operations |
|---|---|---|---|
| Session manager | `signal/manager.rs`, `signal/session.rs` | `sessions` (session, participant, channel), `system_subscribers`, `event_task_handles` under a mutex, `terminating_sessions` | subscribe/unsubscribe to system events, register a participant, subscribe to SFU events (spawns a forwarding task), broadcasts, terminate a session |
| Session WebSocket handler | `websocket/handler.rs:107-228` | its session and participant id, last heartbeat, an outbound channel of 150 messages | heartbeat, outbound messages, requests one at a time, cleanup |
| System WebSocket handler | `websocket/handler.rs:230-325` | its subscription, heartbeat, outbound channel | heartbeat, outbound events, unsubscribe |
| SignalCore | `signal/core.rs` | none of its own | eleven requests, each a call to the SFU or the manager; four of them change the server's state |
| Usage tracker | `background/tracker.rs` | `tracked_sessions` with last report and two flags; a command channel of 100 | Start, Stop, tick: report, warn, farewell, terminate |
| SFU client, Core client | `grpc/` | a mutex around the gRPC channel | one RPC per method, no timeout |
| Health service and gate | `background/health.rs`, `http/health.rs`, `websocket/handler.rs:54` | one flag | poll every 5 s; refuse session WebSockets while not ready |
| JWT, TURN, configuration, start-up | `auth/`, `turn.rs`, `config.rs`, `main.rs` | constants | pure functions, sequential start, shutdown |

How they interact:

- Handlers, the tracker and the event forwarding tasks share one manager. All
  of them call `terminate_session`; the first to insert the session id in
  `terminating_sessions` runs it, the others return at once. Ids never leave
  that set.
- `terminate_session` closes the session at the SFU, sends `SessionEnded` to the
  participants and to the system subscribers, aborts the event tasks of the
  session and removes it, with an await between any two of these.
- Handlers send Start and Stop to the tracker through a bounded channel; the
  tracker does one thing at a time, a farewell of seven seconds and a
  termination included.
- Messages to clients go through bounded channels. A handler empties its channel
  in its loop only; while it works on a request it sends to channels, its own
  among them.
- Every call to the SFU goes through one mutex that is held until the answer.
- The health service overwrites a flag that upgrades and readiness requests read.

What is hard: the awaits inside `terminate_session` and `subscribe_to_events`
(interleavings, snapshots taken before and used after), a task that aborts
itself, connections bound to sessions they never entered, commands queued
behind slow work, timers against slow calls, channels that fill while their owner
is away, and calls whose answer is lost. `PROJECT.json` lists each
hazard at its line with the properties that watch it.

What makes each component correct:

- manager: one terminator and one end reason per session; every participant it
  had is told before it is removed; no event task outlives its session; a
  termination ends;
- handlers: a connection that is gone leaves no tracked session and no
  unterminated session behind, and no member but for causes that can be named;
- tracker: never bills more time than has passed, acts on current data only,
  warns before it cuts off, warns at most once per threshold, and is not late by
  more than its own work explains;
- channels: replies keep their order, a subscriber hears of a session before its
  end, and handlers do not lock each other out;
- heartbeat: a live client is kept, a silent one is noticed;
- SFU client: the server and the SFU agree on which sessions exist, up to what
  the SFU or the network got wrong; every call returns unless the SFU hangs;
- health gate: an outage and a recovery are noticed within two probes;
- start-up: settings are used completely or refused, and credentials are good
  when handed out.

## Modules

| Module | Models | Checked by |
|---|---|---|
| `SessionManager` | `manager.rs`: the shared maps under every caller | `manager_*` runs |
| `SessionLifecycle` | what the manager promises of a session, abstractly | `manager_callers`, as the specification refined |
| `SessionManager_proofs` | theorems about `SessionManager` | TLAPS |
| `SessionManager_refinement` | the proof that `SessionManager` implements `SessionLifecycle` | TLAPS |
| `SignalServer` | handlers, requests and tracker on one manager (`INSTANCE SessionManager`) | `server_*` runs |
| `UsageTracker` | `tracker.rs` with time | `tracker_reports` |
| `OutboundQueues` | the bounded channels to the clients and who waits for whom: `handler.rs`, `core.rs`, `manager.rs` | `queues_channels` |
| `Heartbeat` | the select loop of a WebSocket with its clock: `handler.rs` | `heartbeat_loop` |
| `SfuClient` | requests as calls to the SFU: `core.rs`, `grpc/sfu/client.rs` | `sfu_calls` |
| `ServerSetup` | `main.rs`, `config.rs`, `turn.rs`: start-up and the expiry of credentials | through `HealthGate` |
| `HealthGate` | `background/health.rs`, `http/health.rs`, the gate in `handler.rs`, on top of `ServerSetup` | `health_gate` |
| `SignalServer_proofs`, `UsageTracker_proofs`, `OutboundQueues_proofs`, `Heartbeat_proofs`, `SfuClient_proofs`, `HealthGate_proofs` | theorems about the module of the name, `HealthGate_proofs` also about `ServerSetup` | TLAPS |
| `MC*` | instances for TLC | |

### SessionManager

The async methods are cut at their awaits. `call[t]` is the frame of caller `t`:
the step it is suspended at and the arguments it still needs. Callers are the
tasks of the server and the event tasks; a task calls any method at any time, so
what holds here holds under any use `SignalServer` makes of it.

- `sessions`, `systemSubscribers`, `handles`, `terminating` are the four maps. A
  read or write lock that is released before the next await is one step. The
  mutex of the handles is held over the call to the SFU in
  `subscribe_to_events`, so it is a variable, `handlesLock`.
- `subscribe_to_events` is `LockHandles`, then `SfuAccepts` or
  `SubscribeFails`, then `SpawnEventTask`. An "Already subscribed" call changes
  nothing and has no step.
- An event task streams until media closes (`MediaClosed`, which looks at
  `is_terminating` and marks in a later step) or the stream ends (`StreamEnds`,
  which leaves the handle in the map).
- `abort()` puts a task in `cancelled`; a cancelled task may be dropped at any
  later await (`DropAborted`) or run on while its awaits are ready, as tokio does.
- `terminate_session` is `MarkTerminating`, `CloseSfu`, `CollectParticipants`,
  `Tell`..., `CollectSubscribers`, `Tell`..., `AbortEventTasks`, `RemoveSession`.
- The SFU (`sfu`) is external: it hands out an id once, accepts subscriptions to
  open sessions, and closes a session or fails to.
- `ended` and `late` are ghosts: the events sent and the participants registered
  after the mark.

### SessionLifecycle

No tasks, locks or awaits: a session is live, then ending, then over. Whoever is
inside when it ends is owed one `SessionEnded`; all are told with one reason, and
the session is over only when all have been told. A participant that comes back
while the session ends waives the promise. `SessionManager` implements it
(`ImplementsLifecycle`): the stage is read from the mark and from whether the
terminator is done or was dropped, `inside` is the map without those who
registered after the mark, `told` the events sent. Every step of the manager is
then a step of the lifecycle or a stutter.

### SignalServer

`handler[c]` says at which await of a registration, a join or the cleanup the
handler of connection `c` is, `bound[c]` is its `session_id` and
`participant_id`. While the handler is inside a manager call, its frame in the
manager is not idle. Error envelopes carry ids too: the empty session id after a
failed registration (`EmptySession`), the requested one after a failed join, and
both bind the connection, as in the code.

The tracker is reduced to its commands, its set of sessions and the session it
is saying farewell to; any tracked session may run out of budget at any time.

`OneSession` describes the clients: TRUE when they register or join once per
connection and name their own session in their requests. `TrackedHasOwner` needs
it: with FALSE, a second registration rebinds the connection, and the first
session stays tracked with nobody to send its Stop. `DeadMemberHasCause` is proved
without it and names rebinding among the causes for which the channel of a
closed connection may stay in the map. The others are a termination that goes on,
a join inserted after the mark, which no later termination removes
(`signal/manager.rs:293`), and a terminator that its own abort loop dropped.

`WaitsForNoReader` says that a terminator waits to send to a connection whose
handler is outside its loop: in a request, in the cleanup of its own, or waiting
for the command queue. The channels are not in this module; that such a wait may
last for ever, for instance when the tracker terminates a session while the
handler's cleanup waits for the queue the tracker empties, is the exception
`DisconnectEndsSession` and `TerminationFinishes` make (see Fairness).

### UsageTracker

Discrete time. It passes while the tracker waits: for a command or a tick, for
Core or a channel (at most `MaxLatency` each), for the end of a farewell. A ready
branch of `select!` is taken before time passes. Missed ticks come in a burst,
tokio's default. `record_usage` answers with one of `Answer` or fails. `since`,
`billed`, `warnings` and `timedOut` are ghosts.

### OutboundQueues

`queue[x]` is the channel of connection or subscriber `x`, `line[x]` the senders
that wait for room, in FIFO order as tokio serves them. The participants of a
session are pairs of an id, which the client chooses, and the connection whose
channel it has (`Member`): a client that enters under several ids (`Ids`) is sent
a broadcast once for each, and an id that enters again has its channel replaced
(`Enter`). A refused registration or join binds the connection to the session of
the error envelope (`Refused`), which its cleanup then terminates. `phase[x]` says whether
the owner is in its loop, away with a request or in cleanup, `op[t]`
which broadcast or reply task `t` is in the middle of. The manager is reduced to
membership and the mark. Messages are reduced to replies, `SessionCreated` and
other events; a client knows a session from the moment a message about it is
taken from its channel, and can only then join or close it. System WebSockets
come and go; a subscriber name is used again once no broadcast holds the earlier
one in its snapshot.

`biased` puts the channel before the client's frames: the handler takes up a
request only with its channel empty (`MayRead`). `DeadlockNeedsBurst` rests on
that. Every set of handlers in which each waits for a channel of another, or for
its own, waits for ever; each of them waits and is waited for. The property says
of such a handler that others have filled its channel, but for the messages it
sent itself: with `k` ids, `k` at most while it is away with a request and
`2k + 1` in its cleanup, however many requests the client has sent ahead. What remains is a real
deadlock of the code: event tasks and the tracker fill the channel of a handler
that is away with a request or in cleanup, and then it waits for room only it
could make. At the capacity of 150 such a burst needs about that many events
during one request, or a client that entered a session under about that many ids
(75 for the cleanup) and then closes it. The waits of the tracker and of event
tasks for a client that does not read have no bound, and the property says
nothing of them.

Where the numbers come from: a request finds the channel empty and may put a
`SessionEnded` there for each id and then the reply, which ends it. All may still
be in the channel when the connection drops and the cleanup adds a `SessionEnded`
for each id. With one session, which is ended once, that many cannot be reached,
so the instance alone suggests fewer; with several sessions they can, and the
attempt to prove the smaller number showed it.

A handler whose reply finds its own channel full does not go on: nobody else
empties the channel (`FullChannelLocksItsHandler`). The model therefore has no
step in which it gets its room.

`EndedFirstNeedsLeak` is about `SessionCreated`, which is broadcast after the
session is in the map. A subscriber sent `SessionEnded` first needs somebody to
have ended the session, which before the reply only a client that learnt the id
from another subscriber's `SessionCreated` can do.

### Heartbeat

Time passes while the loop waits, or while the body of a branch does (`body` is
when it ends). `MaxBody` bounds how long a body may take: a request, a write to the
client, and also the ping of a tick and the pong to a ping of the client, which
wait for room in the same channel as the writes (`SendPing`, `ReadFrame`). `inbox`
holds the frames the client has sent and the loop has not read. The system
WebSocket's handler has the same loop and only logs the client's binary frames,
so its behaviours are among these. The bound in `SilenceIsNoticed` is tight.

`LiveClientKept` holds with the code's 30 s and 60 s while bodies take up to 2 s and
two requests are sent ahead, and fails with bodies of 3 s: the pong lies unread
behind requests, writes and the next tick's ping, `last_heartbeat` is set when it
is read, and `biased` takes the due tick first. No RPC and no write has a
timeout, so the code does not bound the bodies; the instance says what holds when
the SFU and the client are prompt.

### SfuClient

`call[c]` is the frame of a caller: asked, waiting in the `line` for the mutex,
sent, answered. The fields a request must have are checked before it lines up
(`Refuse`, `LineUp`). What each method accepts is `Accepts`: registration wants a
session id in the envelope, the capabilities call the id it asked for, the others
look at the kind of data only, and a subscription takes any stream. The SFU
(external) executes a call or refuses it, answers well or badly, or the
connection breaks (`Fail`), after which it may still execute the call
(`ExecuteLate`). A registration and a join insert their session whether or not it is
marked by then (`Leave`), as `register_session` of the manager does. `learnt` and
`failed` are ghosts. The steps inside the manager
are atomic here; `SessionManager` cuts them.

### ServerSetup and HealthGate

`phase` is how far `main` has come; each step succeeds or ends the process. The
health service runs from the step before the server is bound, and clients are
served when `phase` is `"serving"`. `Expiry` is the unchecked addition of
`turn.rs`, modulo `Modulus`, as a release build computes it. When generating the
credential fails a registration is answered without one and a warning is logged
(`IceServers`, `signal/core.rs:240`).

Time is in seconds. The SFU looks at a probe at one instant (`Look`) and the
answer arrives at another, so that a verdict may be old when it is written. A tick
missed during a slow probe follows at once. The bound of `OutageIsNoticed` and
`RecoveryIsNoticed` is tight: the interval or the timeout, whichever is longer,
and one more timeout. Connections that are open when the SFU goes down stay open;
the gate is for new ones.

## Runs

Bounds: `Session`, `Participant`, `Conn`, `Task`, `EventTask`, `Subscriber`
(sizes), `QueueCapacity` (the command channel, 100 in the code), `Capacity`
(of each channel to a client, 150 in the code), `MaxTime` (the
clock), `MaxRequests` and `MaxWrites` (what a client sends ahead, what is written
before its frames have their turn). `EventTask` bounds how many subscriptions
succeed.

| Run | Instance | Shows |
|---|---|---|
| `manager_callers` | 1 session, 2 participants, 2 connections, 1 task, 2 event tasks, 1 subscriber | `TypeOK`, `OneTerminator`, `OneEndReason`, `RunningTasksHaveHandles`, `NoOrphanEventTask`, `LeftoverHasCause`, `ToldBeforeRemoval`, `ImplementsLifecycle` |
| `server_safety` | 1 session and the empty id, 2 connections, 2 participants, 1 event task, 1 subscriber, queue of 1 | `TypeOK`, `DeadMemberHasCause`, `TrackedHasOwner`, `AbortStaysInSession` |
| `server_liveness` | the same with 1 participant, no event task, no subscriber | `DisconnectEndsSession`, `TerminationFinishes` |
| `tracker_reports` | 2 sessions, tick 1, interval 2, farewells and calls of 1, answers above, between and below the thresholds, queue of 1, 13 units of time | `TypeOK`, `NeverOverBilled`, `WarnedBeforeTimeout`, `AtMostTwoWarnings`, `SnapshotStaysFresh`, `ReportDelayBounded` |
| `queues_channels` | 2 connections, 1 session, 2 participant ids, one of which listens to events, 2 subscribers; the client of one connection enters under both ids and has a channel for three messages, the other one closes and subscribes and has room for one | `TypeOK`, `DeadlockNeedsBurst`, `RepliesInOrder`, `EndedFirstNeedsLeak` |
| `heartbeat_loop` | interval 30 and timeout 60 as in the code, round trip 1, bodies of up to 2, two requests sent ahead, two writes, 100 s | `TypeOK`, `LiveClientKept`, `SilenceIsNoticed` |
| `sfu_calls` | 2 callers, 1 session, all requests | `TypeOK`, `SuccessMeansDone`, `OrphanHasCause`, `KnownIsOpen`, `RefusalsReturn`, `CallsReturn` |
| `health_gate` | every subset of the coturn settings, 0 or 5 workers asked for on 4 CPUs, TTLs up to the modulus of 64; interval and timeout of 5 as in the code, 30 s | `TypeOK`, `OutageIsNoticed`, `RecoveryIsNoticed`, `CredentialAsConfigured` |

Why these are enough: sessions meet only in the mutex of the handles, the filter
of the abort loop and the tracker. One session with every kind of racing caller
covers the manager's own cases: a task and two event tasks give every pair of
racing terminators and a subscription that waits for the mutex meanwhile; two
connections let a participant come back on another one. What crosses sessions is
in `server_*`, where a refused registration makes the empty id a second session
that can be subscribed to and terminated. A queue of one makes "full" the common
case. The safety properties of all modules are also proved for every size (see
Proofs). In the
tracker, intervals are scaled down (tick 1, interval 2, as 10 and 60) so that
several reports, late ticks and a farewell fit below `MaxTime`, and two sessions
make one report wait behind the other's farewell; the properties are stated in
terms of the constants.

Channels of 1 and 3 stand for 150: a channel matters when it is full, and what the
properties count is how many of its messages are foreign. In the channel of three
the property asks for a foreign message of a handler that is away, whose two
`SessionEnded` and reply all fit; the other channels have room for one,
which makes every second message wait, and the property asks that message to be
foreign even in the cleanup. For the cleanup of the client with two ids a channel
of three asks for nothing: that case takes a larger channel and several sessions,
and rests on the proof. `EmptySession` is not in `Session` here, so that a
registration refused before there is a session is a `Relay`; the binding of a
refused join is in the instance, and the theorems cover the empty session as
well. Two
subscribers are what it takes for one to be told while the other waits: that
`SessionEnded` is sent first does happen in this instance, and so does a handler
that waits for its own channel. Two callers of the SFU give
a holder of the mutex and a waiter. The clocks run for several timeouts.

`server_*`, `tracker_reports`, `queues_channels`, `heartbeat_loop` and
`health_gate` do not check deadlock: handlers close for good, the clock is
bounded, a start-up may fail, and in `OutboundQueues` a handler may wait for its
own channel forever (see there).

### Disagreements between code and comments

Four runs end in a counterexample, each for something a comment or the README
says:

- `manager_self_abort`: "Remove session and all participants"
  (`signal/manager.rs:334`). The event task that terminates its own session
  aborts itself in the loop before; it may be dropped while it waits for the
  write lock of `sessions`, and nobody can terminate the session again.
- `server_failed_join`: "Session ID and Participant ID will be set after
  registration/join" (`websocket/handler.rs:145`). A refused join sets them as
  well, and the disconnect of that connection terminates the session.
- `server_tracked_after_end`: "usage/budget tracking during active sessions"
  (`README.md:12`). A session ended by `close_session` or by a media failure
  stays tracked until a connection bound to it disconnects.
- `server_untold_joiner`: "Broadcast to all session participants"
  (`signal/manager.rs:305`). A participant inserted between the snapshot of the
  broadcast and the removal is removed untold.

`ToldBeforeRemoval` and `LeftoverHasCause` state what does hold of the last and
the first.

Three more observations have no run of their own. The task of a stream that ended
leaves its handle in the map, so that its participant is refused as "Already
subscribed" (`signal/manager.rs:78`) without being so; `StreamEnds` has this step.
The heartbeat may report "no response from client" (`websocket/handler.rs:156`)
with the client's pong unread behind a long request, see Heartbeat. And the
shutdown handler logs "Cleaning up..." (`main.rs:113`) and ends: the sessions of
the process stay open on the SFU, as the comment at `main.rs:106` knows.

## Fairness

- `SessionManager`: the steps of a started `terminate_session` are weakly fair:
  each await is a gRPC call, a lock or a send, assumed to resolve. The mutex of
  the handles is a FIFO lock in tokio; that a waiter is not overtaken forever is
  strong fairness of `AbortEventTasks`. The answer to a subscription is weakly
  fair. `TerminationFinishes` is stated of the manager and checked with the callers
  `SignalServer` gives it.
- `SignalServer`: a handler awaits one thing at a time, so that its steps are
  weakly fair together (`HandlerFairness`); a send to the command channel is
  strongly fair, as tokio hands out permits in order, and the tracker's loop is
  weakly fair. Of the sends of a termination (`CallFairness`) only those to a
  handler that keeps returning to its loop, or is closed, are fair (`Drains`): only
  the loop makes room in its channel. That is also an assumption on clients, which
  have to read. A handler that waits in its cleanup, for the command queue or for
  its own channel, makes no room, and no fairness is assumed of a send to it; where
  such a wait lasts for good (`<>[]WaitsForNoReader`), the two properties promise
  nothing. Requests and disconnects are never forced.
- `SfuClient`: callers are scheduled, and an SFU that does not hang answers or
  breaks the connection. Hanging is allowed at any time and for ever; the
  properties say what still returns.
- What is not justified by the code alone: RPCs have no timeout. The liveness
  properties of `SessionManager` and `SignalServer` hold under the assumption that
  they resolve.

## Proofs

Every invariant and action property of the passing runs is stated by a theorem,
for every value of the constants: any number of sessions, participants,
connections, tasks and subscribers, any capacity, interval and timeout. What a
theorem assumes is in its statement, or is an assumption on the constants that
its module states by name. Hardly any property is inductive as it stands;
each module has an invariant `IInv` (or the like) made of named parts, each
action preserves each part in a step or lemma of its own, and the properties
follow. The less obvious invariants can be given to TLC on the instances of the runs.

### SessionManager_proofs, SessionManager_refinement

Assumed: tasks and event tasks are disjoint, `None` is none of the ids
(`ConstantsAssumption`).

- `TypeCorrect`, `OneTerminatorAlways`, `OneEndReasonAlways`,
  `RunningTasksHaveHandlesAlways`, `NoOrphanEventTaskAlways`,
  `AbortStaysInSessionAlways`, `LeftoverHasCauseAlways`, and for the action
  property `ToldBeforeRemovalAlways`.
- That a second caller cannot terminate needs that whoever is past the mark has
  its session marked. That all events agree needs that an event's sender is still
  inside, with the reason it sent, or that nobody is inside any more. That no task
  is orphaned needs the mutex: a caller with an accepted subscription holds it,
  and while the session is closed at the SFU no new one is accepted.
- `Refinement`: `Spec => ImplementsLifecycle`. One lemma for each action of
  `SessionLifecycle` (`Enter` and `Waive`, `End`, `Tell`, `Finish`) says which step
  of the manager is that action under the mapping; all other steps leave what the
  mapping reads unchanged. `Finish` has two sources: the terminator removes the
  session, or it is dropped on its way there, having aborted itself. Both owe it
  to the invariant that everybody was told by then. `RefinementInvariance` adds to `IInv`
  that only members of a marked session count as late.

### SignalServer_proofs

Assumed: `ServerAssumption`, among others that `None` is no session, participant
or pair of them.

- `ServerUsesManager`: `Spec => Manager!Spec`. Each step of the server is a step
  of the manager or leaves its variables alone: a handler, or the tracker, is
  inside a manager call exactly while its frame there says so. All that is proved
  of the manager therefore holds in the server (`ManagerInvariance`,
  `AbortStaysInSessionAlways`).
- `TypeCorrect`.
- `DeadMemberHasCauseAlways`, for any clients: a closed connection has left its
  cleanup, so that the session it is bound to is marked; and whoever marked it
  removes it, was dropped, or met it as a late join.
- `TrackedHasOwnerAlways`, with the hypothesis
  `OneSession` that the run gives its instance too. The invariant follows a
  session through the lives of its connection: while the creator has not sent
  Start the session concerns nobody else; Start comes before every other command
  about the session in the queue; whoever has sent Stop has done so for good; a
  tracked session has an open connection that is concerned with it, or its Stop
  is in the queue. Rebinding breaks this, and is what `OneSession` excludes.

### UsageTracker_proofs

- `TypeCorrect`, `NeverOverBilledAlways`, `SnapshotStaysFreshAlways`,
  `AtMostTwoWarningsAlways`. What is billed is at most the time between Start and
  the last report, but for the session being reported, which Core may have counted
  already (`BilledInv`); the two flags of a session account for its warnings and
  the one about to be sent (`FlagsInv`). `SnapshotStaysFresh` holds since the
  task that runs the round is the one that handles the commands.
- `WarnedBeforeTimeoutAlways` with `HonestCore`: an answer that calls the budget
  exhausted leaves no minutes. The code does not check that; without it a session
  may be cut off unwarned.
- `ReportDelayAlwaysBounded`, for finitely many sessions and with `Swift`: no
  await is longer than an interval and a tick (70 s in the code, which has no
  timeout to enforce it). Without `Swift` the session's own warning, which follows
  its report, makes the next one later than the bound. `LateInv` is an account of
  the delay: what may have passed since the last report of `s` is the round in
  which it was not due, the wait for a tick, the turns that are over of the round
  that collected it, and one farewell for each session that was terminated.

### OutboundQueues_proofs

Assumed: `QueueAssumption`, that capacities are positive and the kinds of tasks
are disjoint.

- `TypeCorrect`: among others, senders are in the line of a full channel only.
- `RepliesAlwaysInOrder`: a handler takes up a frame with its channel empty, and
  nobody else sends replies there.
- `EndedFirstAlwaysNeedsLeak`: a session that nobody was sent anything about is a
  secret (`SecretInv`): no client knows it, no event task runs for it, no message
  about it is in a channel or a line, and only the handler that announces it is
  in an operation on it. The first `SessionCreated` ends the secret, and with it
  the case the property is about.
- `DeadlockAlwaysNeedsBurst`, for any finite set of ids per client: `OwnInv` bounds
  the owner's messages in its channel by where its handler is (`Allowed`). With `k`
  ids they are `k` in a request and `2k + 1` in the cleanup, less those its broadcast
  still has ahead, and `k + 1` in the loop.
- `FullChannelLocksItsHandler`.

Lines are changed in the middle when tasks are aborted (`Without`); `WithoutFacts`
is the lemma about that.

### Heartbeat_proofs

- `TypeCorrect` and `SilenceIsNoticedAlways`: a tick that did not end the loop
  found a sign of life within the timeout, so the next is due an interval later,
  and a body may delay it by its own length.
- `LiveClientKeptAlways` with `Patient`: an interval, a body, the round trip, a
  turn for each frame in front of the pong, and the pings of the ticks that fall
  due before the timeout fit into the timeout. The invariant bounds when the pong
  at each place of the inbox will be read, and how many ticks can come before.
  The instance of `heartbeat_loop` satisfies `Patient` (55 s of 60 s, with two
  ticks); with bodies of 3 s neither `Patient` nor the property holds.

### SfuClient_proofs

- `TypeCorrect`, `SuccessAlwaysMeansDone`, `OrphanAlwaysHasCause`,
  `KnownIsAlwaysOpen`. The first of the line is the only caller that has sent
  (`LineInv`). While the answer to an executed call is on its way the SFU still
  shows its effect (`SentInv`): the id of a registration has reached nobody else,
  so nobody can have the session closed, and a close comes after the mark.

### HealthGate_proofs

- `TypeCorrect`, `OutageIsNoticedAlways`, `RecoveryIsNoticedAlways`: the ticker is
  never more than an interval ahead of the last probe, the clock does not pass a
  probe's deadline, and a verdict that disagrees with the SFU is younger than the
  probe in progress and the one before (`NewsInv`).
- `CredentialAlwaysAsConfigured`, from the phases of `ServerSetup`: once the
  configuration is read, the settings served are complete or absent.

### Only model-checked

The liveness properties, which are out of the prover's reach:
`DisconnectEndsSession`, `TerminationFinishes`, `CallsReturn`, `RefusalsReturn`.
Among the properties of the violated runs there is nothing to prove.

## Not modelled

- The contents of messages, encoding, logging; media parameters are present or
  missing, no more.
- The shutdown of the process: its handler only logs, and what the end of the
  process leaves at the SFU is no state of this program.
- JWT signatures, gRPC, HMAC and the merging of settings: libraries. Their
  outcomes are choices.
- Requests whose type string and data disagree (`websocket/handler.rs:342`): the
  models assume clients that label their requests as they are.
- All queues and all interleavings at once, which is out of TLC's reach: the
  command channel of the tracker is in `SignalServer`, not in `OutboundQueues`, and
  the joins accepted before the mark and inserted after it are in
  `SessionManager`. `OutboundQueues` has no fairness: that sends end while clients
  read follows from its waiting relation as far as `DeadlockNeedsBurst` goes.
- tokio's cooperative budget, which may make a branch of `select!` pretend not to
  be ready: `biased` is taken at its word.
- The memory that `terminating_sessions` takes.

## Plan

Done: all the modules above, a theorem for every safety property of the runs, the
refinement of `SessionLifecycle`.

Left, in this order:

1. Safety parts of the liveness arguments, as theorems: in `SignalServer`, that a
   closed connection that has to end its session is inside the cleanup or has its
   session marked; in `SfuClient`, that a caller in the line is behind callers
   only.
2. `OutboundQueues`: that a line is served in its order and a sender is in one
   line at a time; that a circle of waiting handlers stays, as
   `FullChannelLocksItsHandler` says of the circle of one.
3. An abstract specification of the tracker (tracked, billed, told, ended) that
   `UsageTracker` implements.
