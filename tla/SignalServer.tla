----------------------------- MODULE SignalServer -----------------------------
(***************************************************************************)
(* The server as a whole: the handlers of the session WebSockets           *)
(* (src/websocket/handler.rs with the requests of src/signal/core.rs), the *)
(* command queue and loop of the usage tracker                             *)
(* (src/background/tracker.rs) and the handlers of the system WebSockets,  *)
(* all on one SessionManager.                                              *)
(*                                                                         *)
(* A handler works on one request at a time: its frame says at which await *)
(* of a registration, a join or the cleanup it is.  While it is inside     *)
(* terminate_session or subscribe_to_events its frame in the manager       *)
(* (call[c]) is not idle, and the handler waits.  Requests that change no  *)
(* state of the server (transports, producers, consumers) are left out,    *)
(* and so are the contents of the messages.                                *)
(***************************************************************************)
EXTENDS Sequences, Naturals

CONSTANTS
  Session,       \* session ids, EmptySession among them
  EmptySession,  \* the id "" of the error envelope of a failed registration
  Participant,   \* participant ids, chosen by the clients
  Conn,          \* session WebSockets: a handler and its outbound channel
  Subscriber,    \* system WebSockets
  EventTask,     \* event tasks that may be spawned
  Tracker,       \* the task of the usage tracker
  None,
  QueueCapacity, \* of the channel of usage tracking commands (100 in the code)
  OneSession     \* TRUE: clients register or join once per connection, and then name
                 \* their own session and participant in their requests

ASSUME ServerAssumption ==
  /\ EmptySession \in Session
  /\ Tracker \notin Conn
  /\ QueueCapacity \in Nat \ {0}
  /\ OneSession \in BOOLEAN
  /\ None \notin Session \X Participant

VARIABLES
  sessions, systemSubscribers, handles, handlesLock, terminating, sfu, call,
  cancelled, ended, late,   \* the manager's, see SessionManager
  handler,    \* the frame of each session WebSocket handler
  bound,      \* its session_id and participant_id, None until set
  commands,   \* the queue of usage tracking commands
  tracked,    \* tracked_sessions
  farewell,   \* the session the tracker is about to terminate, or None
  joined      \* ghost: <<connection, session, participant>> the manager ever held

managerVars == <<sessions, systemSubscribers, handles, handlesLock, terminating,
                 sfu, call, cancelled, ended, late>>
trackerVars == <<commands, tracked, farewell>>
vars == <<managerVars, handler, bound, trackerVars, joined>>

Manager == INSTANCE SessionManager WITH Task <- Conn \cup {Tracker}

ASSUME ManagerAssumption == Manager!ConstantsAssumption

Start(s) == [kind |-> "Start", sid |-> s]
Stop(s)  == [kind |-> "Stop", sid |-> s]

Frame(step, s, p) == [step |-> step, sid |-> s, pid |-> p]
Open   == Frame("open", None, None)
Closed == Frame("closed", None, None)

HandlerStep == {"open", "registering", "inserting", "starting", "announcing",
                "joining", "entering", "stopping", "cleanup", "closed"}

TypeOK ==
  /\ Manager!TypeOK
  /\ handler \in [Conn -> [step : HandlerStep, sid : Session \cup {None},
                           pid : Participant \cup {None}]]
  /\ bound \in [Conn -> (Session \X Participant) \cup {None}]
  /\ commands \in Seq([kind : {"Start", "Stop"}, sid : Session])
  /\ Len(commands) <= QueueCapacity
  /\ tracked \subseteq Session
  /\ farewell \in Session \cup {None}
  /\ joined \subseteq Conn \X Session \X Participant

Init ==
  /\ Manager!Init
  /\ handler = [c \in Conn |-> Open]
  /\ bound = [c \in Conn |-> None]
  /\ commands = <<>>
  /\ tracked = {}
  /\ farewell = None
  /\ joined = {}

\* The handler is in its select loop, with no request in progress.
Ready(c) == handler[c] = Open /\ call[c].step = "idle"

MayEnter(c) == OneSession => bound[c] = None
MayName(c, s, p) == OneSession => bound[c] = <<s, p>>

\* Ids a client can have learnt: from a response, or from the event SessionCreated.
Known(s) ==
  \E c \in Conn : \/ handler[c].step = "announcing" /\ handler[c].sid = s
                 \/ \E p \in Participant : bound[c] = <<s, p>>

Goto(c, step, s, p) == handler' = [handler EXCEPT ![c] = Frame(step, s, p)]

\* handle_binary_message returned: the ids of the response, success or error, are kept.
Bind(c, s, p) ==
  /\ handler' = [handler EXCEPT ![c] = Open]
  /\ bound' = [bound EXCEPT ![c] = <<s, p>>]

\* Mutant of Send: an unbounded channel.
Send_Unbounded(command) == commands' = Append(commands, command)

\* A send waits for room in the channel.
Send(command) ==
  /\ Len(commands) < QueueCapacity
  /\ commands' = Append(commands, command)

-------------------------------------------------------------------------------
(* register_session.                                                       *)

\* The token is refused: the error envelope carries the empty session id.
RejectToken(c, p) ==
  /\ Ready(c) /\ MayEnter(c)
  /\ Bind(c, EmptySession, p)
  /\ UNCHANGED <<managerVars, trackerVars, joined>>

RegisterRequest(c, p) ==
  /\ Ready(c) /\ MayEnter(c)
  /\ Goto(c, "registering", None, p)
  /\ UNCHANGED <<managerVars, bound, trackerVars, joined>>

SfuRegisters(c, s) ==
  /\ handler[c].step = "registering"
  /\ s # EmptySession
  /\ Manager!SfuAllocates(s)
  /\ Goto(c, "inserting", s, handler[c].pid)
  /\ UNCHANGED <<bound, trackerVars, joined>>

\* The call fails, possibly after the SFU allocated a session nobody will hear of.
SfuRegisterFails(c) ==
  /\ handler[c].step = "registering"
  /\ \/ UNCHANGED managerVars
     \/ \E s \in Session \ {EmptySession} : Manager!SfuAllocates(s)
  /\ Bind(c, EmptySession, handler[c].pid)
  /\ UNCHANGED <<trackerVars, joined>>

InsertCreator(c) ==
  /\ handler[c].step = "inserting"
  /\ LET s == handler[c].sid
         p == handler[c].pid
     IN /\ Manager!RegisterSession(s, p, c)
        /\ joined' = joined \cup {<<c, s, p>>}
        /\ Goto(c, "starting", s, p)
  /\ UNCHANGED <<bound, trackerVars>>

SendStart(c) ==
  /\ handler[c].step = "starting"
  /\ Send(Start(handler[c].sid))
  /\ Goto(c, "announcing", handler[c].sid, handler[c].pid)
  /\ UNCHANGED <<managerVars, bound, tracked, farewell, joined>>

\* Mutant of AnnounceCreated: only a join binds the connection.
AnnounceCreated_Unbound(c) ==
  /\ handler[c].step = "announcing"
  /\ handler' = [handler EXCEPT ![c] = Open]
  /\ UNCHANGED <<managerVars, bound, trackerVars, joined>>

\* SessionCreated was sent to the system subscribers; the response binds the connection.
AnnounceCreated(c) ==
  /\ handler[c].step = "announcing"
  /\ Bind(c, handler[c].sid, handler[c].pid)
  /\ UNCHANGED <<managerVars, trackerVars, joined>>

-------------------------------------------------------------------------------
(* join_session, close_session, subscribe_to_events.                       *)

JoinRequest(c, s, p) ==
  /\ Ready(c) /\ MayEnter(c) /\ Known(s)
  /\ Goto(c, "joining", s, p)
  /\ UNCHANGED <<managerVars, bound, trackerVars, joined>>

SfuJoins(c) ==
  /\ handler[c].step = "joining"
  /\ sfu[handler[c].sid] = "open"
  /\ Goto(c, "entering", handler[c].sid, handler[c].pid)
  /\ UNCHANGED <<managerVars, bound, trackerVars, joined>>

\* The error envelope carries the requested session id, which binds the connection.
SfuJoinFails(c) ==
  /\ handler[c].step = "joining"
  /\ Bind(c, handler[c].sid, handler[c].pid)
  /\ UNCHANGED <<managerVars, trackerVars, joined>>

InsertJoiner(c) ==
  /\ handler[c].step = "entering"
  /\ LET s == handler[c].sid
         p == handler[c].pid
     IN /\ Manager!RegisterSession(s, p, c)
        /\ joined' = joined \cup {<<c, s, p>>}
        /\ Bind(c, s, p)
  /\ UNCHANGED trackerVars

\* close_session for a participant the session has; any other request changes nothing.
CloseRequest(c, s, p) ==
  /\ Ready(c) /\ Known(s) /\ MayName(c, s, p)
  /\ sessions[s][p] # None
  /\ Manager!CallTerminate(c, s, "Normal")
  /\ UNCHANGED <<handler, bound, trackerVars, joined>>

SubscribeRequest(c, s, p) ==
  /\ Ready(c) /\ Known(s) /\ MayName(c, s, p)
  /\ Manager!LockHandles(c, s, p)
  /\ UNCHANGED <<handler, bound, trackerVars, joined>>

-------------------------------------------------------------------------------
(* The end of a connection: Close frame, stream error, heartbeat timeout.  *)

Disconnect(c) ==
  /\ Ready(c)
  /\ handler' = [handler EXCEPT ![c] =
                   IF bound[c] = None THEN Closed
                                      ELSE Frame("stopping", bound[c][1], bound[c][2])]
  /\ UNCHANGED <<managerVars, bound, trackerVars, joined>>

\* Mutant of SendStop: a full queue is not waited for, the command is dropped.
SendStop_DropsWhenFull(c) ==
  /\ handler[c].step = "stopping"
  /\ LET s == handler[c].sid
     IN /\ commands' = IF Len(commands) < QueueCapacity THEN Append(commands, Stop(s)) ELSE commands
        /\ Manager!CallTerminate(c, s, "Normal")
        /\ Goto(c, "cleanup", s, handler[c].pid)
  /\ UNCHANGED <<bound, tracked, farewell, joined>>

\* Mutant of SendStop: cleanup returns with the error of a full queue.
SendStop_GivesUp(c) ==
  /\ handler[c].step = "stopping"
  /\ LET s == handler[c].sid
     IN IF Len(commands) < QueueCapacity
          THEN /\ Send(Stop(s)) /\ Manager!CallTerminate(c, s, "Normal")
               /\ Goto(c, "cleanup", s, handler[c].pid)
          ELSE /\ handler' = [handler EXCEPT ![c] = Closed]
               /\ UNCHANGED <<commands, managerVars>>
  /\ UNCHANGED <<bound, tracked, farewell, joined>>

\* Cleanup: Stop is sent first, then the session is terminated.
SendStop(c) ==
  /\ handler[c].step = "stopping"
  /\ LET s == handler[c].sid
     IN /\ Send(Stop(s))
        /\ Manager!CallTerminate(c, s, "Normal")
        /\ Goto(c, "cleanup", s, handler[c].pid)
  /\ UNCHANGED <<bound, tracked, farewell, joined>>

CleanupReturns(c) ==
  /\ handler[c].step = "cleanup"
  /\ call[c].step = "idle"
  /\ handler' = [handler EXCEPT ![c] = Closed]
  /\ UNCHANGED <<managerVars, bound, trackerVars, joined>>

-------------------------------------------------------------------------------
(* The usage tracker: one task, busy while it says farewell or terminates. *)

TrackerReady == farewell = None /\ call[Tracker].step = "idle"

TakeCommand ==
  /\ TrackerReady
  /\ commands # <<>>
  /\ LET command == Head(commands)
     IN tracked' = IF command.kind = "Start" THEN tracked \cup {command.sid}
                                             ELSE tracked \ {command.sid}
  /\ commands' = Tail(commands)
  /\ UNCHANGED <<managerVars, handler, bound, farewell, joined>>

\* process_usage finds the budget of a tracked session exhausted, says farewell and sleeps.
BudgetExhausted(s) ==
  /\ TrackerReady
  /\ s \in tracked
  /\ farewell' = s
  /\ UNCHANGED <<managerVars, handler, bound, commands, tracked, joined>>

\* After the sleep: untrack, then terminate.
FarewellOver ==
  /\ farewell # None
  /\ tracked' = tracked \ {farewell}
  /\ Manager!CallTerminate(Tracker, farewell, "Timeout")
  /\ farewell' = None
  /\ UNCHANGED <<handler, bound, commands, joined>>

-------------------------------------------------------------------------------

ConnStep(c) ==
  \/ \E p \in Participant :
       \/ RejectToken(c, p)
       \/ RegisterRequest(c, p)
       \/ \E s \in Session : JoinRequest(c, s, p) \/ CloseRequest(c, s, p) \/ SubscribeRequest(c, s, p)
  \/ \E s \in Session : SfuRegisters(c, s)
  \/ SfuRegisterFails(c) \/ InsertCreator(c) \/ SendStart(c) \/ AnnounceCreated(c)
  \/ SfuJoins(c) \/ SfuJoinFails(c) \/ InsertJoiner(c)
  \/ Disconnect(c) \/ SendStop(c) \/ CleanupReturns(c)

\* The manager's own steps, on behalf of whoever called it, and its event tasks.
ManagerStep ==
  /\ \/ \E t \in Conn \cup {Tracker} : Manager!AnswerSubscribe(t)
     \/ \E e \in EventTask : Manager!EventTaskStep(e)
     \/ \E t \in Manager!Caller : Manager!Terminate(t)
     \/ \E u \in Subscriber : Manager!SubscribeToSystem(u) \/ Manager!UnsubscribeToSystem(u)
  /\ UNCHANGED <<handler, bound, trackerVars, joined>>

TrackerStep == TakeCommand \/ (\E s \in Session : BudgetExhausted(s)) \/ FarewellOver

Next == (\E c \in Conn : ConnStep(c)) \/ ManagerStep \/ TrackerStep

Spec == Init /\ [][Next]_vars

\* Every await of a handler resolves, except the wait for the client's next message: the SFU
\* answers or fails, locks and channel permits are handed out in FIFO order (hence strong
\* fairness for a send to the queue, which others may fill again).
HandlerFairness(c) ==
  /\ WF_vars(\/ (\E s \in Session : SfuRegisters(c, s)) \/ SfuRegisterFails(c)
             \/ SfuJoins(c) \/ SfuJoinFails(c)
             \/ InsertCreator(c) \/ AnnounceCreated(c) \/ InsertJoiner(c) \/ CleanupReturns(c))
  /\ SF_vars(SendStart(c) \/ SendStop(c))

\* A handler empties its channel in its select loop only; once it is gone, a send fails at once.
Drains(c) == Ready(c) \/ handler[c] = Closed

\* What a caller awaits in the manager resolves: at once, or when the mutex of the handles is
\* granted, or when the connection it sends to keeps returning to its loop and makes room.
CallFairness(t) ==
  /\ WF_managerVars(\/ Manager!AnswerSubscribe(t)
                    \/ Manager!MarkTerminating(t) \/ Manager!CloseSfu(t)
                    \/ Manager!CollectParticipants(t) \/ Manager!CollectSubscribers(t)
                    \/ (\E u \in Subscriber : Manager!Tell(t, u)) \/ Manager!RemoveSession(t))
  /\ SF_managerVars(\/ \E m \in Manager!Member : Drains(m[2]) /\ Manager!Tell(t, m)
                    \/ Manager!AbortEventTasks(t))

Fairness ==
  /\ \A c \in Conn : HandlerFairness(c)
  /\ \A t \in Manager!Caller : CallFairness(t)
  /\ WF_vars(TakeCommand \/ FarewellOver)

FairSpec == Spec /\ Fairness

-------------------------------------------------------------------------------
(* Properties.                                                             *)

\* All that can keep the channel of a closed connection in the map: somebody is terminating
\* the session and will remove it; it joined when the session was marked already; the
\* terminator was an event task its own abort loop dropped; or the connection has been bound
\* to another session since, and its cleanup was about that one.
DeadMemberHasCause ==
  \A s \in Session, p \in Participant :
    LET c == sessions[s][p] IN
      c # None /\ handler[c] = Closed =>
        \/ \E t \in Manager!Caller : Manager!Terminates(t, s)
        \/ <<s, p>> \in late
        \/ \E e \in EventTask : call[e].step = "lost" /\ call[e].sid = s
        \/ bound[c] # None /\ bound[c][1] # s

\* With one session per connection, no usage is tracked for a session none of whose
\* members is connected, beyond the Stop that is already queued: it would be billed to its
\* invite code until the budget is gone.
TrackedHasOwner ==
  \A s \in Session :
    s \in tracked \/ (\E i \in DOMAIN commands : commands[i] = Start(s)) =>
      \/ \E c \in Conn : handler[c] # Closed /\ s \in {handler[c].sid} \cup
                           (IF bound[c] = None THEN {} ELSE {bound[c][1]})
      \/ \E i \in DOMAIN commands : commands[i] = Stop(s)

\* A terminator waits to send to a connection whose handler is outside its select loop.
WaitsForNoReader ==
  \E t \in Manager!Caller, m \in Manager!Member :
    call[t].step = "telling" /\ m \in call[t].todo /\ ~Drains(m[2])

\* A disconnect leads to the end of the connection's session and to a closed handler, with the
\* command queue full and the tracker and the other terminators at work, unless in the end a
\* terminator waits for good to send to a handler that does not read its channel, its own
\* or one that waits for the queue itself.
DisconnectEndsSession ==
  \/ <>[]WaitsForNoReader
  \/ \A c \in Conn :
       handler[c].step = "stopping" ~>
         /\ handler[c] = Closed
         /\ \A s \in Session, p \in Participant : bound[c] = <<s, p>> => Manager!Finished(s)

\* Among those it ends is the empty session of a failed registration, and aborting event tasks
\* on its behalf does not reach those of other sessions.
AbortStaysInSession == Manager!AbortStaysInSession

\* Every termination ends, also those of the tracker and of close requests, while other
\* connections subscribe and hold the mutex of the handles meanwhile; with the same exception.
TerminationFinishes == <>[]WaitsForNoReader \/ Manager!TerminationFinishes

\* A connection whose cleanup terminates a session was registered in it or joined it:
\* "Session ID and Participant ID will be set after registration/join"
\* (src/websocket/handler.rs:145).
CleanupOfOwnSession ==
  \A c \in Conn :
    handler[c].step = "cleanup" /\ handler[c].sid # EmptySession =>
      <<c, handler[c].sid, handler[c].pid>> \in joined

\* Usage is tracked "during active sessions" (README.md): a session that is over is not
\* tracked, once the Stop on its way is handled.
TrackedMeansActive ==
  \A s \in tracked :
    Manager!Finished(s) /\ (\A c \in Conn : handler[c].step # "stopping") =>
      \/ farewell = s
      \/ \E i \in DOMAIN commands : commands[i] = Stop(s)

\* terminate_session broadcasts to all session participants (src/signal/manager.rs:305):
\* nobody is removed from the map without having been sent SessionEnded.
AllParticipantsTold ==
  [][\A s \in Session, p \in Participant :
       sessions[s][p] # None /\ sessions'[s][p] = None =>
         \E m \in ended : m.sid = s /\ m.to = <<p, sessions[s][p]>>]_vars
=============================================================================
