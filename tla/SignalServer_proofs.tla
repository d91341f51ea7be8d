-------------------------- MODULE SignalServer_proofs --------------------------
(***************************************************************************)
(* Proofs about SignalServer, for every value of its constants: the server *)
(* uses the session manager as SessionManager allows, so that what is      *)
(* proved of the manager holds for the server; what may keep a closed      *)
(* connection in the map; and, with one session per connection, that no    *)
(* session is tracked without an owner to stop it.                         *)
(***************************************************************************)
EXTENDS SignalServer, SequenceTheorems, TLAPS

\* The theorems about the manager, for the tasks it has here.
P == INSTANCE SessionManager_proofs WITH Task <- Conn \cup {Tracker}

-------------------------------------------------------------------------------
(* Types.                                                                  *)

\* A handler in the middle of a request knows the ids it works on.
NamedAt(c) ==
  /\ handler[c].step = "open" => handler[c] = Open
  /\ handler[c].step = "closed" => handler[c] = Closed
  /\ handler[c].step \notin {"open", "closed"} => handler[c].pid \in Participant
  /\ handler[c].step \notin {"open", "closed", "registering"} => handler[c].sid \in Session

HandlersNamed == \A c \in Conn : NamedAt(c)

OwnTypeOK ==
  /\ handler \in [Conn -> [step : HandlerStep, sid : Session \cup {None},
                           pid : Participant \cup {None}]]
  /\ bound \in [Conn -> (Session \X Participant) \cup {None}]
  /\ commands \in Seq([kind : {"Start", "Stop"}, sid : Session])
  /\ Len(commands) <= QueueCapacity
  /\ tracked \subseteq Session
  /\ farewell \in Session \cup {None}
  /\ joined \subseteq Conn \X Session \X Participant

HandlerFrame == [step : HandlerStep, sid : Session \cup {None}, pid : Participant \cup {None}]
Command == [kind : {"Start", "Stop"}, sid : Session]

LEMMA FrameType ==
  ASSUME NEW step \in HandlerStep, NEW s \in Session \cup {None}, NEW p \in Participant \cup {None}
  PROVE  Frame(step, s, p) \in HandlerFrame
  BY DEF Frame, HandlerFrame

\* A handler goes to a step and takes the ids that step needs with it.
LEMMA GotoNamed ==
  ASSUME HandlersNamed, handler \in [Conn -> HandlerFrame], NEW c \in Conn,
         NEW step \in HandlerStep \ {"open", "closed"}, NEW s \in Session \cup {None},
         NEW p \in Participant, step # "registering" => s \in Session,
         handler' = [handler EXCEPT ![c] = Frame(step, s, p)]
  PROVE  HandlersNamed' /\ handler' \in [Conn -> HandlerFrame]
<1>1. handler' \in [Conn -> HandlerFrame]
  BY FrameType
<1>2. handler'[c].step = step /\ handler'[c].sid = s /\ handler'[c].pid = p
  BY DEF Frame
<1>3. \A d \in Conn \ {c} : handler'[d] = handler[d]
  OBVIOUS
<1> QED
  BY <1>1, <1>2, <1>3 DEF HandlersNamed, NamedAt

\* A handler goes back to its loop, or ends.
LEMMA RestNamed ==
  ASSUME HandlersNamed, handler \in [Conn -> HandlerFrame], NEW c \in Conn,
         NEW f \in {Open, Closed}, handler' = [handler EXCEPT ![c] = f]
  PROVE  HandlersNamed' /\ handler' \in [Conn -> HandlerFrame]
<1>1. f \in HandlerFrame
  BY FrameType DEF Open, Closed, HandlerStep
<1> QED
  BY <1>1 DEF HandlersNamed, NamedAt, Open, Closed, Frame

LEMMA SendType ==
  ASSUME commands \in Seq(Command), NEW x \in Command, Send(x)
  PROVE  commands' \in Seq(Command) /\ Len(commands') <= QueueCapacity
  BY ServerAssumption, AppendProperties, LenProperties DEF Send

LEMMA TakeType ==
  ASSUME commands \in Seq(Command), Len(commands) <= QueueCapacity, TakeCommand
  PROVE  /\ Head(commands) \in Command
         /\ commands' \in Seq(Command)
         /\ Len(commands') = Len(commands) - 1
         /\ Len(commands') <= QueueCapacity
  BY ServerAssumption, HeadTailProperties, LenProperties DEF TakeCommand

LEMMA OwnInit == Init => OwnTypeOK /\ HandlersNamed
  BY FrameType, EmptySeq, ServerAssumption
     DEF Init, OwnTypeOK, HandlersNamed, NamedAt, Open, Closed, Frame, HandlerStep

LEMMA OwnStep == OwnTypeOK /\ HandlersNamed /\ [Next]_vars => OwnTypeOK' /\ HandlersNamed'
<1> SUFFICES ASSUME OwnTypeOK, HandlersNamed, [Next]_vars PROVE OwnTypeOK' /\ HandlersNamed'
  OBVIOUS
<1>0. /\ handler \in [Conn -> HandlerFrame]
      /\ commands \in Seq(Command)
  BY DEF OwnTypeOK, HandlerFrame, Command
<1> USE <1>0 DEF OwnTypeOK, HandlerFrame, Command, Goto, Bind, HandlerStep
<1>1. ASSUME NEW c \in Conn, NEW p \in Participant, RejectToken(c, p)
      PROVE  OwnTypeOK' /\ HandlersNamed'
  BY <1>1, RestNamed, ServerAssumption DEF RejectToken, trackerVars
<1>2. ASSUME NEW c \in Conn, NEW p \in Participant, RegisterRequest(c, p)
      PROVE  OwnTypeOK' /\ HandlersNamed'
  BY <1>2, GotoNamed DEF RegisterRequest, trackerVars
<1>3. ASSUME NEW c \in Conn, NEW s \in Session, SfuRegisters(c, s)
      PROVE  OwnTypeOK' /\ HandlersNamed'
  BY <1>3, GotoNamed DEF SfuRegisters, trackerVars, HandlersNamed, NamedAt
<1>4. ASSUME NEW c \in Conn, SfuRegisterFails(c) PROVE OwnTypeOK' /\ HandlersNamed'
  <2>1. handler[c].step = "registering" /\ Bind(c, EmptySession, handler[c].pid)
        /\ UNCHANGED <<commands, tracked, farewell, joined>>
    BY <1>4 DEF SfuRegisterFails, trackerVars
  <2> QED
    BY <2>1, RestNamed, ServerAssumption DEF HandlersNamed, NamedAt
<1>5. ASSUME NEW c \in Conn, InsertCreator(c) PROVE OwnTypeOK' /\ HandlersNamed'
  <2>1. handler[c].sid \in Session /\ handler[c].pid \in Participant
    BY <1>5 DEF InsertCreator, HandlersNamed, NamedAt
  <2>2. HandlersNamed' /\ handler' \in [Conn -> HandlerFrame]
    BY <1>5, <2>1, GotoNamed DEF InsertCreator
  <2>3. joined' \subseteq Conn \X Session \X Participant
    BY <1>5, <2>1 DEF InsertCreator
  <2> QED
    BY <1>5, <2>2, <2>3 DEF InsertCreator, trackerVars
<1>6. ASSUME NEW c \in Conn, SendStart(c) PROVE OwnTypeOK' /\ HandlersNamed'
  BY <1>6, GotoNamed, SendType DEF SendStart, HandlersNamed, NamedAt, Start
<1>7. ASSUME NEW c \in Conn, AnnounceCreated(c) PROVE OwnTypeOK' /\ HandlersNamed'
  BY <1>7, RestNamed DEF AnnounceCreated, trackerVars, HandlersNamed, NamedAt
<1>8. ASSUME NEW c \in Conn, NEW s \in Session, NEW p \in Participant, JoinRequest(c, s, p)
      PROVE  OwnTypeOK' /\ HandlersNamed'
  BY <1>8, GotoNamed DEF JoinRequest, trackerVars
<1>9. ASSUME NEW c \in Conn, SfuJoins(c) PROVE OwnTypeOK' /\ HandlersNamed'
  BY <1>9, GotoNamed DEF SfuJoins, trackerVars, HandlersNamed, NamedAt
<1>10. ASSUME NEW c \in Conn, SfuJoinFails(c) PROVE OwnTypeOK' /\ HandlersNamed'
  BY <1>10, RestNamed DEF SfuJoinFails, trackerVars, HandlersNamed, NamedAt
<1>11. ASSUME NEW c \in Conn, InsertJoiner(c) PROVE OwnTypeOK' /\ HandlersNamed'
  <2>1. handler[c].sid \in Session /\ handler[c].pid \in Participant
    BY <1>11 DEF InsertJoiner, HandlersNamed, NamedAt
  <2>2. HandlersNamed' /\ handler' \in [Conn -> HandlerFrame]
    BY <1>11, <2>1, RestNamed DEF InsertJoiner
  <2>3. joined' \subseteq Conn \X Session \X Participant
    BY <1>11, <2>1 DEF InsertJoiner
  <2>4. bound' \in [Conn -> (Session \X Participant) \cup {None}]
    BY <1>11, <2>1 DEF InsertJoiner
  <2> QED
    BY <1>11, <2>2, <2>3, <2>4 DEF InsertJoiner, trackerVars
<1>12. ASSUME NEW c \in Conn, Disconnect(c) PROVE OwnTypeOK' /\ HandlersNamed'
  <2>1. CASE bound[c] = None
    BY <1>12, <2>1, RestNamed DEF Disconnect, trackerVars
  <2>2. CASE bound[c] # None
    <3>1. bound[c][1] \in Session /\ bound[c][2] \in Participant
      BY <2>2
    <3> QED
      BY <1>12, <2>2, <3>1, GotoNamed DEF Disconnect, trackerVars
  <2> QED
    BY <2>1, <2>2
<1>13. ASSUME NEW c \in Conn, SendStop(c) PROVE OwnTypeOK' /\ HandlersNamed'
  BY <1>13, GotoNamed, SendType DEF SendStop, HandlersNamed, NamedAt, Stop
<1>14. ASSUME NEW c \in Conn, CleanupReturns(c) PROVE OwnTypeOK' /\ HandlersNamed'
  BY <1>14, RestNamed DEF CleanupReturns, trackerVars
<1>15. ASSUME TakeCommand PROVE OwnTypeOK' /\ HandlersNamed'
  <2>1. Head(commands) \in Command /\ commands' \in Seq(Command) /\ Len(commands') <= QueueCapacity
    BY <1>15, TakeType
  <2> QED
    BY <1>15, <2>1 DEF TakeCommand, HandlersNamed, NamedAt
<1>16. ASSUME NEW s \in Session, BudgetExhausted(s) PROVE OwnTypeOK' /\ HandlersNamed'
  BY <1>16 DEF BudgetExhausted, HandlersNamed, NamedAt
<1>17. ASSUME FarewellOver PROVE OwnTypeOK' /\ HandlersNamed'
  BY <1>17 DEF FarewellOver, HandlersNamed, NamedAt
<1>18. CASE UNCHANGED <<handler, bound, trackerVars, joined>>
  BY <1>18 DEF trackerVars, HandlersNamed, NamedAt
<1>19. ASSUME NEW c \in Conn, NEW s \in Session, NEW p \in Participant,
              CloseRequest(c, s, p) \/ SubscribeRequest(c, s, p)
       PROVE  UNCHANGED <<handler, bound, trackerVars, joined>>
  BY <1>19 DEF CloseRequest, SubscribeRequest
<1> QED
  BY <1>1, <1>2, <1>3, <1>4, <1>5, <1>6, <1>7, <1>8, <1>9, <1>10, <1>11, <1>12, <1>13, <1>14,
     <1>15, <1>16, <1>17, <1>18, <1>19 DEF Next, ConnStep, ManagerStep, TrackerStep, vars
-------------------------------------------------------------------------------
(* The server is a user of the manager.                                    *)

\* Whatever the server does is a step the manager allows, or does not touch it.
LEMMA StepUsesManager ==
  ASSUME OwnTypeOK, HandlersNamed, [Next]_vars
  PROVE  [Manager!Next]_(Manager!vars)
<1> USE DEF HandlersNamed, NamedAt
<1>1. CASE UNCHANGED managerVars
  BY <1>1 DEF managerVars, Manager!vars
<1>2. ASSUME NEW s \in Session, Manager!SfuAllocates(s) PROVE Manager!Next
  BY <1>2 DEF Manager!Next
<1>3. ASSUME NEW c \in Conn, NEW s \in Session, NEW p \in Participant,
             Manager!RegisterSession(s, p, c)
      PROVE  Manager!Next
  BY <1>3 DEF Manager!Next
<1>4. ASSUME NEW t \in Conn \cup {Tracker}, NEW s \in Session, NEW r \in {"Normal", "Timeout"},
             Manager!CallTerminate(t, s, r)
      PROVE  Manager!Next
  BY <1>4 DEF Manager!Next, Manager!Request, Manager!Reason
<1>5. ASSUME NEW c \in Conn, NEW s \in Session, NEW p \in Participant, Manager!LockHandles(c, s, p)
      PROVE  Manager!Next
  BY <1>5 DEF Manager!Next, Manager!Request
<1>6. ASSUME NEW c \in Conn, ConnStep(c) PROVE Manager!Next \/ UNCHANGED managerVars
  <2>1. ASSUME NEW s \in Session, SfuRegisters(c, s) PROVE Manager!Next
    BY <1>2, <2>1 DEF SfuRegisters
  <2>2. ASSUME SfuRegisterFails(c) PROVE Manager!Next \/ UNCHANGED managerVars
    BY <1>2, <2>2 DEF SfuRegisterFails
  <2>3. ASSUME InsertCreator(c) PROVE Manager!Next
    BY <1>3, <2>3 DEF InsertCreator
  <2>4. ASSUME InsertJoiner(c) PROVE Manager!Next
    BY <1>3, <2>4 DEF InsertJoiner
  <2>5. ASSUME NEW s \in Session, NEW p \in Participant, CloseRequest(c, s, p) PROVE Manager!Next
    BY <1>4, <2>5 DEF CloseRequest
  <2>6. ASSUME NEW s \in Session, NEW p \in Participant, SubscribeRequest(c, s, p) PROVE Manager!Next
    BY <1>5, <2>6 DEF SubscribeRequest
  <2>7. ASSUME SendStop(c) PROVE Manager!Next
    BY <1>4, <2>7 DEF SendStop
  <2> QED
    BY <1>6, <2>1, <2>2, <2>3, <2>4, <2>5, <2>6, <2>7
       DEF ConnStep, RejectToken, RegisterRequest, SendStart, AnnounceCreated, JoinRequest,
           SfuJoins, SfuJoinFails, Disconnect, CleanupReturns
<1>7. ASSUME ManagerStep PROVE Manager!Next
  BY <1>7 DEF ManagerStep, Manager!Next
<1>8. ASSUME TrackerStep PROVE Manager!Next \/ UNCHANGED managerVars
  <2>1. ASSUME FarewellOver PROVE Manager!Next
    BY <1>4, <2>1 DEF FarewellOver, OwnTypeOK
  <2> QED
    BY <1>8, <2>1 DEF TrackerStep, TakeCommand, BudgetExhausted
<1> QED
  BY <1>1, <1>6, <1>7, <1>8 DEF Next, vars

\* The handlers of the WebSockets and the usage tracker (src/websocket/handler.rs,
\* src/signal/core.rs, src/background/tracker.rs) call the manager with arguments and in an
\* order that module SessionManager covers: the server implements its specification.
THEOREM ServerUsesManager == Spec => Manager!Spec
<1>1. Init => OwnTypeOK /\ HandlersNamed /\ Manager!Init
  BY OwnInit DEF Init
<1>2. OwnTypeOK /\ HandlersNamed /\ [Next]_vars => OwnTypeOK' /\ HandlersNamed'
  BY OwnStep
<1>3. OwnTypeOK /\ HandlersNamed /\ [Next]_vars => [Manager!Next]_(Manager!vars)
  BY StepUsesManager
<1> QED
  BY <1>1, <1>2, <1>3, PTL DEF Spec, Manager!Spec
-------------------------------------------------------------------------------
(* What is proved of the manager holds for the server.  Manager and P are  *)
(* instances of the same specification, the second with its theorems.      *)

LEMMA SameConstants == P!ConstantsAssumption
  BY ManagerAssumption
  DEF Manager!ConstantsAssumption, P!ConstantsAssumption, Manager!Caller, P!Caller,
            Manager!Reason, P!Reason

LEMMA SameInit == Manager!Init => P!Init
  BY DEF Manager!Init, P!Init, Manager!Caller, P!Caller, Manager!Frame, P!Frame,
         Manager!IdleFrame, P!IdleFrame, Manager!UnbornFrame, P!UnbornFrame

LEMMA SameNext == [Manager!Next]_(Manager!vars) => [P!Next]_(P!vars)
  BY DEF Manager!vars, P!vars, Manager!Next, P!Next, Manager!Request, P!Request,
         Manager!AnswerSubscribe, P!AnswerSubscribe, Manager!EventTaskStep, P!EventTaskStep,
         Manager!Terminate, P!Terminate, Manager!RegisterSession, P!RegisterSession,
         Manager!SubscribeToSystem, P!SubscribeToSystem, Manager!UnsubscribeToSystem,
         P!UnsubscribeToSystem, Manager!SfuAllocates, P!SfuAllocates, Manager!LockHandles,
         P!LockHandles, Manager!SfuAccepts, P!SfuAccepts, Manager!SpawnEventTask,
         P!SpawnEventTask, Manager!SubscribeFails, P!SubscribeFails, Manager!MediaClosed,
         P!MediaClosed, Manager!StreamEnds, P!StreamEnds, Manager!DropAborted, P!DropAborted,
         Manager!CallTerminate, P!CallTerminate, Manager!Returned, P!Returned,
         Manager!MarkTerminating, P!MarkTerminating, Manager!CloseSfu, P!CloseSfu,
         Manager!CollectParticipants, P!CollectParticipants, Manager!Tell, P!Tell,
         Manager!CollectSubscribers, P!CollectSubscribers, Manager!AbortHandles, P!AbortHandles,
         Manager!AllTold, P!AllTold, Manager!AbortEventTasks, P!AbortEventTasks,
         Manager!RemoveSession, P!RemoveSession, Manager!Frame, P!Frame, Manager!IdleFrame,
         P!IdleFrame, Manager!Members, P!Members, Manager!Member, P!Member, Manager!Caller,
         P!Caller, Manager!Reason, P!Reason, Manager!Running, P!Running, Manager!InTerminate,
         P!InTerminate

\* The manager's inductive invariant holds in every reachable state of the server.
THEOREM ManagerInvariance == Spec => []P!IInv
<1>1. Manager!Init => P!IInv
  BY SameInit, SameConstants, P!InitInv DEF P!InitInv
<1>2. P!IInv /\ [Manager!Next]_(Manager!vars) => P!IInv'
  BY SameNext, SameConstants, P!StepInv DEF P!StepInv
<1> QED
  BY <1>1, <1>2, ServerUsesManager, PTL DEF Manager!Spec

LEMMA SameType == P!TypeOK => Manager!TypeOK
  BY DEF Manager!TypeOK, P!TypeOK, Manager!Caller, P!Caller, Manager!CallFrame, P!CallFrame,
         Manager!Step, P!Step, Manager!Running, P!Running, Manager!InTerminate, P!InTerminate,
         Manager!Member, P!Member, Manager!Reason, P!Reason

\* Every state of the server is well typed, the manager's part included, for any number of
\* connections, sessions and participants and any capacity of the command queue.
THEOREM TypeCorrect == Spec => []TypeOK
<1>1. Init => OwnTypeOK /\ HandlersNamed
  BY OwnInit
<1>2. OwnTypeOK /\ HandlersNamed /\ [Next]_vars => OwnTypeOK' /\ HandlersNamed'
  BY OwnStep
<1>3. P!IInv /\ OwnTypeOK => TypeOK
  BY SameType DEF P!IInv, OwnTypeOK, TypeOK
<1> QED
  BY <1>1, <1>2, <1>3, ManagerInvariance, PTL DEF Spec

\* No abort, not even one on behalf of the empty session of a failed registration, reaches an
\* event task of a session that is not itself terminating (src/signal/manager.rs:320-331,
\* src/websocket/handler.rs:145-176).
THEOREM AbortStaysInSessionAlways == Spec => []AbortStaysInSession
<1>1. P!IInv => AbortStaysInSession
  BY DEF P!IInv, P!CancelInv, AbortStaysInSession, Manager!AbortStaysInSession
<1> QED
  BY <1>1, ManagerInvariance, PTL

-------------------------------------------------------------------------------
(* With one session per connection: what a step does to a handler.         *)

\* The connection c has to do with the session s: it works on it or is bound to it.
Concerns(c, s) == handler[c].sid = s \/ (bound[c] # None /\ bound[c][1] = s)

Queued(command) == \E i \in DOMAIN commands : commands[i] = command

Creating == {"inserting", "starting"}
Unbound == Creating \cup {"registering", "announcing", "joining", "entering"}

\* A connection is bound when its first request is over, and for good; cleanup is about the
\* session it is bound to and does not return before that session is marked.
BoundAt(c) ==
  /\ handler[c].step \in Unbound => bound[c] = None
  /\ handler[c].step = "registering" => handler[c].sid = None
  /\ handler[c].step \in {"stopping", "cleanup"} => bound[c] # None /\ bound[c][1] = handler[c].sid
  /\ handler[c].step = "cleanup" =>
       \/ handler[c].sid \in terminating
       \/ call[c].step = "marking" /\ call[c].sid = handler[c].sid
  /\ handler[c].step = "closed" /\ bound[c] # None => bound[c][1] \in terminating

BoundInv == \A c \in Conn : BoundAt(c)

Stays(c) == handler'[c] = handler[c] /\ bound'[c] = bound[c]

\* A request comes to an end and leaves the handler bound to the session s.
Binds(c, s) == handler'[c] = Open /\ bound'[c] # None /\ bound'[c][1] = s

\* The handler goes from one step to another of the same session.
Follows(c, from, to) ==
  /\ handler[c].step = from /\ handler'[c].step = to
  /\ handler'[c].sid = handler[c].sid /\ bound'[c] = bound[c]

\* The ways a handler can go in a step of the server.
Moves(c) ==
  \/ Stays(c)
  \/ handler[c].step \in {"open", "registering"} /\ bound[c] = None /\ Binds(c, EmptySession)
  \/ handler[c] = Open /\ bound[c] = None /\ Follows(c, "open", "registering")
  \/ \E s \in Session :
       /\ SfuRegisters(c, s)
       /\ handler[c].step = "registering" /\ handler'[c].step = "inserting"
       /\ handler'[c].sid = s /\ UNCHANGED bound
  \/ Follows(c, "inserting", "starting")
  \/ SendStart(c) /\ Follows(c, "starting", "announcing")
  \/ \E s \in Session :
       /\ Known(s) /\ UNCHANGED <<managerVars, trackerVars, bound>>
       /\ handler[c] = Open /\ bound[c] = None
       /\ handler'[c].step = "joining" /\ handler'[c].sid = s
  \/ Follows(c, "joining", "entering")
  \/ handler[c].step \in {"announcing", "joining", "entering"} /\ Binds(c, handler[c].sid)
  \/ handler[c] = Open /\ bound[c] = None /\ handler'[c] = Closed /\ UNCHANGED bound
  \/ /\ handler[c] = Open /\ bound[c] # None /\ UNCHANGED bound
     /\ handler'[c].step = "stopping" /\ handler'[c].sid = bound[c][1]
  \/ SendStop(c) /\ Follows(c, "stopping", "cleanup")
  \/ /\ handler[c].step = "cleanup" /\ call[c].step = "idle"
     /\ handler'[c] = Closed /\ UNCHANGED bound

LEMMA PairNotNone == \A s \in Session, p \in Participant : <<s, p>> # None
  BY ServerAssumption

LEMMA ConstantFacts ==
  /\ None \notin Session /\ None \notin Participant /\ None \notin Conn
  /\ EmptySession \in Session /\ Tracker \notin Conn
  BY ServerAssumption, ManagerAssumption DEF Manager!ConstantsAssumption

LEMMA HandlerMoves ==
  ASSUME OneSession, OwnTypeOK, HandlersNamed, BoundInv, [Next]_vars, NEW d \in Conn
  PROVE  Moves(d)
<1>0. /\ handler \in [Conn -> HandlerFrame]
      /\ bound \in [Conn -> (Session \X Participant) \cup {None}]
  BY DEF OwnTypeOK, HandlerFrame
<1>1. CASE Stays(d)
  BY <1>1 DEF Moves
<1>2. ASSUME NEW c \in Conn, ConnStep(c), c # d PROVE Stays(d)
  BY <1>0, <1>2
  DEF Stays, ConnStep, RejectToken, RegisterRequest, JoinRequest, CloseRequest, SubscribeRequest,
      SfuRegisters, SfuRegisterFails, InsertCreator, SendStart, AnnounceCreated, SfuJoins,
      SfuJoinFails, InsertJoiner, Disconnect, SendStop, CleanupReturns, Goto, Bind
<1>3. CASE ConnStep(d)
  <2>0. /\ NamedAt(d) /\ BoundAt(d)
        /\ handler[d] \in HandlerFrame /\ bound[d] \in (Session \X Participant) \cup {None}
        /\ \A f : [handler EXCEPT ![d] = f][d] = f
        /\ \A b : [bound EXCEPT ![d] = b][d] = b
    BY <1>0 DEF HandlersNamed, BoundInv
  <2>1. ASSUME NEW p \in Participant, RejectToken(d, p) PROVE Moves(d)
    BY <2>0, <2>1, PairNotNone, ConstantFacts
    DEF RejectToken, Ready, MayEnter, Bind, Moves, Binds, Open, Frame
  <2>2. ASSUME NEW p \in Participant, RegisterRequest(d, p) PROVE Moves(d)
    BY <2>0, <2>2 DEF RegisterRequest, Ready, MayEnter, Goto, Moves, Follows, Open, Frame
  <2>3. ASSUME NEW s \in Session, NEW p \in Participant, JoinRequest(d, s, p) PROVE Moves(d)
    BY <2>0, <2>3 DEF JoinRequest, Ready, MayEnter, Goto, Moves, Frame
  <2>4. ASSUME NEW s \in Session, NEW p \in Participant,
               CloseRequest(d, s, p) \/ SubscribeRequest(d, s, p) PROVE Stays(d)
    BY <2>4 DEF CloseRequest, SubscribeRequest, Stays
  <2>5. ASSUME NEW s \in Session, SfuRegisters(d, s) PROVE Moves(d)
    <3>1. /\ handler[d].step = "registering" /\ UNCHANGED bound
          /\ handler' = [handler EXCEPT ![d] = Frame("inserting", s, handler[d].pid)]
      BY <2>5 DEF SfuRegisters, Goto
    <3>. QED
      BY <2>0, <2>5, <3>1 DEF Moves, Frame
  <2>6. ASSUME SfuRegisterFails(d) PROVE Moves(d)
    BY <2>0, <2>6, PairNotNone, ConstantFacts
    DEF SfuRegisterFails, Bind, Moves, Binds, NamedAt, BoundAt, Unbound
  <2>7. ASSUME InsertCreator(d) PROVE Moves(d)
    BY <2>0, <2>7 DEF InsertCreator, Goto, Moves, Follows, Frame
  <2>8. ASSUME SendStart(d) PROVE Moves(d)
    <3>1. /\ handler[d].step = "starting" /\ UNCHANGED bound
          /\ handler' = [handler EXCEPT ![d] = Frame("announcing", handler[d].sid, handler[d].pid)]
      BY <2>8 DEF SendStart, Goto
    <3>. QED
      BY <2>0, <2>8, <3>1 DEF Moves, Follows, Frame
  <2>9. ASSUME AnnounceCreated(d) PROVE Moves(d)
    BY <2>0, <2>9, PairNotNone DEF AnnounceCreated, Bind, Moves, Binds, NamedAt
  <2>10. ASSUME SfuJoins(d) PROVE Moves(d)
    BY <2>0, <2>10 DEF SfuJoins, Goto, Moves, Follows, Frame
  <2>11. ASSUME SfuJoinFails(d) PROVE Moves(d)
    BY <2>0, <2>11, PairNotNone DEF SfuJoinFails, Bind, Moves, Binds, NamedAt
  <2>12. ASSUME InsertJoiner(d) PROVE Moves(d)
    BY <2>0, <2>12, PairNotNone DEF InsertJoiner, Bind, Moves, Binds, NamedAt
  <2>13. ASSUME Disconnect(d) PROVE Moves(d)
    BY <2>0, <2>13 DEF Disconnect, Ready, Moves, Frame
  <2>14. ASSUME SendStop(d) PROVE Moves(d)
    <3>1. /\ handler[d].step = "stopping" /\ UNCHANGED bound
          /\ handler' = [handler EXCEPT ![d] = Frame("cleanup", handler[d].sid, handler[d].pid)]
      BY <2>14 DEF SendStop, Goto
    <3>. QED
      BY <2>0, <2>14, <3>1 DEF Moves, Follows, Frame
  <2>15. ASSUME CleanupReturns(d) PROVE Moves(d)
    BY <2>0, <2>15 DEF CleanupReturns, Moves
  <2>. QED
    BY <1>1, <1>3, <2>1, <2>2, <2>3, <2>4, <2>5, <2>6, <2>7, <2>8, <2>9, <2>10, <2>11, <2>12,
       <2>13, <2>14, <2>15 DEF ConnStep
<1>4. CASE UNCHANGED <<handler, bound>>
  BY <1>1, <1>4 DEF Stays
<1>. QED
  BY <1>1, <1>2, <1>3, <1>4
  DEF Next, ManagerStep, TrackerStep, TakeCommand, BudgetExhausted, FarewellOver, vars

\* What concerns a connection does so for good; new is the empty session of a failed
\* registration, a session just allocated, or one its client has learnt of.
NewConcern(c, s) ==
  \/ s = EmptySession /\ handler'[c].step = "open"
  \/ SfuRegisters(c, s) /\ handler'[c].step = "inserting"
  \/ /\ Known(s) /\ handler'[c].step = "joining"
     /\ UNCHANGED <<managerVars, trackerVars>>

LEMMA RestFacts ==
  Open.sid = None /\ Closed.sid = None /\ Open.step = "open" /\ Closed.step = "closed"
  BY DEF Open, Closed, Frame

LEMMA ConcernsStep ==
  ASSUME OwnTypeOK, HandlersNamed, NEW d \in Conn, Moves(d), BoundAt(d), NEW s \in Session
  PROVE  /\ Concerns(d, s) => Concerns(d, s)'
         /\ Concerns(d, s)' => Concerns(d, s) \/ NewConcern(d, s)
<1>. USE ConstantFacts, RestFacts DEF Concerns, Unbound, Creating
<1>1. CASE Stays(d)
  BY <1>1 DEF Stays
<1>2. CASE handler[d].step \in {"open", "registering"} /\ bound[d] = None /\ Binds(d, EmptySession)
  BY <1>2 DEF Binds, NewConcern, HandlersNamed, NamedAt, BoundAt
<1>3. CASE handler[d] = Open /\ bound[d] = None /\ Follows(d, "open", "registering")
  BY <1>3 DEF Follows
<1>4. ASSUME NEW x \in Session, SfuRegisters(d, x),
             handler[d].step = "registering", handler'[d].step = "inserting",
             handler'[d].sid = x, UNCHANGED bound
      PROVE  /\ Concerns(d, s) => Concerns(d, s)'
             /\ Concerns(d, s)' => Concerns(d, s) \/ NewConcern(d, s)
  BY <1>4 DEF NewConcern, BoundAt
<1>5. ASSUME NEW from, NEW to, Follows(d, from, to)
      PROVE  Concerns(d, s) <=> Concerns(d, s)'
  BY <1>5 DEF Follows
<1>6. ASSUME NEW x \in Session, Known(x), UNCHANGED <<managerVars, trackerVars, bound>>,
             handler[d] = Open, bound[d] = None,
             handler'[d].step = "joining", handler'[d].sid = x
      PROVE  /\ Concerns(d, s) => Concerns(d, s)'
             /\ Concerns(d, s)' => Concerns(d, s) \/ NewConcern(d, s)
  BY <1>6 DEF NewConcern
<1>7. CASE handler[d].step \in {"announcing", "joining", "entering"} /\ Binds(d, handler[d].sid)
  BY <1>7 DEF Binds, BoundAt
<1>8. CASE handler[d] = Open /\ bound[d] = None /\ handler'[d] = Closed /\ UNCHANGED bound
  BY <1>8
<1>9. CASE /\ handler[d] = Open /\ bound[d] # None /\ UNCHANGED bound
           /\ handler'[d].step = "stopping" /\ handler'[d].sid = bound[d][1]
  BY <1>9
<1>10. CASE handler[d].step = "cleanup" /\ handler'[d] = Closed /\ UNCHANGED bound
  BY <1>10 DEF BoundAt
<1>. QED
  BY <1>1, <1>2, <1>3, <1>4, <1>5, <1>6, <1>7, <1>8, <1>9, <1>10 DEF Moves

\* A handler is at a step of a registration only after the one before, and once its cleanup
\* has begun it is there for good.
LEMMA StepOrder ==
  ASSUME OwnTypeOK, HandlersNamed, NEW d \in Conn, Moves(d), BoundAt(d)
  PROVE  /\ handler'[d].step \in Creating =>
              \/ handler[d].step \in Creating /\ handler'[d].sid = handler[d].sid
              \/ /\ handler'[d].sid \in Session /\ SfuRegisters(d, handler'[d].sid)
                 /\ handler'[d].step = "inserting"
         /\ handler[d].step \in Creating =>
              \/ handler'[d].step \in Creating /\ handler'[d].sid = handler[d].sid
              \/ SendStart(d)
         /\ handler'[d].step = "announcing" =>
              \/ handler[d].step = "announcing" /\ handler'[d].sid = handler[d].sid
              \/ SendStart(d) /\ handler[d].step = "starting" /\ handler'[d].sid = handler[d].sid
         /\ handler'[d].step \in {"cleanup", "closed"} =>
              \/ handler[d].step \in {"cleanup", "closed"}
              \/ SendStop(d) /\ handler[d].step = "stopping"
              \/ \A s \in Session : ~Concerns(d, s)'
         /\ handler'[d].step = "closed" =>
              \/ handler[d].step \in {"cleanup", "closed"}
              \/ \A s \in Session : ~Concerns(d, s)'
<1>. USE ConstantFacts, RestFacts DEF Creating
<1>0. NamedAt(d) /\ bound[d] \in (Session \X Participant) \cup {None}
  BY DEF HandlersNamed, OwnTypeOK
<1>1. CASE handler[d] = Open /\ bound[d] = None /\ handler'[d] = Closed /\ UNCHANGED bound
  BY <1>1 DEF Concerns
<1>. QED
  BY <1>0, <1>1 DEF Moves, NamedAt, Stays, Binds, Follows

-------------------------------------------------------------------------------
(* What a step does to the manager.                                        *)

\* What the manager's own steps can do to what the handlers depend on.
LEMMA ManagerChange ==
  ASSUME Manager!TypeOK, P!FramesNameSession, ManagerStep
  PROVE  /\ \A s \in Session, p \in Participant : sessions'[s][p] \in {sessions[s][p], None}
         /\ terminating \subseteq terminating'
         /\ \A s \in Session : sfu'[s] = "fresh" <=> sfu[s] = "fresh"
         /\ \A c \in Conn :
              call[c].step = "marking" => call'[c] = call[c] \/ call[c].sid \in terminating'
<1> USE DEF Manager!TypeOK, Manager!Caller, Manager!CallFrame
<1>1. ASSUME NEW t \in Conn \cup {Tracker}, Manager!AnswerSubscribe(t)
      PROVE  /\ UNCHANGED <<sessions, terminating, sfu>>
             /\ \A c \in Conn : call[c].step = "marking" => call'[c] = call[c]
  BY <1>1, ManagerAssumption DEF Manager!ConstantsAssumption, Manager!AnswerSubscribe,
     Manager!SfuAccepts, Manager!SubscribeFails, Manager!SpawnEventTask
<1>2. ASSUME NEW e \in EventTask, Manager!EventTaskStep(e)
      PROVE  /\ UNCHANGED <<sessions, terminating, sfu>>
             /\ \A c \in Conn : call'[c] = call[c]
  BY <1>2, ManagerAssumption DEF Manager!ConstantsAssumption, Manager!EventTaskStep,
     Manager!MediaClosed, Manager!StreamEnds, Manager!DropAborted
<1>3. ASSUME NEW t \in Manager!Caller, Manager!MarkTerminating(t)
      PROVE  /\ UNCHANGED <<sessions, sfu>> /\ terminating \subseteq terminating'
             /\ call[t].sid \in terminating'
             /\ \A c \in Conn : c # t => call'[c] = call[c]
  BY <1>3 DEF Manager!MarkTerminating
<1>4. ASSUME NEW t \in Manager!Caller, Manager!RemoveSession(t)
      PROVE  /\ UNCHANGED <<terminating, sfu>>
             /\ \A s \in Session, p \in Participant : sessions'[s][p] \in {sessions[s][p], None}
             /\ \A c \in Conn : call[c].step = "marking" => call'[c] = call[c]
  BY <1>4 DEF Manager!RemoveSession
<1>5. ASSUME NEW t \in Manager!Caller, Manager!CloseSfu(t)
      PROVE  /\ UNCHANGED <<sessions, terminating>>
             /\ \A s \in Session : sfu'[s] = "fresh" <=> sfu[s] = "fresh"
             /\ \A c \in Conn : call[c].step = "marking" => call'[c] = call[c]
  BY <1>5 DEF Manager!CloseSfu
<1>6. ASSUME NEW t \in Manager!Caller,
             \/ Manager!CollectParticipants(t) \/ Manager!CollectSubscribers(t)
             \/ Manager!AbortEventTasks(t)
             \/ \E x \in Manager!Member \cup Subscriber : Manager!Tell(t, x)
      PROVE  /\ UNCHANGED <<sessions, terminating, sfu>>
             /\ \A c \in Conn : call[c].step = "marking" => call'[c] = call[c]
  BY <1>6 DEF Manager!CollectParticipants, Manager!CollectSubscribers, Manager!AbortEventTasks,
     Manager!AllTold, Manager!AbortHandles, Manager!Tell
<1>7. ASSUME NEW u \in Subscriber, Manager!SubscribeToSystem(u) \/ Manager!UnsubscribeToSystem(u)
      PROVE  UNCHANGED <<sessions, terminating, sfu, call>>
  BY <1>7 DEF Manager!SubscribeToSystem, Manager!UnsubscribeToSystem
<1>8. ASSUME NEW t \in Manager!Caller, Manager!Terminate(t)
      PROVE  /\ \A s \in Session, p \in Participant : sessions'[s][p] \in {sessions[s][p], None}
             /\ terminating \subseteq terminating'
             /\ \A s \in Session : sfu'[s] = "fresh" <=> sfu[s] = "fresh"
             /\ \A c \in Conn :
                  call[c].step = "marking" => call'[c] = call[c] \/ call[c].sid \in terminating'
  BY <1>3, <1>4, <1>5, <1>6, <1>8 DEF Manager!Terminate
<1> QED
  BY <1>1, <1>2, <1>7, <1>8 DEF ManagerStep

\* The sessions allocated, those marked, and the members.
LEMMA ManagerEffect ==
  ASSUME TypeOK, HandlersNamed, P!FramesNameSession, [Next]_vars
  PROVE  /\ terminating \subseteq terminating'
         /\ \A s \in Session : sfu'[s] = "fresh" => sfu[s] = "fresh"
         /\ sfu[EmptySession] = "fresh" => sfu'[EmptySession] = "fresh"
         /\ \A s \in Session, p \in Participant :
              \/ sessions'[s][p] \in {sessions[s][p], None}
              \/ \E c \in Conn : sessions'[s][p] = c /\ handler[c].sid = s
<1>. DEFINE Effect ==
       /\ terminating \subseteq terminating'
       /\ \A s \in Session : sfu'[s] = "fresh" => sfu[s] = "fresh"
       /\ sfu[EmptySession] = "fresh" => sfu'[EmptySession] = "fresh"
       /\ \A s \in Session, p \in Participant :
            \/ sessions'[s][p] \in {sessions[s][p], None}
            \/ \E c \in Conn : sessions'[s][p] = c /\ handler[c].sid = s
<1>. SUFFICES Effect
  OBVIOUS
<1>. USE ConstantFacts DEF TypeOK, Manager!TypeOK
<1>1. ASSUME UNCHANGED <<terminating, sfu, sessions>> PROVE Effect
  BY <1>1
<1>2. CASE ManagerStep
  BY <1>2, ManagerChange
<1>3. ASSUME NEW s \in Session \ {EmptySession}, Manager!SfuAllocates(s) PROVE Effect
  BY <1>3 DEF Manager!SfuAllocates
<1>4. ASSUME NEW c \in Conn, handler[c].sid \in Session, handler[c].pid \in Participant,
             Manager!RegisterSession(handler[c].sid, handler[c].pid, c)
      PROVE  Effect
  BY <1>4 DEF Manager!RegisterSession
<1>5. ASSUME NEW c \in Conn, InsertCreator(c) \/ InsertJoiner(c)
      PROVE  /\ handler[c].sid \in Session /\ handler[c].pid \in Participant
             /\ Manager!RegisterSession(handler[c].sid, handler[c].pid, c)
  BY <1>5 DEF InsertCreator, InsertJoiner, HandlersNamed, NamedAt
<1>6. ASSUME NEW c \in Conn, ConnStep(c)
      PROVE  \/ UNCHANGED <<terminating, sfu, sessions>>
             \/ \E s \in Session \ {EmptySession} : Manager!SfuAllocates(s)
             \/ InsertCreator(c) \/ InsertJoiner(c)
  BY <1>6
  DEF ConnStep, RejectToken, RegisterRequest, JoinRequest, CloseRequest, SubscribeRequest,
      SfuRegisters, SfuRegisterFails, SendStart, AnnounceCreated, SfuJoins,
      SfuJoinFails, Disconnect, SendStop, CleanupReturns, managerVars,
      Manager!CallTerminate, Manager!LockHandles
<1>7. CASE TrackerStep
  <2>1. UNCHANGED <<terminating, sfu, sessions>>
    BY <1>7 DEF TrackerStep, TakeCommand, BudgetExhausted, FarewellOver, managerVars,
       Manager!CallTerminate
  <2>. QED
    BY <1>1, <2>1
<1>8. CASE UNCHANGED vars
  BY <1>1, <1>8 DEF vars, managerVars
<1>. HIDE DEF Effect
<1>9. ASSUME NEW c \in Conn, ConnStep(c) PROVE Effect
  BY <1>1, <1>3, <1>4, <1>5, <1>6, <1>9
<1>. QED
  BY <1>2, <1>7, <1>8, <1>9 DEF Next

\* A termination a handler waits for is not taken from it before it has marked its session.
LEMMA MarkingKept ==
  ASSUME TypeOK, P!FramesNameSession, [Next]_vars, NEW d \in Conn, call[d].step = "marking"
  PROVE  call'[d] = call[d] \/ call[d].sid \in terminating'
<1>. USE ConstantFacts DEF TypeOK, Manager!TypeOK, Manager!Caller
<1>1. CASE UNCHANGED call
  BY <1>1
<1>2. CASE ManagerStep
  BY <1>2, ManagerChange
<1>3. ASSUME NEW t \in Conn \cup {Tracker}, NEW s, NEW r, Manager!CallTerminate(t, s, r)
      PROVE  call'[d] = call[d]
  BY <1>3 DEF Manager!CallTerminate
<1>4. ASSUME NEW c \in Conn, NEW s \in Session, NEW p \in Participant, Manager!LockHandles(c, s, p)
      PROVE  call'[d] = call[d]
  BY <1>4 DEF Manager!LockHandles
<1>5. ASSUME NEW c \in Conn, ConnStep(c)
      PROVE  call'[d] = call[d]
  BY <1>3, <1>4, <1>5
  DEF ConnStep, RejectToken, RegisterRequest, JoinRequest, CloseRequest, SubscribeRequest,
      SfuRegisters, SfuRegisterFails, SendStart, AnnounceCreated, SfuJoins,
      SfuJoinFails, Disconnect, SendStop, CleanupReturns, managerVars, InsertCreator, InsertJoiner,
      Manager!SfuAllocates, Manager!RegisterSession
<1>6. CASE TrackerStep
  BY <1>3, <1>6 DEF TrackerStep, TakeCommand, BudgetExhausted, FarewellOver, managerVars
<1>. QED
  BY <1>1, <1>2, <1>5, <1>6 DEF Next, vars, managerVars

LEMMA BoundStep ==
  ASSUME OneSession, TypeOK, OwnTypeOK, HandlersNamed, P!FramesNameSession, BoundInv, [Next]_vars
  PROVE  BoundInv'
<1>. SUFFICES ASSUME NEW d \in Conn PROVE BoundAt(d)'
  BY DEF BoundInv
<1>. USE ConstantFacts, RestFacts DEF Unbound, Creating
<1>0. Moves(d) /\ BoundAt(d) /\ NamedAt(d) /\ NamedAt(d)' /\ terminating \subseteq terminating'
  BY HandlerMoves, ManagerEffect, OwnStep DEF BoundInv, HandlersNamed
<1>1. call[d].step = "marking" => call'[d] = call[d] \/ call[d].sid \in terminating'
  BY MarkingKept
<1>2. ASSUME SendStop(d) PROVE call'[d].step = "marking" /\ call'[d].sid = handler'[d].sid
  <2>1. call \in [Manager!Caller -> Manager!CallFrame] /\ handler \in [Conn -> HandlerFrame]
    BY DEF TypeOK, Manager!TypeOK, OwnTypeOK, HandlerFrame
  <2>2. /\ call' = [call EXCEPT ![d] = Manager!Frame("marking", handler[d].sid, None, "Normal")]
        /\ handler' = [handler EXCEPT ![d] = Frame("cleanup", handler[d].sid, handler[d].pid)]
    BY <1>2 DEF SendStop, Goto, Manager!CallTerminate
  <2>. QED
    BY <2>1, <2>2 DEF Manager!Frame, Frame, Manager!Caller
<1>3. bound[d] \in (Session \X Participant) \cup {None}
  BY DEF OwnTypeOK
<1>. HIDE DEF Unbound, Creating
<1>4. CASE Stays(d)
  BY <1>0, <1>1, <1>4 DEF Stays, BoundAt
<1>5. CASE \E s \in Session \cup {None} : Binds(d, s)
  BY <1>5 DEF Binds, BoundAt, Unbound, Creating
<1>6. CASE handler'[d].step \in Unbound
  <2>1. bound'[d] = None
    BY <1>0, <1>6 DEF BoundAt, Moves, Stays, Binds, Follows, Unbound, Creating
  <2>2. handler'[d].step = "registering" => handler'[d].sid = None
    BY <1>0, <1>6 DEF BoundAt, Moves, Stays, Binds, Follows, Unbound, Creating, NamedAt
  <2>. QED
    BY <1>6, <2>1, <2>2 DEF BoundAt, Unbound, Creating
<1>7. CASE /\ handler[d] = Open /\ bound[d] # None /\ UNCHANGED bound
           /\ handler'[d].step = "stopping" /\ handler'[d].sid = bound[d][1]
  BY <1>7 DEF BoundAt, Unbound, Creating
<1>8. CASE SendStop(d) /\ Follows(d, "stopping", "cleanup")
  BY <1>0, <1>2, <1>8 DEF BoundAt, Follows, Unbound, Creating
<1>9. CASE handler[d] = Open /\ bound[d] = None /\ handler'[d] = Closed /\ UNCHANGED bound
  BY <1>9 DEF BoundAt, Unbound, Creating
<1>10. CASE /\ handler[d].step = "cleanup" /\ call[d].step = "idle"
            /\ handler'[d] = Closed /\ UNCHANGED bound
  BY <1>0, <1>10 DEF BoundAt, Unbound, Creating
<1>. QED
  BY <1>0, <1>4, <1>5, <1>6, <1>7, <1>8, <1>9, <1>10
  DEF Moves, NamedAt, Follows, Unbound, Creating

-------------------------------------------------------------------------------
(* A connection that is gone, with any number of sessions per connection.  *)

\* Cleanup is about the session the connection was last bound to, and does not return before
\* that session is marked.
GoneAt(c) ==
  /\ handler[c].step \in {"stopping", "cleanup"} => bound[c] # None /\ bound[c][1] = handler[c].sid
  /\ handler[c].step = "cleanup" =>
       \/ handler[c].sid \in terminating
       \/ call[c].step = "marking" /\ call[c].sid = handler[c].sid
  /\ handler[c].step = "closed" /\ bound[c] # None => bound[c][1] \in terminating

\* A connection the manager holds has been bound, or is about to be.
HeldAt(c) ==
  (\E s \in Session, p \in Participant : sessions[s][p] = c) =>
    bound[c] # None \/ handler[c].step \in {"starting", "announcing"}

GoneInv == \A c \in Conn : GoneAt(c) /\ HeldAt(c)

\* The ways a handler can go, whatever it is bound to.
Goes(c) ==
  \/ handler'[c] = handler[c] /\ bound'[c] = bound[c]
  \/ handler'[c].step = "open" /\ bound'[c] # None
  \/ /\ handler[c].step \in {"open", "registering", "joining"} /\ bound'[c] = bound[c]
     /\ handler'[c].step \in {"registering", "inserting", "joining", "entering"}
  \/ /\ handler[c].step \in {"inserting", "starting"} /\ bound'[c] = bound[c]
     /\ handler'[c].step \in {"starting", "announcing"}
  \/ handler[c].step = "open" /\ handler'[c] = Closed /\ bound[c] = None /\ bound'[c] = None
  \/ /\ handler'[c].step = "stopping" /\ bound[c] # None
     /\ bound'[c] = bound[c] /\ handler'[c].sid = bound[c][1]
  \/ /\ SendStop(c) /\ handler[c].step = "stopping" /\ handler'[c].step = "cleanup"
     /\ handler'[c].sid = handler[c].sid /\ bound'[c] = bound[c]
  \/ /\ handler[c].step = "cleanup" /\ call[c].step = "idle"
     /\ handler'[c] = Closed /\ bound'[c] = bound[c]

LEMMA HandlerGoes ==
  ASSUME OwnTypeOK, HandlersNamed, [Next]_vars, NEW d \in Conn
  PROVE  Goes(d)
<1>0. /\ handler \in [Conn -> HandlerFrame]
      /\ bound \in [Conn -> (Session \X Participant) \cup {None}]
  BY DEF OwnTypeOK, HandlerFrame
<1>1. CASE handler'[d] = handler[d] /\ bound'[d] = bound[d]
  BY <1>1 DEF Goes
<1>2. ASSUME NEW c \in Conn, ConnStep(c), c # d PROVE handler'[d] = handler[d] /\ bound'[d] = bound[d]
  BY <1>0, <1>2
  DEF ConnStep, RejectToken, RegisterRequest, JoinRequest, CloseRequest, SubscribeRequest,
      SfuRegisters, SfuRegisterFails, InsertCreator, SendStart, AnnounceCreated, SfuJoins,
      SfuJoinFails, InsertJoiner, Disconnect, SendStop, CleanupReturns, Goto, Bind
<1>3. CASE ConnStep(d)
  <2>0. /\ NamedAt(d)
        /\ \A f : [handler EXCEPT ![d] = f][d] = f
        /\ \A b : [bound EXCEPT ![d] = b][d] = b
    BY <1>0 DEF HandlersNamed
  <2>1. ASSUME NEW s \in Session, NEW p \in Participant, Bind(d, s, p) PROVE Goes(d)
    BY <2>0, <2>1, PairNotNone, RestFacts DEF Bind, Goes
  <2>2. ASSUME NEW p \in Participant, RejectToken(d, p) PROVE Goes(d)
    BY <2>1, <2>2, ConstantFacts DEF RejectToken
  <2>3. ASSUME NEW p \in Participant, RegisterRequest(d, p) PROVE Goes(d)
    BY <2>0, <2>3 DEF RegisterRequest, Ready, Goto, Goes, Open, Frame
  <2>4. ASSUME NEW s \in Session, NEW p \in Participant, JoinRequest(d, s, p) PROVE Goes(d)
    BY <2>0, <2>4 DEF JoinRequest, Ready, Goto, Goes, Open, Frame
  <2>5. ASSUME NEW s \in Session, NEW p \in Participant,
               CloseRequest(d, s, p) \/ SubscribeRequest(d, s, p) PROVE Goes(d)
    BY <1>1, <2>5 DEF CloseRequest, SubscribeRequest
  <2>6. ASSUME NEW s \in Session, SfuRegisters(d, s) PROVE Goes(d)
    BY <2>0, <2>6 DEF SfuRegisters, Goto, Goes, Frame
  <2>7. ASSUME SfuRegisterFails(d) PROVE Goes(d)
    BY <2>0, <2>1, <2>7, ConstantFacts DEF SfuRegisterFails, NamedAt
  <2>8. ASSUME InsertCreator(d) PROVE Goes(d)
    BY <2>0, <2>8 DEF InsertCreator, Goto, Goes, Frame
  <2>9. ASSUME SendStart(d) PROVE Goes(d)
    BY <2>0, <2>9 DEF SendStart, Goto, Goes, Frame
  <2>10. ASSUME AnnounceCreated(d) \/ SfuJoinFails(d) PROVE Goes(d)
    BY <2>0, <2>1, <2>10 DEF AnnounceCreated, SfuJoinFails, NamedAt
  <2>11. ASSUME SfuJoins(d) PROVE Goes(d)
    BY <2>0, <2>11 DEF SfuJoins, Goto, Goes, Frame
  <2>12. ASSUME InsertJoiner(d) PROVE Goes(d)
    BY <2>0, <2>1, <2>12 DEF InsertJoiner, NamedAt
  <2>13. ASSUME Disconnect(d) PROVE Goes(d)
    BY <2>0, <2>13 DEF Disconnect, Ready, Goes, Open, Frame
  <2>14. ASSUME SendStop(d) PROVE Goes(d)
    BY <2>0, <2>14 DEF SendStop, Goto, Goes, Frame
  <2>15. ASSUME CleanupReturns(d) PROVE Goes(d)
    BY <2>0, <2>15 DEF CleanupReturns, Goes
  <2>. QED
    BY <1>3, <2>2, <2>3, <2>4, <2>5, <2>6, <2>7, <2>8, <2>9, <2>10, <2>11, <2>12, <2>13, <2>14,
       <2>15 DEF ConnStep
<1>4. CASE UNCHANGED <<handler, bound>>
  BY <1>1, <1>4
<1>. QED
  BY <1>1, <1>2, <1>3, <1>4
  DEF Next, ManagerStep, TrackerStep, TakeCommand, BudgetExhausted, FarewellOver, vars

\* Who enters the map has its channel put there by its own handler.
LEMMA EntersByHandler ==
  ASSUME TypeOK, HandlersNamed, P!FramesNameSession, [Next]_vars,
         NEW s \in Session, NEW p \in Participant, NEW d \in Conn,
         sessions'[s][p] = d, sessions[s][p] # d
  PROVE  InsertCreator(d) \/ InsertJoiner(d)
<1>. USE ConstantFacts DEF TypeOK, Manager!TypeOK
<1>1. ASSUME ManagerStep PROVE FALSE
  BY <1>1, ManagerChange
<1>2. ASSUME NEW c \in Conn, ConnStep(c)
      PROVE  sessions' = sessions \/ InsertCreator(c) \/ InsertJoiner(c)
  BY <1>2
  DEF ConnStep, RejectToken, RegisterRequest, JoinRequest, CloseRequest, SubscribeRequest,
      SfuRegisters, SfuRegisterFails, SendStart, AnnounceCreated, SfuJoins,
      SfuJoinFails, Disconnect, SendStop, CleanupReturns, managerVars,
      Manager!CallTerminate, Manager!LockHandles, Manager!SfuAllocates
<1>3. ASSUME NEW c \in Conn, InsertCreator(c) \/ InsertJoiner(c) PROVE c = d
  <2>1. PICK x \in Session, y \in Participant : sessions' = [sessions EXCEPT ![x][y] = c]
    BY <1>3 DEF InsertCreator, InsertJoiner, Manager!RegisterSession, HandlersNamed, NamedAt
  <2>. QED
    BY <2>1
<1>4. TrackerStep => sessions' = sessions
  BY DEF TrackerStep, TakeCommand, BudgetExhausted, FarewellOver, managerVars,
     Manager!CallTerminate
<1>. QED
  BY <1>1, <1>2, <1>3, <1>4 DEF Next, vars, managerVars

LEMMA GoneStep ==
  ASSUME TypeOK, OwnTypeOK, HandlersNamed, P!FramesNameSession, GoneInv, [Next]_vars
  PROVE  GoneInv'
<1>. SUFFICES ASSUME NEW d \in Conn PROVE GoneAt(d)' /\ HeldAt(d)'
  BY DEF GoneInv
<1>. USE ConstantFacts, RestFacts
<1>0. Goes(d) /\ GoneAt(d) /\ HeldAt(d) /\ terminating \subseteq terminating'
  BY HandlerGoes, ManagerEffect DEF GoneInv
<1>1. GoneAt(d)'
  <2>1. call[d].step = "marking" => call'[d] = call[d] \/ call[d].sid \in terminating'
    BY MarkingKept
  <2>2. ASSUME SendStop(d) PROVE call'[d].step = "marking" /\ call'[d].sid = handler'[d].sid
    <3>1. call \in [Manager!Caller -> Manager!CallFrame] /\ handler \in [Conn -> HandlerFrame]
      BY DEF TypeOK, Manager!TypeOK, OwnTypeOK, HandlerFrame
    <3>2. /\ call' = [call EXCEPT ![d] = Manager!Frame("marking", handler[d].sid, None, "Normal")]
          /\ handler' = [handler EXCEPT ![d] = Frame("cleanup", handler[d].sid, handler[d].pid)]
      BY <2>2 DEF SendStop, Goto, Manager!CallTerminate
    <3>. QED
      BY <3>1, <3>2 DEF Manager!Frame, Frame, Manager!Caller
  <2>3. CASE handler'[d] = handler[d] /\ bound'[d] = bound[d]
    BY <1>0, <2>1, <2>3 DEF GoneAt
  <2>4. CASE SendStop(d) /\ handler[d].step = "stopping" /\ handler'[d].step = "cleanup"
             /\ handler'[d].sid = handler[d].sid /\ bound'[d] = bound[d]
    BY <1>0, <2>2, <2>4 DEF GoneAt
  <2>5. CASE /\ handler[d].step = "cleanup" /\ call[d].step = "idle"
             /\ handler'[d] = Closed /\ bound'[d] = bound[d]
    BY <1>0, <2>5 DEF GoneAt
  <2>. QED
    BY <1>0, <2>3, <2>4, <2>5 DEF Goes, GoneAt
<1>2. HeldAt(d)'
  <2>1. ASSUME NEW s \in Session, NEW p \in Participant, sessions'[s][p] = d
        PROVE  bound'[d] # None \/ handler'[d].step \in {"starting", "announcing"}
    <3>1. CASE sessions[s][p] = d
      BY <1>0, <3>1 DEF HeldAt, Goes
    <3>2. CASE InsertCreator(d)
      BY <3>2 DEF InsertCreator, Goto, Frame, OwnTypeOK
    <3>3. CASE InsertJoiner(d)
      BY <3>3, PairNotNone DEF InsertJoiner, Bind, OwnTypeOK, HandlersNamed, NamedAt
    <3>. QED
      BY <2>1, <3>1, <3>2, <3>3, EntersByHandler
  <2>. QED
    BY <2>1 DEF HeldAt
<1>. QED
  BY <1>1, <1>2

LEMMA GoneInvariance == Spec => []GoneInv
<1>1. Init => GoneInv
  BY ConstantFacts, RestFacts DEF Init, Manager!Init, GoneInv, GoneAt, HeldAt
<1>2. Init => OwnTypeOK /\ HandlersNamed
  BY OwnInit
<1>3. OwnTypeOK /\ HandlersNamed /\ [Next]_vars => OwnTypeOK' /\ HandlersNamed'
  BY OwnStep
<1>4. P!IInv => P!FramesNameSession
  BY DEF P!IInv
<1>5. TypeOK /\ OwnTypeOK /\ HandlersNamed /\ P!FramesNameSession /\ GoneInv /\ [Next]_vars => GoneInv'
  BY GoneStep
<1>. QED
  BY <1>1, <1>2, <1>3, <1>4, <1>5, ManagerInvariance, TypeCorrect, PTL DEF Spec

\* Whatever a client registers or joins, in whatever order that, disconnects
\* (src/websocket/handler.rs:145-176) and terminations (src/signal/manager.rs:288-345) overlap:
\* a closed connection is left in the map by a termination that goes on, by its own late join,
\* by a terminator that was dropped, or because it was bound to another session since.
THEOREM DeadMemberHasCauseAlways == Spec => []DeadMemberHasCause
<1>1. P!IInv /\ TypeOK /\ GoneInv => DeadMemberHasCause
  <2>. SUFFICES ASSUME P!IInv, TypeOK, GoneInv, NEW s \in Session, NEW p \in Participant,
                       sessions[s][p] # None, handler[sessions[s][p]] = Closed,
                       ~ \E t \in Manager!Caller : Manager!Terminates(t, s),
                       ~ (bound[sessions[s][p]] # None /\ bound[sessions[s][p]][1] # s)
                PROVE  \/ <<s, p>> \in late
                       \/ \E e \in EventTask : call[e].step = "lost" /\ call[e].sid = s
    BY DEF DeadMemberHasCause
  <2>1. PICK c \in Conn : c = sessions[s][p]
    BY DEF TypeOK, Manager!TypeOK
  <2>2. GoneAt(c) /\ HeldAt(c) /\ handler[c].step = "closed"
    BY <2>1, RestFacts DEF GoneInv
  <2>3. bound[c] # None
    BY <2>1, <2>2 DEF HeldAt
  <2>4. s \in terminating
    BY <2>1, <2>2, <2>3 DEF GoneAt
  <2>5. P!Finished(s)
    BY <2>4 DEF P!Finished, P!Terminates, P!Caller, P!InTerminate, Manager!Terminates,
       Manager!Caller, Manager!InTerminate
  <2>. QED
    BY <2>5 DEF P!IInv, P!LeftoverHasCause
<1>. QED
  BY <1>1, ManagerInvariance, TypeCorrect, GoneInvariance, PTL

-------------------------------------------------------------------------------
(* The queue of usage tracking commands.                                   *)

Tracking(s) == s \in tracked \/ Queued(Start(s))

\* Start comes first: before every other command about its session, and before it is tracked.
StartInv ==
  \A i \in DOMAIN commands :
    commands[i].kind = "Start" =>
      /\ commands[i].sid \notin tracked
      /\ \A j \in DOMAIN commands : commands[j].sid = commands[i].sid => i <= j

LEMMA CommandFacts ==
  /\ \A s \in Session : Start(s) \in Command /\ Stop(s) \in Command
  /\ \A s, t \in Session : Start(s) # Stop(t)
  /\ \A s, t \in Session : Start(s) = Start(t) \/ Stop(s) = Stop(t) => s = t
  /\ \A x \in Command : x = IF x.kind = "Start" THEN Start(x.sid) ELSE Stop(x.sid)
  BY DEF Command, Start, Stop

LEMMA QueueSame ==
  ASSUME UNCHANGED commands PROVE \A y : Queued(y)' <=> Queued(y)
  BY DEF Queued

LEMMA AppendQueue ==
  ASSUME commands \in Seq(Command), NEW x \in Command, Send(x)
  PROVE  /\ DOMAIN commands = 1..Len(commands) /\ DOMAIN commands' = 1..(Len(commands) + 1)
         /\ \A i \in DOMAIN commands : commands'[i] = commands[i]
         /\ commands'[Len(commands) + 1] = x
         /\ Len(commands) \in Nat
         /\ \A y \in Command : Queued(y)' <=> Queued(y) \/ y = x
<1>1. /\ DOMAIN commands = 1..Len(commands) /\ DOMAIN commands' = 1..(Len(commands) + 1)
      /\ \A i \in DOMAIN commands : commands'[i] = commands[i]
      /\ commands'[Len(commands) + 1] = x
      /\ Len(commands) \in Nat
  BY AppendProperties, LenProperties DEF Send
<1> QED
  BY <1>1 DEF Queued

LEMMA TakeQueue ==
  ASSUME commands \in Seq(Command), TakeCommand
  PROVE  /\ 1 \in DOMAIN commands /\ commands[1] = Head(commands) /\ Head(commands) \in Command
         /\ DOMAIN commands \subseteq Nat /\ DOMAIN commands' \subseteq Nat \ {0}
         /\ \A i \in DOMAIN commands' : i + 1 \in DOMAIN commands /\ commands'[i] = commands[i + 1]
         /\ \A y \in Command : Queued(y)' => Queued(y)
         /\ \A y \in Command : Queued(y) => Queued(y)' \/ y = Head(commands)
<1>1. /\ 1 \in DOMAIN commands /\ commands[1] = Head(commands) /\ Head(commands) \in Command
      /\ DOMAIN commands = 1..Len(commands) /\ DOMAIN commands' = 1..(Len(commands) - 1)
      /\ \A i \in DOMAIN commands' : commands'[i] = commands[i + 1]
      /\ Len(commands) \in Nat
  BY HeadTailProperties, LenProperties, EmptySeq DEF TakeCommand
<1>2. \A i \in DOMAIN commands' : i + 1 \in DOMAIN commands
  BY <1>1
<1>3. \A i \in DOMAIN commands : i # 1 => i - 1 \in DOMAIN commands' /\ commands'[i - 1] = commands[i]
  BY <1>1
<1> QED
  BY <1>1, <1>2, <1>3 DEF Queued

\* Who changes the queue and the tracked sessions.
LEMMA QueueUsers ==
  ASSUME [Next]_vars
  PROVE  \/ UNCHANGED <<commands, tracked>>
         \/ \E c \in Conn : SendStart(c)
         \/ \E c \in Conn : SendStop(c)
         \/ TakeCommand
         \/ UNCHANGED commands /\ tracked' \subseteq tracked
  BY DEF Next, vars, trackerVars, ConnStep, RejectToken, RegisterRequest, JoinRequest,
         CloseRequest, SubscribeRequest, SfuRegisters, SfuRegisterFails, InsertCreator,
         AnnounceCreated, SfuJoins, SfuJoinFails, InsertJoiner, Disconnect, CleanupReturns,
         ManagerStep, TrackerStep, BudgetExhausted, FarewellOver

\* A command enters the queue when a handler sends it and leaves it when the tracker takes
\* it; a Stop that is taken untracks its session, whose Start was taken before.
LEMMA QueueStep ==
  ASSUME OwnTypeOK, HandlersNamed, StartInv, [Next]_vars, NEW s \in Session
  PROVE  /\ s \in tracked' => s \in tracked \/ Queued(Start(s))
         /\ Queued(Start(s))' =>
              Queued(Start(s)) \/ \E c \in Conn : SendStart(c) /\ handler[c].sid = s
         /\ Queued(Stop(s))' =>
              Queued(Stop(s)) \/ \E c \in Conn : SendStop(c) /\ handler[c].sid = s
         /\ Queued(Stop(s)) => Queued(Stop(s))' \/ ~Tracking(s)'
         /\ \A c \in Conn : SendStop(c) /\ handler[c].sid = s => Queued(Stop(s))'
<1>. DEFINE Effect ==
         /\ s \in tracked' => s \in tracked \/ Queued(Start(s))
         /\ Queued(Start(s))' =>
              Queued(Start(s)) \/ \E c \in Conn : SendStart(c) /\ handler[c].sid = s
         /\ Queued(Stop(s))' =>
              Queued(Stop(s)) \/ \E c \in Conn : SendStop(c) /\ handler[c].sid = s
         /\ Queued(Stop(s)) => Queued(Stop(s))' \/ ~Tracking(s)'
<1>0. commands \in Seq(Command) /\ Start(s) \in Command /\ Stop(s) \in Command
  BY CommandFacts DEF OwnTypeOK, Command
<1>1. ASSUME UNCHANGED commands, tracked' \subseteq tracked PROVE Effect
  BY <1>1, QueueSame
<1>2. ASSUME NEW c \in Conn, SendStart(c) PROVE Effect
  <2>1. handler[c].sid \in Session /\ Send(Start(handler[c].sid)) /\ UNCHANGED tracked
    BY <1>2 DEF SendStart, HandlersNamed, NamedAt
  <2>2. \A y \in Command : Queued(y)' <=> Queued(y) \/ y = Start(handler[c].sid)
    BY <1>0, <2>1, CommandFacts, AppendQueue
  <2>. QED
    BY <1>0, <1>2, <2>1, <2>2, CommandFacts
<1>3. ASSUME NEW c \in Conn, SendStop(c) PROVE Effect /\ (handler[c].sid = s => Queued(Stop(s))')
  <2>1. handler[c].sid \in Session /\ Send(Stop(handler[c].sid)) /\ UNCHANGED tracked
    BY <1>3 DEF SendStop, HandlersNamed, NamedAt
  <2>2. \A y \in Command : Queued(y)' <=> Queued(y) \/ y = Stop(handler[c].sid)
    BY <1>0, <2>1, CommandFacts, AppendQueue
  <2>. QED
    BY <1>0, <1>3, <2>1, <2>2, CommandFacts
<1>4. ASSUME TakeCommand PROVE Effect
  <2>1. /\ 1 \in DOMAIN commands /\ commands[1] = Head(commands) /\ Head(commands) \in Command
        /\ DOMAIN commands \subseteq Nat
        /\ \A y \in Command : Queued(y)' => Queued(y)
        /\ \A y \in Command : Queued(y) => Queued(y)' \/ y = Head(commands)
    BY <1>0, <1>4, TakeQueue
  <2>2. tracked' = IF Head(commands).kind = "Start" THEN tracked \cup {Head(commands).sid}
                                                    ELSE tracked \ {Head(commands).sid}
    BY <1>4 DEF TakeCommand
  <2>3. s \in tracked' => s \in tracked \/ Queued(Start(s))
    BY <2>1, <2>2, CommandFacts DEF Queued
  <2>4. ASSUME Head(commands) = Stop(s) PROVE ~Tracking(s)'
    <3>1. commands[1].kind = "Stop" /\ commands[1].sid = s
      BY <2>1, <2>4 DEF Stop
    <3>2. ASSUME NEW i \in DOMAIN commands, commands[i] = Start(s) PROVE FALSE
      <4>1. commands[i].kind = "Start" /\ commands[i].sid = s
        BY <3>2 DEF Start
      <4>2. i <= 1 /\ i \in Nat
        BY <2>1, <3>1, <4>1 DEF StartInv
      <4>3. DOMAIN commands = 1..Len(commands)
        BY <1>0, LenProperties
      <4>4. i = 1
        BY <4>2, <4>3
      <4>. QED
        BY <3>1, <4>1, <4>4
    <3>3. ~Queued(Start(s))'
      BY <1>0, <2>1, <3>2 DEF Queued
    <3>. QED
      BY <2>1, <2>2, <3>1, <3>3 DEF Tracking
  <2>. QED
    BY <1>0, <2>1, <2>3, <2>4
<1>. HIDE DEF Effect
<1>5. Effect
  BY <1>1, <1>2, <1>3, <1>4, QueueUsers
<1>. QED
  BY <1>3, <1>5 DEF Effect

-------------------------------------------------------------------------------
(* The inductive invariant.                                                *)

\* The manager holds a channel only under the session its connection has to do with.
MemberInv ==
  \A s \in Session, p \in Participant, c \in Conn : sessions[s][p] = c => Concerns(c, s)

\* What nobody allocated concerns nobody and is not tracked; nor is the empty session.
FreshInv ==
  /\ sfu[EmptySession] = "fresh"
  /\ \A s \in Session :
       sfu[s] = "fresh" =>
         /\ ~Tracking(s)
         /\ \A c \in Conn : handler[c].step \in Creating \cup {"announcing"} => handler[c].sid # s
         /\ s # EmptySession => ~Queued(Stop(s)) /\ \A c \in Conn : ~Concerns(c, s)

\* While its creator has not sent Start, a session concerns nobody else.
CreatorInv ==
  \A c \in Conn, s \in Session :
    handler[c].step \in Creating /\ handler[c].sid = s =>
      /\ ~Tracking(s) /\ ~Queued(Stop(s))
      /\ \A d \in Conn : Concerns(d, s) => d = c

\* Who has sent Stop has done so for good.
StopInv ==
  \A c \in Conn, s \in Session :
    handler[c].step \in {"cleanup", "closed"} /\ Concerns(c, s) /\ Tracking(s) => Queued(Stop(s))

\* What is tracked, or about to be, has an owner to stop it.
OwnerInv ==
  \A s \in Session :
    Tracking(s) => Queued(Stop(s)) \/ \E c \in Conn : handler[c].step # "closed" /\ Concerns(c, s)

OneInv == BoundInv /\ MemberInv /\ FreshInv /\ CreatorInv /\ StartInv /\ StopInv /\ OwnerInv

ServerInv == TypeOK /\ OwnTypeOK /\ HandlersNamed /\ P!FramesNameSession /\ OneInv

LEMMA MemberStep ==
  ASSUME OneSession, ServerInv, [Next]_vars
  PROVE  MemberInv'
<1>. SUFFICES ASSUME NEW s \in Session, NEW p \in Participant, NEW d \in Conn, sessions'[s][p] = d
              PROVE  Concerns(d, s)'
  BY DEF MemberInv
<1>. USE DEF ServerInv, OneInv
<1>1. Moves(d) /\ BoundAt(d)
  BY HandlerMoves DEF BoundInv
<1>2. Concerns(d, s)
  <2>1. CASE sessions[s][p] = d
    BY <2>1 DEF MemberInv
  <2>2. CASE handler[d].sid = s
    BY <2>2 DEF Concerns
  <2>. QED
    BY <2>1, <2>2, ManagerEffect, ConstantFacts
<1>. QED
  BY <1>1, <1>2, ConcernsStep

\* Ids a client can have learnt are of sessions that concern somebody, past the creation.
LEMMA KnownConcerns ==
  ASSUME BoundInv, NEW s \in Session, Known(s)
  PROVE  \E d \in Conn : Concerns(d, s) /\ handler[d].step \notin Creating
<1>1. PICK d \in Conn : \/ handler[d].step = "announcing" /\ handler[d].sid = s
                        \/ \E p \in Participant : bound[d] = <<s, p>>
  BY DEF Known
<1>2. ASSUME NEW p \in Participant, bound[d] = <<s, p>>
      PROVE  bound[d] # None /\ bound[d][1] = s /\ handler[d].step \notin Creating
  <2>1. bound[d] # None /\ bound[d][1] = s
    BY <1>2, PairNotNone
  <2>2. handler[d].step \in Creating => bound[d] = None
    BY DEF BoundInv, BoundAt, Unbound
  <2>. QED
    BY <2>1, <2>2
<1>. QED
  BY <1>1, <1>2 DEF Concerns, Creating

LEMMA AllocatesFacts ==
  ASSUME TypeOK, NEW c \in Conn, NEW s \in Session, SfuRegisters(c, s)
  PROVE  /\ sfu[s] = "fresh" /\ sfu'[s] = "open" /\ s # EmptySession
         /\ UNCHANGED <<commands, tracked>>
         /\ \A d \in Conn : handler'[d] # handler[d] => d = c
  BY DEF TypeOK, Manager!TypeOK, SfuRegisters, Manager!SfuAllocates, Goto, trackerVars

LEMMA SenderFacts ==
  ASSUME HandlersNamed, BoundInv, NEW c \in Conn
  PROVE  /\ SendStart(c) => handler[c].step = "starting" /\ handler[c].sid \in Session
         /\ SendStop(c) => handler[c].step = "stopping" /\ handler[c].sid \in Session
         /\ Concerns(c, handler[c].sid)
  BY DEF SendStart, SendStop, HandlersNamed, NamedAt, Concerns

LEMMA FreshStep ==
  ASSUME OneSession, ServerInv, [Next]_vars
  PROVE  FreshInv'
<1>. USE DEF ServerInv, OneInv
<1>0. \A d \in Conn : Moves(d) /\ BoundAt(d)
  BY HandlerMoves DEF BoundInv
<1>1. sfu'[EmptySession] = "fresh"
  BY ManagerEffect DEF FreshInv
<1>. SUFFICES ASSUME NEW s \in Session, sfu'[s] = "fresh"
     PROVE  /\ ~Tracking(s)'
            /\ \A c \in Conn :
                 handler'[c].step \in Creating \cup {"announcing"} => handler'[c].sid # s
            /\ s # EmptySession => ~Queued(Stop(s))' /\ \A c \in Conn : ~Concerns(c, s)'
  BY <1>1 DEF FreshInv
<1>2. sfu[s] = "fresh"
  BY ManagerEffect
<1>3. /\ ~Tracking(s)
      /\ \A c \in Conn : handler[c].step \in Creating \cup {"announcing"} => handler[c].sid # s
      /\ s # EmptySession => ~Queued(Stop(s)) /\ \A c \in Conn : ~Concerns(c, s)
  BY <1>2 DEF FreshInv
<1>4. ~Tracking(s)'
  BY <1>3, QueueStep, SenderFacts DEF Tracking, Creating
<1>5. \A c \in Conn : ~SfuRegisters(c, s)
  BY AllocatesFacts
<1>6. ASSUME NEW c \in Conn, handler'[c].step \in Creating \cup {"announcing"}
      PROVE  handler'[c].sid # s
  BY <1>0, <1>3, <1>5, <1>6, StepOrder DEF Creating
<1>7. ASSUME s # EmptySession PROVE ~Queued(Stop(s))'
  BY <1>3, <1>7, QueueStep, SenderFacts
<1>8. ASSUME s # EmptySession, NEW c \in Conn PROVE ~Concerns(c, s)'
  BY <1>0, <1>3, <1>5, <1>8, ConcernsStep, KnownConcerns DEF NewConcern
<1>. QED
  BY <1>4, <1>6, <1>7, <1>8

LEMMA CreatorStep ==
  ASSUME OneSession, ServerInv, [Next]_vars
  PROVE  CreatorInv'
<1>. USE DEF ServerInv, OneInv
<1>0. \A d \in Conn : Moves(d) /\ BoundAt(d)
  BY HandlerMoves DEF BoundInv
<1>. SUFFICES ASSUME NEW c \in Conn, NEW s \in Session,
                     handler'[c].step \in Creating, handler'[c].sid = s
     PROVE  /\ ~Tracking(s)' /\ ~Queued(Stop(s))'
            /\ \A d \in Conn : Concerns(d, s)' => d = c
  BY DEF CreatorInv
<1>1. CASE handler[c].step \in Creating /\ handler[c].sid = s
  <2>1. /\ ~Tracking(s) /\ ~Queued(Stop(s))
        /\ \A d \in Conn : Concerns(d, s) => d = c
        /\ Concerns(c, s)
    BY <1>1 DEF CreatorInv, Concerns
  <2>2. sfu[s] # "fresh" /\ s # EmptySession
    BY <1>1 DEF FreshInv
  <2>3. ~Tracking(s)'
    <3>1. ASSUME NEW d \in Conn, SendStart(d), handler[d].sid = s PROVE FALSE
      <4>1. d = c
        BY <2>1, <3>1, SenderFacts
      <4>2. handler'[c].step = "announcing"
        BY <3>1, <4>1 DEF SendStart, Goto, Frame, OwnTypeOK
      <4>. QED
        BY <4>2 DEF Creating
    <3>. QED
      BY <2>1, <3>1, QueueStep DEF Tracking
  <2>4. ~Queued(Stop(s))'
    <3>1. ASSUME NEW d \in Conn, SendStop(d), handler[d].sid = s PROVE FALSE
      BY <1>1, <2>1, <3>1, SenderFacts DEF Creating
    <3>. QED
      BY <2>1, <3>1, QueueStep
  <2>5. ASSUME NEW d \in Conn, Concerns(d, s)' PROVE d = c
    <3>1. CASE Concerns(d, s)
      BY <2>1, <3>1
    <3>2. CASE Known(s)
      BY <1>1, <2>1, <3>2, KnownConcerns
    <3>3. ~SfuRegisters(d, s)
      BY <2>2, AllocatesFacts
    <3>. QED
      BY <1>0, <2>2, <2>5, <3>1, <3>2, <3>3, ConcernsStep DEF NewConcern
  <2>. QED
    BY <2>3, <2>4, <2>5
<1>2. CASE SfuRegisters(c, s)
  <2>1. /\ sfu[s] = "fresh" /\ sfu'[s] = "open" /\ s # EmptySession
        /\ UNCHANGED <<commands, tracked>>
        /\ \A d \in Conn : handler'[d] # handler[d] => d = c
    BY <1>2, AllocatesFacts
  <2>2. ~Tracking(s) /\ ~Queued(Stop(s)) /\ \A d \in Conn : ~Concerns(d, s)
    BY <2>1 DEF FreshInv
  <2>3. ~Tracking(s)' /\ ~Queued(Stop(s))'
    BY <2>1, <2>2, QueueSame DEF Tracking
  <2>4. ASSUME NEW d \in Conn, Concerns(d, s)' PROVE d = c
    <3>1. SfuRegisters(d, s) => d = c
      BY <1>2, AllocatesFacts DEF SfuRegisters, Goto, Frame, OwnTypeOK
    <3>2. ~Known(s)
      BY <2>2, KnownConcerns
    <3>. QED
      BY <1>0, <2>1, <2>2, <2>4, <3>1, <3>2, ConcernsStep DEF NewConcern
  <2>. QED
    BY <2>3, <2>4
<1>. QED
  BY <1>0, <1>1, <1>2, StepOrder

LEMMA StartStep ==
  ASSUME OneSession, ServerInv, [Next]_vars
  PROVE  StartInv'
<1>. USE DEF ServerInv, OneInv
<1>0. commands \in Seq(Command)
  BY DEF OwnTypeOK, Command
<1>1. ASSUME UNCHANGED commands, tracked' \subseteq tracked PROVE StartInv'
  BY <1>1 DEF StartInv
<1>2. ASSUME NEW c \in Conn, SendStart(c) PROVE StartInv'
  <2>. DEFINE s == handler[c].sid
  <2>1. s \in Session /\ Send(Start(s)) /\ UNCHANGED tracked /\ ~Tracking(s) /\ ~Queued(Stop(s))
    BY <1>2, SenderFacts DEF SendStart, CreatorInv, Creating
  <2>. HIDE DEF s
  <2>2. Start(s) \in Command /\ Start(s).kind = "Start" /\ Start(s).sid = s
    BY <2>1, CommandFacts DEF Start
  <2>3. /\ DOMAIN commands = 1..Len(commands) /\ DOMAIN commands' = 1..(Len(commands) + 1)
        /\ \A i \in DOMAIN commands : commands'[i] = commands[i]
        /\ commands'[Len(commands) + 1] = Start(s)
        /\ Len(commands) \in Nat
    BY <1>0, <2>1, <2>2, AppendQueue
  <2>4. \A i \in DOMAIN commands : commands[i].sid # s
    <3>1. \A i \in DOMAIN commands : commands[i] \in Command
      BY <1>0
    <3>. QED
      BY <2>1, <3>1, CommandFacts DEF Tracking, Queued
  <2>. QED
    BY <2>1, <2>2, <2>3, <2>4 DEF StartInv, Tracking
<1>3. ASSUME NEW c \in Conn, SendStop(c) PROVE StartInv'
  <2>. DEFINE s == handler[c].sid
  <2>1. s \in Session /\ Send(Stop(s)) /\ UNCHANGED tracked
    BY <1>3, SenderFacts DEF SendStop
  <2>. HIDE DEF s
  <2>2. Stop(s) \in Command /\ Stop(s).kind # "Start"
    BY <2>1, CommandFacts DEF Stop
  <2>3. /\ DOMAIN commands = 1..Len(commands) /\ DOMAIN commands' = 1..(Len(commands) + 1)
        /\ \A i \in DOMAIN commands : commands'[i] = commands[i]
        /\ commands'[Len(commands) + 1] = Stop(s)
        /\ Len(commands) \in Nat
    BY <1>0, <2>1, <2>2, AppendQueue
  <2>. QED
    BY <2>1, <2>2, <2>3 DEF StartInv
<1>4. ASSUME TakeCommand PROVE StartInv'
  <2>1. /\ 1 \in DOMAIN commands /\ commands[1] = Head(commands)
        /\ DOMAIN commands \subseteq Nat /\ DOMAIN commands' \subseteq Nat \ {0}
        /\ \A i \in DOMAIN commands' : i + 1 \in DOMAIN commands /\ commands'[i] = commands[i + 1]
    BY <1>0, <1>4, TakeQueue
  <2>2. \A x \in tracked' : x \in tracked \/ (commands[1].kind = "Start" /\ commands[1].sid = x)
    BY <1>4, <2>1 DEF TakeCommand
  <2>3. ASSUME NEW i \in DOMAIN commands', commands'[i].kind = "Start",
               commands[1].kind = "Start", commands[1].sid = commands'[i].sid
        PROVE  FALSE
    <3>1. i + 1 <= 1 /\ i \in Nat \ {0}
      BY <2>1, <2>3 DEF StartInv
    <3>. QED
      BY <3>1
  <2>4. ASSUME NEW i \in DOMAIN commands', commands'[i].kind = "Start"
        PROVE  commands'[i].sid \notin tracked'
    BY <2>1, <2>2, <2>3, <2>4 DEF StartInv
  <2>5. ASSUME NEW i \in DOMAIN commands', commands'[i].kind = "Start",
               NEW j \in DOMAIN commands', commands'[j].sid = commands'[i].sid
        PROVE  i <= j
    <3>1. i + 1 <= j + 1 /\ i \in Nat /\ j \in Nat
      BY <2>1, <2>5 DEF StartInv
    <3>. QED
      BY <3>1
  <2>. QED
    BY <2>4, <2>5 DEF StartInv
<1>. QED
  BY <1>1, <1>2, <1>3, <1>4, QueueUsers

LEMMA StopStep ==
  ASSUME OneSession, ServerInv, [Next]_vars
  PROVE  StopInv'
<1>. USE DEF ServerInv, OneInv
<1>0. \A d \in Conn : Moves(d) /\ BoundAt(d)
  BY HandlerMoves DEF BoundInv
<1>. SUFFICES ASSUME NEW c \in Conn, NEW s \in Session,
                     handler'[c].step \in {"cleanup", "closed"}, Concerns(c, s)', Tracking(s)'
     PROVE  Queued(Stop(s))'
  BY DEF StopInv
<1>1. Concerns(c, s)
  BY <1>0, ConcernsStep DEF NewConcern
<1>2. Tracking(s) \/ \E d \in Conn : SendStart(d) /\ handler[d].sid = s
  BY QueueStep DEF Tracking
<1>3. CASE handler[c].step \in {"cleanup", "closed"}
  <2>1. ASSUME NEW d \in Conn, SendStart(d), handler[d].sid = s PROVE FALSE
    BY <1>1, <1>3, <2>1, SenderFacts DEF CreatorInv, Creating
  <2>2. Queued(Stop(s))
    BY <1>1, <1>2, <1>3, <2>1 DEF StopInv
  <2>. QED
    BY <2>2, QueueStep
<1>4. CASE SendStop(c) /\ handler[c].step = "stopping"
  <2>1. handler[c].sid = s
    BY <1>0, <1>1, <1>4 DEF BoundAt, Concerns
  <2>. QED
    BY <1>4, <2>1, QueueStep
<1>. QED
  BY <1>0, <1>3, <1>4, StepOrder

LEMMA OwnerStep ==
  ASSUME OneSession, ServerInv, [Next]_vars
  PROVE  OwnerInv'
<1>. USE DEF ServerInv, OneInv
<1>0. \A d \in Conn : Moves(d) /\ BoundAt(d)
  BY HandlerMoves DEF BoundInv
<1>. SUFFICES ASSUME NEW s \in Session, Tracking(s)'
     PROVE  Queued(Stop(s))' \/ \E c \in Conn : handler'[c].step # "closed" /\ Concerns(c, s)'
  BY DEF OwnerInv
<1>1. Queued(Stop(s)) => Queued(Stop(s))'
  BY QueueStep
<1>2. ASSUME NEW c \in Conn, handler[c].step # "closed", Concerns(c, s), Tracking(s)
      PROVE  Queued(Stop(s)) \/ (handler'[c].step # "closed" /\ Concerns(c, s)')
  BY <1>0, <1>2, ConcernsStep, StepOrder DEF StopInv
<1>3. ASSUME NEW c \in Conn, SendStart(c), handler[c].sid = s
      PROVE  handler'[c].step # "closed" /\ Concerns(c, s)'
  BY <1>0, <1>3, ConcernsStep, StepOrder, SenderFacts DEF Concerns
<1>4. Tracking(s) \/ \E c \in Conn : SendStart(c) /\ handler[c].sid = s
  BY QueueStep DEF Tracking
<1>. QED
  BY <1>1, <1>2, <1>3, <1>4 DEF OwnerInv

LEMMA ServerInvInit ==
  ASSUME Init, P!IInv PROVE ServerInv
<1>. USE ConstantFacts, RestFacts
<1>1. /\ handler = [c \in Conn |-> Open] /\ bound = [c \in Conn |-> None]
      /\ commands = <<>> /\ tracked = {} /\ Manager!Init
  BY DEF Init
<1>2. DOMAIN commands = {}
  BY <1>1
<1>3. \A y : ~Queued(y)
  BY <1>2 DEF Queued
<1>4. \A s \in Session : ~Tracking(s) /\ \A c \in Conn : ~Concerns(c, s)
  BY <1>1, <1>3 DEF Tracking, Concerns
<1>5. OwnTypeOK /\ HandlersNamed
  BY OwnInit
<1>6. TypeOK /\ P!FramesNameSession
  BY <1>5, SameType DEF P!IInv, OwnTypeOK, TypeOK
<1>7. /\ \A s \in Session, p \in Participant : sessions[s][p] = None
      /\ \A s \in Session : sfu[s] = "fresh"
  BY <1>1 DEF Manager!Init
<1>8. BoundInv
  BY <1>1 DEF BoundInv, BoundAt, Unbound, Creating
<1>9. MemberInv
  BY <1>7 DEF MemberInv
<1>10. FreshInv
  BY <1>1, <1>3, <1>4, <1>7 DEF FreshInv, Creating
<1>11. CreatorInv
  BY <1>1 DEF CreatorInv, Creating
<1>12. StartInv /\ StopInv /\ OwnerInv
  BY <1>2, <1>4 DEF StartInv, StopInv, OwnerInv
<1>. QED
  BY <1>5, <1>6, <1>8, <1>9, <1>10, <1>11, <1>12 DEF ServerInv, OneInv

LEMMA ServerInvStep ==
  ASSUME OneSession, ServerInv, [Next]_vars, TypeOK', P!IInv'
  PROVE  ServerInv'
<1>1. OwnTypeOK' /\ HandlersNamed'
  BY OwnStep DEF ServerInv
<1>2. P!FramesNameSession'
  BY DEF P!IInv
<1>3. BoundInv'
  BY BoundStep DEF ServerInv, OneInv
<1>. QED
  BY <1>1, <1>2, <1>3, MemberStep, FreshStep, CreatorStep, StartStep, StopStep, OwnerStep
  DEF ServerInv, OneInv

LEMMA OneInvariance ==
  ASSUME OneSession PROVE Spec => []ServerInv
<1>1. Init /\ P!IInv => ServerInv
  BY ServerInvInit
<1>2. ServerInv /\ [Next]_vars /\ TypeOK' /\ P!IInv' => ServerInv'
  BY ServerInvStep
<1>. QED
  BY <1>1, <1>2, ManagerInvariance, TypeCorrect, PTL DEF Spec

\* With clients that register or join once per connection, every session the usage tracker
\* tracks, or is about to, has a connection that will stop it or a Stop on its way (src/signal/core.rs,
\* src/background/tracker.rs:62-100), whatever the capacity of the command channel.
THEOREM TrackedHasOwnerAlways ==
  ASSUME OneSession PROVE Spec => []TrackedHasOwner
<1>1. ServerInv => TrackedHasOwner
  <2>. SUFFICES ASSUME ServerInv, NEW s \in Session,
                       s \in tracked \/ (\E i \in DOMAIN commands : commands[i] = Start(s)),
                       ~ \E i \in DOMAIN commands : commands[i] = Stop(s)
                PROVE  \E c \in Conn : handler[c] # Closed /\ s \in {handler[c].sid} \cup
                           (IF bound[c] = None THEN {} ELSE {bound[c][1]})
    BY DEF TrackedHasOwner
  <2>1. PICK c \in Conn : handler[c].step # "closed" /\ Concerns(c, s)
    BY DEF ServerInv, OneInv, OwnerInv, Tracking, Queued
  <2>2. handler[c] # Closed
    BY <2>1, RestFacts
  <2>. QED
    BY <2>1, <2>2 DEF Concerns
<1>. QED
  BY <1>1, OneInvariance, PTL

===============================================================================
