------------------------ MODULE SessionManager_proofs ------------------------
(* Proofs about SessionManager, for every value of its constants. *)
EXTENDS SessionManager, TLAPS

-------------------------------------------------------------------------------
(* Type correctness.                                                       *)

LEMMA MembersType == ASSUME NEW s \in Session PROVE Members(s) \subseteq Member
  BY DEF Members

LEMMA StepChange ==
  ASSUME NEW f \in CallFrame, NEW step \in Step PROVE [f EXCEPT !.step = step] \in CallFrame
  BY DEF CallFrame

LEMMA TodoChange ==
  ASSUME NEW f \in CallFrame, NEW step \in Step, NEW todo \in SUBSET (Member \cup Subscriber)
  PROVE  [f EXCEPT !.step = step, !.todo = todo] \in CallFrame
  BY DEF CallFrame

LEMMA ReasonChange ==
  ASSUME NEW f \in CallFrame, NEW step \in Step, NEW r \in Reason
  PROVE  [f EXCEPT !.step = step, !.reason = r] \in CallFrame
  BY DEF CallFrame

LEMMA FrameChange ==
  ASSUME NEW t \in Caller, NEW f \in CallFrame, call \in [Caller -> CallFrame],
         call' = [call EXCEPT ![t] = f]
  PROVE  call' \in [Caller -> CallFrame]
  OBVIOUS

\* The frames of callers that are inside terminate_session, or about to enter it, name
\* their session: what indexes the maps is a session id, never the absent value.
FramesNameSession ==
  \A t \in Caller :
    /\ call[t].step \in {"subscribing", "accepted", "done", "lost"} \cup Running => call[t].sid \in Session
    /\ call[t].step \in {"subscribing", "accepted", "streaming"} => call[t].pid \in Participant
    /\ call[t].step \in {"marking"} \cup InTerminate => call[t].reason \in Reason

LEMMA InitType == Init => TypeOK /\ FramesNameSession
<1> SUFFICES ASSUME Init PROVE TypeOK /\ FramesNameSession
  OBVIOUS
<1>1. \A t \in Caller : call[t] \in {IdleFrame, UnbornFrame}
  BY DEF Init
<1>2. IdleFrame \in CallFrame /\ UnbornFrame \in CallFrame
  BY DEF IdleFrame, UnbornFrame, Frame, CallFrame, Step
<1>3. TypeOK
  BY <1>1, <1>2 DEF Init, TypeOK
<1>4. FramesNameSession
  BY <1>1 DEF FramesNameSession, IdleFrame, UnbornFrame, Frame, Running, InTerminate
<1> QED
  BY <1>3, <1>4

LEMMA StepType == TypeOK /\ FramesNameSession /\ [Next]_vars => TypeOK' /\ FramesNameSession'
<1> SUFFICES ASSUME TypeOK, FramesNameSession, [Next]_vars
             PROVE  TypeOK' /\ FramesNameSession'
  OBVIOUS
<1> USE ConstantsAssumption DEF TypeOK, FramesNameSession, Step, Running, InTerminate,
        Frame, IdleFrame, Caller
<1>1. ASSUME NEW s \in Session, NEW p \in Participant, NEW c \in Conn, RegisterSession(s, p, c)
      PROVE  TypeOK' /\ FramesNameSession'
  BY <1>1 DEF RegisterSession, CallFrame
<1>2. ASSUME NEW s \in Session, SfuAllocates(s) PROVE TypeOK' /\ FramesNameSession'
  BY <1>2 DEF SfuAllocates, CallFrame
<1>3. ASSUME NEW u \in Subscriber, SubscribeToSystem(u) \/ UnsubscribeToSystem(u)
      PROVE  TypeOK' /\ FramesNameSession'
  BY <1>3 DEF SubscribeToSystem, UnsubscribeToSystem, CallFrame
<1>4. ASSUME NEW t \in Task, NEW s \in Session, NEW p \in Participant, LockHandles(t, s, p)
      PROVE  TypeOK' /\ FramesNameSession'
  BY <1>4 DEF LockHandles, CallFrame
<1>5. ASSUME NEW t \in Task, NEW s \in Session, NEW r \in Reason, CallTerminate(t, s, r)
      PROVE  TypeOK' /\ FramesNameSession'
  BY <1>5 DEF CallTerminate, CallFrame
<1>6. ASSUME NEW t \in Task, SfuAccepts(t) PROVE TypeOK' /\ FramesNameSession'
  <2>1. TypeOK'
    BY <1>6 DEF SfuAccepts, CallFrame
  <2>2. FramesNameSession'
    BY <1>6 DEF SfuAccepts, CallFrame
  <2> QED
    BY <2>1, <2>2
<1>7. ASSUME NEW t \in Task, SubscribeFails(t) PROVE TypeOK' /\ FramesNameSession'
  BY <1>7 DEF SubscribeFails, CallFrame
<1>8. ASSUME NEW t \in Task, NEW e \in EventTask, SpawnEventTask(t, e)
      PROVE  TypeOK' /\ FramesNameSession'
  <2>1. TypeOK'
    BY <1>8 DEF SpawnEventTask, CallFrame
  <2>2. FramesNameSession'
    BY <1>8 DEF SpawnEventTask, CallFrame
  <2> QED
    BY <2>1, <2>2
<1>9. ASSUME NEW e \in EventTask, EventTaskStep(e) PROVE TypeOK' /\ FramesNameSession'
  <2>1. CASE MediaClosed(e)
    <3> DEFINE f == IF call[e].sid \in terminating
                      THEN [call[e] EXCEPT !.step = "done"]
                      ELSE [call[e] EXCEPT !.step = "marking", !.reason = "Error"]
    <3>1. f \in CallFrame
      BY StepChange, ReasonChange DEF Reason
    <3>2. call' \in [Caller -> CallFrame]
      <4>1. call' = [call EXCEPT ![e] = f]
        BY <2>1 DEF MediaClosed, CallFrame
      <4> HIDE DEF f
      <4> QED
        BY <3>1, <4>1, FrameChange
    <3>3. FramesNameSession'
      BY <2>1 DEF MediaClosed, Reason, CallFrame
    <3> QED
      BY <2>1, <3>2, <3>3 DEF MediaClosed, CallFrame
  <2>2. CASE StreamEnds(e)
    <3>1. [call[e] EXCEPT !.step = "done"] \in CallFrame
      BY StepChange
    <3>2. call' \in [Caller -> CallFrame]
      BY <2>2, <3>1, FrameChange DEF StreamEnds
    <3>3. FramesNameSession'
      BY <2>2 DEF StreamEnds, CallFrame
    <3> QED
      BY <2>2, <3>2, <3>3 DEF StreamEnds, CallFrame
  <2>3. CASE DropAborted(e)
    BY <2>3 DEF DropAborted, CallFrame
  <2> QED
    BY <1>9, <2>1, <2>2, <2>3 DEF EventTaskStep
<1>10. ASSUME NEW t \in Caller, MarkTerminating(t) PROVE TypeOK' /\ FramesNameSession'
  BY <1>10 DEF MarkTerminating, Returned, CallFrame
<1>11. ASSUME NEW t \in Caller, CloseSfu(t) PROVE TypeOK' /\ FramesNameSession'
  <2>1. TypeOK'
    <3>1. [call[t] EXCEPT !.step = "collecting"] \in CallFrame
      BY StepChange
    <3>2. call' \in [Caller -> CallFrame]
      BY <1>11, <3>1, FrameChange DEF CloseSfu
    <3>3. sfu' \in [Session -> {"fresh", "open", "closed"}]
      BY <1>11 DEF CloseSfu, CallFrame
    <3> QED
      BY <1>11, <3>2, <3>3 DEF CloseSfu, CallFrame
  <2>2. FramesNameSession'
    BY <1>11 DEF CloseSfu, CallFrame
  <2> QED
    BY <2>1, <2>2
<1>12. ASSUME NEW t \in Caller, CollectParticipants(t) PROVE TypeOK' /\ FramesNameSession'
  <2>. DEFINE f == [call[t] EXCEPT !.step = "telling", !.todo = Members(call[t].sid)]
  <2>1. call[t].sid \in Session /\ call[t] \in CallFrame
    BY <1>12 DEF CollectParticipants
  <2>2. f \in CallFrame
    BY <2>1, MembersType, TodoChange
  <2>3. call' = [call EXCEPT ![t] = f]
    BY <1>12 DEF CollectParticipants
  <2>4. call' \in [Caller -> CallFrame]
    <3>. HIDE DEF f, Caller
    <3>. QED
      BY <2>2, <2>3, FrameChange
  <2>5. TypeOK'
    BY <1>12, <2>4 DEF CollectParticipants
  <2>6. FramesNameSession'
    BY <1>12, MembersType DEF CollectParticipants, CallFrame
  <2> QED
    BY <2>5, <2>6
<1>13. ASSUME NEW t \in Caller, NEW x \in Member \cup Subscriber, Tell(t, x)
       PROVE  TypeOK' /\ FramesNameSession'
  BY <1>13 DEF Tell, CallFrame
<1>14. ASSUME NEW t \in Caller, CollectSubscribers(t) PROVE TypeOK' /\ FramesNameSession'
  <2>1. TypeOK'
    <3>1. [call[t] EXCEPT !.step = "tellingSystem", !.todo = systemSubscribers] \in CallFrame
      BY TodoChange
    <3>2. call' \in [Caller -> CallFrame]
      BY <1>14, <3>1, FrameChange DEF CollectSubscribers
    <3> QED
      BY <1>14, <3>2 DEF CollectSubscribers, CallFrame
  <2>2. FramesNameSession'
    BY <1>14 DEF CollectSubscribers, CallFrame
  <2> QED
    BY <2>1, <2>2
<1>15. ASSUME NEW t \in Caller, AbortEventTasks(t) PROVE TypeOK' /\ FramesNameSession'
  <2>1. TypeOK'
    <3>1. [call[t] EXCEPT !.step = "removing"] \in CallFrame
      BY StepChange
    <3>2. call' \in [Caller -> CallFrame]
      BY <1>15, <3>1, FrameChange DEF AbortEventTasks, AllTold, AbortHandles
    <3>3. handles' \in [Session \X Participant -> EventTask \cup {None}]
      BY <1>15 DEF AbortEventTasks, AllTold, AbortHandles, CallFrame
    <3>4. cancelled' \subseteq EventTask
      BY <1>15 DEF AbortEventTasks, AllTold, AbortHandles, CallFrame
    <3> QED
      BY <1>15, <3>2, <3>3, <3>4 DEF AbortEventTasks, AbortHandles, CallFrame
  <2>2. FramesNameSession'
    BY <1>15 DEF AbortEventTasks, AllTold, AbortHandles, CallFrame
  <2> QED
    BY <2>1, <2>2
<1>16. ASSUME NEW t \in Caller, RemoveSession(t) PROVE TypeOK' /\ FramesNameSession'
  BY <1>16 DEF RemoveSession, Returned, CallFrame
<1>17. ASSUME UNCHANGED vars PROVE TypeOK' /\ FramesNameSession'
  BY <1>17 DEF vars
<1> QED
  BY <1>1, <1>2, <1>3, <1>4, <1>5, <1>6, <1>7, <1>8, <1>9, <1>10, <1>11, <1>12, <1>13,
     <1>14, <1>15, <1>16, <1>17 DEF Next, Request, AnswerSubscribe, Terminate

\* Every state of the manager is well typed, for any number of sessions, participants,
\* connections, subscribers and tasks (src/signal/manager.rs).
THEOREM TypeCorrect == Spec => []TypeOK
<1>1. Spec => [](TypeOK /\ FramesNameSession)
  BY InitType, StepType, PTL DEF Spec
<1> QED
  BY <1>1, PTL

-------------------------------------------------------------------------------
(* The inductive invariant.  The safety properties are not inductive by    *)
(* themselves: each holds because of what the frames, the mutex, the map   *)
(* of handles and the ghosts say together.                                 *)

\* The mutex is held exactly by the task inside subscribe_to_events, whose key is free;
\* tasks and event tasks keep to the steps of their own methods.
LockInv ==
  /\ \A t \in Task :
       /\ call[t].step \notin {"streaming", "unborn", "done", "lost"}
       /\ call[t].step \in {"subscribing", "accepted"} <=> handlesLock = t
       /\ handlesLock = t => handles[<<call[t].sid, call[t].pid>>] = None
  /\ \A e \in EventTask :
       /\ call[e].step \notin {"idle", "subscribing", "accepted"}
       /\ call[e].step # "unborn" => call[e].sid \in Session /\ call[e].pid \in Participant

\* Who is past the mark of a session finds the session marked.
MarkInv == \A t \in Caller : call[t].step \in InTerminate => call[t].sid \in terminating

\* A handle is under the key of its own task and was not aborted.
HandleInv ==
  \A k \in Session \X Participant :
    handles[k] # None =>
      /\ call[handles[k]].step # "unborn"
      /\ k = <<call[handles[k]].sid, call[handles[k]].pid>>
      /\ handles[k] \notin cancelled

\* An aborted task was born, its session is marked, and if it is itself inside
\* terminate_session then it is the one that aborted itself, just before the removal.
CancelInv ==
  \A e \in cancelled :
    /\ call[e].step # "unborn"
    /\ call[e].sid \in terminating
    /\ call[e].step \in InTerminate => call[e].step = "removing"

\* The SessionEnded events of a session agree with its terminator while it is at work.
EndedInv ==
  \A m \in ended :
    /\ m.sid \in terminating
    /\ \A t \in Caller : Terminates(t, m.sid) => t = m.by /\ call[t].reason = m.reason

\* No accepted stream waits to be inserted for a session closed and past its abort loop.
AcceptInv ==
  \A s \in Session :
    AbortDone(s) /\ sfu[s] = "closed" =>
      \A t \in Task : call[t].step = "accepted" => call[t].sid # s

Told(s, p) == \E m \in ended : m.sid = s /\ m.to = <<p, sessions[s][p]>>

\* While a session is told, each of its early members is told or still to be told.
TellInv ==
  \A t \in Caller : \A p \in Participant :
    LET s == call[t].sid IN
      call[t].step \in InTerminate /\ sessions[s][p] # None /\ <<s, p>> \notin late =>
        /\ call[t].step = "telling" => <<p, sessions[s][p]>> \in call[t].todo \/ Told(s, p)
        /\ call[t].step \in {"tellingSystem", "removing"} => Told(s, p)

IInv ==
  /\ TypeOK
  /\ FramesNameSession
  /\ LockInv
  /\ MarkInv
  /\ OneTerminator
  /\ EndedInv
  /\ OneEndReason
  /\ HandleInv
  /\ RunningTasksHaveHandles
  /\ CancelInv
  /\ AcceptInv
  /\ NoOrphanEventTask
  /\ LeftoverHasCause
  /\ TellInv

LEMMA LockStep ==
  ASSUME TypeOK, FramesNameSession, LockInv, [Next]_vars PROVE LockInv'
<1> USE ConstantsAssumption DEF TypeOK, CallFrame, Caller, Frame, IdleFrame, Running, InTerminate, FramesNameSession, LockInv
<1>1. ASSUME NEW s \in Session, NEW p \in Participant, NEW c \in Conn, RegisterSession(s, p, c) PROVE LockInv'
  BY <1>1 DEF RegisterSession
<1>2. ASSUME NEW s \in Session, SfuAllocates(s) PROVE LockInv'
  BY <1>2 DEF SfuAllocates
<1>3. ASSUME NEW u \in Subscriber, SubscribeToSystem(u) \/ UnsubscribeToSystem(u) PROVE LockInv'
  BY <1>3 DEF SubscribeToSystem, UnsubscribeToSystem
<1>4. ASSUME NEW t \in Task, NEW s \in Session, NEW p \in Participant, LockHandles(t, s, p) PROVE LockInv'
  BY <1>4 DEF LockHandles
<1>5. ASSUME NEW t \in Task, NEW s \in Session, NEW r \in Reason, CallTerminate(t, s, r) PROVE LockInv'
  BY <1>5 DEF CallTerminate
<1>6. ASSUME NEW t \in Task, SfuAccepts(t) PROVE LockInv'
  BY <1>6 DEF SfuAccepts
<1>7. ASSUME NEW t \in Task, SubscribeFails(t) PROVE LockInv'
  BY <1>7 DEF SubscribeFails
<1>8. ASSUME NEW t \in Task, NEW e \in EventTask, SpawnEventTask(t, e) PROVE LockInv'
  BY <1>8 DEF SpawnEventTask
<1>9. ASSUME NEW e \in EventTask, MediaClosed(e) PROVE LockInv'
  BY <1>9 DEF MediaClosed
<1>10. ASSUME NEW e \in EventTask, StreamEnds(e) PROVE LockInv'
  BY <1>10 DEF StreamEnds
<1>11. ASSUME NEW e \in EventTask, DropAborted(e) PROVE LockInv'
  BY <1>11 DEF DropAborted
<1>12. ASSUME NEW t \in Caller, MarkTerminating(t) PROVE LockInv'
  <2>1. CASE t \in Task
    <3>1. /\ call[t].step = "marking" /\ call'[t].step \in {"idle", "closing"}
          /\ \A u \in Caller : u # t => call'[u] = call[u]
      BY <1>12, <2>1 DEF MarkTerminating, Returned
    <3>2. UNCHANGED <<handles, handlesLock>>
      BY <1>12 DEF MarkTerminating
    <3>3. handlesLock # t
      BY <2>1, <3>1
    <3>4. ASSUME NEW u \in Task
          PROVE  /\ call'[u].step \notin {"streaming", "unborn", "done", "lost"}
                 /\ call'[u].step \in {"subscribing", "accepted"} <=> handlesLock = u
                 /\ handlesLock = u => handles[<<call'[u].sid, call'[u].pid>>] = None
      BY <3>1, <3>3
    <3>5. ASSUME NEW e \in EventTask PROVE call'[e] = call[e]
      BY <2>1, <3>1
    <3> QED
      BY <3>2, <3>4, <3>5
  <2>2. CASE t \in EventTask
    BY <1>12, <2>2 DEF MarkTerminating, Returned
  <2> QED
    BY <2>1, <2>2
<1>13. ASSUME NEW t \in Caller, CloseSfu(t) PROVE LockInv'
  BY <1>13 DEF CloseSfu
<1>14. ASSUME NEW t \in Caller, CollectParticipants(t) PROVE LockInv'
  BY <1>14 DEF CollectParticipants
<1>15. ASSUME NEW t \in Caller, NEW x \in Member \cup Subscriber, Tell(t, x) PROVE LockInv'
  BY <1>15 DEF Tell
<1>16. ASSUME NEW t \in Caller, CollectSubscribers(t) PROVE LockInv'
  BY <1>16 DEF CollectSubscribers
<1>17. ASSUME NEW t \in Caller, AbortEventTasks(t) PROVE LockInv'
  BY <1>17 DEF AbortEventTasks, AllTold, AbortHandles
<1>18. ASSUME NEW t \in Caller, RemoveSession(t) PROVE LockInv'
  BY <1>18 DEF RemoveSession, Returned
<1>19. ASSUME UNCHANGED vars PROVE LockInv'
  BY <1>19 DEF vars
<1> QED
  BY <1>1, <1>2, <1>3, <1>4, <1>5, <1>6, <1>7, <1>8, <1>9, <1>10, <1>11, <1>12,
     <1>13, <1>14, <1>15, <1>16, <1>17, <1>18, <1>19 DEF Next, Request, AnswerSubscribe, EventTaskStep, Terminate

LEMMA MarkStep ==
  ASSUME TypeOK, FramesNameSession, MarkInv, [Next]_vars PROVE MarkInv'
<1> USE ConstantsAssumption DEF TypeOK, CallFrame, Caller, Frame, IdleFrame, Running, InTerminate, FramesNameSession, MarkInv
<1>1. ASSUME NEW s \in Session, NEW p \in Participant, NEW c \in Conn, RegisterSession(s, p, c) PROVE MarkInv'
  BY <1>1 DEF RegisterSession
<1>2. ASSUME NEW s \in Session, SfuAllocates(s) PROVE MarkInv'
  BY <1>2 DEF SfuAllocates
<1>3. ASSUME NEW u \in Subscriber, SubscribeToSystem(u) \/ UnsubscribeToSystem(u) PROVE MarkInv'
  BY <1>3 DEF SubscribeToSystem, UnsubscribeToSystem
<1>4. ASSUME NEW t \in Task, NEW s \in Session, NEW p \in Participant, LockHandles(t, s, p) PROVE MarkInv'
  BY <1>4 DEF LockHandles
<1>5. ASSUME NEW t \in Task, NEW s \in Session, NEW r \in Reason, CallTerminate(t, s, r) PROVE MarkInv'
  BY <1>5 DEF CallTerminate
<1>6. ASSUME NEW t \in Task, SfuAccepts(t) PROVE MarkInv'
  BY <1>6 DEF SfuAccepts
<1>7. ASSUME NEW t \in Task, SubscribeFails(t) PROVE MarkInv'
  BY <1>7 DEF SubscribeFails
<1>8. ASSUME NEW t \in Task, NEW e \in EventTask, SpawnEventTask(t, e) PROVE MarkInv'
  BY <1>8 DEF SpawnEventTask
<1>9. ASSUME NEW e \in EventTask, MediaClosed(e) PROVE MarkInv'
  BY <1>9 DEF MediaClosed
<1>10. ASSUME NEW e \in EventTask, StreamEnds(e) PROVE MarkInv'
  BY <1>10 DEF StreamEnds
<1>11. ASSUME NEW e \in EventTask, DropAborted(e) PROVE MarkInv'
  BY <1>11 DEF DropAborted
<1>12. ASSUME NEW t \in Caller, MarkTerminating(t) PROVE MarkInv'
  BY <1>12 DEF MarkTerminating, Returned
<1>13. ASSUME NEW t \in Caller, CloseSfu(t) PROVE MarkInv'
  BY <1>13 DEF CloseSfu
<1>14. ASSUME NEW t \in Caller, CollectParticipants(t) PROVE MarkInv'
  BY <1>14 DEF CollectParticipants
<1>15. ASSUME NEW t \in Caller, NEW x \in Member \cup Subscriber, Tell(t, x) PROVE MarkInv'
  BY <1>15 DEF Tell
<1>16. ASSUME NEW t \in Caller, CollectSubscribers(t) PROVE MarkInv'
  BY <1>16 DEF CollectSubscribers
<1>17. ASSUME NEW t \in Caller, AbortEventTasks(t) PROVE MarkInv'
  BY <1>17 DEF AbortEventTasks, AllTold, AbortHandles
<1>18. ASSUME NEW t \in Caller, RemoveSession(t) PROVE MarkInv'
  BY <1>18 DEF RemoveSession, Returned
<1>19. ASSUME UNCHANGED vars PROVE MarkInv'
  BY <1>19 DEF vars
<1> QED
  BY <1>1, <1>2, <1>3, <1>4, <1>5, <1>6, <1>7, <1>8, <1>9, <1>10, <1>11, <1>12,
     <1>13, <1>14, <1>15, <1>16, <1>17, <1>18, <1>19 DEF Next, Request, AnswerSubscribe, EventTaskStep, Terminate

LEMMA OneTerminatorStep ==
  ASSUME TypeOK, FramesNameSession, MarkInv, OneTerminator, [Next]_vars PROVE OneTerminator'
<1> USE ConstantsAssumption DEF TypeOK, CallFrame, Caller, Frame, IdleFrame, Running, InTerminate, FramesNameSession, MarkInv, OneTerminator, Terminates
<1>1. ASSUME NEW s \in Session, NEW p \in Participant, NEW c \in Conn, RegisterSession(s, p, c) PROVE OneTerminator'
  BY <1>1 DEF RegisterSession
<1>2. ASSUME NEW s \in Session, SfuAllocates(s) PROVE OneTerminator'
  BY <1>2 DEF SfuAllocates
<1>3. ASSUME NEW u \in Subscriber, SubscribeToSystem(u) \/ UnsubscribeToSystem(u) PROVE OneTerminator'
  BY <1>3 DEF SubscribeToSystem, UnsubscribeToSystem
<1>4. ASSUME NEW t \in Task, NEW s \in Session, NEW p \in Participant, LockHandles(t, s, p) PROVE OneTerminator'
  BY <1>4 DEF LockHandles
<1>5. ASSUME NEW t \in Task, NEW s \in Session, NEW r \in Reason, CallTerminate(t, s, r) PROVE OneTerminator'
  BY <1>5 DEF CallTerminate
<1>6. ASSUME NEW t \in Task, SfuAccepts(t) PROVE OneTerminator'
  BY <1>6 DEF SfuAccepts
<1>7. ASSUME NEW t \in Task, SubscribeFails(t) PROVE OneTerminator'
  BY <1>7 DEF SubscribeFails
<1>8. ASSUME NEW t \in Task, NEW e \in EventTask, SpawnEventTask(t, e) PROVE OneTerminator'
  BY <1>8 DEF SpawnEventTask
<1>9. ASSUME NEW e \in EventTask, MediaClosed(e) PROVE OneTerminator'
  BY <1>9 DEF MediaClosed
<1>10. ASSUME NEW e \in EventTask, StreamEnds(e) PROVE OneTerminator'
  BY <1>10 DEF StreamEnds
<1>11. ASSUME NEW e \in EventTask, DropAborted(e) PROVE OneTerminator'
  BY <1>11 DEF DropAborted
<1>12. ASSUME NEW t \in Caller, MarkTerminating(t) PROVE OneTerminator'
  BY <1>12 DEF MarkTerminating, Returned
<1>13. ASSUME NEW t \in Caller, CloseSfu(t) PROVE OneTerminator'
  BY <1>13 DEF CloseSfu
<1>14. ASSUME NEW t \in Caller, CollectParticipants(t) PROVE OneTerminator'
  BY <1>14 DEF CollectParticipants
<1>15. ASSUME NEW t \in Caller, NEW x \in Member \cup Subscriber, Tell(t, x) PROVE OneTerminator'
  BY <1>15 DEF Tell
<1>16. ASSUME NEW t \in Caller, CollectSubscribers(t) PROVE OneTerminator'
  BY <1>16 DEF CollectSubscribers
<1>17. ASSUME NEW t \in Caller, AbortEventTasks(t) PROVE OneTerminator'
  BY <1>17 DEF AbortEventTasks, AllTold, AbortHandles
<1>18. ASSUME NEW t \in Caller, RemoveSession(t) PROVE OneTerminator'
  BY <1>18 DEF RemoveSession, Returned
<1>19. ASSUME UNCHANGED vars PROVE OneTerminator'
  BY <1>19 DEF vars
<1> QED
  BY <1>1, <1>2, <1>3, <1>4, <1>5, <1>6, <1>7, <1>8, <1>9, <1>10, <1>11, <1>12,
     <1>13, <1>14, <1>15, <1>16, <1>17, <1>18, <1>19 DEF Next, Request, AnswerSubscribe, EventTaskStep, Terminate

LEMMA EndedStep ==
  ASSUME TypeOK, FramesNameSession, MarkInv, OneTerminator, EndedInv, [Next]_vars PROVE EndedInv'
<1> USE ConstantsAssumption DEF TypeOK, CallFrame, Caller, Frame, IdleFrame, Running, InTerminate, FramesNameSession, MarkInv, OneTerminator, EndedInv, Terminates
<1>1. ASSUME NEW s \in Session, NEW p \in Participant, NEW c \in Conn, RegisterSession(s, p, c) PROVE EndedInv'
  BY <1>1 DEF RegisterSession
<1>2. ASSUME NEW s \in Session, SfuAllocates(s) PROVE EndedInv'
  BY <1>2 DEF SfuAllocates
<1>3. ASSUME NEW u \in Subscriber, SubscribeToSystem(u) \/ UnsubscribeToSystem(u) PROVE EndedInv'
  BY <1>3 DEF SubscribeToSystem, UnsubscribeToSystem
<1>4. ASSUME NEW t \in Task, NEW s \in Session, NEW p \in Participant, LockHandles(t, s, p) PROVE EndedInv'
  BY <1>4 DEF LockHandles
<1>5. ASSUME NEW t \in Task, NEW s \in Session, NEW r \in Reason, CallTerminate(t, s, r) PROVE EndedInv'
  BY <1>5 DEF CallTerminate
<1>6. ASSUME NEW t \in Task, SfuAccepts(t) PROVE EndedInv'
  BY <1>6 DEF SfuAccepts
<1>7. ASSUME NEW t \in Task, SubscribeFails(t) PROVE EndedInv'
  BY <1>7 DEF SubscribeFails
<1>8. ASSUME NEW t \in Task, NEW e \in EventTask, SpawnEventTask(t, e) PROVE EndedInv'
  BY <1>8 DEF SpawnEventTask
<1>9. ASSUME NEW e \in EventTask, MediaClosed(e) PROVE EndedInv'
  BY <1>9 DEF MediaClosed
<1>10. ASSUME NEW e \in EventTask, StreamEnds(e) PROVE EndedInv'
  BY <1>10 DEF StreamEnds
<1>11. ASSUME NEW e \in EventTask, DropAborted(e) PROVE EndedInv'
  BY <1>11 DEF DropAborted
<1>12. ASSUME NEW t \in Caller, MarkTerminating(t) PROVE EndedInv'
  BY <1>12 DEF MarkTerminating, Returned
<1>13. ASSUME NEW t \in Caller, CloseSfu(t) PROVE EndedInv'
  BY <1>13 DEF CloseSfu
<1>14. ASSUME NEW t \in Caller, CollectParticipants(t) PROVE EndedInv'
  BY <1>14 DEF CollectParticipants
<1>15. ASSUME NEW t \in Caller, NEW x \in Member \cup Subscriber, Tell(t, x) PROVE EndedInv'
  BY <1>15 DEF Tell
<1>16. ASSUME NEW t \in Caller, CollectSubscribers(t) PROVE EndedInv'
  BY <1>16 DEF CollectSubscribers
<1>17. ASSUME NEW t \in Caller, AbortEventTasks(t) PROVE EndedInv'
  BY <1>17 DEF AbortEventTasks, AllTold, AbortHandles
<1>18. ASSUME NEW t \in Caller, RemoveSession(t) PROVE EndedInv'
  BY <1>18 DEF RemoveSession, Returned
<1>19. ASSUME UNCHANGED vars PROVE EndedInv'
  BY <1>19 DEF vars
<1> QED
  BY <1>1, <1>2, <1>3, <1>4, <1>5, <1>6, <1>7, <1>8, <1>9, <1>10, <1>11, <1>12,
     <1>13, <1>14, <1>15, <1>16, <1>17, <1>18, <1>19 DEF Next, Request, AnswerSubscribe, EventTaskStep, Terminate

LEMMA ReasonStep ==
  ASSUME TypeOK, EndedInv, OneEndReason, [Next]_vars PROVE OneEndReason'
<1> USE ConstantsAssumption DEF TypeOK, CallFrame, Caller, Frame, IdleFrame, Running, InTerminate, EndedInv, OneEndReason, Terminates
<1>1. ASSUME NEW s \in Session, NEW p \in Participant, NEW c \in Conn, RegisterSession(s, p, c) PROVE OneEndReason'
  BY <1>1 DEF RegisterSession
<1>2. ASSUME NEW s \in Session, SfuAllocates(s) PROVE OneEndReason'
  BY <1>2 DEF SfuAllocates
<1>3. ASSUME NEW u \in Subscriber, SubscribeToSystem(u) \/ UnsubscribeToSystem(u) PROVE OneEndReason'
  BY <1>3 DEF SubscribeToSystem, UnsubscribeToSystem
<1>4. ASSUME NEW t \in Task, NEW s \in Session, NEW p \in Participant, LockHandles(t, s, p) PROVE OneEndReason'
  BY <1>4 DEF LockHandles
<1>5. ASSUME NEW t \in Task, NEW s \in Session, NEW r \in Reason, CallTerminate(t, s, r) PROVE OneEndReason'
  BY <1>5 DEF CallTerminate
<1>6. ASSUME NEW t \in Task, SfuAccepts(t) PROVE OneEndReason'
  BY <1>6 DEF SfuAccepts
<1>7. ASSUME NEW t \in Task, SubscribeFails(t) PROVE OneEndReason'
  BY <1>7 DEF SubscribeFails
<1>8. ASSUME NEW t \in Task, NEW e \in EventTask, SpawnEventTask(t, e) PROVE OneEndReason'
  BY <1>8 DEF SpawnEventTask
<1>9. ASSUME NEW e \in EventTask, MediaClosed(e) PROVE OneEndReason'
  BY <1>9 DEF MediaClosed
<1>10. ASSUME NEW e \in EventTask, StreamEnds(e) PROVE OneEndReason'
  BY <1>10 DEF StreamEnds
<1>11. ASSUME NEW e \in EventTask, DropAborted(e) PROVE OneEndReason'
  BY <1>11 DEF DropAborted
<1>12. ASSUME NEW t \in Caller, MarkTerminating(t) PROVE OneEndReason'
  BY <1>12 DEF MarkTerminating, Returned
<1>13. ASSUME NEW t \in Caller, CloseSfu(t) PROVE OneEndReason'
  BY <1>13 DEF CloseSfu
<1>14. ASSUME NEW t \in Caller, CollectParticipants(t) PROVE OneEndReason'
  BY <1>14 DEF CollectParticipants
<1>15. ASSUME NEW t \in Caller, NEW x \in Member \cup Subscriber, Tell(t, x) PROVE OneEndReason'
  BY <1>15 DEF Tell
<1>16. ASSUME NEW t \in Caller, CollectSubscribers(t) PROVE OneEndReason'
  BY <1>16 DEF CollectSubscribers
<1>17. ASSUME NEW t \in Caller, AbortEventTasks(t) PROVE OneEndReason'
  BY <1>17 DEF AbortEventTasks, AllTold, AbortHandles
<1>18. ASSUME NEW t \in Caller, RemoveSession(t) PROVE OneEndReason'
  BY <1>18 DEF RemoveSession, Returned
<1>19. ASSUME UNCHANGED vars PROVE OneEndReason'
  BY <1>19 DEF vars
<1> QED
  BY <1>1, <1>2, <1>3, <1>4, <1>5, <1>6, <1>7, <1>8, <1>9, <1>10, <1>11, <1>12,
     <1>13, <1>14, <1>15, <1>16, <1>17, <1>18, <1>19 DEF Next, Request, AnswerSubscribe, EventTaskStep, Terminate

LEMMA HandleStep ==
  ASSUME TypeOK, FramesNameSession, LockInv, CancelInv, HandleInv, [Next]_vars PROVE HandleInv'
<1> USE ConstantsAssumption DEF TypeOK, CallFrame, Caller, Frame, IdleFrame, Running, InTerminate, FramesNameSession, LockInv, CancelInv, HandleInv
<1>1. ASSUME NEW s \in Session, NEW p \in Participant, NEW c \in Conn, RegisterSession(s, p, c) PROVE HandleInv'
  BY <1>1 DEF RegisterSession
<1>2. ASSUME NEW s \in Session, SfuAllocates(s) PROVE HandleInv'
  BY <1>2 DEF SfuAllocates
<1>3. ASSUME NEW u \in Subscriber, SubscribeToSystem(u) \/ UnsubscribeToSystem(u) PROVE HandleInv'
  BY <1>3 DEF SubscribeToSystem, UnsubscribeToSystem
<1>4. ASSUME NEW t \in Task, NEW s \in Session, NEW p \in Participant, LockHandles(t, s, p) PROVE HandleInv'
  BY <1>4 DEF LockHandles
<1>5. ASSUME NEW t \in Task, NEW s \in Session, NEW r \in Reason, CallTerminate(t, s, r) PROVE HandleInv'
  BY <1>5 DEF CallTerminate
<1>6. ASSUME NEW t \in Task, SfuAccepts(t) PROVE HandleInv'
  BY <1>6 DEF SfuAccepts
<1>7. ASSUME NEW t \in Task, SubscribeFails(t) PROVE HandleInv'
  BY <1>7 DEF SubscribeFails
<1>8. ASSUME NEW t \in Task, NEW e \in EventTask, SpawnEventTask(t, e) PROVE HandleInv'
  <2> SUFFICES ASSUME NEW k \in Session \X Participant, handles'[k] # None
               PROVE  /\ call'[handles'[k]].step # "unborn"
                      /\ k = <<call'[handles'[k]].sid, call'[handles'[k]].pid>>
                      /\ handles'[k] \notin cancelled'
    BY DEF HandleInv
  <2>1. CASE k = <<call[t].sid, call[t].pid>>
    <3>1. handles'[k] = e /\ cancelled' = cancelled /\ call[e].step = "unborn"
      BY <1>8, <2>1 DEF SpawnEventTask
    <3>2. call'[e].step = "streaming" /\ call'[e].sid = call[t].sid /\ call'[e].pid = call[t].pid
      BY <1>8 DEF SpawnEventTask
    <3> QED
      BY <2>1, <3>1, <3>2
  <2>2. CASE k # <<call[t].sid, call[t].pid>>
    BY <1>8, <2>2 DEF SpawnEventTask
  <2> QED
    BY <2>1, <2>2
<1>9. ASSUME NEW e \in EventTask, MediaClosed(e) PROVE HandleInv'
  BY <1>9 DEF MediaClosed
<1>10. ASSUME NEW e \in EventTask, StreamEnds(e) PROVE HandleInv'
  BY <1>10 DEF StreamEnds
<1>11. ASSUME NEW e \in EventTask, DropAborted(e) PROVE HandleInv'
  BY <1>11 DEF DropAborted
<1>12. ASSUME NEW t \in Caller, MarkTerminating(t) PROVE HandleInv'
  BY <1>12 DEF MarkTerminating, Returned
<1>13. ASSUME NEW t \in Caller, CloseSfu(t) PROVE HandleInv'
  BY <1>13 DEF CloseSfu
<1>14. ASSUME NEW t \in Caller, CollectParticipants(t) PROVE HandleInv'
  BY <1>14 DEF CollectParticipants
<1>15. ASSUME NEW t \in Caller, NEW x \in Member \cup Subscriber, Tell(t, x) PROVE HandleInv'
  BY <1>15 DEF Tell
<1>16. ASSUME NEW t \in Caller, CollectSubscribers(t) PROVE HandleInv'
  BY <1>16 DEF CollectSubscribers
<1>17. ASSUME NEW t \in Caller, AbortEventTasks(t) PROVE HandleInv'
  BY <1>17 DEF AbortEventTasks, AllTold, AbortHandles
<1>18. ASSUME NEW t \in Caller, RemoveSession(t) PROVE HandleInv'
  BY <1>18 DEF RemoveSession, Returned
<1>19. ASSUME UNCHANGED vars PROVE HandleInv'
  BY <1>19 DEF vars
<1> QED
  BY <1>1, <1>2, <1>3, <1>4, <1>5, <1>6, <1>7, <1>8, <1>9, <1>10, <1>11, <1>12,
     <1>13, <1>14, <1>15, <1>16, <1>17, <1>18, <1>19 DEF Next, Request, AnswerSubscribe, EventTaskStep, Terminate

LEMMA RunningStep ==
  ASSUME TypeOK, FramesNameSession, LockInv, HandleInv, RunningTasksHaveHandles, [Next]_vars PROVE RunningTasksHaveHandles'
<1> USE ConstantsAssumption DEF TypeOK, CallFrame, Caller, Frame, IdleFrame, Running, InTerminate, FramesNameSession, LockInv, HandleInv, RunningTasksHaveHandles
<1>1. ASSUME NEW s \in Session, NEW p \in Participant, NEW c \in Conn, RegisterSession(s, p, c) PROVE RunningTasksHaveHandles'
  BY <1>1 DEF RegisterSession
<1>2. ASSUME NEW s \in Session, SfuAllocates(s) PROVE RunningTasksHaveHandles'
  BY <1>2 DEF SfuAllocates
<1>3. ASSUME NEW u \in Subscriber, SubscribeToSystem(u) \/ UnsubscribeToSystem(u) PROVE RunningTasksHaveHandles'
  BY <1>3 DEF SubscribeToSystem, UnsubscribeToSystem
<1>4. ASSUME NEW t \in Task, NEW s \in Session, NEW p \in Participant, LockHandles(t, s, p) PROVE RunningTasksHaveHandles'
  BY <1>4 DEF LockHandles
<1>5. ASSUME NEW t \in Task, NEW s \in Session, NEW r \in Reason, CallTerminate(t, s, r) PROVE RunningTasksHaveHandles'
  BY <1>5 DEF CallTerminate
<1>6. ASSUME NEW t \in Task, SfuAccepts(t) PROVE RunningTasksHaveHandles'
  BY <1>6 DEF SfuAccepts
<1>7. ASSUME NEW t \in Task, SubscribeFails(t) PROVE RunningTasksHaveHandles'
  BY <1>7 DEF SubscribeFails
<1>8. ASSUME NEW t \in Task, NEW e \in EventTask, SpawnEventTask(t, e) PROVE RunningTasksHaveHandles'
  BY <1>8 DEF SpawnEventTask
<1>9. ASSUME NEW e \in EventTask, MediaClosed(e) PROVE RunningTasksHaveHandles'
  BY <1>9 DEF MediaClosed
<1>10. ASSUME NEW e \in EventTask, StreamEnds(e) PROVE RunningTasksHaveHandles'
  BY <1>10 DEF StreamEnds
<1>11. ASSUME NEW e \in EventTask, DropAborted(e) PROVE RunningTasksHaveHandles'
  BY <1>11 DEF DropAborted
<1>12. ASSUME NEW t \in Caller, MarkTerminating(t) PROVE RunningTasksHaveHandles'
  BY <1>12 DEF MarkTerminating, Returned
<1>13. ASSUME NEW t \in Caller, CloseSfu(t) PROVE RunningTasksHaveHandles'
  BY <1>13 DEF CloseSfu
<1>14. ASSUME NEW t \in Caller, CollectParticipants(t) PROVE RunningTasksHaveHandles'
  BY <1>14 DEF CollectParticipants
<1>15. ASSUME NEW t \in Caller, NEW x \in Member \cup Subscriber, Tell(t, x) PROVE RunningTasksHaveHandles'
  BY <1>15 DEF Tell
<1>16. ASSUME NEW t \in Caller, CollectSubscribers(t) PROVE RunningTasksHaveHandles'
  BY <1>16 DEF CollectSubscribers
<1>17. ASSUME NEW t \in Caller, AbortEventTasks(t) PROVE RunningTasksHaveHandles'
  BY <1>17 DEF AbortEventTasks, AllTold, AbortHandles
<1>18. ASSUME NEW t \in Caller, RemoveSession(t) PROVE RunningTasksHaveHandles'
  BY <1>18 DEF RemoveSession, Returned
<1>19. ASSUME UNCHANGED vars PROVE RunningTasksHaveHandles'
  BY <1>19 DEF vars
<1> QED
  BY <1>1, <1>2, <1>3, <1>4, <1>5, <1>6, <1>7, <1>8, <1>9, <1>10, <1>11, <1>12,
     <1>13, <1>14, <1>15, <1>16, <1>17, <1>18, <1>19 DEF Next, Request, AnswerSubscribe, EventTaskStep, Terminate

LEMMA CancelStep ==
  ASSUME TypeOK, FramesNameSession, LockInv, MarkInv, OneTerminator, HandleInv, CancelInv, [Next]_vars PROVE CancelInv'
<1> USE ConstantsAssumption DEF TypeOK, CallFrame, Caller, Frame, IdleFrame, Running, InTerminate, FramesNameSession, LockInv, MarkInv, OneTerminator, Terminates, HandleInv, CancelInv
<1>1. ASSUME NEW s \in Session, NEW p \in Participant, NEW c \in Conn, RegisterSession(s, p, c) PROVE CancelInv'
  BY <1>1 DEF RegisterSession
<1>2. ASSUME NEW s \in Session, SfuAllocates(s) PROVE CancelInv'
  BY <1>2 DEF SfuAllocates
<1>3. ASSUME NEW u \in Subscriber, SubscribeToSystem(u) \/ UnsubscribeToSystem(u) PROVE CancelInv'
  BY <1>3 DEF SubscribeToSystem, UnsubscribeToSystem
<1>4. ASSUME NEW t \in Task, NEW s \in Session, NEW p \in Participant, LockHandles(t, s, p) PROVE CancelInv'
  BY <1>4 DEF LockHandles
<1>5. ASSUME NEW t \in Task, NEW s \in Session, NEW r \in Reason, CallTerminate(t, s, r) PROVE CancelInv'
  BY <1>5 DEF CallTerminate
<1>6. ASSUME NEW t \in Task, SfuAccepts(t) PROVE CancelInv'
  BY <1>6 DEF SfuAccepts
<1>7. ASSUME NEW t \in Task, SubscribeFails(t) PROVE CancelInv'
  BY <1>7 DEF SubscribeFails
<1>8. ASSUME NEW t \in Task, NEW e \in EventTask, SpawnEventTask(t, e) PROVE CancelInv'
  BY <1>8 DEF SpawnEventTask
<1>9. ASSUME NEW e \in EventTask, MediaClosed(e) PROVE CancelInv'
  BY <1>9 DEF MediaClosed
<1>10. ASSUME NEW e \in EventTask, StreamEnds(e) PROVE CancelInv'
  BY <1>10 DEF StreamEnds
<1>11. ASSUME NEW e \in EventTask, DropAborted(e) PROVE CancelInv'
  BY <1>11 DEF DropAborted
<1>12. ASSUME NEW t \in Caller, MarkTerminating(t) PROVE CancelInv'
  BY <1>12 DEF MarkTerminating, Returned
<1>13. ASSUME NEW t \in Caller, CloseSfu(t) PROVE CancelInv'
  BY <1>13 DEF CloseSfu
<1>14. ASSUME NEW t \in Caller, CollectParticipants(t) PROVE CancelInv'
  BY <1>14 DEF CollectParticipants
<1>15. ASSUME NEW t \in Caller, NEW x \in Member \cup Subscriber, Tell(t, x) PROVE CancelInv'
  BY <1>15 DEF Tell
<1>16. ASSUME NEW t \in Caller, CollectSubscribers(t) PROVE CancelInv'
  BY <1>16 DEF CollectSubscribers
<1>17. ASSUME NEW t \in Caller, AbortEventTasks(t) PROVE CancelInv'
  BY <1>17 DEF AbortEventTasks, AllTold, AbortHandles
<1>18. ASSUME NEW t \in Caller, RemoveSession(t) PROVE CancelInv'
  BY <1>18 DEF RemoveSession, Returned
<1>19. ASSUME UNCHANGED vars PROVE CancelInv'
  BY <1>19 DEF vars
<1> QED
  BY <1>1, <1>2, <1>3, <1>4, <1>5, <1>6, <1>7, <1>8, <1>9, <1>10, <1>11, <1>12,
     <1>13, <1>14, <1>15, <1>16, <1>17, <1>18, <1>19 DEF Next, Request, AnswerSubscribe, EventTaskStep, Terminate

LEMMA LeftoverStep ==
  ASSUME TypeOK, FramesNameSession, LockInv, MarkInv, OneTerminator, CancelInv, LeftoverHasCause, [Next]_vars PROVE LeftoverHasCause'
<1> USE ConstantsAssumption DEF TypeOK, CallFrame, Caller, Frame, IdleFrame, Running, InTerminate, FramesNameSession, LockInv, MarkInv, OneTerminator, CancelInv, LeftoverHasCause, Terminates, Finished
<1>1. ASSUME NEW s \in Session, NEW p \in Participant, NEW c \in Conn, RegisterSession(s, p, c) PROVE LeftoverHasCause'
  BY <1>1 DEF RegisterSession
<1>2. ASSUME NEW s \in Session, SfuAllocates(s) PROVE LeftoverHasCause'
  BY <1>2 DEF SfuAllocates
<1>3. ASSUME NEW u \in Subscriber, SubscribeToSystem(u) \/ UnsubscribeToSystem(u) PROVE LeftoverHasCause'
  BY <1>3 DEF SubscribeToSystem, UnsubscribeToSystem
<1>4. ASSUME NEW t \in Task, NEW s \in Session, NEW p \in Participant, LockHandles(t, s, p) PROVE LeftoverHasCause'
  BY <1>4 DEF LockHandles
<1>5. ASSUME NEW t \in Task, NEW s \in Session, NEW r \in Reason, CallTerminate(t, s, r) PROVE LeftoverHasCause'
  BY <1>5 DEF CallTerminate
<1>6. ASSUME NEW t \in Task, SfuAccepts(t) PROVE LeftoverHasCause'
  BY <1>6 DEF SfuAccepts
<1>7. ASSUME NEW t \in Task, SubscribeFails(t) PROVE LeftoverHasCause'
  BY <1>7 DEF SubscribeFails
<1>8. ASSUME NEW t \in Task, NEW e \in EventTask, SpawnEventTask(t, e) PROVE LeftoverHasCause'
  BY <1>8 DEF SpawnEventTask
<1>9. ASSUME NEW e \in EventTask, MediaClosed(e) PROVE LeftoverHasCause'
  BY <1>9 DEF MediaClosed
<1>10. ASSUME NEW e \in EventTask, StreamEnds(e) PROVE LeftoverHasCause'
  BY <1>10 DEF StreamEnds
<1>11. ASSUME NEW e \in EventTask, DropAborted(e) PROVE LeftoverHasCause'
  BY <1>11 DEF DropAborted
<1>12. ASSUME NEW t \in Caller, MarkTerminating(t) PROVE LeftoverHasCause'
  BY <1>12 DEF MarkTerminating, Returned
<1>13. ASSUME NEW t \in Caller, CloseSfu(t) PROVE LeftoverHasCause'
  BY <1>13 DEF CloseSfu
<1>14. ASSUME NEW t \in Caller, CollectParticipants(t) PROVE LeftoverHasCause'
  <2> SUFFICES ASSUME NEW s \in Session, NEW p \in Participant, Finished(s)', sessions'[s][p] # None
               PROVE  \/ <<s, p>> \in late'
                      \/ \E e \in EventTask : call'[e].step = "lost" /\ call'[e].sid = s
    BY DEF LeftoverHasCause
  <2>1. ASSUME NEW u \in Caller, Terminates(u, s) PROVE Terminates(u, s)'
    BY <1>14, <2>1 DEF CollectParticipants
  <2>2. Finished(s) /\ sessions[s][p] # None /\ late' = late
    BY <1>14, <2>1 DEF CollectParticipants
  <2>3. ASSUME NEW e \in EventTask, call[e].step = "lost" PROVE call'[e] = call[e]
    BY <1>14, <2>3 DEF CollectParticipants
  <2> QED
    BY <2>2, <2>3
<1>15. ASSUME NEW t \in Caller, NEW x \in Member \cup Subscriber, Tell(t, x) PROVE LeftoverHasCause'
  BY <1>15 DEF Tell
<1>16. ASSUME NEW t \in Caller, CollectSubscribers(t) PROVE LeftoverHasCause'
  <2> SUFFICES ASSUME NEW s \in Session, NEW p \in Participant, Finished(s)', sessions'[s][p] # None
               PROVE  \/ <<s, p>> \in late'
                      \/ \E e \in EventTask : call'[e].step = "lost" /\ call'[e].sid = s
    BY DEF LeftoverHasCause
  <2>1. ASSUME NEW u \in Caller, Terminates(u, s) PROVE Terminates(u, s)'
    BY <1>16, <2>1 DEF CollectSubscribers
  <2>2. Finished(s) /\ sessions[s][p] # None /\ late' = late
    BY <1>16, <2>1 DEF CollectSubscribers
  <2>3. ASSUME NEW e \in EventTask, call[e].step = "lost" PROVE call'[e] = call[e]
    BY <1>16, <2>3 DEF CollectSubscribers
  <2> QED
    BY <2>2, <2>3
<1>17. ASSUME NEW t \in Caller, AbortEventTasks(t) PROVE LeftoverHasCause'
  BY <1>17 DEF AbortEventTasks, AllTold, AbortHandles
<1>18. ASSUME NEW t \in Caller, RemoveSession(t) PROVE LeftoverHasCause'
  BY <1>18 DEF RemoveSession, Returned
<1>19. ASSUME UNCHANGED vars PROVE LeftoverHasCause'
  BY <1>19 DEF vars
<1> QED
  BY <1>1, <1>2, <1>3, <1>4, <1>5, <1>6, <1>7, <1>8, <1>9, <1>10, <1>11, <1>12,
     <1>13, <1>14, <1>15, <1>16, <1>17, <1>18, <1>19 DEF Next, Request, AnswerSubscribe, EventTaskStep, Terminate

\* What terminate_session does before its abort loop is over.
BeforeAbort == {"closing", "collecting", "telling", "tellingSystem"}

\* Only the abort loop of its own terminator brings a session past it: the terminator does
\* not disappear earlier, since it can only be dropped after its loop aborted it.
LEMMA TerminatorStays ==
  ASSUME TypeOK, FramesNameSession, LockInv, MarkInv, CancelInv, [Next]_vars,
         NEW v \in Caller, call[v].step \in BeforeAbort, ~AbortEventTasks(v)
  PROVE  call'[v].step \in BeforeAbort /\ call'[v].sid = call[v].sid
<1> USE ConstantsAssumption DEF TypeOK, CallFrame, Caller, Frame, IdleFrame, Running, InTerminate, FramesNameSession, LockInv, MarkInv, CancelInv, BeforeAbort
<1> DEFINE Stays == call'[v].step \in BeforeAbort /\ call'[v].sid = call[v].sid
<1>1. ASSUME NEW s \in Session, NEW p \in Participant, NEW c \in Conn, RegisterSession(s, p, c) PROVE Stays
  BY <1>1 DEF RegisterSession
<1>2. ASSUME NEW s \in Session, SfuAllocates(s) PROVE Stays
  BY <1>2 DEF SfuAllocates
<1>3. ASSUME NEW u \in Subscriber, SubscribeToSystem(u) \/ UnsubscribeToSystem(u) PROVE Stays
  BY <1>3 DEF SubscribeToSystem, UnsubscribeToSystem
<1>4. ASSUME NEW t \in Task, NEW s \in Session, NEW p \in Participant, LockHandles(t, s, p) PROVE Stays
  BY <1>4 DEF LockHandles
<1>5. ASSUME NEW t \in Task, NEW s \in Session, NEW r \in Reason, CallTerminate(t, s, r) PROVE Stays
  BY <1>5 DEF CallTerminate
<1>6. ASSUME NEW t \in Task, SfuAccepts(t) PROVE Stays
  BY <1>6 DEF SfuAccepts
<1>7. ASSUME NEW t \in Task, SubscribeFails(t) PROVE Stays
  BY <1>7 DEF SubscribeFails
<1>8. ASSUME NEW t \in Task, NEW e \in EventTask, SpawnEventTask(t, e) PROVE Stays
  BY <1>8 DEF SpawnEventTask
<1>9. ASSUME NEW e \in EventTask, MediaClosed(e) PROVE Stays
  BY <1>9 DEF MediaClosed
<1>10. ASSUME NEW e \in EventTask, StreamEnds(e) PROVE Stays
  BY <1>10 DEF StreamEnds
<1>11. ASSUME NEW e \in EventTask, DropAborted(e) PROVE Stays
  BY <1>11 DEF DropAborted
<1>12. ASSUME NEW t \in Caller, MarkTerminating(t) PROVE Stays
  BY <1>12 DEF MarkTerminating, Returned
<1>13. ASSUME NEW t \in Caller, CloseSfu(t) PROVE Stays
  BY <1>13 DEF CloseSfu
<1>14. ASSUME NEW t \in Caller, CollectParticipants(t) PROVE Stays
  BY <1>14 DEF CollectParticipants
<1>15. ASSUME NEW t \in Caller, NEW x \in Member \cup Subscriber, Tell(t, x) PROVE Stays
  BY <1>15 DEF Tell
<1>16. ASSUME NEW t \in Caller, CollectSubscribers(t) PROVE Stays
  BY <1>16 DEF CollectSubscribers
<1>17. ASSUME NEW t \in Caller, AbortEventTasks(t) PROVE Stays
  <2>1. t # v
    BY <1>17
  <2> QED
    BY <1>17, <2>1 DEF AbortEventTasks, AbortHandles
<1>18. ASSUME NEW t \in Caller, RemoveSession(t) PROVE Stays
  BY <1>18 DEF RemoveSession, Returned
<1>19. ASSUME UNCHANGED vars PROVE Stays
  BY <1>19 DEF vars
<1> QED
  BY <1>1, <1>2, <1>3, <1>4, <1>5, <1>6, <1>7, <1>8, <1>9, <1>10, <1>11, <1>12,
     <1>13, <1>14, <1>15, <1>16, <1>17, <1>18, <1>19 DEF Next, Request, AnswerSubscribe, EventTaskStep, Terminate

LEMMA AbortDoneStep ==
  ASSUME TypeOK, FramesNameSession, LockInv, MarkInv, CancelInv, [Next]_vars,
         NEW s \in Session, AbortDone(s)'
  PROVE  AbortDone(s) \/ \E t \in Caller : AbortEventTasks(t) /\ call[t].sid = s
<1> SUFFICES ASSUME ~AbortDone(s), ~\E t \in Caller : AbortEventTasks(t) /\ call[t].sid = s
             PROVE  FALSE
  OBVIOUS
<1>1. CASE s \in terminating
  <2>1. PICK v \in Caller : call[v].sid = s /\ call[v].step \in BeforeAbort
    BY <1>1 DEF AbortDone, Terminates, InTerminate, BeforeAbort
  <2>2. call'[v].step \in BeforeAbort /\ call'[v].sid = s
    BY <2>1, TerminatorStays
  <2> QED
    BY <2>2 DEF AbortDone, Terminates, InTerminate, BeforeAbort
<1>2. CASE s \notin terminating
  <2>1. s \in terminating'
    BY DEF AbortDone
  <2>2. PICK t \in Caller : MarkTerminating(t)
    BY <1>2, <2>1 DEF Next, vars, RegisterSession, SfuAllocates, SubscribeToSystem,
       UnsubscribeToSystem, Request, LockHandles, CallTerminate, AnswerSubscribe, SfuAccepts,
       SubscribeFails, SpawnEventTask, EventTaskStep, MediaClosed, StreamEnds, DropAborted,
       Terminate, CloseSfu, CollectParticipants, Tell, CollectSubscribers, AbortEventTasks,
       AbortHandles, RemoveSession
  <2>3. call'[t].sid = s /\ call'[t].step = "closing"
    BY <1>2, <2>1, <2>2 DEF MarkTerminating, TypeOK, CallFrame
  <2> QED
    BY <2>3 DEF AbortDone, Terminates, InTerminate
<1> QED
  BY <1>1, <1>2

\* Past the abort loop, nobody closes the session at the SFU any more.
LEMMA SfuClosedStep ==
  ASSUME TypeOK, FramesNameSession, [Next]_vars, NEW s \in Session, AbortDone(s),
         sfu'[s] = "closed"
  PROVE  sfu[s] = "closed"
<1>1. CASE sfu' = sfu
  BY <1>1
<1>2. ASSUME NEW r \in Session, SfuAllocates(r) PROVE sfu[s] = "closed"
  BY <1>2 DEF SfuAllocates, TypeOK
<1>3. ASSUME NEW t \in Caller, CloseSfu(t) PROVE sfu[s] = "closed"
  <2>1. call[t].sid \in Session /\ call[t].step = "closing"
    BY <1>3 DEF CloseSfu, FramesNameSession, Running, InTerminate
  <2>2. call[t].sid # s
    BY <2>1 DEF AbortDone, Terminates, InTerminate
  <2> QED
    BY <1>3, <2>1, <2>2 DEF CloseSfu, TypeOK
<1> QED
  BY <1>1, <1>2, <1>3 DEF Next, vars, RegisterSession, SubscribeToSystem,
     UnsubscribeToSystem, Request, LockHandles, CallTerminate, AnswerSubscribe, SfuAccepts,
     SubscribeFails, SpawnEventTask, EventTaskStep, MediaClosed, StreamEnds, DropAborted,
     Terminate, MarkTerminating, CollectParticipants, Tell, CollectSubscribers,
     AbortEventTasks, AbortHandles, RemoveSession

LEMMA AcceptedStep ==
  ASSUME TypeOK, [Next]_vars, NEW v \in Task, call'[v].step = "accepted"
  PROVE  SfuAccepts(v) \/ call'[v] = call[v]
<1> USE ConstantsAssumption DEF TypeOK, CallFrame, Caller, Frame, IdleFrame, Running, InTerminate
<1> DEFINE Accepted == SfuAccepts(v) \/ call'[v] = call[v]
<1>1. ASSUME NEW s \in Session, NEW p \in Participant, NEW c \in Conn, RegisterSession(s, p, c) PROVE Accepted
  BY <1>1 DEF RegisterSession
<1>2. ASSUME NEW s \in Session, SfuAllocates(s) PROVE Accepted
  BY <1>2 DEF SfuAllocates
<1>3. ASSUME NEW u \in Subscriber, SubscribeToSystem(u) \/ UnsubscribeToSystem(u) PROVE Accepted
  BY <1>3 DEF SubscribeToSystem, UnsubscribeToSystem
<1>4. ASSUME NEW t \in Task, NEW s \in Session, NEW p \in Participant, LockHandles(t, s, p) PROVE Accepted
  BY <1>4 DEF LockHandles
<1>5. ASSUME NEW t \in Task, NEW s \in Session, NEW r \in Reason, CallTerminate(t, s, r) PROVE Accepted
  BY <1>5 DEF CallTerminate
<1>6. ASSUME NEW t \in Task, SfuAccepts(t) PROVE Accepted
  BY <1>6 DEF SfuAccepts
<1>7. ASSUME NEW t \in Task, SubscribeFails(t) PROVE Accepted
  BY <1>7 DEF SubscribeFails
<1>8. ASSUME NEW t \in Task, NEW e \in EventTask, SpawnEventTask(t, e) PROVE Accepted
  BY <1>8 DEF SpawnEventTask
<1>9. ASSUME NEW e \in EventTask, MediaClosed(e) PROVE Accepted
  BY <1>9 DEF MediaClosed
<1>10. ASSUME NEW e \in EventTask, StreamEnds(e) PROVE Accepted
  BY <1>10 DEF StreamEnds
<1>11. ASSUME NEW e \in EventTask, DropAborted(e) PROVE Accepted
  BY <1>11 DEF DropAborted
<1>12. ASSUME NEW t \in Caller, MarkTerminating(t) PROVE Accepted
  BY <1>12 DEF MarkTerminating, Returned
<1>13. ASSUME NEW t \in Caller, CloseSfu(t) PROVE Accepted
  BY <1>13 DEF CloseSfu
<1>14. ASSUME NEW t \in Caller, CollectParticipants(t) PROVE Accepted
  BY <1>14 DEF CollectParticipants
<1>15. ASSUME NEW t \in Caller, NEW x \in Member \cup Subscriber, Tell(t, x) PROVE Accepted
  BY <1>15 DEF Tell
<1>16. ASSUME NEW t \in Caller, CollectSubscribers(t) PROVE Accepted
  BY <1>16 DEF CollectSubscribers
<1>17. ASSUME NEW t \in Caller, AbortEventTasks(t) PROVE Accepted
  BY <1>17 DEF AbortEventTasks, AllTold, AbortHandles
<1>18. ASSUME NEW t \in Caller, RemoveSession(t) PROVE Accepted
  BY <1>18 DEF RemoveSession, Returned
<1>19. ASSUME UNCHANGED vars PROVE Accepted
  BY <1>19 DEF vars
<1> QED
  BY <1>1, <1>2, <1>3, <1>4, <1>5, <1>6, <1>7, <1>8, <1>9, <1>10, <1>11, <1>12,
     <1>13, <1>14, <1>15, <1>16, <1>17, <1>18, <1>19 DEF Next, Request, AnswerSubscribe, EventTaskStep, Terminate

LEMMA AcceptStep ==
  ASSUME TypeOK, FramesNameSession, LockInv, MarkInv, CancelInv, AcceptInv, [Next]_vars
  PROVE  AcceptInv'
<1> SUFFICES ASSUME NEW s \in Session, AbortDone(s)', sfu'[s] = "closed",
                    NEW v \in Task, call'[v].step = "accepted", call'[v].sid = s
             PROVE  FALSE
  BY DEF AcceptInv
<1> USE ConstantsAssumption DEF TypeOK, CallFrame, Caller, Frame, IdleFrame, Running, InTerminate
<1>1. CASE AbortDone(s)
  <2>1. sfu[s] = "closed"
    BY <1>1, SfuClosedStep
  <2>2. ~(call[v].step = "accepted" /\ call[v].sid = s)
    BY <1>1, <2>1 DEF AcceptInv
  <2>3. SfuAccepts(v)
    BY <2>2, AcceptedStep
  <2> QED
    BY <2>1, <2>3 DEF SfuAccepts
<1>2. CASE \E t \in Caller : AbortEventTasks(t) /\ call[t].sid = s
  <2>1. PICK t \in Caller : AbortEventTasks(t)
    BY <1>2
  <2>2. call[v].step = "accepted" /\ handlesLock = None
    BY <2>1 DEF AbortEventTasks, AllTold, AbortHandles
  <2> QED
    BY <2>2 DEF LockInv
<1> QED
  BY <1>1, <1>2, AbortDoneStep

\* Once a session is past its abort loop and closed at the SFU, nothing brings a handle or
\* a running task back.
LEMMA OrphanStep ==
  ASSUME TypeOK, FramesNameSession, LockInv, MarkInv, HandleInv, RunningTasksHaveHandles,
         CancelInv, AcceptInv, NoOrphanEventTask, [Next]_vars
  PROVE  NoOrphanEventTask'
<1> SUFFICES ASSUME NEW s \in Session, AbortDone(s)', sfu'[s] = "closed"
             PROVE  /\ \A p \in Participant : handles'[<<s, p>>] = None
                    /\ \A d \in EventTask :
                         call'[d].sid = s /\ call'[d].step \in Running => d \in cancelled'
  BY DEF NoOrphanEventTask
<1> DEFINE Clean == /\ \A p \in Participant : handles'[<<s, p>>] = None
                    /\ \A d \in EventTask :
                         call'[d].sid = s /\ call'[d].step \in Running => d \in cancelled'
<1> USE ConstantsAssumption DEF TypeOK, CallFrame, Caller, Frame, IdleFrame, Running, InTerminate
<1>1. CASE AbortDone(s)
  <2> DEFINE Before == /\ \A p \in Participant : handles[<<s, p>>] = None
                       /\ \A d \in EventTask :
                            call[d].sid = s /\ call[d].step \in Running => d \in cancelled
  <2>0. sfu[s] = "closed" /\ Before
    <3>1. sfu[s] = "closed"
      BY <1>1, SfuClosedStep
    <3> QED
      BY <1>1, <3>1 DEF NoOrphanEventTask
  <2>1. ASSUME NEW i \in Session, NEW q \in Participant, NEW c \in Conn, RegisterSession(i, q, c) PROVE Clean
    BY <2>0, <2>1 DEF RegisterSession
  <2>2. ASSUME NEW i \in Session, SfuAllocates(i) PROVE Clean
    BY <2>0, <2>2 DEF SfuAllocates
  <2>3. ASSUME NEW u \in Subscriber, SubscribeToSystem(u) \/ UnsubscribeToSystem(u) PROVE Clean
    BY <2>0, <2>3 DEF SubscribeToSystem, UnsubscribeToSystem
  <2>4. ASSUME NEW t \in Task, NEW i \in Session, NEW q \in Participant, LockHandles(t, i, q) PROVE Clean
    BY <2>0, <2>4 DEF LockHandles
  <2>5. ASSUME NEW t \in Task, NEW i \in Session, NEW r \in Reason, CallTerminate(t, i, r) PROVE Clean
    BY <2>0, <2>5 DEF CallTerminate
  <2>6. ASSUME NEW t \in Task, SfuAccepts(t) PROVE Clean
    BY <2>0, <2>6 DEF SfuAccepts
  <2>7. ASSUME NEW t \in Task, SubscribeFails(t) PROVE Clean
    BY <2>0, <2>7 DEF SubscribeFails
  <2>8. ASSUME NEW t \in Task, NEW e \in EventTask, SpawnEventTask(t, e) PROVE Clean
    <3>1. call[t].sid # s
      BY <1>1, <2>0, <2>8 DEF AcceptInv, SpawnEventTask
    <3> QED
      BY <2>0, <2>8, <3>1 DEF SpawnEventTask, LockInv, FramesNameSession
  <2>9. ASSUME NEW e \in EventTask, MediaClosed(e) PROVE Clean
    BY <2>0, <2>9 DEF MediaClosed
  <2>10. ASSUME NEW e \in EventTask, StreamEnds(e) PROVE Clean
    BY <2>0, <2>10 DEF StreamEnds
  <2>11. ASSUME NEW e \in EventTask, DropAborted(e) PROVE Clean
    BY <2>0, <2>11 DEF DropAborted
  <2>12. ASSUME NEW t \in Caller, MarkTerminating(t) PROVE Clean
    BY <2>0, <2>12 DEF MarkTerminating, Returned
  <2>13. ASSUME NEW t \in Caller, CloseSfu(t) PROVE Clean
    BY <2>0, <2>13 DEF CloseSfu
  <2>14. ASSUME NEW t \in Caller, CollectParticipants(t) PROVE Clean
    BY <2>0, <2>14 DEF CollectParticipants
  <2>15. ASSUME NEW t \in Caller, NEW x \in Member \cup Subscriber, Tell(t, x) PROVE Clean
    BY <2>0, <2>15 DEF Tell
  <2>16. ASSUME NEW t \in Caller, CollectSubscribers(t) PROVE Clean
    BY <2>0, <2>16 DEF CollectSubscribers
  <2>17. ASSUME NEW t \in Caller, AbortEventTasks(t) PROVE Clean
    BY <2>0, <2>17 DEF AbortEventTasks, AllTold, AbortHandles
  <2>18. ASSUME NEW t \in Caller, RemoveSession(t) PROVE Clean
    BY <2>0, <2>18 DEF RemoveSession, Returned
  <2>19. ASSUME UNCHANGED vars PROVE Clean
    BY <2>0, <2>19 DEF vars
  <2> QED
    BY <2>0, <2>1, <2>2, <2>3, <2>4, <2>5, <2>6, <2>7, <2>8, <2>9, <2>10, <2>11, <2>12,
       <2>13, <2>14, <2>15, <2>16, <2>17, <2>18, <2>19 DEF Next, Request, AnswerSubscribe, EventTaskStep, Terminate
<1>2. CASE \E t \in Caller : AbortEventTasks(t) /\ call[t].sid = s
  <2>1. PICK t \in Caller : AbortEventTasks(t) /\ call[t].sid = s
    BY <1>2
  <2>2. \A p \in Participant : handles'[<<s, p>>] = None
    BY <2>1 DEF AbortEventTasks, AbortHandles
  <2>3. ASSUME NEW d \in EventTask, call'[d].sid = s, call'[d].step \in Running, d \notin cancelled
        PROVE  d \in cancelled'
    <3>1. call[d].sid = s /\ call[d].step \in Running
      BY <2>1, <2>3 DEF AbortEventTasks, AbortHandles, AllTold
    <3>2. handles[<<s, call[d].pid>>] = d
      BY <2>3, <3>1 DEF RunningTasksHaveHandles
    <3>3. <<s, call[d].pid>> \in {s} \X Participant
      BY <3>1 DEF LockInv
    <3> QED
      BY <2>1, <3>2, <3>3 DEF AbortEventTasks, AbortHandles
  <2> QED
    BY <2>1, <2>2, <2>3 DEF AbortEventTasks, AbortHandles
<1> QED
  BY <1>1, <1>2, AbortDoneStep

\* How a caller comes to be where it is inside terminate_session.
LEMMA TerminatorMoves ==
  ASSUME TypeOK, FramesNameSession, LockInv, [Next]_vars,
         NEW v \in Caller, call'[v].step \in InTerminate
  PROVE  \/ call'[v] = call[v]
         \/ MarkTerminating(v) \/ CloseSfu(v) \/ CollectParticipants(v)
         \/ \E x \in Member \cup Subscriber : Tell(v, x)
         \/ CollectSubscribers(v) \/ AbortEventTasks(v)
<1> DEFINE Moves == \/ call'[v] = call[v]
                    \/ MarkTerminating(v) \/ CloseSfu(v) \/ CollectParticipants(v)
                    \/ \E x \in Member \cup Subscriber : Tell(v, x)
                    \/ CollectSubscribers(v) \/ AbortEventTasks(v)
<1> USE ConstantsAssumption DEF TypeOK, CallFrame, Caller, Frame, IdleFrame, Running, InTerminate, LockInv
<1>1. ASSUME NEW s \in Session, NEW p \in Participant, NEW c \in Conn, RegisterSession(s, p, c) PROVE Moves
  BY <1>1 DEF RegisterSession
<1>2. ASSUME NEW s \in Session, SfuAllocates(s) PROVE Moves
  BY <1>2 DEF SfuAllocates
<1>3. ASSUME NEW u \in Subscriber, SubscribeToSystem(u) \/ UnsubscribeToSystem(u) PROVE Moves
  BY <1>3 DEF SubscribeToSystem, UnsubscribeToSystem
<1>4. ASSUME NEW t \in Task, NEW s \in Session, NEW p \in Participant, LockHandles(t, s, p) PROVE Moves
  BY <1>4 DEF LockHandles
<1>5. ASSUME NEW t \in Task, NEW s \in Session, NEW r \in Reason, CallTerminate(t, s, r) PROVE Moves
  BY <1>5 DEF CallTerminate
<1>6. ASSUME NEW t \in Task, SfuAccepts(t) PROVE Moves
  BY <1>6 DEF SfuAccepts
<1>7. ASSUME NEW t \in Task, SubscribeFails(t) PROVE Moves
  BY <1>7 DEF SubscribeFails
<1>8. ASSUME NEW t \in Task, NEW e \in EventTask, SpawnEventTask(t, e) PROVE Moves
  BY <1>8 DEF SpawnEventTask
<1>9. ASSUME NEW e \in EventTask, MediaClosed(e) PROVE Moves
  BY <1>9 DEF MediaClosed
<1>10. ASSUME NEW e \in EventTask, StreamEnds(e) PROVE Moves
  BY <1>10 DEF StreamEnds
<1>11. ASSUME NEW e \in EventTask, DropAborted(e) PROVE Moves
  BY <1>11 DEF DropAborted
<1>12. ASSUME NEW t \in Caller, MarkTerminating(t) PROVE Moves
  BY <1>12 DEF MarkTerminating, Returned
<1>13. ASSUME NEW t \in Caller, CloseSfu(t) PROVE Moves
  BY <1>13 DEF CloseSfu
<1>14. ASSUME NEW t \in Caller, CollectParticipants(t) PROVE Moves
  BY <1>14 DEF CollectParticipants
<1>15. ASSUME NEW t \in Caller, NEW x \in Member \cup Subscriber, Tell(t, x) PROVE Moves
  BY <1>15 DEF Tell
<1>16. ASSUME NEW t \in Caller, CollectSubscribers(t) PROVE Moves
  BY <1>16 DEF CollectSubscribers
<1>17. ASSUME NEW t \in Caller, AbortEventTasks(t) PROVE Moves
  BY <1>17 DEF AbortEventTasks, AllTold, AbortHandles
<1>18. ASSUME NEW t \in Caller, RemoveSession(t) PROVE Moves
  BY <1>18 DEF RemoveSession, Returned
<1>19. ASSUME UNCHANGED vars PROVE Moves
  BY <1>19 DEF vars
<1> QED
  BY <1>1, <1>2, <1>3, <1>4, <1>5, <1>6, <1>7, <1>8, <1>9, <1>10, <1>11, <1>12,
     <1>13, <1>14, <1>15, <1>16, <1>17, <1>18, <1>19 DEF Next, Request, AnswerSubscribe, EventTaskStep, Terminate

\* The ghosts only grow.
LEMMA GhostsGrow == ASSUME [Next]_vars PROVE ended \subseteq ended' /\ late \subseteq late'
  BY DEF Next, vars, RegisterSession, SfuAllocates, SubscribeToSystem,
     UnsubscribeToSystem, Request, LockHandles, CallTerminate, AnswerSubscribe, SfuAccepts,
     SubscribeFails, SpawnEventTask, EventTaskStep, MediaClosed, StreamEnds, DropAborted,
     Terminate, MarkTerminating, CloseSfu, CollectParticipants, Tell, CollectSubscribers,
     AbortEventTasks, AbortHandles, RemoveSession

\* While one caller is past the mark of s, early members neither leave s nor change.
LEMMA MemberStays ==
  ASSUME TypeOK, FramesNameSession, MarkInv, OneTerminator, [Next]_vars,
         NEW v \in Caller, call[v].step \in InTerminate, call'[v].step \in InTerminate,
         NEW p \in Participant, <<call[v].sid, p>> \notin late'
  PROVE  sessions'[call[v].sid][p] = sessions[call[v].sid][p]
<1> DEFINE s == call[v].sid
<1>0. s \in Session /\ s \in terminating
  BY DEF FramesNameSession, MarkInv, Running
<1>1. CASE sessions' = sessions
  BY <1>1
<1>2. ASSUME NEW i \in Session, NEW q \in Participant, NEW c \in Conn, RegisterSession(i, q, c)
      PROVE  sessions'[s][p] = sessions[s][p]
  BY <1>0, <1>2 DEF RegisterSession, TypeOK
<1>3. ASSUME NEW t \in Caller, RemoveSession(t) PROVE sessions'[s][p] = sessions[s][p]
  <2>1. t # v
    BY <1>3 DEF RemoveSession, Returned, TypeOK, InTerminate, IdleFrame, Frame
  <2>2. call[t].sid # s
    BY <1>0, <1>3, <2>1 DEF OneTerminator, Terminates, RemoveSession, InTerminate
  <2> QED
    BY <1>0, <1>3, <2>2 DEF RemoveSession, TypeOK
<1> QED
  BY <1>1, <1>2, <1>3 DEF Next, vars, SfuAllocates, SubscribeToSystem,
     UnsubscribeToSystem, Request, LockHandles, CallTerminate, AnswerSubscribe, SfuAccepts,
     SubscribeFails, SpawnEventTask, EventTaskStep, MediaClosed, StreamEnds, DropAborted,
     Terminate, MarkTerminating, CloseSfu, CollectParticipants, Tell, CollectSubscribers,
     AbortEventTasks, AbortHandles

LEMMA TellStep ==
  ASSUME TypeOK, FramesNameSession, LockInv, MarkInv, OneTerminator, TellInv, [Next]_vars
  PROVE  TellInv'
<1> SUFFICES ASSUME NEW v \in Caller, NEW p \in Participant, NEW s, s = call'[v].sid,
                    call'[v].step \in InTerminate, sessions'[s][p] # None, <<s, p>> \notin late'
             PROVE  /\ call'[v].step = "telling" =>
                         <<p, sessions'[s][p]>> \in call'[v].todo \/ Told(s, p)'
                    /\ call'[v].step \in {"tellingSystem", "removing"} => Told(s, p)'
  BY DEF TellInv
<1> USE ConstantsAssumption DEF TypeOK, CallFrame
<1>1. CASE MarkTerminating(v) \/ CloseSfu(v)
  BY <1>1 DEF MarkTerminating, CloseSfu, Returned, IdleFrame, Frame, InTerminate
<1>2. ASSUME \/ call'[v] = call[v] \/ CollectParticipants(v)
             \/ \E x \in Member \cup Subscriber : Tell(v, x)
             \/ CollectSubscribers(v) \/ AbortEventTasks(v)
      PROVE  call[v].step \in InTerminate /\ call[v].sid = s
  BY <1>2 DEF CollectParticipants, Tell, CollectSubscribers, AbortEventTasks, AllTold,
     AbortHandles, InTerminate
<1>3. ASSUME call[v].step \in InTerminate, call[v].sid = s
      PROVE  /\ s \in Session
             /\ sessions'[s][p] = sessions[s][p]
             /\ <<s, p>> \notin late
             /\ Told(s, p) => Told(s, p)'
  <2>1. s \in Session
    BY <1>3 DEF FramesNameSession, Running
  <2>2. sessions'[s][p] = sessions[s][p]
    BY <1>3, MemberStays
  <2> QED
    BY <2>1, <2>2, GhostsGrow DEF Told
<1>4. ASSUME call[v].step \in InTerminate, call[v].sid = s
      PROVE  /\ call[v].step = "telling" => <<p, sessions[s][p]>> \in call[v].todo \/ Told(s, p)
             /\ call[v].step \in {"tellingSystem", "removing"} => Told(s, p)
  BY <1>3, <1>4 DEF TellInv
<1>5. CASE call'[v] = call[v]
  BY <1>2, <1>3, <1>4, <1>5
<1>6. CASE CollectParticipants(v)
  <2>1. call'[v].step = "telling" /\ call'[v].todo = Members(s)
    BY <1>2, <1>6 DEF CollectParticipants
  <2>2. <<p, sessions[s][p]>> \in Members(s)
    BY <1>2, <1>3, <1>6 DEF Members, Member
  <2> QED
    BY <1>2, <1>3, <1>6, <2>1, <2>2
<1>7. ASSUME NEW x \in Member \cup Subscriber, Tell(v, x)
      PROVE  /\ call'[v].step = "telling" =>
                  <<p, sessions'[s][p]>> \in call'[v].todo \/ Told(s, p)'
             /\ call'[v].step \in {"tellingSystem", "removing"} => Told(s, p)'
  <2>1. /\ call'[v].step = call[v].step
        /\ call'[v].todo = call[v].todo \ {x}
        /\ [sid |-> s, reason |-> call[v].reason, to |-> x, by |-> v] \in ended'
    BY <1>2, <1>7 DEF Tell
  <2>2. x = <<p, sessions'[s][p]>> => Told(s, p)'
    BY <2>1 DEF Told
  <2> QED
    BY <1>2, <1>3, <1>4, <1>7, <2>1, <2>2
<1>8. CASE CollectSubscribers(v)
  <2>1. call[v].step = "telling" /\ call[v].todo = {} /\ call'[v].step = "tellingSystem"
    BY <1>8 DEF CollectSubscribers
  <2> QED
    BY <1>2, <1>3, <1>4, <1>8, <2>1
<1>9. CASE AbortEventTasks(v)
  <2>1. call[v].step = "tellingSystem" /\ call'[v].step = "removing"
    BY <1>9 DEF AbortEventTasks, AllTold, AbortHandles
  <2> QED
    BY <1>2, <1>3, <1>4, <1>9, <2>1
<1> QED
  BY <1>1, <1>5, <1>6, <1>7, <1>8, <1>9, TerminatorMoves

-------------------------------------------------------------------------------
(* The theorems.                                                           *)

LEMMA InitInv == Init => IInv
<1> SUFFICES ASSUME Init PROVE IInv
  OBVIOUS
<1>1. \A t \in Caller : call[t].step \in {"idle", "unborn"}
  BY DEF Init, IdleFrame, UnbornFrame, Frame
<1>2. \A t \in Caller : call[t].step = "unborn" <=> t \in EventTask
  BY ConstantsAssumption DEF Init, IdleFrame, UnbornFrame, Frame, Caller
<1>3. TypeOK /\ FramesNameSession
  BY InitType
<1>4. LockInv
  BY <1>1, <1>2, ConstantsAssumption DEF Init, LockInv, Caller
<1>5. MarkInv /\ OneTerminator /\ TellInv
  BY <1>1 DEF MarkInv, OneTerminator, Terminates, TellInv, InTerminate
<1>6. EndedInv /\ OneEndReason /\ CancelInv /\ HandleInv
  BY DEF Init, EndedInv, OneEndReason, CancelInv, HandleInv
<1>7. RunningTasksHaveHandles
  BY <1>1 DEF RunningTasksHaveHandles, Caller, Running, InTerminate
<1>8. AcceptInv /\ NoOrphanEventTask /\ LeftoverHasCause
  BY DEF Init, AcceptInv, NoOrphanEventTask, LeftoverHasCause, AbortDone, Finished
<1> QED
  BY <1>3, <1>4, <1>5, <1>6, <1>7, <1>8 DEF IInv

LEMMA StepInv == IInv /\ [Next]_vars => IInv'
<1> SUFFICES ASSUME IInv, [Next]_vars PROVE IInv'
  OBVIOUS
<1> USE DEF IInv
<1>1. TypeOK' /\ FramesNameSession' /\ LockInv' /\ MarkInv'
  BY StepType, LockStep, MarkStep
<1>2. OneTerminator' /\ EndedInv' /\ OneEndReason'
  BY OneTerminatorStep, EndedStep, ReasonStep
<1>3. HandleInv' /\ RunningTasksHaveHandles' /\ CancelInv'
  BY HandleStep, RunningStep, CancelStep
<1>4. AcceptInv' /\ NoOrphanEventTask' /\ LeftoverHasCause' /\ TellInv'
  BY AcceptStep, OrphanStep, LeftoverStep, TellStep
<1> QED
  BY <1>1, <1>2, <1>3, <1>4

\* The inductive invariant holds in every reachable state of the manager.
THEOREM Invariance == Spec => []IInv
  BY InitInv, StepInv, PTL DEF Spec

\* At most one call of terminate_session gets past the mark of a session
\* (src/signal/manager.rs:291-298), for any number of racing callers.
THEOREM OneTerminatorAlways == Spec => []OneTerminator
<1>1. IInv => OneTerminator
  BY DEF IInv
<1> QED
  BY <1>1, Invariance, PTL

\* All SessionEnded events of one session carry the same reason and come from the same call
\* of terminate_session (src/signal/manager.rs:289-315).
THEOREM OneEndReasonAlways == Spec => []OneEndReason
<1>1. IInv => OneEndReason
  BY DEF IInv
<1> QED
  BY <1>1, Invariance, PTL

\* Every running event task that was not aborted is in the map of handles, under its own key
\* (src/signal/manager.rs:74-128).
THEOREM RunningTasksHaveHandlesAlways == Spec => []RunningTasksHaveHandles
<1>1. IInv => RunningTasksHaveHandles
  BY DEF IInv
<1> QED
  BY <1>1, Invariance, PTL

\* After the abort loop of a session closed at the SFU no event task of it is left running
\* unaborted (src/signal/manager.rs:76-125 and 317-332).
THEOREM NoOrphanEventTaskAlways == Spec => []NoOrphanEventTask
<1>1. IInv => NoOrphanEventTask
  BY DEF IInv
<1> QED
  BY <1>1, Invariance, PTL

\* abort() only reaches event tasks of sessions marked as terminating
\* (src/signal/manager.rs:320-331).
THEOREM AbortStaysInSessionAlways == Spec => []AbortStaysInSession
<1>1. IInv => AbortStaysInSession
  BY DEF IInv, CancelInv, AbortStaysInSession
<1> QED
  BY <1>1, Invariance, PTL

\* A terminated session that is still in the map was joined late or lost its terminator to
\* its own abort loop (src/signal/manager.rs:270-343): there is no third cause.
THEOREM LeftoverHasCauseAlways == Spec => []LeftoverHasCause
<1>1. IInv => LeftoverHasCause
  BY DEF IInv
<1> QED
  BY <1>1, Invariance, PTL

\* Nobody who was in the session when it was marked leaves the map untold
\* (src/signal/manager.rs:305-342).
THEOREM ToldBeforeRemovalAlways == Spec => ToldBeforeRemoval
<1> DEFINE A == \A s \in Session, p \in Participant :
                  sessions[s][p] # None /\ sessions'[s][p] = None /\ <<s, p>> \notin late =>
                    \E m \in ended : m.sid = s /\ m.to = <<p, sessions[s][p]>>
<1>1. IInv /\ [Next]_vars => A
  <2> SUFFICES ASSUME IInv, [Next]_vars, NEW s \in Session, NEW p \in Participant,
                      sessions[s][p] # None, sessions'[s][p] = None, <<s, p>> \notin late
               PROVE  Told(s, p)
    BY DEF Told
  <2>1. PICK t \in Caller : RemoveSession(t) /\ call[t].sid = s
    <3>1. CASE sessions' = sessions
      BY <3>1
    <3>2. ASSUME NEW i \in Session, NEW q \in Participant, NEW c \in Conn, RegisterSession(i, q, c)
          PROVE  FALSE
      BY <3>2, ConstantsAssumption DEF RegisterSession, IInv, TypeOK
    <3>3. ASSUME NEW t \in Caller, RemoveSession(t) PROVE call[t].sid = s
      BY <3>3 DEF RemoveSession, IInv, TypeOK
    <3> QED
      BY <3>1, <3>2, <3>3 DEF Next, vars, SfuAllocates, SubscribeToSystem,
         UnsubscribeToSystem, Request, LockHandles, CallTerminate, AnswerSubscribe, SfuAccepts,
         SubscribeFails, SpawnEventTask, EventTaskStep, MediaClosed, StreamEnds, DropAborted,
         Terminate, MarkTerminating, CloseSfu, CollectParticipants, Tell, CollectSubscribers,
         AbortEventTasks, AbortHandles
  <2> QED
    BY <2>1 DEF RemoveSession, IInv, TellInv, InTerminate
<1>2. IInv /\ [Next]_vars => [A]_vars
  BY <1>1
<1> QED
  BY <1>2, Invariance, PTL DEF Spec, ToldBeforeRemoval
=============================================================================
