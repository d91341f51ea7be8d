---------------------------- MODULE SessionManager ----------------------------
(***************************************************************************)
(* The shared state of saasy-signal (src/signal/manager.rs): the map   *)
(* of sessions, the system subscribers, the event forwarding tasks and the *)
(* set of terminating sessions, under every interleaving of the async      *)
(* methods that change them.                                               *)
(*                                                                         *)
(* A method that awaits is cut at its await points.  The frame of a caller *)
(* in the middle of a method is call[t]: the step it is suspended at and   *)
(* the arguments it still needs.  Callers are the tasks of the server      *)
(* (connection handlers, the usage tracker) and the event tasks spawned by *)
(* subscribe_to_events.  Tasks call any method at any time here; module    *)
(* SignalServer says which task calls what.                                *)
(***************************************************************************)
EXTENDS FiniteSets

CONSTANTS
  Session,      \* session ids
  Participant,  \* participant ids
  Conn,         \* outbound channels, one per session WebSocket
  Subscriber,   \* system WebSockets
  Task,         \* connection handlers and the usage tracker
  EventTask,    \* instances tokio::spawn may create (bounds the subscriptions)
  None          \* the absent value

Reason == {"Normal", "Error", "Timeout"}   \* SessionEndReason
Caller == Task \cup EventTask

ASSUME ConstantsAssumption ==
  /\ Task \cap EventTask = {}
  /\ None \notin Session \cup Participant \cup Conn \cup Caller \cup Reason

VARIABLES
  sessions,           \* session -> participant -> channel; no entry is None
  systemSubscribers,  \* system_subscribers
  handles,            \* event_task_handles: <<session, participant>> -> task
  handlesLock,        \* the task holding the mutex of handles over an await
  terminating,        \* terminating_sessions
  sfu,                \* what the SFU holds of each session id (external)
  call,               \* the frame of each caller
  cancelled,          \* event tasks on which abort() was called
  ended,              \* ghost: the SessionEnded events sent, and by whom
  late                \* ghost: <<session, participant>> registered after mark

vars == <<sessions, systemSubscribers, handles, handlesLock, terminating, sfu,
          call, cancelled, ended, late>>

Member == Participant \X Conn

InTerminate == {"closing", "collecting", "telling", "tellingSystem", "removing"}
Running     == {"streaming", "marking"} \cup InTerminate
Step        == {"idle", "subscribing", "accepted", "unborn", "done", "lost"} \cup Running

Frame(step, s, p, r) ==
  [step |-> step, sid |-> s, pid |-> p, reason |-> r, todo |-> {}]

IdleFrame   == Frame("idle", None, None, None)
UnbornFrame == Frame("unborn", None, None, None)

CallFrame == [step : Step, sid : Session \cup {None},
              pid : Participant \cup {None}, reason : Reason \cup {None},
              todo : SUBSET (Member \cup Subscriber)]

TypeOK ==
  /\ sessions \in [Session -> [Participant -> Conn \cup {None}]]
  /\ systemSubscribers \subseteq Subscriber
  /\ handles \in [Session \X Participant -> EventTask \cup {None}]
  /\ handlesLock \in Task \cup {None}
  /\ terminating \subseteq Session
  /\ sfu \in [Session -> {"fresh", "open", "closed"}]
  /\ call \in [Caller -> CallFrame]
  /\ cancelled \subseteq EventTask
  /\ ended \subseteq [sid : Session, reason : Reason, to : Member \cup Subscriber, by : Caller]
  /\ late \subseteq Session \X Participant

-------------------------------------------------------------------------------
(* Reading the state.                                                      *)

\* The entries of the participants map of s, as broadcast_to_session_participants clones it.
Members(s) == {m \in Member : sessions[s][m[1]] = m[2]}

\* t is inside terminate_session(s), past the mark.
Terminates(t, s) == call[t].sid = s /\ call[t].step \in InTerminate

\* The one call of terminate_session(s) that passed the mark has returned or been dropped.
Finished(s) == s \in terminating /\ ~\E t \in Caller : Terminates(t, s)

\* That call is past the loop that aborts the event tasks of s.
AbortDone(s) ==
  /\ s \in terminating
  /\ \A t \in Caller : Terminates(t, s) => call[t].step = "removing"

Init ==
  /\ sessions = [s \in Session |-> [p \in Participant |-> None]]
  /\ systemSubscribers = {}
  /\ handles = [k \in Session \X Participant |-> None]
  /\ handlesLock = None
  /\ terminating = {}
  /\ sfu = [s \in Session |-> "fresh"]
  /\ call = [t \in Caller |-> IF t \in Task THEN IdleFrame ELSE UnbornFrame]
  /\ cancelled = {}
  /\ ended = {}
  /\ late = {}

-------------------------------------------------------------------------------
(* Sessions, participants and system subscribers: one write lock each.     *)

\* register_session: the entry is created when missing, the sender replaced when present.
RegisterSession(s, p, c) ==
  /\ sessions' = [sessions EXCEPT ![s][p] = c]
  /\ late' = IF s \in terminating THEN late \cup {<<s, p>>} ELSE late
  /\ UNCHANGED <<systemSubscribers, handles, handlesLock, terminating, sfu,
                 call, cancelled, ended>>

\* subscribe_to_system; the id is a fresh uuid, its second use is refused.
SubscribeToSystem(u) ==
  /\ u \notin systemSubscribers
  /\ systemSubscribers' = systemSubscribers \cup {u}
  /\ UNCHANGED <<sessions, handles, handlesLock, terminating, sfu, call,
                 cancelled, ended, late>>

UnsubscribeToSystem(u) ==
  /\ u \in systemSubscribers
  /\ systemSubscribers' = systemSubscribers \ {u}
  /\ UNCHANGED <<sessions, handles, handlesLock, terminating, sfu, call,
                 cancelled, ended, late>>

\* External: the SFU hands out a session id it never used before.
SfuAllocates(s) ==
  /\ sfu[s] = "fresh"
  /\ sfu' = [sfu EXCEPT ![s] = "open"]
  /\ UNCHANGED <<sessions, systemSubscribers, handles, handlesLock, terminating,
                 call, cancelled, ended, late>>

-------------------------------------------------------------------------------
(* subscribe_to_events and the task it spawns.                             *)

\* Mutant of LockHandles: the contains_key test is missing.
LockHandles_Unchecked(t, s, p) ==
  /\ call[t].step = "idle"
  /\ handlesLock = None
  /\ handlesLock' = t
  /\ call' = [call EXCEPT ![t] = Frame("subscribing", s, p, None)]
  /\ UNCHANGED <<sessions, systemSubscribers, handles, terminating, sfu,
                 cancelled, ended, late>>

\* Takes the mutex and finds the key free; an "Already subscribed" call changes nothing.
LockHandles(t, s, p) ==
  /\ call[t].step = "idle"
  /\ handlesLock = None
  /\ handles[<<s, p>>] = None
  /\ handlesLock' = t
  /\ call' = [call EXCEPT ![t] = Frame("subscribing", s, p, None)]
  /\ UNCHANGED <<sessions, systemSubscribers, handles, terminating, sfu,
                 cancelled, ended, late>>

\* The SFU opens the stream; an unborn event task is left for it (EventTask bounds these).
SfuAccepts(t) ==
  /\ call[t].step = "subscribing"
  /\ sfu[call[t].sid] = "open"
  /\ \E e \in EventTask : call[e].step = "unborn"
  /\ call' = [call EXCEPT ![t].step = "accepted"]
  /\ UNCHANGED <<sessions, systemSubscribers, handles, handlesLock, terminating,
                 sfu, cancelled, ended, late>>

\* The caller resumes with the stream: spawn, insert the handle, release the mutex.
SpawnEventTask(t, e) ==
  /\ call[t].step = "accepted"
  /\ call[e].step = "unborn"
  /\ LET s == call[t].sid
         p == call[t].pid
     IN /\ handles' = [handles EXCEPT ![<<s, p>>] = e]
        /\ call' = [call EXCEPT ![t] = IdleFrame, ![e] = Frame("streaming", s, p, None)]
  /\ handlesLock' = None
  /\ UNCHANGED <<sessions, systemSubscribers, terminating, sfu, cancelled, ended, late>>

\* Mutant of SubscribeFails: the error path leaves the mutex locked.
SubscribeFails_KeepsMutex(t) ==
  /\ call[t].step \in {"subscribing", "accepted"}
  /\ call' = [call EXCEPT ![t] = IdleFrame]
  /\ UNCHANGED <<sessions, systemSubscribers, handles, handlesLock, terminating,
                 sfu, cancelled, ended, late>>

\* The SFU refused or the answer was lost: the guard is dropped with the error.
SubscribeFails(t) ==
  /\ call[t].step \in {"subscribing", "accepted"}
  /\ call' = [call EXCEPT ![t] = IdleFrame]
  /\ handlesLock' = None
  /\ UNCHANGED <<sessions, systemSubscribers, handles, terminating, sfu,
                 cancelled, ended, late>>

\* Mutant of MediaClosed: is_terminating stands for the mark.
MediaClosed_TakesOver(e) ==
  /\ call[e].step = "streaming"
  /\ call' = [call EXCEPT ![e] =
                IF @.sid \in terminating
                  THEN [@ EXCEPT !.step = "done"]
                  ELSE [@ EXCEPT !.step = "closing", !.reason = "Error"]]
  /\ UNCHANGED <<sessions, systemSubscribers, handles, handlesLock, terminating,
                 sfu, cancelled, ended, late>>

\* A transport, producer or consumer closed: terminate the session unless it already is.
MediaClosed(e) ==
  /\ call[e].step = "streaming"
  /\ call' = [call EXCEPT ![e] =
                IF @.sid \in terminating
                  THEN [@ EXCEPT !.step = "done"]
                  ELSE [@ EXCEPT !.step = "marking", !.reason = "Error"]]
  /\ UNCHANGED <<sessions, systemSubscribers, handles, handlesLock, terminating,
                 sfu, cancelled, ended, late>>

\* message() returned Err or Ok(None): the task returns, its handle stays in the map.
StreamEnds(e) ==
  /\ call[e].step = "streaming"
  /\ call' = [call EXCEPT ![e].step = "done"]
  /\ UNCHANGED <<sessions, systemSubscribers, handles, handlesLock, terminating,
                 sfu, cancelled, ended, late>>

\* An aborted task is dropped at an await that is pending; until then it keeps running.
\* "lost" tells apart the one dropped between the abort loop and the removal of its session.
DropAborted(e) ==
  /\ e \in cancelled
  /\ call[e].step \in Running
  /\ call' = [call EXCEPT ![e] =
                Frame(IF @.step = "removing" THEN "lost" ELSE "done", @.sid, @.pid, None)]
  /\ UNCHANGED <<sessions, systemSubscribers, handles, handlesLock, terminating,
                 sfu, cancelled, ended, late>>

-------------------------------------------------------------------------------
(* terminate_session.                                                      *)

\* A task with no method in progress calls terminate_session(s, r).
CallTerminate(t, s, r) ==
  /\ call[t].step = "idle"
  /\ call' = [call EXCEPT ![t] = Frame("marking", s, None, r)]
  /\ UNCHANGED <<sessions, systemSubscribers, handles, handlesLock, terminating,
                 sfu, cancelled, ended, late>>

\* The frame of t once terminate_session returns to it.
Returned(t) ==
  IF t \in Task THEN IdleFrame
                ELSE Frame("done", call[t].sid, call[t].pid, None)

\* Mutant of MarkTerminating: the result of insert() is ignored.
MarkTerminating_Unchecked(t) ==
  /\ call[t].step = "marking"
  /\ terminating' = terminating \cup {call[t].sid}
  /\ call' = [call EXCEPT ![t].step = "closing"]
  /\ UNCHANGED <<sessions, systemSubscribers, handles, handlesLock, sfu,
                 cancelled, ended, late>>

\* Test and set under one write lock: the second caller returns at once.
MarkTerminating(t) ==
  /\ call[t].step = "marking"
  /\ terminating' = terminating \cup {call[t].sid}
  /\ call' = [call EXCEPT ![t] =
                IF @.sid \in terminating THEN Returned(t) ELSE [@ EXCEPT !.step = "closing"]]
  /\ UNCHANGED <<sessions, systemSubscribers, handles, handlesLock, sfu,
                 cancelled, ended, late>>

\* Mutant of CloseSfu: the error of the call is returned.
CloseSfu_ReturnsError(t) ==
  /\ call[t].step = "closing"
  /\ \/ /\ sfu' = [sfu EXCEPT ![call[t].sid] = IF @ = "open" THEN "closed" ELSE @]
        /\ call' = [call EXCEPT ![t].step = "collecting"]
     \/ sfu' = sfu /\ call' = [call EXCEPT ![t] = Returned(t)]
  /\ UNCHANGED <<sessions, systemSubscribers, handles, handlesLock, terminating,
                 cancelled, ended, late>>

\* The SFU closes the session, or the call fails and the error is logged.
CloseSfu(t) ==
  /\ call[t].step = "closing"
  /\ \/ sfu' = [sfu EXCEPT ![call[t].sid] = IF @ = "open" THEN "closed" ELSE @]
     \/ sfu' = sfu
  /\ call' = [call EXCEPT ![t].step = "collecting"]
  /\ UNCHANGED <<sessions, systemSubscribers, handles, handlesLock, terminating,
                 cancelled, ended, late>>

\* Mutant of CollectParticipants: an entry for every participant id, present or not.
CollectParticipants_AllIds(t) ==
  /\ call[t].step = "collecting"
  /\ call' = [call EXCEPT ![t].step = "telling",
                          ![t].todo = {<<p, sessions[call[t].sid][p]>> : p \in Participant}]
  /\ UNCHANGED <<sessions, systemSubscribers, handles, handlesLock, terminating,
                 sfu, cancelled, ended, late>>

\* broadcast_to_session_participants clones the participants under the read lock.
CollectParticipants(t) ==
  /\ call[t].step = "collecting"
  /\ call' = [call EXCEPT ![t].step = "telling", ![t].todo = Members(call[t].sid)]
  /\ UNCHANGED <<sessions, systemSubscribers, handles, handlesLock, terminating,
                 sfu, cancelled, ended, late>>

\* Mutant of Tell: the loop may end at the first closed channel.
Tell_StopsOnError(t, x) ==
  /\ call[t].step \in {"telling", "tellingSystem"}
  /\ x \in call[t].todo
  /\ ended' = ended \cup {[sid |-> call[t].sid, reason |-> call[t].reason, to |-> x, by |-> t]}
  /\ call' = [call EXCEPT ![t].todo = {}]
  /\ UNCHANGED <<sessions, systemSubscribers, handles, handlesLock, terminating,
                 sfu, cancelled, late>>

\* One send of a broadcast; a closed channel is an error that does not stop the loop.
Tell(t, x) ==
  /\ call[t].step \in {"telling", "tellingSystem"}
  /\ x \in call[t].todo
  /\ ended' = ended \cup {[sid |-> call[t].sid, reason |-> call[t].reason, to |-> x, by |-> t]}
  /\ call' = [call EXCEPT ![t].todo = @ \ {x}]
  /\ UNCHANGED <<sessions, systemSubscribers, handles, handlesLock, terminating,
                 sfu, cancelled, late>>

\* broadcast_to_system_subscribers clones the subscribers under the read lock.
CollectSubscribers(t) ==
  /\ call[t].step = "telling"
  /\ call[t].todo = {}
  /\ call' = [call EXCEPT ![t].step = "tellingSystem", ![t].todo = systemSubscribers]
  /\ UNCHANGED <<sessions, systemSubscribers, handles, handlesLock, terminating,
                 sfu, cancelled, ended, late>>

\* The handles under the keys ks are removed and aborted; the session is removed next.
AbortHandles(t, ks) ==
  /\ cancelled' = cancelled \cup ({handles[k] : k \in ks} \ {None})
  /\ handles' = [k \in Session \X Participant |-> IF k \in ks THEN None ELSE handles[k]]
  /\ call' = [call EXCEPT ![t].step = "removing"]
  /\ UNCHANGED <<sessions, systemSubscribers, handlesLock, terminating, sfu, ended, late>>

AllTold(t) == call[t].step = "tellingSystem" /\ call[t].todo = {}

\* Mutants of AbortEventTasks: the mutex is not waited for; the filter on the session is missing.
AbortEventTasks_NoMutex(t) == AllTold(t) /\ AbortHandles(t, {call[t].sid} \X Participant)
AbortEventTasks_AnySession(t) ==
  AllTold(t) /\ handlesLock = None /\ AbortHandles(t, Session \X Participant)

\* Under the mutex, the handles of the session, the caller's own included.
AbortEventTasks(t) ==
  /\ AllTold(t)
  /\ handlesLock = None
  /\ AbortHandles(t, {call[t].sid} \X Participant)

\* The session leaves the map with all its participants; the mark stays.
RemoveSession(t) ==
  /\ call[t].step = "removing"
  /\ sessions' = [sessions EXCEPT ![call[t].sid] = [p \in Participant |-> None]]
  /\ call' = [call EXCEPT ![t] = Returned(t)]
  /\ UNCHANGED <<systemSubscribers, handles, handlesLock, terminating, sfu,
                 cancelled, ended, late>>

-------------------------------------------------------------------------------
(* The component under every caller.                                       *)

Terminate(t) ==
  \/ MarkTerminating(t)
  \/ CloseSfu(t)
  \/ CollectParticipants(t)
  \/ \E x \in Member \cup Subscriber : Tell(t, x)
  \/ CollectSubscribers(t)
  \/ AbortEventTasks(t)
  \/ RemoveSession(t)

EventTaskStep(e) == MediaClosed(e) \/ StreamEnds(e) \/ DropAborted(e)

AnswerSubscribe(t) ==
  SfuAccepts(t) \/ SubscribeFails(t) \/ \E e \in EventTask : SpawnEventTask(t, e)

Request(t) ==
  \E s \in Session :
    \/ \E p \in Participant : LockHandles(t, s, p)
    \/ \E r \in Reason : CallTerminate(t, s, r)

Next ==
  \/ \E s \in Session, p \in Participant, c \in Conn : RegisterSession(s, p, c)
  \/ \E s \in Session : SfuAllocates(s)
  \/ \E u \in Subscriber : SubscribeToSystem(u) \/ UnsubscribeToSystem(u)
  \/ \E t \in Task : Request(t) \/ AnswerSubscribe(t)
  \/ \E e \in EventTask : EventTaskStep(e)
  \/ \E t \in Caller : Terminate(t)

Spec == Init /\ [][Next]_vars

-------------------------------------------------------------------------------
(* What the component implements.                                          *)

\* A session ends with the mark and is over when its terminator has returned or was dropped.
stage == [s \in Session |-> IF s \notin terminating THEN "live"
                            ELSE IF Finished(s) THEN "over" ELSE "ending"]

\* Those who registered after the mark are not counted as inside.
inside == [s \in Session |-> {m \in Members(s) : <<s, m[1]>> \notin late}]

told == [s \in Session |-> {<<n.to, n.reason>> : n \in {m \in ended : m.sid = s}}]

Lifecycle == INSTANCE SessionLifecycle

-------------------------------------------------------------------------------
(* Properties.                                                             *)

\* The manager, with its tasks, locks, snapshots and aborts, implements the life of a session
\* that SessionLifecycle promises to those inside.
ImplementsLifecycle == Lifecycle!Spec

\* At most one call of terminate_session(s) ever gets past the mark, whoever calls it:
\* disconnects, close requests, media failures and budget exhaustion race for it.
OneTerminator ==
  \A s \in Session : \A t, u \in Caller : Terminates(t, s) /\ Terminates(u, s) => t = u

\* All the SessionEnded events of a session come from one terminator and carry one reason,
\* also those sent long after it returned: nobody is told Normal and somebody else Timeout.
OneEndReason ==
  \A m, n \in ended : m.sid = n.sid => m.by = n.by /\ m.reason = n.reason

\* A running event task that was not aborted is the one the map has under its key, so
\* that terminate_session can reach it (a stream overwritten in the map runs forever).
RunningTasksHaveHandles ==
  \A e \in EventTask :
    call[e].step \in Running /\ e \notin cancelled => handles[<<call[e].sid, call[e].pid>>] = e

\* Once the abort loop of a session the SFU has closed is over, no handle and no running
\* event task of it is left, not even from a subscription that was in flight meanwhile:
\* the mutex is held from the SFU's answer to the insertion of the handle.
NoOrphanEventTask ==
  \A s \in Session :
    AbortDone(s) /\ sfu[s] = "closed" =>
      /\ \A p \in Participant : handles[<<s, p>>] = None
      /\ \A e \in EventTask : call[e].sid = s /\ call[e].step \in Running => e \in cancelled

\* abort() only hits tasks of sessions that are themselves terminating.
AbortStaysInSession == \A e \in cancelled : call[e].sid \in terminating

\* What a finished termination may leave in the map: participants registered after the
\* mark, or the whole session when the terminator was an event task that its own abort
\* loop cancelled and that was dropped waiting for the write lock.
LeftoverHasCause ==
  \A s \in Session : \A p \in Participant :
    Finished(s) /\ sessions[s][p] # None =>
      \/ <<s, p>> \in late
      \/ \E e \in EventTask : call[e].step = "lost" /\ call[e].sid = s

\* "Remove session and all participants" (src/signal/manager.rs:334): when terminate_session
\* is over, the session has left the map, but for those who registered after the mark.
RemovedWhenFinished ==
  \A s \in Session, p \in Participant :
    Finished(s) /\ sessions[s][p] # None => <<s, p>> \in late

\* Whoever was in the session when it was marked has been sent SessionEnded by the time
\* the session leaves the map, in whatever order joins and broadcasts interleave.
ToldBeforeRemoval ==
  [][\A s \in Session, p \in Participant :
       sessions[s][p] # None /\ sessions'[s][p] = None /\ <<s, p>> \notin late =>
         \E m \in ended : m.sid = s /\ m.to = <<p, sessions[s][p]>>]_vars

\* A session marked as terminating is done with: its terminator does not hang on the
\* mutex of the handles, whatever subscriptions compete for it.
TerminationFinishes == \A s \in Session : s \in terminating ~> Finished(s)
=============================================================================
