----------------------- MODULE SessionManager_refinement -----------------------
(***************************************************************************)
(* SessionManager implements SessionLifecycle, for every value of the      *)
(* constants.  The inductive invariant is that of SessionManager_proofs,   *)
(* together with LateInv; each action of the manager maps to one action of *)
(* the abstract specification, or to none of its steps.                    *)
(***************************************************************************)
EXTENDS SessionManager_proofs

-------------------------------------------------------------------------------
(* What the mapping needs to know of the ghost late.                       *)

\* Only a marked session has members that registered after the mark.
LateInv == \A l \in late : l[1] \in terminating

LEMMA LateStep == ASSUME TypeOK, LateInv, [Next]_vars PROVE LateInv'
<1> USE DEF LateInv, TypeOK
<1>1. ASSUME NEW s \in Session, NEW p \in Participant, NEW c \in Conn, RegisterSession(s, p, c)
      PROVE  LateInv'
  BY <1>1 DEF RegisterSession
<1>2. ASSUME NEW t \in Caller, MarkTerminating(t) PROVE LateInv'
  BY <1>2 DEF MarkTerminating
<1>3. CASE UNCHANGED <<late, terminating>>
  BY <1>3
<1> QED
  BY <1>1, <1>2, <1>3 DEF Next, vars, SfuAllocates, SubscribeToSystem, UnsubscribeToSystem,
     Request, LockHandles, CallTerminate, AnswerSubscribe, SfuAccepts, SubscribeFails,
     SpawnEventTask, EventTaskStep, MediaClosed, StreamEnds, DropAborted, Terminate, CloseSfu,
     CollectParticipants, Tell, CollectSubscribers, AbortEventTasks, AbortHandles, RemoveSession

RInv == IInv /\ LateInv

\* The strengthened invariant holds in every reachable state of the manager.
THEOREM RefinementInvariance == Spec => []RInv
<1>1. Init => LateInv
  BY DEF Init, LateInv
<1>2. IInv /\ LateInv /\ [Next]_vars => LateInv'
  BY LateStep DEF IInv
<1> QED
  BY <1>1, <1>2, Invariance, PTL DEF Spec, RInv

-------------------------------------------------------------------------------
(* Steps that change nothing of what the mapping shows.                    *)

\* The mapping sees the callers only through Terminates.
SameTerminators == \A t \in Caller, s \in Session : Terminates(t, s)' <=> Terminates(t, s)

LEMMA StageUnchanged ==
  ASSUME SameTerminators, UNCHANGED terminating PROVE UNCHANGED stage
  BY DEF SameTerminators, stage, Finished

LEMMA InsideUnchanged ==
  ASSUME UNCHANGED <<sessions, late>> PROVE UNCHANGED inside
  BY DEF inside, Members

LEMMA ToldUnchanged ==
  ASSUME UNCHANGED ended PROVE UNCHANGED told
  BY DEF told

LEMMA Stutter ==
  ASSUME SameTerminators, UNCHANGED <<terminating, sessions, late, ended>>
  PROVE  UNCHANGED Lifecycle!vars
  BY StageUnchanged, InsideUnchanged, ToldUnchanged DEF Lifecycle!vars
-------------------------------------------------------------------------------
(* The steps that show, one lemma for each action of SessionLifecycle.     *)

LEMMA AbstractInit == Init => Lifecycle!Init
<1> SUFFICES ASSUME Init PROVE Lifecycle!Init
  OBVIOUS
<1>1. stage = [s \in Session |-> "live"]
  BY DEF Init, stage
<1>2. inside = [s \in Session |-> {}]
  BY ConstantsAssumption DEF Init, inside, Members, Member
<1>3. told = [s \in Session |-> {}]
  BY DEF Init, told
<1> QED
  BY <1>1, <1>2, <1>3 DEF Lifecycle!Init

\* A participant in the map under a channel is inside, unless it came late; when its entry
\* is replaced, only its own membership changes.
LEMMA RegisterShows ==
  ASSUME RInv, NEW s \in Session, NEW p \in Participant, NEW c \in Conn,
         RegisterSession(s, p, c)
  PROVE  Lifecycle!Enter(s, p, c) \/ Lifecycle!Waive(s, p)
<1> USE DEF RInv, IInv, TypeOK
<1>1. UNCHANGED <<stage, told>>
  BY StageUnchanged, ToldUnchanged DEF RegisterSession, SameTerminators, Terminates
<1>2. \A i \in Session : i # s => inside'[i] = inside[i]
  BY DEF RegisterSession, inside, Members
<1>3. CASE s \notin terminating
  <2>1. <<s, p>> \notin late /\ late' = late
    BY <1>3 DEF LateInv, RegisterSession
  <2>2. inside'[s] = Lifecycle!Without(s, p) \cup {<<p, c>>}
    BY <2>1, ConstantsAssumption DEF RegisterSession, inside, Members, Member, Lifecycle!Without
  <2>3. inside' = [inside EXCEPT ![s] = Lifecycle!Without(s, p) \cup {<<p, c>>}]
    BY <1>2, <2>2 DEF inside
  <2>4. stage[s] = "live"
    BY <1>3 DEF stage
  <2> QED
    BY <1>1, <2>3, <2>4 DEF Lifecycle!Enter
<1>4. CASE s \in terminating
  <2>1. inside'[s] = Lifecycle!Without(s, p)
    BY <1>4 DEF RegisterSession, inside, Members, Member, Lifecycle!Without
  <2>2. inside' = [inside EXCEPT ![s] = Lifecycle!Without(s, p)]
    BY <1>2, <2>1 DEF inside
  <2>3. stage[s] # "live"
    BY <1>4 DEF stage
  <2> QED
    BY <1>1, <2>2, <2>3 DEF Lifecycle!Waive
<1> QED
  BY <1>3, <1>4

LEMMA MarkShows ==
  ASSUME RInv, NEW t \in Caller, MarkTerminating(t)
  PROVE  UNCHANGED Lifecycle!vars \/ \E s \in Session : Lifecycle!End(s)
<1> USE DEF RInv, IInv, TypeOK, CallFrame
<1> DEFINE s == call[t].sid
<1>1. s \in Session /\ call[t].step = "marking"
  BY DEF MarkTerminating, FramesNameSession, Running
<1>2. UNCHANGED <<inside, told>>
  BY InsideUnchanged, ToldUnchanged DEF MarkTerminating
<1>3. CASE s \in terminating
  <2>1. terminating' = terminating
    BY <1>3 DEF MarkTerminating
  <2>2. call'[t].step \in {"idle", "done"}
    BY <1>3 DEF MarkTerminating, Returned, IdleFrame, Frame
  <2>3. SameTerminators
    BY <1>1, <2>2 DEF MarkTerminating, SameTerminators, Terminates, InTerminate
  <2> QED
    BY <2>1, <2>3, Stutter DEF MarkTerminating
<1>4. CASE s \notin terminating
  <2>1. /\ terminating' = terminating \cup {s}
        /\ \A i \in Session : i = s => Terminates(t, i)'
    BY <1>1, <1>4 DEF MarkTerminating, Terminates, InTerminate
  <2>2. \A u \in Caller, i \in Session : i # s => (Terminates(u, i)' <=> Terminates(u, i))
    BY <1>1, <1>4 DEF MarkTerminating, Terminates, InTerminate
  <2>3. stage[s] = "live" /\ stage'[s] = "ending"
    BY <1>1, <1>4, <2>1 DEF stage, Finished
  <2>4. \A i \in Session : i # s => stage'[i] = stage[i]
    BY <2>1, <2>2 DEF stage, Finished
  <2>5. stage' = [stage EXCEPT ![s] = "ending"]
    BY <1>1, <2>3, <2>4 DEF stage
  <2> QED
    BY <1>1, <1>2, <2>3, <2>5 DEF Lifecycle!End
<1> QED
  BY <1>3, <1>4

\* The session of a caller inside terminate_session is ending.
LEMMA Ending ==
  ASSUME RInv, NEW t \in Caller, call[t].step \in InTerminate
  PROVE  call[t].sid \in Session /\ stage[call[t].sid] = "ending"
  BY DEF RInv, IInv, MarkInv, FramesNameSession, Running, stage, Finished, Terminates

LEMMA TellShows ==
  ASSUME RInv, NEW t \in Caller, NEW x \in Member \cup Subscriber, Tell(t, x)
  PROVE  \E s \in Session, r \in Reason : Lifecycle!Tell(s, x, r)
<1> USE DEF RInv, IInv, TypeOK, CallFrame
<1> DEFINE s == call[t].sid
           r == call[t].reason
<1>1. call[t].step \in InTerminate /\ r \in Reason
  BY DEF Tell, InTerminate, FramesNameSession
<1>2. s \in Session /\ stage[s] = "ending"
  BY <1>1, Ending
<1>3. SameTerminators
  BY DEF Tell, SameTerminators, Terminates
<1>4. UNCHANGED <<stage, inside>>
  BY <1>3, StageUnchanged, InsideUnchanged DEF Tell
<1>5. \A n \in told[s] : n[2] = r
  BY <1>1, <1>2 DEF told, EndedInv, Terminates
<1>6. told' = [told EXCEPT ![s] = @ \cup {<<x, r>>}]
  <2>1. ended' = ended \cup {[sid |-> s, reason |-> r, to |-> x, by |-> t]}
    BY DEF Tell
  <2>2. told'[s] = told[s] \cup {<<x, r>>}
    <3> DEFINE n == [sid |-> s, reason |-> r, to |-> x, by |-> t]
    <3>1. {m \in ended' : m.sid = s} = {m \in ended : m.sid = s} \cup {n}
      BY <2>1
    <3>2. told'[s] = {<<m.to, m.reason>> : m \in {m \in ended' : m.sid = s}}
      BY <1>2 DEF told
    <3>3. told[s] = {<<m.to, m.reason>> : m \in {m \in ended : m.sid = s}}
      BY <1>2 DEF told
    <3>4. n.to = x /\ n.reason = r
      OBVIOUS
    <3> HIDE DEF n, s, r
    <3> QED
      BY <3>1, <3>2, <3>3, <3>4
  <2>3. \A i \in Session : i # s => told'[i] = told[i]
    BY <2>1 DEF told
  <2> QED
    BY <1>2, <2>2, <2>3 DEF told
<1> QED
  BY <1>1, <1>2, <1>4, <1>5, <1>6 DEF Lifecycle!Tell

\* A terminator about to remove its session, or dropped there, has told everybody inside.
LEMMA AllInsideTold ==
  ASSUME RInv, NEW t \in Caller, call[t].step = "removing"
  PROVE  Lifecycle!EverybodyTold(call[t].sid)
<1> DEFINE s == call[t].sid
<1> SUFFICES ASSUME NEW m \in inside[s] PROVE \E r \in Reason : <<m, r>> \in told[s]
  BY DEF Lifecycle!EverybodyTold
<1>1. s \in Session
  BY DEF RInv, IInv, FramesNameSession, Running, InTerminate
<1>2. m \in Members(s) /\ <<s, m[1]>> \notin late
  BY <1>1 DEF inside
<1>3. m[1] \in Participant /\ m = <<m[1], sessions[s][m[1]]>> /\ sessions[s][m[1]] # None
  BY <1>2, ConstantsAssumption DEF Members, Member
<1>4. Told(s, m[1])
  BY <1>2, <1>3 DEF RInv, IInv, TellInv, InTerminate
<1>5. PICK n \in ended : n.sid = s /\ n.to = m
  BY <1>3, <1>4 DEF Told
<1>6. n.reason \in Reason /\ <<m, n.reason>> \in told[s]
  BY <1>1, <1>5 DEF told, RInv, IInv, TypeOK
<1> QED
  BY <1>6

\* When the only terminator of a session leaves terminate_session, the session is over.
LEMMA TerminatorLeaves ==
  ASSUME RInv, NEW t \in Caller, call[t].step = "removing",
         UNCHANGED terminating, call'[t].step \notin InTerminate,
         \A u \in Caller \ {t} : call'[u] = call[u]
  PROVE  stage' = [stage EXCEPT ![call[t].sid] = "over"]
<1> DEFINE s == call[t].sid
<1>1. s \in Session /\ stage[s] = "ending" /\ Terminates(t, s)
  BY Ending DEF Terminates, InTerminate
<1>2. \A u \in Caller, i \in Session : i = s => ~Terminates(u, i)'
  BY <1>1 DEF Terminates, RInv, IInv, OneTerminator
<1>3. \A u \in Caller, i \in Session : i # s => (Terminates(u, i)' <=> Terminates(u, i))
  BY DEF Terminates
<1>4. s \in terminating
  BY <1>1 DEF stage
<1>5. stage'[s] = "over"
  BY <1>1, <1>2, <1>4 DEF stage, Finished
<1>6. \A i \in Session : i # s => stage'[i] = stage[i]
  BY <1>3 DEF stage, Finished
<1> QED
  BY <1>1, <1>5, <1>6 DEF stage

LEMMA RemoveShows ==
  ASSUME RInv, NEW t \in Caller, RemoveSession(t)
  PROVE  \E s \in Session : Lifecycle!Finish(s)
<1> USE DEF RInv, IInv, TypeOK
<1> DEFINE s == call[t].sid
<1>1. call[t].step = "removing"
  BY DEF RemoveSession
<1>2. s \in Session /\ stage[s] = "ending" /\ Lifecycle!EverybodyTold(s)
  BY <1>1, Ending, AllInsideTold DEF InTerminate
<1>3. /\ call'[t].step \notin InTerminate
      /\ \A u \in Caller \ {t} : call'[u] = call[u]
  BY DEF RemoveSession, Returned, IdleFrame, Frame, InTerminate
<1>4. stage' = [stage EXCEPT ![s] = "over"]
  BY <1>1, <1>3, TerminatorLeaves DEF RemoveSession
<1>5. inside' = [inside EXCEPT ![s] = {}]
  <2>1. inside'[s] = {}
    BY <1>2, ConstantsAssumption DEF RemoveSession, inside, Members, Member
  <2>2. \A i \in Session : i # s => inside'[i] = inside[i]
    BY DEF RemoveSession, inside, Members
  <2> QED
    BY <1>2, <2>1, <2>2 DEF inside
<1>6. told' = told
  BY ToldUnchanged DEF RemoveSession
<1> QED
  BY <1>2, <1>4, <1>5, <1>6 DEF Lifecycle!Finish

\* A terminator that its own abort loop cancelled is dropped with the session in the map.
LEMMA DropShows ==
  ASSUME RInv, NEW e \in EventTask, DropAborted(e)
  PROVE  UNCHANGED Lifecycle!vars \/ \E s \in Session : Lifecycle!Finish(s)
<1> USE DEF RInv, IInv, TypeOK, Caller
<1>1. call'[e].step \in {"done", "lost"} /\ \A u \in Caller \ {e} : call'[u] = call[u]
  BY DEF DropAborted, Frame
<1>2. CASE call[e].step = "removing"
  <2>1. call[e].sid \in Session /\ stage[call[e].sid] = "ending"
        /\ Lifecycle!EverybodyTold(call[e].sid)
    BY <1>2, Ending, AllInsideTold DEF InTerminate
  <2>2. stage' = [stage EXCEPT ![call[e].sid] = "over"]
    BY <1>1, <1>2, TerminatorLeaves DEF DropAborted, InTerminate
  <2>3. UNCHANGED <<inside, told>>
    BY InsideUnchanged, ToldUnchanged DEF DropAborted
  <2> QED
    BY <2>1, <2>2, <2>3 DEF Lifecycle!Finish
<1>3. CASE call[e].step # "removing"
  <2>1. call[e].step \notin InTerminate
    BY <1>3 DEF CancelInv, DropAborted
  <2>2. SameTerminators
    BY <1>1, <2>1 DEF SameTerminators, Terminates, InTerminate
  <2> QED
    BY <2>2, Stutter DEF DropAborted
<1> QED
  BY <1>2, <1>3
-------------------------------------------------------------------------------
(* The refinement.                                                         *)

\* A caller that moves inside terminate_session, or outside it, is not seen.
LEMMA CallerMoves ==
  ASSUME NEW t \in Caller, \A u \in Caller \ {t} : call'[u] = call[u],
         call[t].step \in InTerminate <=> call'[t].step \in InTerminate,
         call[t].step \in InTerminate => call'[t].sid = call[t].sid
  PROVE  SameTerminators
  BY DEF SameTerminators, Terminates

\* The other steps show nothing: no caller enters or leaves terminate_session.
LEMMA OthersShowNothing ==
  ASSUME RInv,
         \/ \E s \in Session : SfuAllocates(s)
         \/ \E u \in Subscriber : SubscribeToSystem(u) \/ UnsubscribeToSystem(u)
         \/ \E t \in Task : Request(t) \/ AnswerSubscribe(t)
         \/ \E e \in EventTask : MediaClosed(e) \/ StreamEnds(e)
         \/ \E t \in Caller :
              CloseSfu(t) \/ CollectParticipants(t) \/ CollectSubscribers(t) \/ AbortEventTasks(t)
         \/ UNCHANGED vars
  PROVE  UNCHANGED Lifecycle!vars
<1> USE DEF RInv, IInv, TypeOK, CallFrame, Caller, InTerminate
<1>1. ASSUME NEW s \in Session, SfuAllocates(s) PROVE UNCHANGED Lifecycle!vars
  BY <1>1, Stutter DEF SfuAllocates, SameTerminators, Terminates
<1>2. ASSUME NEW u \in Subscriber, SubscribeToSystem(u) \/ UnsubscribeToSystem(u)
      PROVE  UNCHANGED Lifecycle!vars
  BY <1>2, Stutter DEF SubscribeToSystem, UnsubscribeToSystem, SameTerminators, Terminates
<1>3. ASSUME NEW t \in Task, NEW s \in Session, NEW p \in Participant, LockHandles(t, s, p)
      PROVE  UNCHANGED Lifecycle!vars
  BY <1>3, CallerMoves, Stutter DEF LockHandles, Frame
<1>4. ASSUME NEW t \in Task, NEW s \in Session, NEW r \in Reason, CallTerminate(t, s, r)
      PROVE  UNCHANGED Lifecycle!vars
  BY <1>4, CallerMoves, Stutter DEF CallTerminate, Frame
<1>5. ASSUME NEW t \in Task, SfuAccepts(t) \/ SubscribeFails(t) PROVE UNCHANGED Lifecycle!vars
  BY <1>5, CallerMoves, Stutter DEF SfuAccepts, SubscribeFails, IdleFrame, Frame
<1>6. ASSUME NEW t \in Task, NEW e \in EventTask, SpawnEventTask(t, e)
      PROVE  UNCHANGED Lifecycle!vars
  <2>1. SameTerminators
    BY <1>6 DEF SpawnEventTask, IdleFrame, Frame, SameTerminators, Terminates
  <2> QED
    BY <1>6, <2>1, Stutter DEF SpawnEventTask
<1>7. ASSUME NEW e \in EventTask, MediaClosed(e) PROVE UNCHANGED Lifecycle!vars
  <2>1. /\ call[e].step = "streaming" /\ call'[e].step \in {"done", "marking"}
        /\ \A u \in Caller \ {e} : call'[u] = call[u]
    BY <1>7 DEF MediaClosed
  <2>2. SameTerminators
    BY <2>1, CallerMoves
  <2> QED
    BY <1>7, <2>2, Stutter DEF MediaClosed
<1>8. ASSUME NEW e \in EventTask, StreamEnds(e) PROVE UNCHANGED Lifecycle!vars
  BY <1>8, CallerMoves, Stutter DEF StreamEnds
<1>9. ASSUME NEW t \in Caller, CloseSfu(t) PROVE UNCHANGED Lifecycle!vars
  BY <1>9, CallerMoves, Stutter DEF CloseSfu
<1>10. ASSUME NEW t \in Caller, CollectParticipants(t) PROVE UNCHANGED Lifecycle!vars
  BY <1>10, CallerMoves, Stutter DEF CollectParticipants
<1>11. ASSUME NEW t \in Caller, CollectSubscribers(t) PROVE UNCHANGED Lifecycle!vars
  BY <1>11, CallerMoves, Stutter DEF CollectSubscribers
<1>12. ASSUME NEW t \in Caller, AbortEventTasks(t) PROVE UNCHANGED Lifecycle!vars
  BY <1>12, CallerMoves, Stutter DEF AbortEventTasks, AllTold, AbortHandles
<1>13. CASE UNCHANGED vars
  <2>1. SameTerminators
    BY <1>13 DEF vars, SameTerminators, Terminates
  <2> QED
    BY <1>13, <2>1, Stutter DEF vars
<1> QED
  BY <1>1, <1>2, <1>3, <1>4, <1>5, <1>6, <1>7, <1>8, <1>9, <1>10, <1>11, <1>12, <1>13
     DEF Request, AnswerSubscribe

\* Every step of the manager is a step of SessionLifecycle or leaves it where it is.
LEMMA StepRefines == RInv /\ [Next]_vars => [Lifecycle!Next]_(Lifecycle!vars)
<1> SUFFICES ASSUME RInv, [Next]_vars PROVE [Lifecycle!Next]_(Lifecycle!vars)
  OBVIOUS
<1>1. ASSUME NEW s \in Session, NEW p \in Participant, NEW c \in Conn, RegisterSession(s, p, c)
      PROVE  Lifecycle!Next
  BY <1>1, RegisterShows DEF Lifecycle!Next
<1>2. ASSUME NEW t \in Caller, MarkTerminating(t)
      PROVE  Lifecycle!Next \/ UNCHANGED Lifecycle!vars
  BY <1>2, MarkShows DEF Lifecycle!Next
<1>3. ASSUME NEW t \in Caller, NEW x \in Member \cup Subscriber, Tell(t, x) PROVE Lifecycle!Next
  BY <1>3, TellShows DEF Lifecycle!Next, Lifecycle!Member, Member
<1>4. ASSUME NEW t \in Caller, RemoveSession(t) PROVE Lifecycle!Next
  BY <1>4, RemoveShows DEF Lifecycle!Next
<1>5. ASSUME NEW e \in EventTask, DropAborted(e)
      PROVE  Lifecycle!Next \/ UNCHANGED Lifecycle!vars
  BY <1>5, DropShows DEF Lifecycle!Next
<1> QED
  BY <1>1, <1>2, <1>3, <1>4, <1>5, OthersShowNothing DEF Next, EventTaskStep, Terminate

\* The manager, with its tasks, locks, snapshots and aborts (src/signal/manager.rs), keeps what
\* SessionLifecycle promises: a session ends once, is told in one voice, and is over only
\* when everybody who was inside when it ended has been told.
THEOREM Refinement == Spec => ImplementsLifecycle
<1>1. Init => Lifecycle!Init
  BY AbstractInit
<1>2. RInv /\ [Next]_vars => [Lifecycle!Next]_(Lifecycle!vars)
  BY StepRefines
<1> QED
  BY <1>1, <1>2, RefinementInvariance, PTL DEF Spec, ImplementsLifecycle, Lifecycle!Spec
=============================================================================
