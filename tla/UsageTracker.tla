----------------------------- MODULE UsageTracker -----------------------------
(***************************************************************************)
(* The usage tracker (src/background/tracker.rs): one task that takes      *)
(* Start and Stop commands from a bounded channel and, at each tick,       *)
(* reports to Core the sessions whose last report is an interval old.  It  *)
(* warns their participants when the budget runs low and, when it is       *)
(* exhausted, says farewell, sleeps and terminates the session.            *)
(*                                                                         *)
(* Time is discrete.  It passes while the tracker waits: for a command or  *)
(* a tick, for the answer of Core, for room in a channel, for the end of   *)
(* its sleep, for terminate_session to return.  A ready branch of select!  *)
(* is taken before time passes, and an await other than the sleep takes    *)
(* at most MaxLatency.                                                     *)
(***************************************************************************)
EXTENDS Integers, Sequences, FiniteSets

CONSTANTS
  Session,
  NoSession,
  TickInterval,     \* USAGE_TICK_INTERVAL, 10 s
  ReportInterval,   \* REPORT_INTERVAL_SECS, 60 s
  FarewellWait,     \* WAIT_AFTER_FAREWELL, 7 s
  TwoMinWarning,    \* TWO_MIN_WARNING_THRESHOLD_SECS, 120 s
  StartCountdown,   \* START_COUNTDOWN_THRESHOLD_SECS, 30 s
  Answer,           \* what Core may answer: usage_remaining_seconds, budget_exhausted
  MaxLatency,       \* bound of one await on Core, a channel or terminate_session
  QueueCapacity,    \* of the command channel (100 in the code)
  MaxTime           \* bound of the clock

ASSUME TrackerAssumption ==
  /\ NoSession \notin Session
  /\ {TickInterval, ReportInterval, QueueCapacity} \subseteq Nat \ {0}
  /\ {FarewellWait, MaxLatency, MaxTime} \subseteq Nat
  /\ StartCountdown \in Nat /\ TwoMinWarning \in Nat
  /\ Answer \subseteq [remaining : Int, exhausted : BOOLEAN]

VARIABLES
  now,
  nextTick,         \* of usage_tick_interval; missed ticks are made up for in a burst
  commands,         \* the command channel
  asked,            \* what the connection handlers have sent for each session so far
  tracked,          \* the keys of tracked_sessions
  last,             \* last_reported_at
  warnedTwoMin,     \* the sessions with this flag set
  warnedCountdown,
  tracker,          \* where the task is: step, sessions still to report, current one
  since,            \* ghost: when the Start of a session was handled
  billed,           \* ghost: the seconds record_usage was called with
  warnings,         \* ghost: the UsageStatus events broadcast to the session
  timedOut          \* ghost: the sessions terminated for their budget

stateVars == <<tracked, last, warnedTwoMin, warnedCountdown>>
ghosts == <<since, billed, warnings, timedOut>>
vars == <<now, nextTick, commands, asked, stateVars, tracker, ghosts>>

Step == {"idle", "choosing", "recording", "warning", "farewell", "sleeping", "terminating"}
Task == [step : Step, todo : SUBSET Session, sid : Session \cup {NoSession},
         entered : Nat, ends : BOOLEAN]
Command == [kind : {"Start", "Stop"}, sid : Session]

TypeOK ==
  /\ now \in Nat
  /\ nextTick \in Nat
  /\ commands \in Seq(Command)
  /\ Len(commands) <= QueueCapacity
  /\ asked \in [Session -> {"nothing", "Start", "Stop"}]
  /\ tracked \subseteq Session
  /\ last \in [Session -> Nat]
  /\ warnedTwoMin \subseteq Session
  /\ warnedCountdown \subseteq Session
  /\ tracker \in Task
  /\ since \in [Session -> Nat]
  /\ billed \in [Session -> Nat]
  /\ warnings \in [Session -> Nat]
  /\ timedOut \subseteq Session

Init ==
  /\ now = 0
  /\ nextTick = 0
  /\ commands = <<>>
  /\ asked = [s \in Session |-> "nothing"]
  /\ tracked = {}
  /\ last = [s \in Session |-> 0]
  /\ warnedTwoMin = {}
  /\ warnedCountdown = {}
  /\ tracker = [step |-> "idle", todo |-> {}, sid |-> NoSession, entered |-> 0, ends |-> FALSE]
  /\ since = [s \in Session |-> 0]
  /\ billed = [s \in Session |-> 0]
  /\ warnings = [s \in Session |-> 0]
  /\ timedOut = {}

Goto(step) == tracker' = [tracker EXCEPT !.step = step, !.entered = now]

\* Loop over the sessions to report: the next one, or back to select!.
NextSession ==
  tracker' = [tracker EXCEPT !.step = "choosing", !.sid = NoSession, !.entered = 0, !.ends = FALSE]

-------------------------------------------------------------------------------
(* The connection handlers, see SignalServer: Start after a registration,  *)
(* Stop when the connection ends.                                          *)

SendStart(s) ==
  /\ asked[s] = "nothing"
  /\ Len(commands) < QueueCapacity
  /\ commands' = Append(commands, [kind |-> "Start", sid |-> s])
  /\ asked' = [asked EXCEPT ![s] = "Start"]
  /\ UNCHANGED <<now, nextTick, stateVars, tracker, ghosts>>

\* Mutant of SendStop: an unbounded channel.
SendStop_Unbounded(s) ==
  /\ asked[s] = "Start"
  /\ commands' = Append(commands, [kind |-> "Stop", sid |-> s])
  /\ asked' = [asked EXCEPT ![s] = "Stop"]
  /\ UNCHANGED <<now, nextTick, stateVars, tracker, ghosts>>

SendStop(s) ==
  /\ asked[s] = "Start"
  /\ Len(commands) < QueueCapacity
  /\ commands' = Append(commands, [kind |-> "Stop", sid |-> s])
  /\ asked' = [asked EXCEPT ![s] = "Stop"]
  /\ UNCHANGED <<now, nextTick, stateVars, tracker, ghosts>>

-------------------------------------------------------------------------------
(* The loop: commands and ticks.                                           *)

HandleStart(s) ==
  /\ tracked' = tracked \cup {s}
  /\ last' = [last EXCEPT ![s] = now]
  /\ warnedTwoMin' = warnedTwoMin \ {s}
  /\ warnedCountdown' = warnedCountdown \ {s}
  /\ since' = [since EXCEPT ![s] = now]

\* The entry of s leaves tracked_sessions.
Forget(s) ==
  /\ tracked' = tracked \ {s}
  /\ last' = [last EXCEPT ![s] = 0]
  /\ warnedTwoMin' = warnedTwoMin \ {s}
  /\ warnedCountdown' = warnedCountdown \ {s}

HandleStop(s) == Forget(s) /\ UNCHANGED since

\* Mutant of TakeCommand: commands are taken by a task of their own, while usage is processed.
TakeCommand_AnyTime ==
  /\ commands # <<>>
  /\ commands' = Tail(commands)
  /\ IF Head(commands).kind = "Start" THEN HandleStart(Head(commands).sid)
                                      ELSE HandleStop(Head(commands).sid)
  /\ UNCHANGED <<now, nextTick, asked, tracker, billed, warnings, timedOut>>

TakeCommand ==
  /\ tracker.step = "idle"
  /\ commands # <<>>
  /\ commands' = Tail(commands)
  /\ IF Head(commands).kind = "Start" THEN HandleStart(Head(commands).sid)
                                      ELSE HandleStop(Head(commands).sid)
  /\ UNCHANGED <<now, nextTick, asked, tracker, billed, warnings, timedOut>>

Due(s) == s \in tracked /\ now - last[s] >= ReportInterval

\* A tick: collect the sessions to report.
Tick ==
  /\ tracker.step = "idle"
  /\ now >= nextTick
  /\ nextTick' = nextTick + TickInterval
  /\ tracker' = [tracker EXCEPT !.step = "choosing", !.todo = {s \in tracked : Due(s)}]
  /\ UNCHANGED <<now, commands, asked, stateVars, ghosts>>

ProcessingDone ==
  /\ tracker.step = "choosing"
  /\ tracker.todo = {}
  /\ tracker' = [tracker EXCEPT !.step = "idle"]
  /\ UNCHANGED <<now, nextTick, commands, asked, stateVars, ghosts>>

-------------------------------------------------------------------------------
(* process_usage, one session at a time.                                   *)

\* record_usage is called with a whole interval, whatever time has passed.
Record(s) ==
  /\ tracker.step = "choosing"
  /\ s \in tracker.todo
  /\ tracker' = [tracker EXCEPT !.step = "recording", !.entered = now, !.sid = s,
                                !.todo = @ \ {s}]
  /\ billed' = [billed EXCEPT ![s] = @ + ReportInterval]
  /\ UNCHANGED <<now, nextTick, commands, asked, stateVars, since, warnings, timedOut>>

\* Mutants of RecordFails: the failed report is tried again at the next tick; and the error
\* ends the whole round, as `?` would.
RecordFails_Retries ==
  /\ tracker.step = "recording"
  /\ NextSession
  /\ UNCHANGED <<now, nextTick, commands, asked, stateVars, ghosts>>

RecordFails_EndsRound ==
  /\ tracker.step = "recording"
  /\ tracker' = [tracker EXCEPT !.step = "idle", !.sid = NoSession, !.entered = 0, !.todo = {}]
  /\ UNCHANGED <<now, nextTick, commands, asked, stateVars, ghosts>>

\* The call failed, or its answer was lost: the interval counts as reported all the same.
RecordFails ==
  /\ tracker.step = "recording"
  /\ last' = IF tracker.sid \in tracked THEN [last EXCEPT ![tracker.sid] = now] ELSE last
  /\ NextSession
  /\ UNCHANGED <<now, nextTick, commands, asked, tracked, warnedTwoMin, warnedCountdown, ghosts>>

LowOn(a, threshold) == a.remaining <= threshold
EndsBudget(a) == a.exhausted \/ a.remaining <= 0

\* Mutant of NoteAnswer: the first flag is toggled where it should be set.
NoteAnswer_Toggles(s, a) ==
  /\ last' = [last EXCEPT ![s] = now]
  /\ warnedTwoMin' = IF s \in warnedTwoMin THEN warnedTwoMin \ {s}
                     ELSE warnedTwoMin \cup {x \in {s} : LowOn(a, TwoMinWarning)}
  /\ warnedCountdown' = warnedCountdown \cup {x \in {s} : LowOn(a, StartCountdown)}

\* last_reported_at and the flags of s after the answer a.
NoteAnswer(s, a) ==
  /\ last' = [last EXCEPT ![s] = now]
  /\ warnedTwoMin' = warnedTwoMin \cup {x \in {s} : LowOn(a, TwoMinWarning)}
  /\ warnedCountdown' = warnedCountdown \cup {x \in {s} : LowOn(a, StartCountdown)}

NewlyLow(s, a) ==
  \/ LowOn(a, TwoMinWarning) /\ s \notin warnedTwoMin
  \/ LowOn(a, StartCountdown) /\ s \notin warnedCountdown

GoOn(ends) == IF ends THEN Goto("farewell") ELSE NextSession

\* Mutant of RecordAnswers: an exhausted budget is looked at first.
RecordAnswers_EndsFirst(a) ==
  /\ tracker.step = "recording" /\ tracker.sid \in tracked
  /\ NoteAnswer(tracker.sid, a)
  /\ IF NewlyLow(tracker.sid, a) /\ ~EndsBudget(a)
       THEN tracker' = [tracker EXCEPT !.step = "warning", !.entered = now, !.ends = FALSE]
       ELSE GoOn(EndsBudget(a))
  /\ UNCHANGED <<now, nextTick, commands, asked, tracked, ghosts>>

\* Core answered: note the report and each warning not given before, then warn, say
\* farewell or go on.  A session no longer tracked is skipped.
RecordAnswers(a) ==
  /\ tracker.step = "recording"
  /\ LET s == tracker.sid
     IN IF s \notin tracked
          THEN NextSession /\ UNCHANGED <<last, warnedTwoMin, warnedCountdown>>
          ELSE /\ NoteAnswer(s, a)
               /\ IF NewlyLow(s, a)
                    THEN tracker' = [tracker EXCEPT !.step = "warning", !.entered = now,
                                                    !.ends = EndsBudget(a)]
                    ELSE GoOn(EndsBudget(a))
  /\ UNCHANGED <<now, nextTick, commands, asked, tracked, ghosts>>

\* UsageStatus is broadcast to the participants; its failure changes nothing.
Warn ==
  /\ tracker.step = "warning"
  /\ warnings' = [warnings EXCEPT ![tracker.sid] = @ + 1]
  /\ GoOn(tracker.ends)
  /\ UNCHANGED <<now, nextTick, commands, asked, stateVars, since, billed, timedOut>>

\* FarewellRequested is broadcast to the system subscribers, then the task sleeps.
SayFarewell ==
  /\ tracker.step = "farewell"
  /\ Goto("sleeping")
  /\ UNCHANGED <<now, nextTick, commands, asked, stateVars, ghosts>>

\* Remove from tracking before terminating.
WakeUp ==
  /\ tracker.step = "sleeping"
  /\ now - tracker.entered >= FarewellWait
  /\ Forget(tracker.sid)
  /\ timedOut' = timedOut \cup {tracker.sid}
  /\ Goto("terminating")
  /\ UNCHANGED <<now, nextTick, commands, asked, since, billed, warnings>>

TerminateReturns ==
  /\ tracker.step = "terminating"
  /\ NextSession
  /\ UNCHANGED <<now, nextTick, commands, asked, stateVars, ghosts>>

-------------------------------------------------------------------------------
(* Time.                                                                   *)

MayWait ==
  \/ tracker.step = "idle" /\ commands = <<>> /\ now < nextTick
  \/ tracker.step = "sleeping" /\ now - tracker.entered < FarewellWait
  \/ /\ tracker.step \in {"recording", "warning", "farewell", "terminating"}
     /\ now - tracker.entered < MaxLatency

Advance ==
  /\ MayWait
  /\ now < MaxTime
  /\ now' = now + 1
  /\ UNCHANGED <<nextTick, commands, asked, stateVars, tracker, ghosts>>

Process ==
  \/ ProcessingDone
  \/ \E s \in Session : Record(s)
  \/ RecordFails
  \/ \E a \in Answer : RecordAnswers(a)
  \/ Warn \/ SayFarewell \/ WakeUp \/ TerminateReturns

Next ==
  \/ \E s \in Session : SendStart(s) \/ SendStop(s)
  \/ TakeCommand \/ Tick \/ Process
  \/ Advance

Spec == Init /\ [][Next]_vars

-------------------------------------------------------------------------------
(* Properties.                                                             *)

\* Never over-billed: the seconds reported to Core for a session, counting reports whose
\* answer was lost, are at most the seconds since its Start was handled.
NeverOverBilled == \A s \in Session : billed[s] <= now - since[s]

\* The sessions collected at a tick are still tracked, and still due, when their turn comes,
\* however long the ones before them take: nothing else runs in between.
SnapshotStaysFresh == \A s \in tracker.todo : Due(s)

\* A session terminated for its budget was warned at least once, even when its first
\* answer is the last (Core says exhausted only when nothing remains).
WarnedBeforeTimeout == \A s \in timedOut : warnings[s] >= 1

\* At most one event per threshold: two for a session, however often its remaining seconds
\* go up and down (other sessions share the invite code).
AtMostTwoWarnings == \A s \in Session : warnings[s] <= 2

\* How late a report can be: the interval, the wait for a tick, and what the other sessions
\* may take: a farewell, once for each of them, and twice the other awaits of their turn
\* (Core, two broadcasts, terminate_session), once because a session may fall due right
\* after the others were collected and once because they may come before it in its round.
ReportDelayBounded ==
  \A s \in tracked :
    tracker.sid # s =>
      now - last[s] <= ReportInterval + TickInterval
                         + (Cardinality(Session) - 1) * (FarewellWait + 8 * MaxLatency)
=============================================================================
