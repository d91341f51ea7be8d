-------------------------- MODULE UsageTracker_proofs --------------------------
(* Proofs about UsageTracker, for every value of its constants. *)
EXTENDS UsageTracker, SequenceTheorems, FiniteSetTheorems, TLAPS

-------------------------------------------------------------------------------
(* The inductive invariant.                                                *)

StartAt(i, s) == commands[i].kind = "Start" /\ commands[i].sid = s

\* While it is at a session, and only then, the task holds its id, and has taken it out of
\* the sessions still to report; those are due, and outside a round there are none.
RoundInv ==
  /\ tracker.step \in {"idle", "choosing"} <=> tracker.sid = NoSession
  /\ tracker.sid \notin tracker.todo
  /\ tracker.step = "idle" => tracker.todo = {}
  /\ tracker.step \in {"warning", "farewell", "sleeping"} => tracker.sid \in tracked
  /\ \A s \in tracker.todo : Due(s)

\* A session is started once.
StartInv ==
  /\ \A i, j \in DOMAIN commands : \A s \in Session : StartAt(i, s) /\ StartAt(j, s) => i = j
  /\ \A s \in Session : asked[s] = "nothing" => \A i \in DOMAIN commands : ~StartAt(i, s)

\* Its Start is still to come.
Unstarted(s) == asked[s] = "nothing" \/ \E i \in DOMAIN commands : StartAt(i, s)

\* Before its Start is handled, nothing has been done for a session.
Untouched(s) ==
  /\ s \notin tracked \cup warnedTwoMin \cup warnedCountdown \cup timedOut
  /\ billed[s] = 0 /\ warnings[s] = 0
  /\ tracker.sid # s

FreshInv == \A s \in Session : Unstarted(s) => Untouched(s)

\* Every interval billed was over when the report was made; the one being reported is not
\* noted yet.
Billed(s) ==
  /\ billed[s] <= now - since[s]
  /\ s \in tracked =>
       /\ since[s] <= last[s] /\ last[s] <= now
       /\ ~(tracker.step = "recording" /\ tracker.sid = s) => billed[s] <= last[s] - since[s]

BilledInv == \A s \in Session : Billed(s)

\* The flags of a tracked session count the warnings given and the one about to be given.
Flags(s) == (IF s \in warnedTwoMin THEN 1 ELSE 0) + (IF s \in warnedCountdown THEN 1 ELSE 0)
Pending(s) == IF tracker.step = "warning" /\ tracker.sid = s THEN 1 ELSE 0

Counted(s) ==
  /\ warnings[s] <= 2
  /\ s \in tracked => warnings[s] + Pending(s) <= Flags(s)

FlagsInv == \A s \in Session : Counted(s)

\* A set flag stands for a warning given or about to be given, and no session is said
\* farewell to, or terminated, without one.
Warned(s) ==
  /\ s \in tracked /\ s \in warnedTwoMin \cup warnedCountdown => warnings[s] + Pending(s) >= 1
  /\ tracker.step \in {"farewell", "sleeping"} /\ tracker.sid = s => warnings[s] >= 1
  /\ s \in timedOut => warnings[s] >= 1

WarnedInv == \A s \in Session : Warned(s)

IInv == TypeOK /\ RoundInv /\ StartInv /\ FreshInv /\ BilledInv /\ FlagsInv

\* Core says that a budget is exhausted only when nothing of it remains.
HonestCore == \A a \in Answer : a.exhausted => a.remaining <= 0

-------------------------------------------------------------------------------
(* The command channel.                                                    *)

\* What the commands are after a handler has sent c.
LEMMA SentCommand ==
  ASSUME commands \in Seq(Command), NEW c \in Command, commands' = Append(commands, c)
  PROVE  /\ commands' \in Seq(Command)
         /\ Len(commands') = Len(commands) + 1
         /\ DOMAIN commands' = DOMAIN commands \cup {Len(commands) + 1}
         /\ Len(commands) + 1 \notin DOMAIN commands
         /\ \A i \in DOMAIN commands : commands'[i] = commands[i]
         /\ commands'[Len(commands) + 1] = c
<1>. DOMAIN commands = 1 .. Len(commands) /\ Len(commands) \in Nat
  BY LenProperties
<1>. QED
  BY AppendProperties, LenProperties

\* What they are after the tracker has taken one.
LEMMA TakenCommand ==
  ASSUME commands \in Seq(Command), commands # <<>>, commands' = Tail(commands)
  PROVE  /\ commands' \in Seq(Command)
         /\ Len(commands') = Len(commands) - 1
         /\ Head(commands) \in Command
         /\ 1 \in DOMAIN commands /\ commands[1] = Head(commands)
         /\ \A i \in DOMAIN commands' : /\ i + 1 \in DOMAIN commands /\ i \in Nat \ {0}
                                        /\ commands'[i] = commands[i + 1]
         /\ \A i \in DOMAIN commands : i = 1 \/ i - 1 \in DOMAIN commands'
         /\ DOMAIN commands \subseteq Nat
<1>1. DOMAIN commands = 1 .. Len(commands) /\ Len(commands) \in Nat /\ Len(commands) # 0
  BY LenProperties, EmptySeq
<1>2. Tail(commands) \in Seq(Command) /\ Len(Tail(commands)) = Len(commands) - 1
  BY HeadTailProperties
<1>3. DOMAIN commands' = 1 .. (Len(commands) - 1)
  BY <1>1, <1>2, LenProperties
<1>4. \A i \in 1 .. Len(Tail(commands)) : Tail(commands)[i] = commands[i + 1]
  BY HeadTailProperties
<1>5. Head(commands) \in Command /\ Head(commands) = commands[1]
  BY HeadTailProperties, <1>1
<1>. QED
  BY <1>1, <1>2, <1>3, <1>4, <1>5

-------------------------------------------------------------------------------
(* Where the task is.                                                      *)

\* What a step that moves the task leaves in each field of its place.
LEMMA GotoFacts ==
  ASSUME tracker \in Task, now \in Nat, NEW st \in Step, Goto(st)
  PROVE  /\ tracker' \in Task
         /\ tracker'.step = st /\ tracker'.entered = now
         /\ tracker'.todo = tracker.todo /\ tracker'.sid = tracker.sid
  BY DEF Task, Goto

LEMMA NextSessionFacts ==
  ASSUME tracker \in Task, NextSession
  PROVE  /\ tracker' \in Task
         /\ tracker'.step = "choosing" /\ tracker'.sid = NoSession
         /\ tracker'.todo = tracker.todo
  BY DEF Task, NextSession, Step

LEMMA GoOnFacts ==
  ASSUME tracker \in Task, now \in Nat, NEW ends \in BOOLEAN, GoOn(ends)
  PROVE  /\ tracker' \in Task
         /\ tracker'.todo = tracker.todo
         /\ \/ /\ ends /\ tracker'.step = "farewell" /\ tracker'.sid = tracker.sid
               /\ tracker'.entered = now
            \/ ~ends /\ tracker'.step = "choosing" /\ tracker'.sid = NoSession
<1>1. "farewell" \in Step
  BY DEF Step
<1>. QED
  BY <1>1, GotoFacts, NextSessionFacts DEF GoOn

LEMMA TickFacts ==
  ASSUME tracker \in Task, tracked \subseteq Session, Tick
  PROVE  /\ tracker' \in Task
         /\ tracker.step = "idle" /\ tracker'.step = "choosing"
         /\ tracker'.todo = {s \in tracked : Due(s)} /\ tracker'.sid = tracker.sid
<1>. DEFINE due == {s \in tracked : Due(s)}
<1>1. due \in SUBSET Session
  OBVIOUS
<1>2. tracker' = [tracker EXCEPT !.step = "choosing", !.todo = due] /\ tracker.step = "idle"
  BY DEF Tick
<1>. HIDE DEF due
<1>3. /\ tracker' \in Task
      /\ tracker'.step = "choosing" /\ tracker'.todo = due /\ tracker'.sid = tracker.sid
  BY <1>1, <1>2 DEF Task, Step
<1>. QED
  BY <1>2, <1>3 DEF due

LEMMA ProcessingDoneFacts ==
  ASSUME tracker \in Task, ProcessingDone
  PROVE  /\ tracker' \in Task
         /\ tracker.step = "choosing" /\ tracker'.step = "idle"
         /\ tracker.todo = {} /\ tracker'.todo = {} /\ tracker'.sid = tracker.sid
  BY DEF Task, ProcessingDone, Step

LEMMA RecordFacts ==
  ASSUME tracker \in Task, now \in Nat, NEW s \in Session, Record(s)
  PROVE  /\ tracker' \in Task
         /\ tracker.step = "choosing" /\ tracker'.step = "recording"
         /\ s \in tracker.todo /\ tracker'.todo = tracker.todo \ {s}
         /\ tracker'.sid = s /\ tracker'.entered = now
  BY DEF Task, Record, Step

\* After an answer: a warning is next when one is due, else the farewell when the budget
\* ends, else the next session.
LEMMA AnswerFacts ==
  ASSUME tracker \in Task, now \in Nat, NEW a \in Answer, RecordAnswers(a)
  PROVE  /\ tracker' \in Task
         /\ tracker.step = "recording"
         /\ tracker'.todo = tracker.todo
         /\ \/ /\ tracker'.step = "choosing" /\ tracker'.sid = NoSession
               /\ tracker.sid \in tracked => ~NewlyLow(tracker.sid, a)
            \/ /\ tracker'.step = "warning" /\ tracker'.sid = tracker.sid
               /\ tracker.sid \in tracked
               /\ NewlyLow(tracker.sid, a) /\ tracker'.ends = EndsBudget(a)
               /\ tracker'.entered = now
            \/ /\ tracker'.step = "farewell" /\ tracker'.sid = tracker.sid
               /\ tracker.sid \in tracked
               /\ ~NewlyLow(tracker.sid, a) /\ EndsBudget(a)
               /\ tracker'.entered = now
<1>1. EndsBudget(a) \in BOOLEAN
  BY TrackerAssumption DEF EndsBudget
<1>2. CASE tracker.sid \notin tracked
  BY <1>2, NextSessionFacts DEF RecordAnswers
<1>3. CASE tracker.sid \in tracked /\ NewlyLow(tracker.sid, a)
  <2>. DEFINE ends == EndsBudget(a)
  <2>1. tracker' = [tracker EXCEPT !.step = "warning", !.entered = now, !.ends = ends]
    BY <1>3 DEF RecordAnswers
  <2>2. ends \in BOOLEAN
    BY <1>1
  <2>. HIDE DEF ends
  <2>3. /\ tracker' \in Task
        /\ tracker'.step = "warning" /\ tracker'.sid = tracker.sid
        /\ tracker'.todo = tracker.todo /\ tracker'.ends = ends
        /\ tracker'.entered = now
    BY <2>1, <2>2 DEF Task, Step
  <2>. QED
    BY <1>3, <2>3 DEF ends, RecordAnswers
<1>4. CASE tracker.sid \in tracked /\ ~NewlyLow(tracker.sid, a)
  <2>1. GoOn(EndsBudget(a)) /\ tracker.step = "recording"
    BY <1>4 DEF RecordAnswers
  <2>. QED
    BY <1>1, <1>4, <2>1, GoOnFacts
<1>. QED
  BY <1>2, <1>3, <1>4

-------------------------------------------------------------------------------
(* The steps.                                                              *)

LEMMA Constants ==
  /\ NoSession \notin Session
  /\ TickInterval \in Nat \ {0} /\ ReportInterval \in Nat \ {0} /\ QueueCapacity \in Nat \ {0}
  /\ FarewellWait \in Nat /\ MaxLatency \in Nat /\ MaxTime \in Nat
  /\ StartCountdown \in Nat /\ TwoMinWarning \in Nat
  /\ \A a \in Answer : a.remaining \in Int /\ a.exhausted \in BOOLEAN
  BY TrackerAssumption

LEMMA InitHolds == Init => IInv /\ WarnedInv
<1>. SUFFICES ASSUME Init PROVE IInv /\ WarnedInv
  OBVIOUS
<1>. USE Constants DEF Init
<1>1. commands \in Seq(Command) /\ DOMAIN commands = {} /\ Len(commands) = 0
  BY EmptySeq
<1>2. TypeOK
  BY <1>1 DEF TypeOK, Task, Step
<1>3. RoundInv
  BY DEF RoundInv
<1>4. StartInv
  BY <1>1 DEF StartInv
<1>5. FreshInv
  BY DEF FreshInv, Untouched
<1>6. BilledInv
  BY DEF BilledInv, Billed
<1>7. FlagsInv
  BY DEF FlagsInv, Counted
<1>8. WarnedInv
  BY DEF WarnedInv, Warned
<1>. QED
  BY <1>2, <1>3, <1>4, <1>5, <1>6, <1>7, <1>8 DEF IInv



\* No step leaves the types; the session a task wakes up for is one.
LEMMA TypeStep ==
  ASSUME TypeOK, RoundInv, [Next]_vars
  PROVE  TypeOK'
<1>. USE Constants DEF TypeOK, stateVars, ghosts
<1>1. ASSUME NEW s \in Session, SendStart(s) PROVE TypeOK'
  <2>1. [kind |-> "Start", sid |-> s] \in Command
    BY DEF Command
  <2>. QED
    BY <1>1, <2>1, SentCommand DEF SendStart
<1>2. ASSUME NEW s \in Session, SendStop(s) PROVE TypeOK'
  <2>1. [kind |-> "Stop", sid |-> s] \in Command
    BY DEF Command
  <2>. QED
    BY <1>2, <2>1, SentCommand DEF SendStop
<1>3. CASE TakeCommand
  <2>1. /\ Head(commands).sid \in Session
        /\ commands' \in Seq(Command) /\ Len(commands') = Len(commands) - 1
    BY <1>3, TakenCommand DEF TakeCommand, Command
  <2>2. Len(commands) \in Nat /\ Len(commands') <= QueueCapacity
    BY <2>1, LenProperties
  <2>3. PICK s \in Session : s = Head(commands).sid
    BY <2>1
  <2>4. HandleStart(s) \/ HandleStop(s)
    BY <1>3, <2>3 DEF TakeCommand
  <2>5. UNCHANGED <<now, nextTick, asked, tracker, billed, warnings, timedOut>>
    BY <1>3 DEF TakeCommand
  <2>6. CASE HandleStart(s)
    BY <2>1, <2>2, <2>5, <2>6 DEF HandleStart
  <2>7. CASE HandleStop(s)
    BY <2>1, <2>2, <2>5, <2>7 DEF HandleStop, Forget
  <2>. QED
    BY <2>4, <2>6, <2>7
<1>4. CASE Tick
  <2>1. tracker' \in Task
    BY <1>4, TickFacts
  <2>2. /\ nextTick' = nextTick + TickInterval
        /\ UNCHANGED <<now, commands, asked, stateVars, ghosts>>
    BY <1>4 DEF Tick
  <2>. QED
    BY <2>1, <2>2
<1>5. CASE ProcessingDone
  <2>1. tracker' \in Task
    BY <1>5, ProcessingDoneFacts
  <2>. QED
    BY <1>5, <2>1 DEF ProcessingDone
<1>6. ASSUME NEW s \in Session, Record(s) PROVE TypeOK'
  <2>1. tracker' \in Task
    BY <1>6, RecordFacts
  <2>2. /\ billed' = [billed EXCEPT ![s] = @ + ReportInterval]
        /\ UNCHANGED <<now, nextTick, commands, asked, stateVars, since, warnings, timedOut>>
    BY <1>6 DEF Record
  <2>. QED
    BY <2>1, <2>2
<1>7. CASE RecordFails
  BY <1>7, NextSessionFacts DEF RecordFails, NextSession
<1>8. ASSUME NEW a \in Answer, RecordAnswers(a) PROVE TypeOK'
  <2>1. tracker.sid \in Session
    BY <1>8, AnswerFacts DEF Task, RoundInv
  <2>2. tracker' \in Task
    BY <1>8, AnswerFacts
  <2>. QED
    BY <1>8, <2>1, <2>2 DEF RecordAnswers, NoteAnswer
<1>9. CASE Warn
  <2>1. tracker.ends \in BOOLEAN
    BY DEF Task
  <2>2. tracker' \in Task
    BY <1>9, <2>1, GoOnFacts DEF Warn
  <2>3. /\ warnings' = [warnings EXCEPT ![tracker.sid] = @ + 1]
        /\ UNCHANGED <<now, nextTick, commands, asked, stateVars, since, billed, timedOut>>
    BY <1>9 DEF Warn
  <2>4. tracker.sid \in Session
    BY <1>9 DEF Warn, RoundInv, Task
  <2>. QED
    BY <2>2, <2>3, <2>4
<1>10. CASE SayFarewell
  <2>1. "sleeping" \in Step
    BY DEF Step
  <2>. QED
    BY <1>10, <2>1, GotoFacts DEF SayFarewell
<1>11. CASE WakeUp
  <2>1. "terminating" \in Step /\ tracker.sid \in Session
    BY <1>11 DEF Step, WakeUp, RoundInv, Task
  <2>. QED
    BY <1>11, <2>1, GotoFacts DEF WakeUp, Forget
<1>12. CASE TerminateReturns
  BY <1>12, NextSessionFacts DEF TerminateReturns, NextSession
<1>13. CASE Advance
  BY <1>13 DEF Advance
<1>14. CASE UNCHANGED vars
  BY <1>14 DEF vars
<1>. QED
  BY <1>1, <1>2, <1>3, <1>4, <1>5, <1>6, <1>7, <1>8, <1>9, <1>10, <1>11, <1>12, <1>13, <1>14
  DEF Next, Process

\* The tracker takes a command between rounds only, and handles it there and then.
LEMMA TakeFacts ==
  ASSUME TypeOK, TakeCommand
  PROVE  /\ tracker.step = "idle" /\ commands # <<>> /\ commands' = Tail(commands)
         /\ UNCHANGED <<now, nextTick, asked, tracker, billed, warnings, timedOut>>
         /\ \E s \in Session : /\ commands[1].sid = s
                               /\ \/ HandleStart(s) /\ commands[1].kind = "Start"
                                  \/ HandleStop(s) /\ commands[1].kind # "Start"
<1>1. /\ tracker.step = "idle" /\ commands # <<>> /\ commands' = Tail(commands)
      /\ UNCHANGED <<now, nextTick, asked, tracker, billed, warnings, timedOut>>
  BY DEF TakeCommand
<1>2. Head(commands) \in Command /\ commands[1] = Head(commands)
  BY <1>1, TakenCommand DEF TypeOK
<1>3. PICK s \in Session : s = Head(commands).sid
  BY <1>2 DEF Command
<1>4. \/ HandleStart(s) /\ Head(commands).kind = "Start"
      \/ HandleStop(s) /\ Head(commands).kind # "Start"
  BY <1>3 DEF TakeCommand
<1>. QED
  BY <1>1, <1>2, <1>3, <1>4

\* The sessions collected stay due: only commands forget one, and none is taken in a round.
LEMMA RoundStep ==
  ASSUME TypeOK, RoundInv, TypeOK', [Next]_vars
  PROVE  RoundInv'
<1>. USE Constants DEF TypeOK, stateVars, RoundInv, Due, Task
<1>1. ASSUME NEW s \in Session, SendStart(s) PROVE RoundInv'
  BY <1>1 DEF SendStart
<1>2. ASSUME NEW s \in Session, SendStop(s) PROVE RoundInv'
  BY <1>2 DEF SendStop
<1>3. CASE TakeCommand
  <2>1. tracker.todo = {} /\ tracker.step = "idle" /\ UNCHANGED tracker
    BY <1>3, TakeFacts
  <2>. QED
    BY <2>1
<1>4. CASE Tick
  <2>1. UNCHANGED <<now, tracked, last>>
    BY <1>4 DEF Tick
  <2>. QED
    BY <1>4, <2>1, TickFacts
<1>5. CASE ProcessingDone
  BY <1>5, ProcessingDoneFacts
<1>6. ASSUME NEW s \in Session, Record(s) PROVE RoundInv'
  <2>1. UNCHANGED <<now, tracked, last>>
    BY <1>6 DEF Record
  <2>2. /\ tracker'.step = "recording" /\ tracker'.sid = s
        /\ s \in tracker.todo /\ tracker'.todo = tracker.todo \ {s}
    BY <1>6, RecordFacts
  <2>. QED
    BY <2>1, <2>2
<1>7. CASE RecordFails
  <2>1. /\ UNCHANGED <<now, tracked>>
        /\ \A s \in Session \ {tracker.sid} : last'[s] = last[s]
    BY <1>7 DEF RecordFails
  <2>2. NextSession
    BY <1>7 DEF RecordFails
  <2>. QED
    BY <2>1, <2>2, NextSessionFacts
<1>8. ASSUME NEW a \in Answer, RecordAnswers(a) PROVE RoundInv'
  <2>1. /\ UNCHANGED <<now, tracked>>
        /\ UNCHANGED last \/ NoteAnswer(tracker.sid, a)
    BY <1>8 DEF RecordAnswers
  <2>2. \A s \in Session \ {tracker.sid} : last'[s] = last[s]
    BY <2>1 DEF NoteAnswer
  <2>. QED
    BY <1>8, <2>1, <2>2, AnswerFacts
<1>9. CASE Warn
  <2>1. UNCHANGED <<now, tracked, last>> /\ GoOn(tracker.ends) /\ tracker.ends \in BOOLEAN
    BY <1>9 DEF Warn
  <2>. QED
    BY <1>9, <2>1, GoOnFacts DEF Warn
<1>10. CASE SayFarewell
  <2>1. UNCHANGED <<now, tracked, last>> /\ Goto("sleeping") /\ tracker.step = "farewell"
    BY <1>10 DEF SayFarewell
  <2>. QED
    BY <2>1, GotoFacts DEF Step
<1>11. CASE WakeUp
  <2>1. /\ UNCHANGED now /\ Goto("terminating") /\ tracker.step = "sleeping"
        /\ tracked' = tracked \ {tracker.sid}
        /\ \A s \in Session \ {tracker.sid} : last'[s] = last[s]
    BY <1>11 DEF WakeUp, Forget
  <2>. QED
    BY <2>1, GotoFacts DEF Step
<1>12. CASE TerminateReturns
  <2>1. UNCHANGED <<now, tracked, last>> /\ NextSession
    BY <1>12 DEF TerminateReturns
  <2>. QED
    BY <2>1, NextSessionFacts
<1>13. CASE Advance
  BY <1>13 DEF Advance
<1>14. CASE UNCHANGED vars
  BY <1>14 DEF vars
<1>. QED
  BY <1>1, <1>2, <1>3, <1>4, <1>5, <1>6, <1>7, <1>8, <1>9, <1>10, <1>11, <1>12, <1>13, <1>14
  DEF Next, Process

\* A Start is sent once, so that once it is handled none is to come.
LEMMA CommandStep ==
  ASSUME TypeOK, StartInv, [Next]_vars
  PROVE  StartInv' /\ \A s \in Session : Unstarted(s)' => Unstarted(s)
<1>1. ASSUME NEW s \in Session, SendStart(s)
      PROVE  StartInv' /\ \A x \in Session : Unstarted(x)' => Unstarted(x)
  <2>. DEFINE c == [kind |-> "Start", sid |-> s]
  <2>1. c \in Command /\ c.kind = "Start" /\ c.sid = s
    BY DEF Command
  <2>2. commands' = Append(commands, c)
    BY <1>1 DEF SendStart
  <2>. HIDE DEF c
  <2>3. /\ DOMAIN commands' = DOMAIN commands \cup {Len(commands) + 1}
        /\ Len(commands) + 1 \notin DOMAIN commands
        /\ \A i \in DOMAIN commands : commands'[i] = commands[i]
        /\ commands'[Len(commands) + 1] = c
    BY <2>1, <2>2, SentCommand DEF TypeOK
  <2>4. asked[s] = "nothing" /\ asked' = [asked EXCEPT ![s] = "Start"]
    BY <1>1 DEF SendStart
  <2>5. ASSUME NEW i \in DOMAIN commands', NEW x \in Session, StartAt(i, x)'
        PROVE  \/ i \in DOMAIN commands /\ StartAt(i, x)
               \/ i = Len(commands) + 1 /\ x = s
    BY <2>1, <2>3, <2>5 DEF StartAt
  <2>6. \A i \in DOMAIN commands : ~StartAt(i, s)
    BY <2>4 DEF StartInv
  <2>7. \A x \in Session : asked'[x] = "nothing" => asked[x] = "nothing" /\ x # s
    BY <2>4 DEF TypeOK
  <2>8. \A x \in Session : Unstarted(x)' => Unstarted(x)
    BY <2>4, <2>5, <2>7 DEF Unstarted
  <2>9. \A i, j \in DOMAIN commands' :
          \A x \in Session : StartAt(i, x)' /\ StartAt(j, x)' => i = j
    BY <2>5, <2>6 DEF StartInv
  <2>10. \A x \in Session :
           asked'[x] = "nothing" => \A i \in DOMAIN commands' : ~StartAt(i, x)'
    BY <2>5, <2>7 DEF StartInv
  <2>. QED
    BY <2>8, <2>9, <2>10 DEF StartInv
<1>2. ASSUME NEW s \in Session, SendStop(s)
      PROVE  StartInv' /\ \A x \in Session : Unstarted(x)' => Unstarted(x)
  <2>. DEFINE c == [kind |-> "Stop", sid |-> s]
  <2>1. c \in Command /\ c.kind # "Start"
    BY DEF Command
  <2>2. commands' = Append(commands, c)
    BY <1>2 DEF SendStop
  <2>. HIDE DEF c
  <2>3. /\ DOMAIN commands' = DOMAIN commands \cup {Len(commands) + 1}
        /\ Len(commands) + 1 \notin DOMAIN commands
        /\ \A i \in DOMAIN commands : commands'[i] = commands[i]
        /\ commands'[Len(commands) + 1] = c
    BY <2>1, <2>2, SentCommand DEF TypeOK
  <2>4. asked[s] = "Start" /\ asked' = [asked EXCEPT ![s] = "Stop"]
    BY <1>2 DEF SendStop
  <2>5. ASSUME NEW i \in DOMAIN commands', NEW x \in Session, StartAt(i, x)'
        PROVE  i \in DOMAIN commands /\ StartAt(i, x)
    BY <2>1, <2>3, <2>5 DEF StartAt
  <2>6. \A x \in Session : asked'[x] = "nothing" => asked[x] = "nothing"
    BY <2>4 DEF TypeOK
  <2>7. \A x \in Session : Unstarted(x)' => Unstarted(x)
    BY <2>5, <2>6 DEF Unstarted
  <2>8. StartInv'
    BY <2>5, <2>6 DEF StartInv
  <2>. QED
    BY <2>7, <2>8
<1>3. CASE TakeCommand
  <2>1. commands # <<>> /\ commands' = Tail(commands) /\ UNCHANGED asked
    BY <1>3, TakeFacts
  <2>2. \A i \in DOMAIN commands' : /\ i + 1 \in DOMAIN commands /\ i \in Nat \ {0}
                                    /\ commands'[i] = commands[i + 1]
    BY <2>1, TakenCommand DEF TypeOK
  <2>3. \A i \in DOMAIN commands' : \A x \in Session :
          StartAt(i, x)' => i + 1 \in DOMAIN commands /\ i \in Nat /\ StartAt(i + 1, x)
    BY <2>2 DEF StartAt
  <2>4. \A x \in Session : Unstarted(x)' => Unstarted(x)
    BY <2>1, <2>3 DEF Unstarted
  <2>5. StartInv'
    BY <2>1, <2>3 DEF StartInv
  <2>. QED
    BY <2>4, <2>5
<1>4. CASE UNCHANGED <<commands, asked>>
  BY <1>4 DEF StartInv, Unstarted, StartAt
<1>. QED
  BY <1>1, <1>2, <1>3, <1>4
  DEF Next, Process, Tick, ProcessingDone, Record, RecordFails, RecordAnswers, Warn, SayFarewell,
      WakeUp, TerminateReturns, Advance, vars

LEMMA StartFacts ==
  ASSUME TypeOK, StartInv, TakeCommand
  PROVE  \E s \in Session : \/ HandleStart(s) /\ Unstarted(s) /\ ~Unstarted(s)'
                            \/ HandleStop(s)
<1>1. commands # <<>> /\ commands' = Tail(commands) /\ UNCHANGED asked
  BY TakeFacts
<1>2. PICK s \in Session : /\ commands[1].sid = s
                           /\ \/ HandleStart(s) /\ commands[1].kind = "Start"
                              \/ HandleStop(s) /\ commands[1].kind # "Start"
  BY TakeFacts
<1>3. CASE HandleStart(s) /\ commands[1].kind = "Start"
  <2>1. /\ 1 \in DOMAIN commands
        /\ \A i \in DOMAIN commands' : /\ i + 1 \in DOMAIN commands /\ i \in Nat \ {0}
                                       /\ commands'[i] = commands[i + 1]
    BY <1>1, TakenCommand DEF TypeOK
  <2>2. StartAt(1, s)
    BY <1>2, <1>3 DEF StartAt
  <2>3. asked'[s] # "nothing"
    BY <1>1, <2>1, <2>2 DEF StartInv
  <2>4. ASSUME NEW i \in DOMAIN commands', StartAt(i, s)' PROVE FALSE
    <3>1. i + 1 \in DOMAIN commands /\ StartAt(i + 1, s) /\ i \in Nat \ {0}
      BY <2>1, <2>4 DEF StartAt
    <3>2. i + 1 = 1
      BY <2>1, <2>2, <3>1 DEF StartInv
    <3>. QED
      BY <3>1, <3>2
  <2>5. Unstarted(s) /\ ~Unstarted(s)'
    BY <2>1, <2>2, <2>3, <2>4 DEF Unstarted
  <2>. QED
    BY <1>3, <2>5
<1>. QED
  BY <1>2, <1>3

\* Until its Start is handled, no step touches a session: those to report are tracked.
LEMMA FreshStep ==
  ASSUME TypeOK, RoundInv, StartInv, FreshInv, [Next]_vars
  PROVE  FreshInv'
<1>. SUFFICES ASSUME NEW x \in Session, Unstarted(x)' PROVE Untouched(x)'
  BY DEF FreshInv
<1>0. Untouched(x) /\ x \notin tracker.todo
  BY CommandStep DEF FreshInv, RoundInv, Due, Untouched
<1>. USE <1>0, Constants DEF TypeOK, Untouched, stateVars, ghosts
<1>1. ASSUME NEW s \in Session, SendStart(s) PROVE Untouched(x)'
  BY <1>1 DEF SendStart
<1>2. ASSUME NEW s \in Session, SendStop(s) PROVE Untouched(x)'
  BY <1>2 DEF SendStop
<1>3. CASE TakeCommand
  <2>1. UNCHANGED <<tracker, billed, warnings, timedOut>>
    BY <1>3, TakeFacts
  <2>2. PICK s \in Session : (HandleStart(s) /\ ~Unstarted(s)') \/ HandleStop(s)
    BY <1>3, StartFacts
  <2>3. CASE HandleStart(s) /\ ~Unstarted(s)'
    <3>1. s # x
      BY <2>3
    <3>. QED
      BY <2>1, <2>3, <3>1 DEF HandleStart
  <2>4. CASE HandleStop(s)
    BY <2>1, <2>4 DEF HandleStop, Forget
  <2>. QED
    BY <2>2, <2>3, <2>4
<1>4. CASE Tick
  <2>1. UNCHANGED <<stateVars, ghosts>>
    BY <1>4 DEF Tick
  <2>. QED
    BY <1>4, <2>1, TickFacts
<1>5. CASE ProcessingDone
  <2>1. UNCHANGED <<stateVars, ghosts>>
    BY <1>5 DEF ProcessingDone
  <2>. QED
    BY <1>5, <2>1, ProcessingDoneFacts
<1>6. ASSUME NEW s \in Session, Record(s) PROVE Untouched(x)'
  <2>1. /\ UNCHANGED <<stateVars, warnings, timedOut>>
        /\ billed' = [billed EXCEPT ![s] = @ + ReportInterval]
    BY <1>6 DEF Record
  <2>2. tracker'.sid = s /\ s # x
    BY <1>6, RecordFacts
  <2>. QED
    BY <2>1, <2>2
<1>7. CASE RecordFails
  <2>1. UNCHANGED <<tracked, warnedTwoMin, warnedCountdown, ghosts>> /\ NextSession
    BY <1>7 DEF RecordFails
  <2>. QED
    BY <2>1, NextSessionFacts
<1>8. ASSUME NEW a \in Answer, RecordAnswers(a) PROVE Untouched(x)'
  <2>1. /\ UNCHANGED <<tracked, ghosts>>
        /\ \/ UNCHANGED <<warnedTwoMin, warnedCountdown>>
           \/ NoteAnswer(tracker.sid, a)
    BY <1>8 DEF RecordAnswers
  <2>2. x \notin warnedTwoMin' \cup warnedCountdown'
    BY <2>1 DEF NoteAnswer
  <2>. QED
    BY <1>8, <2>1, <2>2, AnswerFacts
<1>9. CASE Warn
  <2>1. /\ UNCHANGED <<stateVars, billed, timedOut>>
        /\ warnings' = [warnings EXCEPT ![tracker.sid] = @ + 1]
        /\ GoOn(tracker.ends) /\ tracker.ends \in BOOLEAN
    BY <1>9 DEF Warn, Task
  <2>2. tracker'.sid # x
    BY <2>1, GoOnFacts
  <2>. QED
    BY <2>1, <2>2
<1>10. CASE SayFarewell
  <2>1. UNCHANGED <<stateVars, ghosts>> /\ Goto("sleeping")
    BY <1>10 DEF SayFarewell
  <2>. QED
    BY <2>1, GotoFacts DEF Step
<1>11. CASE WakeUp
  <2>1. /\ UNCHANGED <<billed, warnings>> /\ Goto("terminating")
        /\ Forget(tracker.sid) /\ timedOut' = timedOut \cup {tracker.sid}
    BY <1>11 DEF WakeUp
  <2>2. tracker'.sid # x
    BY <2>1, GotoFacts DEF Step
  <2>. QED
    BY <2>1, <2>2 DEF Forget
<1>12. CASE TerminateReturns
  <2>1. UNCHANGED <<stateVars, ghosts>> /\ NextSession
    BY <1>12 DEF TerminateReturns
  <2>. QED
    BY <2>1, NextSessionFacts
<1>13. CASE Advance
  BY <1>13 DEF Advance
<1>14. CASE UNCHANGED vars
  BY <1>14 DEF vars
<1>. QED
  BY <1>1, <1>2, <1>3, <1>4, <1>5, <1>6, <1>7, <1>8, <1>9, <1>10, <1>11, <1>12, <1>13, <1>14
  DEF Next, Process

\* A report bills one interval, and is made when one has passed since the last; noted or
\* failed, the next interval begins when it ends.
LEMMA BilledStep ==
  ASSUME TypeOK, RoundInv, StartInv, FreshInv, BilledInv, [Next]_vars
  PROVE  BilledInv'
<1>. SUFFICES ASSUME NEW x \in Session PROVE Billed(x)'
  BY DEF BilledInv
<1>0. Billed(x)
  BY DEF BilledInv
<1>. USE <1>0, Constants DEF TypeOK, Billed, stateVars, ghosts
<1>1. ASSUME NEW s \in Session, SendStart(s) PROVE Billed(x)'
  BY <1>1 DEF SendStart
<1>2. ASSUME NEW s \in Session, SendStop(s) PROVE Billed(x)'
  BY <1>2 DEF SendStop
<1>3. CASE TakeCommand
  <2>1. UNCHANGED <<now, tracker, billed>> /\ tracker.step = "idle"
    BY <1>3, TakeFacts
  <2>2. PICK s \in Session : (HandleStart(s) /\ Unstarted(s)) \/ HandleStop(s)
    BY <1>3, StartFacts
  <2>3. CASE HandleStart(s) /\ Unstarted(s)
    <3>1. billed[s] = 0
      BY <2>3 DEF FreshInv, Untouched
    <3>2. CASE s = x
      BY <2>1, <2>3, <3>1, <3>2 DEF HandleStart
    <3>3. CASE s # x
      BY <2>1, <2>3, <3>3 DEF HandleStart
    <3>. QED
      BY <3>2, <3>3
  <2>4. CASE HandleStop(s)
    BY <2>1, <2>4 DEF HandleStop, Forget
  <2>. QED
    BY <2>2, <2>3, <2>4
<1>4. CASE Tick
  <2>1. UNCHANGED <<now, stateVars, ghosts>>
    BY <1>4 DEF Tick
  <2>. QED
    BY <1>4, <2>1, TickFacts
<1>5. CASE ProcessingDone
  <2>1. UNCHANGED <<now, stateVars, ghosts>>
    BY <1>5 DEF ProcessingDone
  <2>. QED
    BY <1>5, <2>1, ProcessingDoneFacts
<1>6. ASSUME NEW s \in Session, Record(s) PROVE Billed(x)'
  <2>1. /\ UNCHANGED <<now, stateVars, since>>
        /\ billed' = [billed EXCEPT ![s] = @ + ReportInterval]
    BY <1>6 DEF Record
  <2>2. /\ tracker'.sid = s /\ tracker'.step = "recording" /\ tracker.step = "choosing"
        /\ s \in tracked /\ now - last[s] >= ReportInterval
    BY <1>6, RecordFacts DEF RoundInv, Due
  <2>3. CASE s = x
    BY <2>1, <2>2, <2>3
  <2>4. CASE s # x
    BY <2>1, <2>2, <2>4
  <2>. QED
    BY <2>3, <2>4
<1>7. CASE RecordFails
  <2>1. /\ UNCHANGED <<now, tracked, ghosts>> /\ NextSession
        /\ last' = IF tracker.sid \in tracked THEN [last EXCEPT ![tracker.sid] = now] ELSE last
    BY <1>7 DEF RecordFails
  <2>2. tracker'.step = "choosing"
    BY <2>1, NextSessionFacts
  <2>. QED
    BY <2>1, <2>2
<1>8. ASSUME NEW a \in Answer, RecordAnswers(a) PROVE Billed(x)'
  <2>1. /\ UNCHANGED <<now, tracked, ghosts>>
        /\ last' = IF tracker.sid \in tracked THEN [last EXCEPT ![tracker.sid] = now] ELSE last
    BY <1>8 DEF RecordAnswers, NoteAnswer
  <2>2. tracker'.step # "recording"
    BY <1>8, AnswerFacts
  <2>. QED
    BY <2>1, <2>2
<1>9. CASE Warn
  <2>1. /\ UNCHANGED <<now, stateVars, billed, since>> /\ tracker.step = "warning"
        /\ GoOn(tracker.ends) /\ tracker.ends \in BOOLEAN
    BY <1>9 DEF Warn, Task
  <2>2. tracker'.step # "recording"
    BY <2>1, GoOnFacts
  <2>. QED
    BY <2>1, <2>2
<1>10. CASE SayFarewell
  <2>1. UNCHANGED <<now, stateVars, ghosts>> /\ Goto("sleeping") /\ tracker.step = "farewell"
    BY <1>10 DEF SayFarewell
  <2>. QED
    BY <2>1, GotoFacts DEF Step
<1>11. CASE WakeUp
  <2>1. /\ UNCHANGED <<now, billed, since>> /\ Goto("terminating")
        /\ Forget(tracker.sid) /\ tracker.step = "sleeping"
    BY <1>11 DEF WakeUp
  <2>2. tracker'.step = "terminating"
    BY <2>1, GotoFacts DEF Step
  <2>. QED
    BY <2>1, <2>2 DEF Forget
<1>12. CASE TerminateReturns
  <2>1. UNCHANGED <<now, stateVars, ghosts>> /\ NextSession /\ tracker.step = "terminating"
    BY <1>12 DEF TerminateReturns
  <2>. QED
    BY <2>1, NextSessionFacts
<1>13. CASE Advance
  BY <1>13 DEF Advance
<1>14. CASE UNCHANGED vars
  BY <1>14 DEF vars
<1>. QED
  BY <1>1, <1>2, <1>3, <1>4, <1>5, <1>6, <1>7, <1>8, <1>9, <1>10, <1>11, <1>12, <1>13, <1>14
  DEF Next, Process

\* A warning is given only when a flag is set that was not, and flags are not cleared while
\* the session is tracked.
LEMMA FlagsStep ==
  ASSUME TypeOK, RoundInv, StartInv, FreshInv, FlagsInv, [Next]_vars
  PROVE  FlagsInv'
<1>. SUFFICES ASSUME NEW x \in Session PROVE Counted(x)'
  BY DEF FlagsInv
<1>0. Counted(x)
  BY DEF FlagsInv
<1>. USE <1>0, Constants DEF TypeOK, Counted, Flags, Pending, stateVars, ghosts
<1>1. ASSUME NEW s \in Session, SendStart(s) PROVE Counted(x)'
  BY <1>1 DEF SendStart
<1>2. ASSUME NEW s \in Session, SendStop(s) PROVE Counted(x)'
  BY <1>2 DEF SendStop
<1>3. CASE TakeCommand
  <2>1. UNCHANGED <<tracker, warnings, timedOut>> /\ tracker.step = "idle"
    BY <1>3, TakeFacts
  <2>2. PICK s \in Session : (HandleStart(s) /\ Unstarted(s)) \/ HandleStop(s)
    BY <1>3, StartFacts
  <2>3. CASE HandleStart(s) /\ Unstarted(s)
    <3>1. warnings[s] = 0
      BY <2>3 DEF FreshInv, Untouched
    <3>2. CASE s = x
      BY <2>1, <2>3, <3>1, <3>2 DEF HandleStart
    <3>3. CASE s # x
      BY <2>1, <2>3, <3>3 DEF HandleStart
    <3>. QED
      BY <3>2, <3>3
  <2>4. CASE HandleStop(s)
    BY <2>1, <2>4 DEF HandleStop, Forget
  <2>. QED
    BY <2>2, <2>3, <2>4
<1>4. CASE Tick
  <2>1. UNCHANGED <<stateVars, ghosts>>
    BY <1>4 DEF Tick
  <2>. QED
    BY <1>4, <2>1, TickFacts
<1>5. CASE ProcessingDone
  <2>1. UNCHANGED <<stateVars, ghosts>>
    BY <1>5 DEF ProcessingDone
  <2>. QED
    BY <1>5, <2>1, ProcessingDoneFacts
<1>6. ASSUME NEW s \in Session, Record(s) PROVE Counted(x)'
  <2>1. UNCHANGED <<stateVars, warnings, timedOut>>
    BY <1>6 DEF Record
  <2>2. tracker.step = "choosing" /\ tracker'.step = "recording"
    BY <1>6, RecordFacts
  <2>. QED
    BY <2>1, <2>2
<1>7. CASE RecordFails
  <2>1. /\ UNCHANGED <<tracked, warnedTwoMin, warnedCountdown, ghosts>> /\ NextSession
        /\ tracker.step = "recording"
    BY <1>7 DEF RecordFails
  <2>2. tracker'.step = "choosing"
    BY <2>1, NextSessionFacts
  <2>. QED
    BY <2>1, <2>2
<1>8. ASSUME NEW a \in Answer, RecordAnswers(a) PROVE Counted(x)'
  <2>1. UNCHANGED <<tracked, ghosts>>
    BY <1>8 DEF RecordAnswers
  <2>2. CASE tracker.sid \notin tracked
    <3>1. UNCHANGED <<warnedTwoMin, warnedCountdown>>
      BY <1>8, <2>2 DEF RecordAnswers
    <3>2. tracker.step = "recording" /\ tracker'.step = "choosing"
      BY <1>8, <2>2, AnswerFacts
    <3>. QED
      BY <2>1, <3>1, <3>2
  <2>3. CASE tracker.sid \in tracked
    <3>1. NoteAnswer(tracker.sid, a)
      BY <1>8, <2>3 DEF RecordAnswers
    <3>2. /\ warnedTwoMin \subseteq warnedTwoMin' /\ warnedCountdown \subseteq warnedCountdown'
          /\ x \in warnedTwoMin' => x \in warnedTwoMin \/ x = tracker.sid
          /\ x \in warnedCountdown' => x \in warnedCountdown \/ x = tracker.sid
      BY <3>1 DEF NoteAnswer
    <3>3. CASE x # tracker.sid
      <4>1. tracker'.sid # x \/ tracker'.step = "choosing"
        BY <1>8, <3>3, AnswerFacts
      <4>2. tracker.step = "recording"
        BY <1>8, AnswerFacts
      <4>. QED
        BY <2>1, <3>2, <3>3, <4>1, <4>2
    <3>4. CASE x = tracker.sid /\ NewlyLow(x, a)
      <4>1. /\ \/ x \notin warnedTwoMin /\ x \in warnedTwoMin'
               \/ x \notin warnedCountdown /\ x \in warnedCountdown'
        BY <3>1, <3>4 DEF NoteAnswer, NewlyLow
      <4>2. tracker.step = "recording" /\ tracker'.step = "warning" /\ tracker'.sid = tracker.sid
        BY <1>8, <2>3, <3>4, AnswerFacts
      <4>. QED
        BY <2>1, <2>3, <3>2, <3>4, <4>1, <4>2
    <3>5. CASE x = tracker.sid /\ ~NewlyLow(x, a)
      <4>1. tracker.step = "recording" /\ tracker'.step # "warning"
        BY <1>8, <2>3, <3>5, AnswerFacts
      <4>. QED
        BY <2>1, <2>3, <3>2, <3>5, <4>1
    <3>. QED
      BY <3>3, <3>4, <3>5
  <2>. QED
    BY <2>2, <2>3
<1>9. CASE Warn
  <2>1. /\ UNCHANGED <<stateVars, timedOut>> /\ tracker.step = "warning"
        /\ warnings' = [warnings EXCEPT ![tracker.sid] = @ + 1]
        /\ GoOn(tracker.ends) /\ tracker.ends \in BOOLEAN
    BY <1>9 DEF Warn, Task
  <2>2. \/ tracker'.step = "farewell" /\ tracker'.sid = tracker.sid
        \/ tracker'.step = "choosing"
    BY <2>1, GoOnFacts
  <2>3. tracker.sid \in tracked
    BY <2>1 DEF RoundInv
  <2>4. CASE x = tracker.sid
    BY <2>1, <2>2, <2>3, <2>4
  <2>5. CASE x # tracker.sid
    BY <2>1, <2>2, <2>5
  <2>. QED
    BY <2>4, <2>5
<1>10. CASE SayFarewell
  <2>1. UNCHANGED <<stateVars, ghosts>> /\ Goto("sleeping") /\ tracker.step = "farewell"
    BY <1>10 DEF SayFarewell
  <2>2. tracker'.step = "sleeping" /\ tracker'.sid = tracker.sid
    BY <2>1, GotoFacts DEF Step
  <2>. QED
    BY <2>1, <2>2
<1>11. CASE WakeUp
  <2>1. /\ UNCHANGED warnings /\ Goto("terminating")
        /\ Forget(tracker.sid) /\ tracker.step = "sleeping"
        /\ timedOut' = timedOut \cup {tracker.sid}
    BY <1>11 DEF WakeUp
  <2>2. tracker'.step = "terminating"
    BY <2>1, GotoFacts DEF Step
  <2>. QED
    BY <2>1, <2>2 DEF Forget
<1>12. CASE TerminateReturns
  <2>1. UNCHANGED <<stateVars, ghosts>> /\ NextSession /\ tracker.step = "terminating"
    BY <1>12 DEF TerminateReturns
  <2>. QED
    BY <2>1, NextSessionFacts
<1>13. CASE Advance
  BY <1>13 DEF Advance
<1>14. CASE UNCHANGED vars
  BY <1>14 DEF vars
<1>. QED
  BY <1>1, <1>2, <1>3, <1>4, <1>5, <1>6, <1>7, <1>8, <1>9, <1>10, <1>11, <1>12, <1>13, <1>14
  DEF Next, Process

\* An exhausted budget is a low one: the answer that ends a session warns it, unless an
\* earlier one did.
LEMMA WarnedStep ==
  ASSUME HonestCore, TypeOK, RoundInv, StartInv, FreshInv, WarnedInv, [Next]_vars
  PROVE  WarnedInv'
<1>. SUFFICES ASSUME NEW x \in Session PROVE Warned(x)'
  BY DEF WarnedInv
<1>0. Warned(x)
  BY DEF WarnedInv
<1>. USE <1>0, Constants DEF TypeOK, Warned, Pending, stateVars, ghosts
<1>1. ASSUME NEW s \in Session, SendStart(s) PROVE Warned(x)'
  BY <1>1 DEF SendStart
<1>2. ASSUME NEW s \in Session, SendStop(s) PROVE Warned(x)'
  BY <1>2 DEF SendStop
<1>3. CASE TakeCommand
  <2>1. UNCHANGED <<tracker, warnings, timedOut>> /\ tracker.step = "idle"
    BY <1>3, TakeFacts
  <2>2. PICK s \in Session : (HandleStart(s) /\ Unstarted(s)) \/ HandleStop(s)
    BY <1>3, StartFacts
  <2>3. CASE HandleStart(s) /\ Unstarted(s)
    <3>1. warnings[s] = 0
      BY <2>3 DEF FreshInv, Untouched
    <3>2. CASE s = x
      BY <2>1, <2>3, <3>1, <3>2 DEF HandleStart
    <3>3. CASE s # x
      BY <2>1, <2>3, <3>3 DEF HandleStart
    <3>. QED
      BY <3>2, <3>3
  <2>4. CASE HandleStop(s)
    BY <2>1, <2>4 DEF HandleStop, Forget
  <2>. QED
    BY <2>2, <2>3, <2>4
<1>4. CASE Tick
  <2>1. UNCHANGED <<stateVars, ghosts>>
    BY <1>4 DEF Tick
  <2>. QED
    BY <1>4, <2>1, TickFacts
<1>5. CASE ProcessingDone
  <2>1. UNCHANGED <<stateVars, ghosts>>
    BY <1>5 DEF ProcessingDone
  <2>. QED
    BY <1>5, <2>1, ProcessingDoneFacts
<1>6. ASSUME NEW s \in Session, Record(s) PROVE Warned(x)'
  <2>1. UNCHANGED <<stateVars, warnings, timedOut>>
    BY <1>6 DEF Record
  <2>2. tracker.step = "choosing" /\ tracker'.step = "recording"
    BY <1>6, RecordFacts
  <2>. QED
    BY <2>1, <2>2
<1>7. CASE RecordFails
  <2>1. /\ UNCHANGED <<tracked, warnedTwoMin, warnedCountdown, ghosts>> /\ NextSession
        /\ tracker.step = "recording"
    BY <1>7 DEF RecordFails
  <2>2. tracker'.step = "choosing"
    BY <2>1, NextSessionFacts
  <2>. QED
    BY <2>1, <2>2
<1>8. ASSUME NEW a \in Answer, RecordAnswers(a) PROVE Warned(x)'
  <2>1. UNCHANGED <<tracked, ghosts>>
    BY <1>8 DEF RecordAnswers
  <2>2. CASE tracker.sid \notin tracked
    <3>1. UNCHANGED <<warnedTwoMin, warnedCountdown>>
      BY <1>8, <2>2 DEF RecordAnswers
    <3>2. tracker.step = "recording" /\ tracker'.step = "choosing"
      BY <1>8, <2>2, AnswerFacts
    <3>. QED
      BY <2>1, <3>1, <3>2
  <2>3. CASE tracker.sid \in tracked
    <3>1. NoteAnswer(tracker.sid, a)
      BY <1>8, <2>3 DEF RecordAnswers
    <3>2. /\ warnedTwoMin \subseteq warnedTwoMin' /\ warnedCountdown \subseteq warnedCountdown'
          /\ x \in warnedTwoMin' => x \in warnedTwoMin \/ x = tracker.sid
          /\ x \in warnedCountdown' => x \in warnedCountdown \/ x = tracker.sid
      BY <3>1 DEF NoteAnswer
    <3>3. CASE x # tracker.sid
      <4>1. tracker'.sid # x \/ tracker'.step = "choosing"
        BY <1>8, <3>3, AnswerFacts
      <4>2. tracker.step = "recording"
        BY <1>8, AnswerFacts
      <4>. QED
        BY <2>1, <3>2, <3>3, <4>1, <4>2
    <3>4. CASE x = tracker.sid /\ NewlyLow(x, a)
      <4>1. /\ \/ x \notin warnedTwoMin /\ x \in warnedTwoMin'
               \/ x \notin warnedCountdown /\ x \in warnedCountdown'
        BY <3>1, <3>4 DEF NoteAnswer, NewlyLow
      <4>2. tracker.step = "recording" /\ tracker'.step = "warning" /\ tracker'.sid = tracker.sid
        BY <1>8, <2>3, <3>4, AnswerFacts
      <4>. QED
        BY <2>1, <2>3, <3>2, <3>4, <4>1, <4>2
    <3>5. CASE x = tracker.sid /\ ~NewlyLow(x, a)
      <4>1. UNCHANGED <<warnedTwoMin, warnedCountdown>>
        BY <3>1, <3>5 DEF NoteAnswer, NewlyLow
      <4>2. /\ tracker.step = "recording"
            /\ tracker'.step \in {"choosing", "farewell"}
            /\ tracker'.step = "farewell" => EndsBudget(a)
        BY <1>8, <2>3, <3>5, AnswerFacts
      <4>3. EndsBudget(a) => LowOn(a, TwoMinWarning)
        BY DEF EndsBudget, LowOn, HonestCore
      <4>4. EndsBudget(a) => x \in warnedTwoMin
        BY <3>5, <4>3 DEF NewlyLow
      <4>. QED
        BY <2>1, <2>3, <3>5, <4>1, <4>2, <4>4
    <3>. QED
      BY <3>3, <3>4, <3>5
  <2>. QED
    BY <2>2, <2>3
<1>9. CASE Warn
  <2>1. /\ UNCHANGED <<stateVars, timedOut>> /\ tracker.step = "warning"
        /\ warnings' = [warnings EXCEPT ![tracker.sid] = @ + 1]
        /\ GoOn(tracker.ends) /\ tracker.ends \in BOOLEAN
    BY <1>9 DEF Warn, Task
  <2>2. \/ tracker'.step = "farewell" /\ tracker'.sid = tracker.sid
        \/ tracker'.step = "choosing"
    BY <2>1, GoOnFacts
  <2>3. tracker.sid \in tracked
    BY <2>1 DEF RoundInv
  <2>4. CASE x = tracker.sid
    BY <2>1, <2>2, <2>3, <2>4
  <2>5. CASE x # tracker.sid
    BY <2>1, <2>2, <2>5
  <2>. QED
    BY <2>4, <2>5
<1>10. CASE SayFarewell
  <2>1. UNCHANGED <<stateVars, ghosts>> /\ Goto("sleeping") /\ tracker.step = "farewell"
    BY <1>10 DEF SayFarewell
  <2>2. tracker'.step = "sleeping" /\ tracker'.sid = tracker.sid
    BY <2>1, GotoFacts DEF Step
  <2>. QED
    BY <2>1, <2>2
<1>11. CASE WakeUp
  <2>1. /\ UNCHANGED warnings /\ Goto("terminating")
        /\ Forget(tracker.sid) /\ tracker.step = "sleeping"
        /\ timedOut' = timedOut \cup {tracker.sid}
    BY <1>11 DEF WakeUp
  <2>2. tracker'.step = "terminating"
    BY <2>1, GotoFacts DEF Step
  <2>. QED
    BY <2>1, <2>2 DEF Forget
<1>12. CASE TerminateReturns
  <2>1. UNCHANGED <<stateVars, ghosts>> /\ NextSession /\ tracker.step = "terminating"
    BY <1>12 DEF TerminateReturns
  <2>. QED
    BY <2>1, NextSessionFacts
<1>13. CASE Advance
  BY <1>13 DEF Advance
<1>14. CASE UNCHANGED vars
  BY <1>14 DEF vars
<1>. QED
  BY <1>1, <1>2, <1>3, <1>4, <1>5, <1>6, <1>7, <1>8, <1>9, <1>10, <1>11, <1>12, <1>13, <1>14
  DEF Next, Process

-------------------------------------------------------------------------------
(* How late a report can be.                                               *)

\* One await takes no longer than an interval and a tick.  Else the warning that follows a
\* report would by itself make the next one late.
Swift == MaxLatency <= ReportInterval + TickInterval

Others == Cardinality(Session) - 1

\* What k turns may take but for the farewells, and what k farewells may.
Turns(k) == 4 * MaxLatency * k
Farewells(k) == FarewellWait * k

\* When the present await began, and what those before it in the same turn may have taken.
Clock == IF tracker.step \in {"idle", "choosing"} THEN now ELSE tracker.entered
Spent == CASE tracker.step = "warning" -> MaxLatency
           [] tracker.step = "farewell" -> 2 * MaxLatency
           [] tracker.step \in {"sleeping", "terminating"} -> 3 * MaxLatency
           [] OTHER -> 0

\* The sessions other than s that have no turn in this round or had theirs.
Passed(s) == Session \ ({s} \cup tracker.todo \cup {tracker.sid})

\* What may have passed since the last report of s: a round in which s was not due, the wait
\* for a tick, the part that is over of the round that collected s, and a farewell for each
\* session that was terminated.
Allowance(s) ==
  ReportInterval + TickInterval + (IF s \in tracker.todo THEN Turns(Others) ELSE 0)
    + Turns(Cardinality(Passed(s))) + Farewells(Cardinality(timedOut \ {s})) + Spent

Late(s) == Clock - last[s] <= Allowance(s)
LateInv == \A s \in tracked \ {tracker.sid} : Late(s)

\* The awaits are bounded, ticks are not put off, and a session whose budget ended is not
\* tracked again.
AwaitInv ==
  /\ tracker.step \in {"recording", "warning", "farewell", "terminating"} =>
       tracker.entered <= now /\ now - tracker.entered <= MaxLatency
  /\ tracker.step = "sleeping" => tracker.entered <= now /\ now - tracker.entered <= FarewellWait
  /\ nextTick <= now + TickInterval
  /\ \A s \in timedOut : s \notin tracked
  /\ tracker.step = "terminating" => tracker.sid \notin tracked
  /\ tracker.step = "warning" => last[tracker.sid] = tracker.entered

\* The tick that collects s comes in time.
TickInv ==
  \A s \in tracked : s \notin tracker.todo /\ ~(tracker.step = "recording" /\ tracker.sid = s) =>
    nextTick - last[s] <= ReportInterval + TickInterval

\* What is left of the task's place, of the reports and of the clock after each step.
LEMMA AwaitStep ==
  ASSUME TypeOK, TypeOK', RoundInv, StartInv, FreshInv, AwaitInv, [Next]_vars
  PROVE  AwaitInv'
<1>. USE Constants DEF TypeOK, AwaitInv, stateVars, ghosts
<1>0. tracker \in Task /\ tracker.entered \in Nat
  BY DEF Task
<1>1. ASSUME NEW s \in Session, SendStart(s) \/ SendStop(s) PROVE AwaitInv'
  BY <1>1 DEF SendStart, SendStop
<1>3. CASE TakeCommand
  <2>1. UNCHANGED <<now, nextTick, tracker, timedOut>> /\ tracker.step = "idle"
    BY <1>3, TakeFacts
  <2>2. PICK s \in Session : (HandleStart(s) /\ Unstarted(s)) \/ HandleStop(s)
    BY <1>3, StartFacts
  <2>3. CASE HandleStart(s) /\ Unstarted(s)
    <3>1. s \notin timedOut /\ tracked' = tracked \cup {s}
      BY <2>3 DEF FreshInv, Untouched, HandleStart
    <3>. QED
      BY <2>1, <3>1
  <2>4. CASE HandleStop(s)
    <3>1. tracked' \subseteq tracked
      BY <2>4 DEF HandleStop, Forget
    <3>. QED
      BY <2>1, <3>1
  <2>. QED
    BY <2>2, <2>3, <2>4
<1>4. CASE Tick
  <2>1. /\ now >= nextTick /\ nextTick' = nextTick + TickInterval
        /\ UNCHANGED <<now, tracked, last, timedOut>> /\ tracker'.step = "choosing"
    BY <1>4, TickFacts DEF Tick
  <2>. QED
    BY <2>1
<1>5. CASE ProcessingDone
  <2>1. UNCHANGED <<now, nextTick, tracked, last, timedOut>> /\ tracker'.step = "idle"
    BY <1>5, ProcessingDoneFacts DEF ProcessingDone
  <2>. QED
    BY <2>1
<1>6. ASSUME NEW s \in Session, Record(s) PROVE AwaitInv'
  <2>1. /\ UNCHANGED <<now, nextTick, tracked, last, timedOut>>
        /\ tracker'.step = "recording" /\ tracker'.entered = now
    BY <1>6, RecordFacts DEF Record
  <2>. QED
    BY <2>1
<1>7. CASE RecordFails
  <2>1. /\ UNCHANGED <<now, nextTick, tracked, timedOut>> /\ NextSession
    BY <1>7 DEF RecordFails
  <2>2. tracker'.step = "choosing"
    BY <2>1, NextSessionFacts
  <2>. QED
    BY <2>1, <2>2
<1>8. ASSUME NEW a \in Answer, RecordAnswers(a) PROVE AwaitInv'
  <2>1. UNCHANGED <<now, nextTick, tracked, timedOut>>
    BY <1>8 DEF RecordAnswers
  <2>2. /\ tracker'.step \in {"choosing", "warning", "farewell"}
        /\ tracker'.step # "choosing" => tracker'.entered = now
        /\ tracker'.step = "warning" => tracker'.sid = tracker.sid /\ tracker.sid \in tracked
    BY <1>8, AnswerFacts
  <2>3. tracker'.step = "warning" => last'[tracker.sid] = now
    BY <1>8, <2>2 DEF RecordAnswers, NoteAnswer
  <2>4. CASE tracker'.step = "warning"
    BY <2>1, <2>2, <2>3, <2>4
  <2>5. CASE tracker'.step \in {"choosing", "farewell"}
    BY <2>1, <2>2, <2>5
  <2>. QED
    BY <2>2, <2>4, <2>5
<1>9. CASE Warn
  <2>1. /\ UNCHANGED <<now, nextTick, tracked, last, timedOut>>
        /\ GoOn(tracker.ends) /\ tracker.ends \in BOOLEAN
    BY <1>9 DEF Warn, Task
  <2>2. /\ tracker'.step \in {"choosing", "farewell"}
        /\ tracker'.step # "choosing" => tracker'.entered = now
    BY <2>1, GoOnFacts
  <2>. QED
    BY <2>1, <2>2
<1>10. CASE SayFarewell
  <2>1. UNCHANGED <<now, nextTick, tracked, last, timedOut>> /\ Goto("sleeping")
    BY <1>10 DEF SayFarewell
  <2>2. tracker'.step = "sleeping" /\ tracker'.entered = now
    BY <2>1, GotoFacts DEF Step
  <2>. QED
    BY <2>1, <2>2
<1>11. CASE WakeUp
  <2>1. /\ UNCHANGED <<now, nextTick>> /\ Goto("terminating")
        /\ timedOut' = timedOut \cup {tracker.sid} /\ tracked' = tracked \ {tracker.sid}
    BY <1>11 DEF WakeUp, Forget
  <2>2. tracker'.step = "terminating" /\ tracker'.entered = now /\ tracker'.sid = tracker.sid
    BY <2>1, GotoFacts DEF Step
  <2>. QED
    BY <2>1, <2>2
<1>12. CASE TerminateReturns
  <2>1. UNCHANGED <<now, nextTick, tracked, last, timedOut>> /\ NextSession
    BY <1>12 DEF TerminateReturns
  <2>2. tracker'.step = "choosing"
    BY <2>1, NextSessionFacts
  <2>. QED
    BY <2>1, <2>2
<1>13. CASE Advance
  BY <1>0, <1>13 DEF Advance, MayWait
<1>14. CASE UNCHANGED vars
  BY <1>14 DEF vars
<1>. QED
  BY <1>1, <1>3, <1>4, <1>5, <1>6, <1>7, <1>8, <1>9, <1>10, <1>11, <1>12, <1>13, <1>14
  DEF Next, Process

\* A session is noted as reported now, or a tick that does not collect it finds it not due.
LEMMA TickStep ==
  ASSUME TypeOK, TypeOK', RoundInv, StartInv, AwaitInv, TickInv, [Next]_vars
  PROVE  TickInv'
<1>. SUFFICES ASSUME NEW x \in tracked', x \notin tracker'.todo,
                     ~(tracker'.step = "recording" /\ tracker'.sid = x)
              PROVE  nextTick' - last'[x] <= ReportInterval + TickInterval
  BY DEF TickInv
<1>0. /\ x \in tracked /\ x \notin tracker.todo /\ ~(tracker.step = "recording" /\ tracker.sid = x) =>
           nextTick - last[x] <= ReportInterval + TickInterval
      /\ nextTick <= now + TickInterval /\ nextTick \in Nat /\ now \in Nat
      /\ x \in Session /\ last[x] \in Nat
  BY DEF TickInv, AwaitInv, TypeOK
\* last_reported_at is now.
<1>15. ASSUME UNCHANGED <<now, nextTick>>, last'[x] = now
       PROVE  nextTick' - last'[x] <= ReportInterval + TickInterval
  BY <1>0, <1>15, Constants
<1>. USE Constants DEF TypeOK, stateVars, ghosts
<1>1. ASSUME NEW s \in Session, SendStart(s) \/ SendStop(s)
      PROVE  nextTick' - last'[x] <= ReportInterval + TickInterval
  BY <1>0, <1>1 DEF SendStart, SendStop
<1>3. CASE TakeCommand
  <2>1. UNCHANGED <<now, nextTick, tracker>> /\ tracker.step = "idle"
    BY <1>3, TakeFacts
  <2>2. PICK s \in Session : HandleStart(s) \/ HandleStop(s)
    BY <1>3, StartFacts
  <2>3. CASE HandleStart(s)
    BY <1>0, <1>15, <2>1, <2>3 DEF HandleStart
  <2>4. CASE HandleStop(s)
    BY <1>0, <2>1, <2>4 DEF HandleStop, Forget
  <2>. QED
    BY <2>2, <2>3, <2>4
<1>4. CASE Tick
  <2>1. /\ now >= nextTick /\ nextTick' = nextTick + TickInterval /\ UNCHANGED <<tracked, last>>
        /\ tracker'.todo = {s \in tracked : Due(s)}
    BY <1>4, TickFacts DEF Tick
  <2>2. ~(now - last[x] >= ReportInterval)
    BY <2>1 DEF Due
  <2>. QED
    BY <1>0, <2>1, <2>2
<1>5. CASE ProcessingDone
  <2>1. /\ UNCHANGED <<now, nextTick, tracked, last>>
        /\ tracker.step = "choosing" /\ tracker'.todo = tracker.todo
    BY <1>5, ProcessingDoneFacts DEF ProcessingDone
  <2>. QED
    BY <1>0, <2>1
<1>6. ASSUME NEW s \in Session, Record(s)
      PROVE  nextTick' - last'[x] <= ReportInterval + TickInterval
  <2>1. /\ UNCHANGED <<now, nextTick, tracked, last>>
        /\ tracker.step = "choosing" /\ tracker'.step = "recording"
        /\ tracker'.todo = tracker.todo \ {s} /\ tracker'.sid = s
    BY <1>6, RecordFacts DEF Record
  <2>. QED
    BY <1>0, <2>1
<1>7. CASE RecordFails
  <2>1. /\ UNCHANGED <<now, nextTick, tracked>> /\ NextSession
        /\ last' = IF tracker.sid \in tracked THEN [last EXCEPT ![tracker.sid] = now] ELSE last
    BY <1>7 DEF RecordFails
  <2>2. tracker'.todo = tracker.todo
    BY <2>1, NextSessionFacts
  <2>3. CASE x = tracker.sid
    BY <1>0, <1>15, <2>1, <2>3
  <2>4. CASE x # tracker.sid
    BY <1>0, <2>1, <2>2, <2>4
  <2>. QED
    BY <2>3, <2>4
<1>8. ASSUME NEW a \in Answer, RecordAnswers(a)
      PROVE  nextTick' - last'[x] <= ReportInterval + TickInterval
  <2>1. UNCHANGED <<now, nextTick, tracked>> /\ tracker'.todo = tracker.todo
    BY <1>8, AnswerFacts DEF RecordAnswers
  <2>2. last' = last \/ last' = [last EXCEPT ![tracker.sid] = now]
    BY <1>8 DEF RecordAnswers, NoteAnswer
  <2>3. x = tracker.sid => last'[x] = now
    BY <1>0, <1>8, <2>1 DEF RecordAnswers, NoteAnswer
  <2>4. CASE x = tracker.sid
    BY <1>15, <2>1, <2>3, <2>4
  <2>5. CASE x # tracker.sid
    BY <1>0, <2>1, <2>2, <2>5
  <2>. QED
    BY <2>4, <2>5
<1>9. CASE Warn
  <2>1. /\ UNCHANGED <<now, nextTick, tracked, last>> /\ tracker.step = "warning"
        /\ GoOn(tracker.ends) /\ tracker.ends \in BOOLEAN
    BY <1>9 DEF Warn, Task
  <2>2. tracker'.todo = tracker.todo
    BY <2>1, GoOnFacts
  <2>. QED
    BY <1>0, <2>1, <2>2
<1>10. CASE SayFarewell
  <2>1. /\ UNCHANGED <<now, nextTick, tracked, last>> /\ tracker.step = "farewell" /\ Goto("sleeping")
    BY <1>10 DEF SayFarewell
  <2>2. tracker'.todo = tracker.todo
    BY <2>1, GotoFacts DEF Step
  <2>. QED
    BY <1>0, <2>1, <2>2
<1>11. CASE WakeUp
  <2>1. /\ UNCHANGED <<now, nextTick>> /\ tracker.step = "sleeping" /\ Goto("terminating")
        /\ Forget(tracker.sid)
    BY <1>11 DEF WakeUp
  <2>2. tracker'.todo = tracker.todo
    BY <2>1, GotoFacts DEF Step
  <2>3. x \in tracked /\ x # tracker.sid /\ last'[x] = last[x]
    BY <1>0, <2>1 DEF Forget
  <2>. QED
    BY <1>0, <2>1, <2>2, <2>3
<1>12. CASE TerminateReturns
  <2>1. /\ UNCHANGED <<now, nextTick, tracked, last>> /\ tracker.step = "terminating" /\ NextSession
    BY <1>12 DEF TerminateReturns
  <2>2. tracker'.todo = tracker.todo
    BY <2>1, NextSessionFacts
  <2>. QED
    BY <1>0, <2>1, <2>2
<1>13. CASE Advance
  BY <1>0, <1>13 DEF Advance
<1>14. CASE UNCHANGED vars
  BY <1>0, <1>14 DEF vars
<1>. QED
  BY <1>1, <1>3, <1>4, <1>5, <1>6, <1>7, <1>8, <1>9, <1>10, <1>11, <1>12, <1>13, <1>14
  DEF Next, Process

\* Products of a bound and a count, without the provers having to multiply.
LEMMA Products ==
  /\ \A k \in Nat : Turns(k) \in Nat /\ Turns(k + 1) = Turns(k) + 4 * MaxLatency
  /\ \A k \in Nat : Farewells(k) \in Nat /\ Farewells(k + 1) = Farewells(k) + FarewellWait
  /\ \A j, k \in Nat : j <= k => Turns(j) <= Turns(k) /\ Farewells(j) <= Farewells(k)
<1>1. ASSUME NEW c \in Nat, NEW k \in Nat
      PROVE  c * k \in Nat /\ c * (k + 1) = c * k + c
  OBVIOUS
<1>2. ASSUME NEW c \in Nat, NEW j \in Nat, NEW k \in Nat, j <= k
      PROVE  c * j <= c * k
  <2>. DEFINE d == k - j
  <2>1. d \in Nat /\ k = j + d
    BY <1>2
  <2>. HIDE DEF d
  <2>2. c * (j + d) = c * j + c * d /\ c * d \in Nat /\ c * j \in Nat
    BY <2>1
  <2>. QED
    BY <2>1, <2>2
<1>3. FarewellWait \in Nat /\ 4 * MaxLatency \in Nat
  BY Constants
<1>. QED
  BY <1>1, <1>2, <1>3 DEF Turns, Farewells

\* The sets of sessions counted are finite, and smaller by the session they leave out.
LEMMA Counts ==
  ASSUME IsFiniteSet(Session), NEW s \in Session, NEW S \in SUBSET Session, s \notin S
  PROVE  /\ IsFiniteSet(S) /\ Cardinality(S) \in Nat /\ Cardinality(S) <= Others /\ Others \in Nat
         /\ \A o \in Session \ S : /\ Cardinality(S \cup {o}) = Cardinality(S) + 1
                                   /\ o # s => Cardinality(S) + 1 <= Others
<1>1. /\ IsFiniteSet(Session \ {s})
      /\ Cardinality(Session \ {s}) = Others
  BY FS_RemoveElement DEF Others
<1>2. Others \in Nat
  BY <1>1, FS_CardinalityType
<1>3. S \in SUBSET (Session \ {s})
  OBVIOUS
<1>4. IsFiniteSet(S) /\ Cardinality(S) <= Others /\ Cardinality(S) \in Nat
  BY <1>1, <1>3, FS_Subset, FS_CardinalityType
<1>5. ASSUME NEW o \in Session \ S
      PROVE  /\ Cardinality(S \cup {o}) = Cardinality(S) + 1
             /\ o # s => Cardinality(S) + 1 <= Others
  <2>1. IsFiniteSet(S \cup {o}) /\ Cardinality(S \cup {o}) = Cardinality(S) + 1
    BY <1>4, FS_AddElement
  <2>2. CASE o # s
    <3>1. (S \cup {o}) \in SUBSET (Session \ {s})
      BY <2>2
    <3>2. Cardinality(S \cup {o}) <= Others
      BY <1>1, <3>1, FS_Subset
    <3>. QED
      BY <2>1, <3>2
  <2>. QED
    BY <2>1, <2>2
<1>. QED
  BY <1>2, <1>4, <1>5

\* Every step keeps the allowance of a session: what passes while others have their turn is
\* what a turn may take, and a session is said farewell to once.
LEMMA LateStep ==
  ASSUME Swift, IsFiniteSet(Session), TypeOK, TypeOK', RoundInv, RoundInv', StartInv,
         AwaitInv, AwaitInv', TickInv, LateInv, [Next]_vars
  PROVE  LateInv'
<1>. SUFFICES ASSUME NEW x \in tracked', x # tracker'.sid
              PROVE  Clock' - last'[x] <= Allowance(x)'
  BY DEF LateInv, Late
<1>. DEFINE Collected == IF x \in tracker.todo THEN Turns(Others) ELSE 0
            P == Cardinality(Passed(x))
            E == Cardinality(timedOut \ {x})
            Goal == Clock' - last'[x] <= Allowance(x)'
            Before == x \in tracked /\ x # tracker.sid
            o == tracker.sid
<1>. SUFFICES Goal
  OBVIOUS
\* The terms.
<1>1. /\ x \in Session /\ now \in Nat /\ now' \in Nat /\ last[x] \in Nat /\ last'[x] \in Nat
      /\ tracker \in Task /\ tracker' \in Task
      /\ tracker.entered \in Nat /\ tracker'.entered \in Nat
      /\ timedOut \subseteq Session /\ timedOut' \subseteq Session
      /\ tracked \subseteq Session
      /\ tracker.todo \subseteq Session /\ tracker'.todo \subseteq Session
  BY DEF TypeOK, Task
<1>2. /\ P \in Nat /\ P <= Others /\ P' \in Nat /\ E \in Nat /\ E' \in Nat /\ E <= Others /\ Others \in Nat
  <2>1. /\ Passed(x) \in SUBSET Session /\ x \notin Passed(x)
        /\ Passed(x)' \in SUBSET Session /\ x \notin Passed(x)'
    BY DEF Passed
  <2>2. /\ timedOut \ {x} \in SUBSET Session /\ x \notin timedOut \ {x}
        /\ timedOut' \ {x} \in SUBSET Session /\ x \notin timedOut' \ {x}
    BY <1>1
  <2>3. P \in Nat /\ P <= Others /\ Others \in Nat
    BY <1>1, <2>1, Counts
  <2>4. Cardinality(Passed(x)') \in Nat
    BY <1>1, <2>1, Counts
  <2>5. E \in Nat /\ E <= Others
    BY <1>1, <2>2, Counts
  <2>6. Cardinality(timedOut' \ {x}) \in Nat
    BY <1>1, <2>2, Counts
  <2>. QED
    BY <2>3, <2>4, <2>5, <2>6
<1>3. /\ Allowance(x) = ReportInterval + TickInterval + Collected + Turns(P) + Farewells(E) + Spent
      /\ Allowance(x)' = ReportInterval + TickInterval + Collected' + Turns(P)' + Farewells(E)' + Spent'
  BY DEF Allowance
<1>4. Collected \in Nat /\ Collected' \in Nat /\ (tracker'.todo = tracker.todo => Collected' = Collected)
  <2>1. Turns(Others) \in Nat
    BY <1>2, Products
  <2>2. Collected' = IF x \in tracker'.todo THEN Turns(Others) ELSE 0
    BY DEF Turns, Others
  <2>. QED
    BY <2>1, <2>2
<1>5. /\ Turns(P) \in Nat /\ Turns(P') \in Nat /\ Farewells(E) \in Nat /\ Farewells(E') \in Nat
      /\ Turns(P)' = Turns(P') /\ Farewells(E)' = Farewells(E')
      /\ Turns(P + 1) = Turns(P) + 4 * MaxLatency
      /\ Farewells(E + 1) = Farewells(E) + FarewellWait
      /\ Turns(P) <= Turns(Others)
      /\ Spent \in Nat /\ Spent' \in Nat
  <2>1. Turns(P)' = Turns(P') /\ Farewells(E)' = Farewells(E')
    BY DEF Turns, Farewells
  <2>2. Spent \in Nat /\ Spent' \in Nat
    BY Constants DEF Spent
  <2>. QED
    BY <1>2, <2>1, <2>2, Products
<1>6. tracker'.todo = tracker.todo /\ tracker'.sid = tracker.sid => P' = P
  BY DEF Passed
<1>7. timedOut' = timedOut => E' = E
  OBVIOUS
<1>8. Before => Clock - last[x] <= Allowance(x)
  BY DEF LateInv, Late
<1>. HIDE DEF Collected, P, E, Goal
<1>. USE Constants
\* The report of x is noted now.
<1>10. ASSUME last'[x] = now, Clock' = now PROVE Goal
  BY <1>1, <1>3, <1>4, <1>5, <1>10 DEF Goal
\* No time passes, and no turn begins, goes on or ends.
<1>11. ASSUME Before, Clock' = Clock, last'[x] = last[x], Spent' = Spent, P' = P, E' = E,
              Collected' = Collected
       PROVE  Goal
  BY <1>1, <1>3, <1>5, <1>8, <1>11 DEF Goal
\* Another session's turn goes on to its next await.
<1>12. ASSUME Before, tracker'.todo = tracker.todo, tracker'.sid = tracker.sid,
              UNCHANGED <<now, timedOut>>, last'[x] = last[x],
              tracker.step \in {"recording", "warning", "farewell"},
              \/ tracker'.step = "warning" /\ tracker.step = "recording"
              \/ tracker'.step = "farewell" /\ tracker.step \in {"recording", "warning"}
              \/ tracker'.step = "sleeping" /\ tracker.step = "farewell",
              tracker'.entered = now
       PROVE  Goal
  <2>1. now - tracker.entered <= MaxLatency
    BY <1>12 DEF AwaitInv
  <2>2. Clock = tracker.entered /\ Clock' = now
    BY <1>12 DEF Clock
  <2>3. Spent + MaxLatency <= Spent'
    BY <1>12 DEF Spent
  <2>4. P' = P /\ E' = E /\ Collected' = Collected
    BY <1>4, <1>6, <1>7, <1>12
  <2>. QED
    BY <1>1, <1>3, <1>4, <1>5, <1>8, <1>12, <2>1, <2>2, <2>3, <2>4 DEF Goal
\* It is over.
<1>13. ASSUME Before, tracker'.todo = tracker.todo, tracker'.sid = NoSession,
              tracker'.step = "choosing", tracker.step \in {"recording", "warning", "terminating"},
              UNCHANGED <<now, timedOut>>, last'[x] = last[x]
       PROVE  Goal
  <2>1. now - tracker.entered <= MaxLatency
    BY <1>13 DEF AwaitInv
  <2>2. Clock = tracker.entered /\ Clock' = now
    BY <1>13 DEF Clock
  <2>3. Spent <= 3 * MaxLatency /\ Spent' = 0
    BY <1>13 DEF Spent
  <2>4. o \in Session /\ o \notin tracker.todo /\ o # x
    BY <1>1, <1>13 DEF RoundInv, Task
  <2>5. Passed(x)' = Passed(x) \cup {o} /\ o \in Session \ Passed(x)
    BY <1>1, <1>13, <2>4 DEF Passed
  <2>6. Passed(x) \in SUBSET Session /\ x \notin Passed(x)
    BY DEF Passed
  <2>7. Cardinality(Passed(x) \cup {o}) = Cardinality(Passed(x)) + 1
    BY <1>1, <2>5, <2>6, Counts
  <2>8. P' = P + 1
    BY <2>5, <2>7 DEF P
  <2>9. E' = E /\ Collected' = Collected
    BY <1>4, <1>7, <1>13
  <2>. QED
    BY <1>1, <1>3, <1>4, <1>5, <1>8, <1>13, <2>1, <2>2, <2>3, <2>8, <2>9 DEF Goal
<1>. USE DEF stateVars, ghosts
<1>21. ASSUME NEW s \in Session, SendStart(s) \/ SendStop(s) PROVE Goal
  <2>1. UNCHANGED <<now, tracker, tracked, last, timedOut>>
    BY <1>21 DEF SendStart, SendStop
  <2>. QED
    BY <1>4, <1>6, <1>7, <1>11, <2>1 DEF Clock, Spent
<1>23. CASE TakeCommand
  <2>1. UNCHANGED <<now, tracker, timedOut>> /\ tracker.step = "idle"
    BY <1>23, TakeFacts
  <2>2. PICK s \in Session : HandleStart(s) \/ HandleStop(s)
    BY <1>23, StartFacts
  <2>3. Clock' = now /\ Clock' = Clock /\ Spent' = Spent /\ P' = P /\ E' = E /\ Collected' = Collected
    BY <1>4, <1>6, <1>7, <2>1 DEF Clock, Spent
  <2>4. CASE HandleStart(s) /\ s = x
    <3>1. last'[x] = now
      BY <1>1, <2>4 DEF HandleStart, TypeOK
    <3>. QED
      BY <1>10, <2>3, <3>1
  <2>5. CASE s # x \/ HandleStop(s)
    <3>1. x \in tracked /\ last'[x] = last[x]
      BY <1>1, <2>2, <2>5 DEF HandleStart, HandleStop, Forget, TypeOK
    <3>. QED
      BY <1>11, <2>1, <2>3, <3>1
  <2>. QED
    BY <2>2, <2>4, <2>5
<1>24. CASE Tick
  <2>1. /\ UNCHANGED <<now, tracked, last, timedOut>>
        /\ tracker.step = "idle" /\ tracker'.step = "choosing"
        /\ tracker'.todo = {s \in tracked : Due(s)} /\ tracker'.sid = tracker.sid
    BY <1>24, TickFacts DEF Tick, TypeOK
  <2>2. tracker.todo = {} /\ Before /\ E' = E
    BY <1>7, <2>1 DEF RoundInv
  <2>3. Clock = now /\ Clock' = now /\ Spent = 0 /\ Spent' = 0
    BY <2>1 DEF Clock, Spent
  <2>4. CASE Due(x)
    <3>1. Collected = 0 /\ Collected' = Turns(Others)
      <4>1. x \in tracker'.todo /\ x \notin tracker.todo
        BY <2>1, <2>2, <2>4
      <4>. QED
        BY <4>1 DEF Collected, Turns, Others
    <3>. QED
      BY <1>1, <1>2, <1>3, <1>4, <1>5, <1>8, <2>1, <2>2, <2>3, <3>1 DEF Goal
  <2>5. CASE ~Due(x)
    <3>1. now - last[x] <= ReportInterval
      BY <1>1, <2>1, <2>5 DEF Due
    <3>. QED
      BY <1>1, <1>3, <1>4, <1>5, <2>1, <2>3, <3>1 DEF Goal
  <2>. QED
    BY <2>4, <2>5
<1>25. CASE ProcessingDone
  <2>1. /\ UNCHANGED <<now, tracked, last, timedOut>>
        /\ tracker.step = "choosing" /\ tracker'.step = "idle"
        /\ tracker'.todo = tracker.todo /\ tracker'.sid = tracker.sid
    BY <1>1, <1>25, ProcessingDoneFacts DEF ProcessingDone
  <2>2. Clock' = Clock /\ Spent' = Spent
    BY <2>1 DEF Clock, Spent
  <2>. QED
    BY <1>4, <1>6, <1>7, <1>11, <2>1, <2>2
<1>26. ASSUME NEW s \in Session, Record(s) PROVE Goal
  <2>1. /\ UNCHANGED <<now, tracked, last, timedOut>>
        /\ tracker.step = "choosing" /\ tracker'.step = "recording"
        /\ s \in tracker.todo /\ tracker'.todo = tracker.todo \ {s}
        /\ tracker'.sid = s /\ tracker'.entered = now
    BY <1>1, <1>26, RecordFacts DEF Record
  <2>2. tracker.sid = NoSession /\ x # s
    BY <2>1 DEF RoundInv
  <2>3. Clock' = Clock /\ Spent' = Spent
    BY <2>1 DEF Clock, Spent
  <2>4. Passed(x)' = Passed(x)
    BY <1>1, <2>1, <2>2 DEF Passed
  <2>5. P' = P
    BY <2>4 DEF P
  <2>6. Collected' = Collected
    <3>1. x \in tracker'.todo <=> x \in tracker.todo
      BY <2>1, <2>2
    <3>. QED
      BY <3>1 DEF Collected, Turns, Others
  <2>. QED
    BY <1>1, <1>7, <1>11, <2>1, <2>2, <2>3, <2>5, <2>6
<1>27. CASE RecordFails
  <2>1. /\ UNCHANGED <<now, tracked, timedOut>> /\ NextSession /\ tracker.step = "recording"
        /\ last' = IF tracker.sid \in tracked THEN [last EXCEPT ![tracker.sid] = now] ELSE last
    BY <1>27 DEF RecordFails
  <2>2. tracker'.step = "choosing" /\ tracker'.sid = NoSession /\ tracker'.todo = tracker.todo
    BY <1>1, <2>1, NextSessionFacts
  <2>3. CASE x = o
    <3>1. last'[x] = now /\ Clock' = now
      BY <1>1, <2>1, <2>2, <2>3 DEF TypeOK, Clock
    <3>. QED
      BY <1>10, <3>1
  <2>4. CASE x # o
    <3>1. last'[x] = last[x] /\ x \in tracked
      BY <1>1, <2>1, <2>4 DEF TypeOK
    <3>. QED
      BY <1>13, <2>1, <2>2, <2>4, <3>1
  <2>. QED
    BY <2>3, <2>4
<1>28. ASSUME NEW a \in Answer, RecordAnswers(a) PROVE Goal
  <2>1. /\ UNCHANGED <<now, tracked, timedOut>> /\ tracker.step = "recording"
        /\ last' = last \/ last' = [last EXCEPT ![o] = now]
        /\ o \in tracked => last' = [last EXCEPT ![o] = now]
    BY <1>28 DEF RecordAnswers, NoteAnswer
  <2>2. /\ tracker'.todo = tracker.todo
        /\ \/ tracker'.step = "choosing" /\ tracker'.sid = NoSession
           \/ tracker'.step \in {"warning", "farewell"} /\ tracker'.sid = o /\ tracker'.entered = now
    BY <1>1, <1>28, AnswerFacts
  <2>3. CASE x = o
    <3>1. last'[x] = now /\ Clock' = now
      BY <1>1, <2>1, <2>2, <2>3 DEF TypeOK, Clock
    <3>. QED
      BY <1>10, <3>1
  <2>4. CASE x # o
    <3>1. last'[x] = last[x] /\ x \in tracked
      BY <1>1, <2>1, <2>4 DEF TypeOK
    <3>. QED
      BY <1>12, <1>13, <2>1, <2>2, <2>4, <3>1
  <2>. QED
    BY <2>3, <2>4
<1>29. CASE Warn
  <2>1. /\ UNCHANGED <<now, tracked, last, timedOut>> /\ tracker.step = "warning"
        /\ GoOn(tracker.ends) /\ tracker.ends \in BOOLEAN
    BY <1>1, <1>29 DEF Warn, Task
  <2>2. /\ tracker'.todo = tracker.todo
        /\ \/ tracker'.step = "choosing" /\ tracker'.sid = NoSession
           \/ tracker'.step = "farewell" /\ tracker'.sid = o /\ tracker'.entered = now
    BY <1>1, <2>1, GoOnFacts
  <2>3. CASE x # o
    BY <1>12, <1>13, <2>1, <2>2, <2>3
  <2>4. CASE x = o
    <3>1. last[x] = tracker.entered /\ now - tracker.entered <= MaxLatency
      BY <2>1, <2>4 DEF AwaitInv
    <3>2. Clock' = now
      BY <2>1, <2>2 DEF Clock
    <3>. QED
      BY <1>1, <1>3, <1>4, <1>5, <2>1, <3>1, <3>2 DEF Goal, Swift
  <2>. QED
    BY <2>3, <2>4
<1>30. CASE SayFarewell
  <2>1. UNCHANGED <<now, tracked, last, timedOut>> /\ tracker.step = "farewell" /\ Goto("sleeping")
    BY <1>30 DEF SayFarewell
  <2>2. /\ tracker'.step = "sleeping" /\ tracker'.entered = now
        /\ tracker'.todo = tracker.todo /\ tracker'.sid = tracker.sid
    BY <1>1, <2>1, GotoFacts DEF Step
  <2>. QED
    BY <1>12, <2>1, <2>2
<1>31. CASE WakeUp
  <2>1. /\ UNCHANGED now /\ tracker.step = "sleeping" /\ Goto("terminating") /\ Forget(o)
        /\ timedOut' = timedOut \cup {o}
    BY <1>31 DEF WakeUp
  <2>2. /\ tracker'.step = "terminating" /\ tracker'.entered = now
        /\ tracker'.todo = tracker.todo /\ tracker'.sid = o
    BY <1>1, <2>1, GotoFacts DEF Step
  <2>3. Before /\ last'[x] = last[x]
    BY <1>1, <2>1, <2>2 DEF Forget, TypeOK
  <2>4. now - tracker.entered <= FarewellWait
    BY <2>1 DEF AwaitInv
  <2>5. Clock = tracker.entered /\ Clock' = now /\ Spent' = Spent
    BY <2>1, <2>2 DEF Clock, Spent
  <2>6. o \in tracked /\ o \in Session /\ o \notin timedOut \ {x}
    BY <1>1, <2>1 DEF RoundInv, AwaitInv
  <2>7. Cardinality((timedOut \ {x}) \cup {o}) = Cardinality(timedOut \ {x}) + 1
    <3>1. timedOut \ {x} \in SUBSET Session /\ x \notin timedOut \ {x}
      BY <1>1
    <3>. QED
      BY <1>1, <2>6, <3>1, Counts
  <2>8. timedOut' \ {x} = (timedOut \ {x}) \cup {o}
    BY <2>1, <2>3
  <2>9. E' = E + 1
    BY <2>7, <2>8 DEF E
  <2>10. P' = P /\ Collected' = Collected
    BY <1>4, <1>6, <2>2
  <2>. QED
    BY <1>1, <1>3, <1>4, <1>5, <1>8, <2>1, <2>3, <2>4, <2>5, <2>9, <2>10 DEF Goal
<1>32. CASE TerminateReturns
  <2>1. UNCHANGED <<now, tracked, last, timedOut>> /\ tracker.step = "terminating" /\ NextSession
    BY <1>32 DEF TerminateReturns
  <2>2. tracker'.step = "choosing" /\ tracker'.sid = NoSession /\ tracker'.todo = tracker.todo
    BY <1>1, <2>1, NextSessionFacts
  <2>3. x # o
    BY <2>1 DEF AwaitInv
  <2>. QED
    BY <1>13, <2>1, <2>2, <2>3
<1>33. CASE Advance
  <2>1. /\ now' = now + 1 /\ UNCHANGED <<tracker, tracked, last, timedOut>>
        /\ \/ tracker.step = "idle" /\ now < nextTick
           \/ tracker.step \notin {"idle", "choosing"}
    BY <1>33 DEF Advance, MayWait
  <2>2. CASE tracker.step = "idle" /\ now < nextTick
    <3>1. nextTick - last[x] <= ReportInterval + TickInterval /\ nextTick \in Nat
      BY <2>1, <2>2 DEF TickInv, RoundInv, TypeOK
    <3>2. Clock' = now + 1
      BY <2>1, <2>2 DEF Clock
    <3>. QED
      BY <1>1, <1>3, <1>4, <1>5, <2>1, <2>2, <3>1, <3>2 DEF Goal
  <2>3. CASE tracker.step \notin {"idle", "choosing"}
    <3>1. Clock' = Clock /\ Spent' = Spent
      BY <2>1, <2>3 DEF Clock, Spent
    <3>. QED
      BY <1>4, <1>6, <1>7, <1>11, <2>1, <3>1
  <2>. QED
    BY <2>1, <2>2, <2>3
<1>34. CASE UNCHANGED vars
  <2>1. UNCHANGED <<now, tracker, tracked, last, timedOut>>
    BY <1>34 DEF vars
  <2>. QED
    BY <1>4, <1>6, <1>7, <1>11, <2>1 DEF Clock, Spent
<1>. QED
  BY <1>21, <1>23, <1>24, <1>25, <1>26, <1>27, <1>28, <1>29, <1>30, <1>31, <1>32, <1>33, <1>34
  DEF Next, Process

\* Nothing has been asked for at the start.
LEMMA DelayInit == Init => AwaitInv /\ TickInv /\ LateInv
BY Constants DEF Init, AwaitInv, TickInv, LateInv

\* The allowance of a session never exceeds the bound: in both rounds the others have one
\* turn each, and each is terminated once.
LEMMA DelayBound ==
  ASSUME IsFiniteSet(Session), TypeOK, RoundInv, AwaitInv, LateInv
  PROVE  ReportDelayBounded
<1>. SUFFICES ASSUME NEW s \in tracked, tracker.sid # s
              PROVE  now - last[s] <= ReportInterval + TickInterval + Others * (FarewellWait + 8 * MaxLatency)
  BY DEF ReportDelayBounded, Others
<1>. DEFINE P == Cardinality(Passed(s))
            E == Cardinality(timedOut \ {s})
            Collected == IF s \in tracker.todo THEN Turns(Others) ELSE 0
<1>1. /\ s \in Session /\ now \in Nat /\ last[s] \in Nat /\ tracker.entered \in Nat
      /\ tracker.sid \in Session \cup {NoSession} /\ timedOut \subseteq Session
      /\ tracker.step \in Step
  BY DEF TypeOK, Task
<1>2. Passed(s) \in SUBSET Session /\ s \notin Passed(s) /\ tracker.sid \notin Passed(s)
  BY DEF Passed
<1>3. timedOut \ {s} \in SUBSET Session /\ s \notin timedOut \ {s}
  BY <1>1
<1>4. /\ P \in Nat /\ P <= Others /\ Others \in Nat
      /\ tracker.sid \in Session => P + 1 <= Others
  BY <1>1, <1>2, Counts
<1>5. /\ E \in Nat /\ E <= Others
      /\ tracker.sid \in Session \ timedOut => E + 1 <= Others
  BY <1>1, <1>3, Counts
<1>6. Clock - last[s] <= ReportInterval + TickInterval + Collected + Turns(P) + Farewells(E) + Spent
  BY DEF LateInv, Late, Allowance
<1>. HIDE DEF P, E
<1>7. /\ Turns(P) \in Nat /\ Turns(P) <= Turns(Others) /\ Turns(Others) \in Nat
      /\ P + 1 <= Others => Turns(P) + 4 * MaxLatency <= Turns(Others)
      /\ Farewells(E) \in Nat /\ Farewells(E) <= Farewells(Others) /\ Farewells(Others) \in Nat
      /\ E + 1 <= Others => Farewells(E) + FarewellWait <= Farewells(Others)
  <2>1. Turns(P + 1) = Turns(P) + 4 * MaxLatency /\ Farewells(E + 1) = Farewells(E) + FarewellWait
    BY <1>4, <1>5, Products
  <2>2. P + 1 \in Nat /\ E + 1 \in Nat
    BY <1>4, <1>5
  <2>. QED
    BY <1>4, <1>5, <2>1, <2>2, Products
<1>8. Collected \in Nat /\ Collected <= Turns(Others)
  BY <1>7
<1>. HIDE DEF Collected
<1>9. Turns(Others) + Turns(Others) + Farewells(Others) = Others * (FarewellWait + 8 * MaxLatency)
  <2>1. ASSUME NEW n \in Nat, NEW f \in Nat, NEW l \in Nat
        PROVE  4 * l * n + 4 * l * n + f * n = n * (f + 8 * l)
    OBVIOUS
  <2>. QED
    BY <1>4, <2>1, Constants DEF Turns, Farewells
<1>. USE Constants
<1>10. CASE tracker.step \in {"idle", "choosing"}
  <2>1. Clock = now /\ Spent = 0
    BY <1>10 DEF Clock, Spent
  <2>. QED
    BY <1>1, <1>6, <1>7, <1>8, <1>9, <2>1
<1>11. CASE tracker.step \in {"recording", "warning", "farewell", "terminating"}
  <2>1. tracker.sid \in Session
    BY <1>1, <1>11 DEF RoundInv
  <2>2. Clock = tracker.entered /\ Spent \in Nat /\ Spent <= 3 * MaxLatency
    BY <1>11 DEF Clock, Spent
  <2>3. now - tracker.entered <= MaxLatency
    BY <1>11 DEF AwaitInv
  <2>4. Turns(P) + 4 * MaxLatency <= Turns(Others)
    BY <1>4, <1>7, <2>1
  <2>. QED
    BY <1>1, <1>6, <1>7, <1>8, <1>9, <2>2, <2>3, <2>4
<1>12. CASE tracker.step = "sleeping"
  <2>1. tracker.sid \in Session \ timedOut
    BY <1>1, <1>12 DEF RoundInv, AwaitInv
  <2>2. Clock = tracker.entered /\ Spent = 3 * MaxLatency
    BY <1>12 DEF Clock, Spent
  <2>3. now - tracker.entered <= FarewellWait
    BY <1>12 DEF AwaitInv
  <2>4. /\ Turns(P) + 4 * MaxLatency <= Turns(Others)
        /\ Farewells(E) + FarewellWait <= Farewells(Others)
    BY <1>4, <1>5, <1>7, <2>1
  <2>. QED
    BY <1>1, <1>6, <1>7, <1>8, <1>9, <2>2, <2>3, <2>4
<1>. QED
  BY <1>1, <1>10, <1>11, <1>12 DEF Step

-------------------------------------------------------------------------------
(* The theorems.                                                           *)

\* All parts of the inductive invariant are kept.
LEMMA StepHolds == IInv /\ [Next]_vars => IInv'
<1>. SUFFICES ASSUME IInv, [Next]_vars PROVE IInv'
  OBVIOUS
<1>. USE DEF IInv
<1>1. TypeOK'
  BY TypeStep
<1>2. RoundInv'
  BY <1>1, RoundStep
<1>3. StartInv'
  BY CommandStep
<1>4. FreshInv'
  BY FreshStep
<1>5. BilledInv'
  BY BilledStep
<1>6. FlagsInv'
  BY FlagsStep
<1>. QED
  BY <1>1, <1>2, <1>3, <1>4, <1>5, <1>6

\* The inductive invariant holds in every reachable state of the tracker.
THEOREM Invariance == Spec => []IInv
<1>1. Init => IInv
  BY InitHolds
<1>. QED
  BY <1>1, StepHolds, PTL DEF Spec

\* The tracker's variables keep their types, and the command channel its bound.
THEOREM TypeCorrect == Spec => []TypeOK
<1>1. IInv => TypeOK
  BY DEF IInv
<1>. QED
  BY <1>1, Invariance, PTL

\* process_usage never reports to Core more seconds than have passed since the Start of the
\* session, for any number of sessions, latencies and answers, lost reports included.
THEOREM NeverOverBilledAlways == Spec => []NeverOverBilled
<1>1. IInv => NeverOverBilled
  BY DEF IInv, BilledInv, Billed, NeverOverBilled
<1>. QED
  BY <1>1, Invariance, PTL

\* The list of sessions to report that a tick collects does not go stale while process_usage
\* works through it.
THEOREM SnapshotStaysFreshAlways == Spec => []SnapshotStaysFresh
<1>1. IInv => SnapshotStaysFresh
  BY DEF IInv, RoundInv, SnapshotStaysFresh
<1>. QED
  BY <1>1, Invariance, PTL

\* warned_two_min and warned_countdown let at most two UsageStatus events out for a session.
THEOREM AtMostTwoWarningsAlways == Spec => []AtMostTwoWarnings
<1>1. IInv => AtMostTwoWarnings
  BY DEF IInv, FlagsInv, Counted, AtMostTwoWarnings
<1>. QED
  BY <1>1, Invariance, PTL

\* With a Core that calls a budget exhausted only when nothing of it remains, no session is
\* terminated for its budget without a UsageStatus event before.
THEOREM WarnedBeforeTimeoutAlways ==
  ASSUME HonestCore PROVE Spec => []WarnedBeforeTimeout
<1>1. Init => IInv /\ WarnedInv
  BY InitHolds
<1>2. IInv /\ WarnedInv /\ [Next]_vars => (IInv /\ WarnedInv)'
  BY StepHolds, WarnedStep DEF IInv
<1>3. IInv /\ WarnedInv => WarnedBeforeTimeout
  BY DEF IInv, TypeOK, WarnedInv, Warned, WarnedBeforeTimeout
<1>. QED
  BY <1>1, <1>2, <1>3, PTL DEF Spec

\* process_usage reports a session in time, whatever the turns of the other sessions in its
\* rounds take, as long as no await is longer than an interval and a tick.
THEOREM ReportDelayAlwaysBounded ==
  ASSUME Swift, IsFiniteSet(Session) PROVE Spec => []ReportDelayBounded
<1>. DEFINE DelayInv == AwaitInv /\ TickInv /\ LateInv
<1>1. Init => DelayInv
  BY DelayInit
<1>2. IInv /\ IInv' /\ DelayInv /\ [Next]_vars => DelayInv'
  <2>. SUFFICES ASSUME IInv, IInv', DelayInv, [Next]_vars PROVE DelayInv'
    OBVIOUS
  <2>1. AwaitInv' /\ TickInv'
    BY AwaitStep, TickStep DEF IInv
  <2>. QED
    BY <2>1, LateStep DEF IInv
<1>3. IInv /\ DelayInv => ReportDelayBounded
  BY DelayBound DEF IInv
<1>. QED
  BY <1>1, <1>2, <1>3, Invariance, PTL DEF Spec

===============================================================================
