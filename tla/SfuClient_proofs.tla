--------------------------- MODULE SfuClient_proofs ---------------------------
(* Proofs about SfuClient, for every value of its constants. *)
EXTENDS SfuClient, SequenceTheorems, FiniteSetTheorems, TLAPS

-------------------------------------------------------------------------------
(* The inductive invariant.                                                *)

CallsOK ==
  /\ call \in [Caller -> Frame]
  /\ hung \in BOOLEAN
  /\ pending \subseteq Lasting \X (Session \cup {None})
  /\ open \subseteq Session /\ learnt \subseteq Session /\ known \subseteq learnt
  /\ marked \subseteq learnt /\ failed \subseteq Session

\* The line holds each caller that waits or has sent, once, and the sender is the first.
LineInv ==
  /\ line \in Seq(Caller)
  /\ \A c \in Caller : call[c].step \in {"waiting", "sent"} => \E i \in DOMAIN line : line[i] = c
  /\ \A i \in DOMAIN line : call[line[i]].step \in {"waiting", "sent"}
  /\ \A i, j \in DOMAIN line : line[i] = line[j] => i = j
  /\ \A i \in DOMAIN line : call[line[i]].step = "sent" => i = 1

\* What a frame says of the call: a result is only there at the end, a registration has its
\* id from the SFU, any other request from an earlier answer, and a close comes after the mark.
FrameInv(c) ==
  /\ call[c].step = "idle" => call[c] = Idle
  /\ call[c].step # "answered" => call[c].code = ""
  /\ call[c].code = "ok" => call[c].done
  /\ call[c].done => call[c].step \in {"sent", "answered"}
  /\ call[c].op = "register_session" => (call[c].sid # None <=> call[c].done)
  /\ call[c].step # "idle" /\ call[c].op # "register_session" => call[c].sid \in learnt
  /\ call[c].step # "idle" /\ call[c].op = "close_session" => call[c].sid \in marked
  /\ call[c].step = "asked" /\ call[c].op = "close_session" => call[c].complete

\* While the answer of an executed call is on its way, the SFU's sessions still show it: the
\* id of a registration has reached nobody else, so nobody can have it closed.
SentInv(c) ==
  call[c].step = "sent" /\ call[c].done =>
    /\ call[c].op = "register_session" => call[c].sid \in open \ learnt
    /\ call[c].op = "join_session" => call[c].sid \in open \cup marked
    /\ call[c].op = "close_session" => call[c].sid \notin open

\* A close that may still be executed is one of a marked session.
PendingInv == \A p \in pending : p[1] = "close_session" => p[2] \in marked

CallInv == \A c \in Caller : FrameInv(c) /\ SentInv(c)

IInv == CallsOK /\ LineInv /\ CallInv /\ PendingInv /\ KnownIsOpen /\ OrphanHasCause

LEMMA SentIsFirst ==
  ASSUME LineInv, NEW c \in Caller, call[c].step = "sent"
  PROVE  /\ line # <<>> /\ Head(line) = c
         /\ \A d \in Caller : call[d].step = "sent" => d = c
<1>1. \A d \in Caller : call[d].step = "sent" => 1 \in DOMAIN line /\ line[1] = d
  BY DEF LineInv
<1> QED
  BY <1>1, LenProperties DEF LineInv

LEMMA FrameType ==
  ASSUME CallsOK, NEW c \in Caller
  PROVE  call[c] \in Frame
  BY DEF CallsOK

LEMMA IdleType == Idle \in Frame
  BY DEF Idle, Frame, Op

LEMMA IdleFacts ==
  /\ Idle.step = "idle" /\ Idle.op = "register_session" /\ Idle.sid = None
  /\ ~Idle.done /\ Idle.code = ""
  BY DEF Idle

LEMMA InitHolds == Init => IInv
<1> SUFFICES ASSUME Init PROVE IInv
  OBVIOUS
<1>1. CallsOK
  BY IdleType DEF Init, CallsOK
<1>2. LineInv
  <2>1. line \in Seq(Caller) /\ DOMAIN line = {}
    BY EmptySeq, LenProperties DEF Init
  <2>2. \A c \in Caller : call[c].step = "idle"
    BY DEF Init, Idle
  <2> QED
    BY <2>1, <2>2 DEF LineInv
<1>3. CallInv
  BY DEF Init, CallInv, FrameInv, SentInv, Idle
<1>4. PendingInv /\ KnownIsOpen /\ OrphanHasCause
  BY DEF Init, PendingInv, KnownIsOpen, OrphanHasCause
<1> QED
  BY <1>1, <1>2, <1>3, <1>4 DEF IInv

-------------------------------------------------------------------------------
(* What the actions have in common.                                        *)

\* A new request: complete or not, never executed, with an id from an earlier answer.
NewRequest(f) ==
  /\ f \in Frame /\ f.step = "asked" /\ ~f.done /\ f.code = ""
  /\ f.op = "register_session" => f.sid = None
  /\ f.op # "register_session" => f.sid \in learnt
  /\ f.op = "close_session" => f.sid \in marked' /\ f.complete

LEMMA AskFacts ==
  ASSUME CallsOK, NEW c \in Caller, NEW op \in Op \ {"close_session"},
         NEW s, IF op = "register_session" THEN s = None ELSE s \in learnt,
         NEW required, Ask(c, op, s, required)
  PROVE  /\ call[c].step = "idle"
         /\ \E f : NewRequest(f) /\ call' = [call EXCEPT ![c] = f]
         /\ UNCHANGED <<line, hung, open, pending, learnt, known, marked, failed>>
<1>1. PICK i \in Frame : i = Idle /\ ~i.done /\ i.code = ""
  BY IdleType DEF Idle
<1>2. PICK b \in BOOLEAN :
        call' = [call EXCEPT ![c] = [i EXCEPT !.step = "asked", !.op = op, !.sid = s, !.complete = b]]
  BY <1>1 DEF Ask
<1> DEFINE f == [i EXCEPT !.step = "asked", !.op = op, !.sid = s, !.complete = b]
<1>3. s \in Session \cup {None} /\ op \in Op
  BY DEF CallsOK
<1>4. NewRequest(f)
  BY <1>1, <1>3 DEF NewRequest, Frame
<1> HIDE DEF f
<1>5. call' = [call EXCEPT ![c] = f]
  BY <1>2 DEF f
<1> QED
  BY <1>4, <1>5 DEF Ask

LEMMA RequestFacts ==
  ASSUME CallsOK, NEW c \in Caller, Requests(c)
  PROVE  /\ call[c].step = "idle"
         /\ \E f : NewRequest(f) /\ call' = [call EXCEPT ![c] = f]
         /\ marked \subseteq marked' /\ marked' \subseteq learnt
         /\ UNCHANGED <<line, hung, open, pending, learnt, known, failed>>
<1>1. CASE RegisterSession(c)
  BY <1>1, AskFacts DEF RegisterSession, Op, CallsOK
<1>2. ASSUME NEW s \in learnt, TerminateSession(c, s)
      PROVE  /\ call[c].step = "idle"
             /\ \E f : NewRequest(f) /\ call' = [call EXCEPT ![c] = f]
             /\ marked \subseteq marked' /\ marked' \subseteq learnt
             /\ UNCHANGED <<line, hung, open, pending, learnt, known, failed>>
  <2>1. PICK i \in Frame : i = Idle /\ ~i.done /\ i.code = "" /\ i.complete
    BY IdleType DEF Idle
  <2> DEFINE f == [i EXCEPT !.step = "asked", !.op = "close_session", !.sid = s]
  <2>2. s \in marked' /\ s \in Session \cup {None} /\ "close_session" \in Op
    BY <1>2 DEF TerminateSession, CallsOK, Op
  <2>3. NewRequest(f)
    BY <2>1, <2>2 DEF NewRequest, Frame
  <2>4. call' = [call EXCEPT ![c] = f]
    BY <1>2, <2>1 DEF TerminateSession
  <2> HIDE DEF f
  <2> QED
    BY <1>2, <2>3, <2>4 DEF TerminateSession, CallsOK
<1>3. ASSUME NEW s \in learnt, JoinSession(c, s) \/ SubscribeToEvents(c, s)
      PROVE  /\ call[c].step = "idle"
             /\ \E f : NewRequest(f) /\ call' = [call EXCEPT ![c] = f]
             /\ UNCHANGED <<line, hung, open, pending, learnt, known, marked, failed>>
  BY <1>3, AskFacts DEF JoinSession, SubscribeToEvents, Op
<1>4. ASSUME NEW s \in learnt, NEW op, NEW required, Media(c, op, s, required)
      PROVE  /\ call[c].step = "idle"
             /\ \E f : NewRequest(f) /\ call' = [call EXCEPT ![c] = f]
             /\ UNCHANGED <<line, hung, open, pending, learnt, known, marked, failed>>
  <2>1. op \in Op \ {"close_session"} /\ op # "register_session"
    BY <1>4, SfuClientAssumption DEF Media, Op, AllMedia
  <2> QED
    BY <1>4, <2>1, AskFacts DEF Media
<1>5. ASSUME NEW s \in learnt,
             \/ GetRouterRtpCapabilities(c, s) \/ SetRtpCapabilities(c, s) \/ CreateTransport(c, s)
             \/ ConnectTransport(c, s) \/ CreateProducer(c, s) \/ CreateConsumer(c, s)
             \/ ResumeConsumer(c, s)
      PROVE  \E op, required : Media(c, op, s, required)
  BY <1>5 DEF GetRouterRtpCapabilities, SetRtpCapabilities, CreateTransport, ConnectTransport,
              CreateProducer, CreateConsumer, ResumeConsumer
<1>6. marked \subseteq learnt
  BY DEF CallsOK
<1> QED
  BY <1>1, <1>2, <1>3, <1>4, <1>5, <1>6 DEF Requests

\* A frame moves on; its request stays what it was.
Becomes(c, step, s, done, code) ==
  /\ call' \in [Caller -> Frame]
  /\ \A d \in Caller \ {c} : call'[d] = call[d]
  /\ call'[c].op = call[c].op
  /\ call'[c].step = step /\ call'[c].sid = s /\ call'[c].code = code
  /\ call'[c].done <=> done

LEMMA AnsweredFacts ==
  ASSUME CallsOK, NEW c \in Caller, NEW code \in {"ok", "refused", "internal_error"},
         Answered(c, code)
  PROVE  Becomes(c, "answered", call[c].sid, call[c].done, code)
<1>1. call[c] \in Frame
  BY FrameType
<1> QED
  BY <1>1 DEF CallsOK, Answered, Becomes, Frame

LEMMA StepFacts ==
  ASSUME CallsOK, NEW c \in Caller, NEW step \in {"waiting", "sent"},
         call' = [call EXCEPT ![c].step = step]
  PROVE  Becomes(c, step, call[c].sid, call[c].done, call[c].code)
<1>1. call[c] \in Frame
  BY FrameType
<1> QED
  BY <1>1 DEF CallsOK, Becomes, Frame

LEMMA DoneFacts ==
  ASSUME CallsOK, NEW c \in Caller, NEW s \in Session,
         call' = [call EXCEPT ![c].done = TRUE, ![c].sid = s]
  PROVE  Becomes(c, call[c].step, s, TRUE, call[c].code)
<1>1. call[c] \in Frame
  BY FrameType
<1> QED
  BY <1>1 DEF CallsOK, Becomes, Frame

\* A result is a success only for a call the SFU executed, and a correct answer to a
\* registration is accepted.
LEMMA ReturnFacts ==
  ASSUME CallsOK, NEW c \in Caller, NEW a \in Answer(call[c].done, call[c].op), Return(c, a)
  PROVE  \E code \in {"ok", "internal_error"} :
           /\ call[c].step = "sent"
           /\ Answered(c, code) /\ Release(code) /\ Leave(c, code, Good(call[c].op, a))
           /\ UNCHANGED <<hung, open, pending, marked>>
           /\ code = "ok" => call[c].done
           /\ Good(call[c].op, a) => call[c].done
           /\ call[c].op = "register_session" /\ Good(call[c].op, a) => code = "ok"
<1> DEFINE f == call[c]
           code == IF Accepts(f.op, a) /\ (f.op = "register_session" => a.hasId)
                   THEN "ok" ELSE "internal_error"
<1>1. /\ f.step = "sent" /\ (f.op = "subscribe_to_events" => f.done)
      /\ Answered(c, code) /\ Release(code) /\ Leave(c, code, Good(f.op, a))
      /\ UNCHANGED <<hung, open, pending, marked>>
  BY DEF Return
<1>2. a.data = "own" => f.done
  BY DEF Answer
<1>3. code = "ok" => f.done
  BY <1>1, <1>2 DEF Accepts
<1>4. Good(f.op, a) => f.done
  BY <1>2 DEF Good
<1>5. f.op = "register_session" /\ Good(f.op, a) => code = "ok"
  BY DEF Good, Accepts
<1>6. code \in {"ok", "internal_error"}
  OBVIOUS
<1> HIDE DEF code
<1> QED
  BY <1>1, <1>3, <1>4, <1>5, <1>6

\* The end of a call, by an answer or by a failure.
Ends(c, code, good) ==
  /\ call[c].step = "sent"
  /\ Becomes(c, "answered", call[c].sid, call[c].done, code)
  /\ line' = Tail(line)
  /\ Leave(c, code, good)
  /\ UNCHANGED <<hung, open, marked>>
  /\ code \in {"ok", "internal_error"}
  /\ code = "ok" => call[c].done
  /\ good => call[c].done
  /\ call[c].op = "register_session" /\ good => code = "ok"
  /\ \/ pending' = pending
     \/ call[c].op \in Lasting /\ pending' = pending \cup {<<call[c].op, call[c].sid>>}

LEMMA SfuEnds ==
  ASSUME CallsOK, NEW c \in Caller,
         Fail(c) \/ \E a \in Answer(call[c].done, call[c].op) : Return(c, a)
  PROVE  \E code, good : Ends(c, code, good)
<1>1. CASE Fail(c)
  <2>1. Becomes(c, "answered", call[c].sid, call[c].done, "internal_error")
    BY <1>1, AnsweredFacts DEF Fail
  <2>2. Ends(c, "internal_error", FALSE)
    BY <1>1, <2>1 DEF Fail, Ends, Release
  <2> QED
    BY <2>2
<1>2. ASSUME NEW a \in Answer(call[c].done, call[c].op), Return(c, a)
      PROVE  \E code, good : Ends(c, code, good)
  <2>1. PICK code \in {"ok", "internal_error"} :
           /\ call[c].step = "sent"
           /\ Answered(c, code) /\ Release(code) /\ Leave(c, code, Good(call[c].op, a))
           /\ UNCHANGED <<hung, open, pending, marked>>
           /\ code = "ok" => call[c].done
           /\ Good(call[c].op, a) => call[c].done
           /\ call[c].op = "register_session" /\ Good(call[c].op, a) => code = "ok"
    BY <1>2, ReturnFacts
  <2>2. Becomes(c, "answered", call[c].sid, call[c].done, code)
    BY <2>1, AnsweredFacts
  <2>3. Ends(c, code, Good(call[c].op, a))
    BY <2>1, <2>2 DEF Ends, Release
  <2> QED
    BY <2>3
<1> QED
  BY <1>1, <1>2

\* A session's id in the frame of a call that is over, or of an executed registration.
LEMMA SidIs ==
  ASSUME CallsOK, CallInv, NEW c \in Caller, call[c].step # "idle"
  PROVE  /\ call[c].sid \in Session \cup {None} /\ None \notin Session
         /\ call[c].sid # None <=> (call[c].op = "register_session" => call[c].done)
  BY SfuClientAssumption DEF CallsOK, CallInv, FrameInv, Frame

-------------------------------------------------------------------------------
(* Types.                                                                  *)

LEMMA EndsType ==
  ASSUME CallsOK, CallInv, NEW c \in Caller, NEW code, NEW good, Ends(c, code, good)
  PROVE  CallsOK'
<1>1. call[c].step = "sent" /\ (code = "ok" => call[c].done)
  BY DEF Ends
<1>2. call[c].sid \in Session \cup {None}
  BY <1>1, SidIs
<1>3. code = "ok" => call[c].sid \in Session
  BY <1>1, SidIs
<1>4. call[c].op \in {"join_session"} => call[c].sid \in learnt
  BY <1>1 DEF CallInv, FrameInv
<1>5. call' \in [Caller -> Frame] /\ hung' \in BOOLEAN /\ open' \subseteq Session
  BY DEF Ends, Becomes, CallsOK
<1>6. pending' \subseteq Lasting \X (Session \cup {None})
  BY <1>2 DEF Ends, CallsOK
<1>7. /\ learnt' \subseteq Session /\ known' \subseteq learnt' /\ marked' \subseteq learnt'
      /\ failed' \subseteq Session
  BY <1>2, <1>3, <1>4 DEF Ends, Leave, CallsOK
<1> QED
  BY <1>5, <1>6, <1>7 DEF CallsOK

LEMMA TypeStep ==
  ASSUME CallsOK, CallInv, [Next]_vars
  PROVE  CallsOK'
<1>1. ASSUME NEW c \in Caller, Requests(c) PROVE CallsOK'
  <2>1. PICK f : NewRequest(f) /\ call' = [call EXCEPT ![c] = f]
    BY <1>1, RequestFacts
  <2>2. call' \in [Caller -> Frame]
    BY <2>1 DEF NewRequest, CallsOK
  <2> QED
    BY <1>1, <2>2, RequestFacts DEF CallsOK
<1>2. ASSUME NEW c \in Caller, Refuse(c) PROVE CallsOK'
  BY <1>2, AnsweredFacts DEF Refuse, Becomes, CallsOK
<1>3. ASSUME NEW c \in Caller, LineUp(c) PROVE CallsOK'
  BY <1>3, StepFacts DEF LineUp, Becomes, CallsOK
<1>4. ASSUME NEW c \in Caller, Send(c) PROVE CallsOK'
  BY <1>4, StepFacts DEF Send, Becomes, CallsOK
<1>5. ASSUME NEW c \in Caller, Finish(c) PROVE CallsOK'
  BY <1>5, IdleType DEF Finish, CallsOK
<1>6. ASSUME NEW c \in Caller, Execute(c) PROVE CallsOK'
  <2>1. PICK s \in IF call[c].op = "register_session" THEN Session ELSE {call[c].sid} :
          /\ Executes(call[c].op, s)
          /\ call' = [call EXCEPT ![c].done = TRUE, ![c].sid = s]
          /\ call[c].step = "sent" /\ UNCHANGED <<line, hung, pending, learnt, known, marked, failed>>
    BY <1>6 DEF Execute
  <2>2. s \in Session
    BY <2>1 DEF CallsOK, Executes
  <2>3. open' \subseteq Session
    BY <2>1, <2>2 DEF Executes, CallsOK
  <2> QED
    BY <2>1, <2>2, <2>3, DoneFacts DEF Becomes, CallsOK
<1>7. ASSUME NEW c \in Caller, Fail(c) \/ \E a \in Answer(call[c].done, call[c].op) : Return(c, a)
      PROVE CallsOK'
  BY <1>7, SfuEnds, EndsType
<1>8. ASSUME NEW op \in Lasting, NEW s \in Session \cup {None}, ExecuteLate(op, s) PROVE CallsOK'
  BY <1>8 DEF ExecuteLate, Executes, CallsOK
<1>9. CASE Hang \/ Resume \/ UNCHANGED vars
  BY <1>9 DEF Hang, Resume, vars, CallsOK
<1> QED
  BY <1>1, <1>2, <1>3, <1>4, <1>5, <1>6, <1>7, <1>8, <1>9 DEF Next, Own, Sfu

-------------------------------------------------------------------------------
(* The line.                                                               *)

\* Nobody enters or leaves the line.
LEMMA LineKept ==
  ASSUME LineInv, line' = line,
         \A c \in Caller : /\ call'[c].step \in {"waiting", "sent"} <=> call[c].step \in {"waiting", "sent"}
                           /\ call'[c].step = "sent" => call[c].step = "sent" \/ Head(line) = c
  PROVE  LineInv'
<1>1. Len(line) \in Nat /\ DOMAIN line = 1..Len(line) /\ (line # <<>> => Head(line) = line[1])
  BY LenProperties DEF LineInv
<1>2. \A i \in DOMAIN line : line[i] \in Caller /\ line # <<>> /\ 1 \in DOMAIN line
  BY <1>1, ElementOfSeq DEF LineInv
<1>3. \A i \in DOMAIN line : call'[line[i]].step = "sent" => i = 1
  BY <1>1, <1>2 DEF LineInv
<1> QED
  BY <1>2, <1>3 DEF LineInv

LEMMA LineEnds ==
  ASSUME CallsOK, LineInv, NEW c \in Caller, call[c].step = "sent", line' = Tail(line),
         \A d \in Caller \ {c} : call'[d] = call[d],
         call'[c].step = "answered"
  PROVE  LineInv'
<1>1. line # <<>> /\ Head(line) = c /\ line \in Seq(Caller)
  BY SentIsFirst DEF LineInv
<1>2. /\ line' \in Seq(Caller)
      /\ Len(line) \in Nat /\ DOMAIN line = 1..Len(line) /\ line[1] = c
      /\ DOMAIN line' = 1..(Len(line) - 1)
      /\ \A i \in 1..(Len(line) - 1) : line'[i] = line[i + 1]
  BY <1>1, HeadTailProperties, LenProperties
<1>3. \A i \in DOMAIN line' : i + 1 \in DOMAIN line /\ i + 1 # 1 /\ line'[i] = line[i + 1]
  BY <1>2
<1>4. \A i \in DOMAIN line : i # 1 => i - 1 \in DOMAIN line' /\ line'[i - 1] = line[i]
  <2> SUFFICES ASSUME NEW i \in DOMAIN line, i # 1
               PROVE  i - 1 \in DOMAIN line' /\ line'[i - 1] = line[i]
    OBVIOUS
  <2>1. i - 1 \in 1..(Len(line) - 1) /\ (i - 1) + 1 = i
    BY <1>2
  <2> QED
    BY <1>2, <2>1
<1>5. \A i \in DOMAIN line' : line'[i] \in Caller \ {c}
  BY <1>1, <1>2, <1>3, ElementOfSeq DEF LineInv
<1>6. \A d \in Caller : call'[d].step \in {"waiting", "sent"} => \E i \in DOMAIN line' : line'[i] = d
  <2> SUFFICES ASSUME NEW d \in Caller, call'[d].step \in {"waiting", "sent"}
               PROVE  \E i \in DOMAIN line' : line'[i] = d
    OBVIOUS
  <2>1. d # c /\ call[d].step \in {"waiting", "sent"}
    OBVIOUS
  <2>2. PICK i \in DOMAIN line : line[i] = d
    BY <2>1 DEF LineInv
  <2> QED
    BY <1>2, <1>4, <2>1, <2>2
<1>7. \A i \in DOMAIN line' : call'[line'[i]].step \in {"waiting", "sent"} /\ call'[line'[i]].step # "sent"
  BY <1>3, <1>5 DEF LineInv
<1>8. \A i, j \in DOMAIN line' : line'[i] = line'[j] => i = j
  <2> SUFFICES ASSUME NEW i \in DOMAIN line', NEW j \in DOMAIN line', line'[i] = line'[j]
               PROVE  i = j
    OBVIOUS
  <2>1. i + 1 = j + 1
    BY <1>3 DEF LineInv
  <2> QED
    BY <1>2, <2>1
<1> QED
  BY <1>2, <1>6, <1>7, <1>8 DEF LineInv

LEMMA LineJoins ==
  ASSUME CallsOK, LineInv, NEW c \in Caller, call[c].step = "asked", line' = Append(line, c),
         \A d \in Caller \ {c} : call'[d] = call[d],
         call'[c].step = "waiting"
  PROVE  LineInv'
<1>1. /\ line \in Seq(Caller) /\ line' \in Seq(Caller)
      /\ Len(line) \in Nat /\ DOMAIN line = 1..Len(line)
      /\ DOMAIN line' = 1..(Len(line) + 1) /\ line'[Len(line) + 1] = c
      /\ \A i \in 1..Len(line) : line'[i] = line[i]
  BY AppendProperties, LenProperties DEF LineInv
<1>2. \A i \in DOMAIN line : line[i] \in Caller \ {c}
  BY <1>1, ElementOfSeq DEF LineInv
<1>3. \A i \in DOMAIN line' : \/ i \in DOMAIN line /\ line'[i] = line[i]
                              \/ i = Len(line) + 1 /\ line'[i] = c
  BY <1>1
<1>4. \A d \in Caller : call'[d].step \in {"waiting", "sent"} => \E i \in DOMAIN line' : line'[i] = d
  BY <1>1 DEF LineInv
<1>5. \A i \in DOMAIN line' : /\ call'[line'[i]].step \in {"waiting", "sent"}
                              /\ call'[line'[i]].step = "sent" => i = 1
  BY <1>2, <1>3 DEF LineInv
<1>6. \A i, j \in DOMAIN line' : line'[i] = line'[j] => i = j
  BY <1>2, <1>3 DEF LineInv
<1> QED
  BY <1>1, <1>4, <1>5, <1>6 DEF LineInv

LEMMA LineStep ==
  ASSUME CallsOK, LineInv, [Next]_vars
  PROVE  LineInv'
<1>1. ASSUME NEW c \in Caller, Requests(c) PROVE LineInv'
  <2>1. PICK f : NewRequest(f) /\ call' = [call EXCEPT ![c] = f]
    BY <1>1, RequestFacts
  <2>2. call[c].step = "idle" /\ line' = line
    BY <1>1, RequestFacts
  <2> QED
    BY <2>1, <2>2, LineKept DEF NewRequest, CallsOK
<1>2. ASSUME NEW c \in Caller, Refuse(c) PROVE LineInv'
  <2>1. Becomes(c, "answered", call[c].sid, call[c].done, "refused")
    BY <1>2, AnsweredFacts DEF Refuse
  <2> QED
    BY <1>2, <2>1, LineKept DEF Refuse, Becomes
<1>3. ASSUME NEW c \in Caller, LineUp(c) PROVE LineInv'
  <2>1. Becomes(c, "waiting", call[c].sid, call[c].done, call[c].code)
    BY <1>3, StepFacts DEF LineUp
  <2> QED
    BY <1>3, <2>1, LineJoins DEF LineUp, Becomes
<1>4. ASSUME NEW c \in Caller, Send(c) PROVE LineInv'
  <2>1. Becomes(c, "sent", call[c].sid, call[c].done, call[c].code)
    BY <1>4, StepFacts DEF Send
  <2>2. Head(line) = c
    <3>1. PICK i \in DOMAIN line : line[i] = c
      BY <1>4 DEF Send, LineInv
    <3> QED
      BY <1>4, <3>1, LenProperties DEF Send, LineInv
  <2> QED
    BY <1>4, <2>1, <2>2, LineKept DEF Send, Becomes
<1>5. ASSUME NEW c \in Caller, Finish(c) PROVE LineInv'
  BY <1>5, LineKept DEF Finish, Idle, CallsOK
<1>6. ASSUME NEW c \in Caller, Execute(c) PROVE LineInv'
  <2>1. PICK s : call' = [call EXCEPT ![c].done = TRUE, ![c].sid = s]
    BY <1>6 DEF Execute
  <2>2. \A d \in Caller : call'[d].step = call[d].step
    BY <2>1 DEF CallsOK, Frame
  <2> QED
    BY <1>6, <2>2, LineKept DEF Execute
<1>7. ASSUME NEW c \in Caller, Fail(c) \/ \E a \in Answer(call[c].done, call[c].op) : Return(c, a)
      PROVE LineInv'
  <2>1. PICK code, good : Ends(c, code, good)
    BY <1>7, SfuEnds
  <2> QED
    BY <2>1, LineEnds DEF Ends, Becomes
<1>8. ASSUME NEW op \in Lasting, NEW s \in Session \cup {None}, ExecuteLate(op, s) PROVE LineInv'
  BY <1>8 DEF ExecuteLate, LineInv
<1>9. CASE Hang \/ Resume \/ UNCHANGED vars
  BY <1>9 DEF Hang, Resume, vars, LineInv
<1> QED
  BY <1>1, <1>2, <1>3, <1>4, <1>5, <1>6, <1>7, <1>8, <1>9 DEF Next, Own, Sfu

-------------------------------------------------------------------------------
(* The frames and the sessions of the SFU.                                 *)

Rest == CallInv /\ PendingInv /\ KnownIsOpen /\ OrphanHasCause

\* Frames in which nothing the invariant speaks of changes keep it while ids are learnt and
\* sessions marked.
LEMMA FrameKept ==
  ASSUME NEW d \in Caller, FrameInv(d), call'[d] = call[d],
         learnt \subseteq learnt', marked \subseteq marked'
  PROVE  FrameInv(d)'
  BY DEF FrameInv, Idle

LEMMA SentKept ==
  ASSUME NEW d \in Caller, SentInv(d), call'[d] = call[d],
         UNCHANGED <<open, learnt>>, marked \subseteq marked'
  PROVE  SentInv(d)'
  BY DEF SentInv

\* Steps that leave the sessions of the SFU and of the manager alone.
LEMMA QuietStep ==
  ASSUME Rest, NEW c \in Caller,
         UNCHANGED <<open, pending, learnt, known, failed>>, marked \subseteq marked',
         \A d \in Caller \ {c} : call'[d] = call[d],
         FrameInv(c)', SentInv(c)',
         call[c].op \in Lasting /\ call[c].sid # None /\ call[c].step # "answered" =>
           call'[c].op \in Lasting /\ call'[c].sid = call[c].sid /\ call'[c].step # "answered",
         None \notin open
  PROVE  Rest'
<1>1. CallInv'
  BY FrameKept, SentKept DEF Rest, CallInv
<1>2. PendingInv' /\ KnownIsOpen'
  BY DEF Rest, PendingInv, KnownIsOpen
<1>3. OrphanHasCause'
  BY DEF Rest, OrphanHasCause
<1> QED
  BY <1>1, <1>2, <1>3 DEF Rest

LEMMA EndsRest ==
  ASSUME CallsOK, LineInv, Rest, NEW c \in Caller, NEW code, NEW good, Ends(c, code, good)
  PROVE  Rest'
<1> DEFINE s == call[c].sid
<1>1. /\ \A d \in Caller \ {c} : call'[d] = call[d]
      /\ call'[c].op = call[c].op /\ call'[c].sid = s /\ call'[c].code = code
      /\ call'[c].step = "answered" /\ (call'[c].done <=> call[c].done)
      /\ UNCHANGED <<open, marked>> /\ call[c].step = "sent"
      /\ code = "ok" => call[c].done
      /\ good => call[c].done
      /\ call[c].op = "register_session" /\ good => code = "ok"
  BY DEF Ends, Becomes
<1>2. /\ learnt' = IF call[c].op = "register_session" /\ code = "ok" THEN learnt \cup {s} ELSE learnt
      /\ known' = IF call[c].op = "close_session" THEN known \ {s}
                  ELSE IF call[c].op \in {"register_session", "join_session"} /\ code = "ok"
                       THEN known \cup {s} ELSE known
      /\ failed' = IF call[c].op \in Lasting /\ ~good THEN failed \cup ({s} \ {None}) ELSE failed
  BY DEF Ends, Leave
<1>3. /\ \A d \in Caller : call[d].step = "sent" => d = c
      /\ FrameInv(c) /\ SentInv(c)
  BY <1>1, SentIsFirst DEF Rest, CallInv
<1>4. CallInv'
  <2>1. \A d \in Caller \ {c} : FrameInv(d)'
    BY <1>1, <1>2, FrameKept DEF Rest, CallInv
  <2>2. \A d \in Caller : SentInv(d)'
    BY <1>1, <1>3 DEF SentInv
  <2>3. FrameInv(c)'
    BY <1>1, <1>2, <1>3 DEF FrameInv
  <2> QED
    BY <2>1, <2>2, <2>3 DEF CallInv
<1>5. PendingInv'
  <2>1. \A p \in pending' : p \in pending \/ (p[1] = call[c].op /\ p[2] = s)
    BY DEF Ends
  <2>2. call[c].op = "close_session" => s \in marked
    BY <1>1, <1>3 DEF FrameInv
  <2> QED
    BY <1>1, <2>1, <2>2 DEF Rest, PendingInv
<1>6. KnownIsOpen'
  <2>1. call[c].op = "register_session" /\ code = "ok" => s \in open
    BY <1>1, <1>3 DEF SentInv
  <2>2. call[c].op = "join_session" /\ code = "ok" => s \in open \cup marked
    BY <1>1, <1>3 DEF SentInv
  <2> QED
    BY <1>1, <1>2, <2>1, <2>2 DEF Rest, KnownIsOpen
<1>7. OrphanHasCause'
  <2> SUFFICES ASSUME NEW o \in open, o \notin known', o \notin failed'
               PROVE  \E d \in Caller : call'[d].op \in Lasting /\ call'[d].sid = o /\ call'[d].step # "answered"
    BY <1>1 DEF OrphanHasCause
  <2>1. o # None
    BY SfuClientAssumption DEF CallsOK
  <2>2. call[c].op \in Lasting => o # s
    <3>1. CASE call[c].op = "register_session"
      <4>1. o = s => good
        BY <1>2, <2>1, <3>1 DEF Lasting
      <4>2. o = s => code = "ok"
        BY <1>1, <3>1, <4>1
      <4> QED
        BY <1>2, <3>1, <4>2
    <3>2. CASE call[c].op = "close_session"
      <4>1. o = s => good
        BY <1>2, <2>1, <3>2 DEF Lasting
      <4> QED
        BY <1>1, <1>3, <3>2, <4>1 DEF SentInv
    <3> QED
      BY <3>1, <3>2 DEF Lasting
  <2>3. o \notin known /\ o \notin failed
    BY <1>2, <2>2 DEF Lasting
  <2>4. PICK d \in Caller : call[d].op \in Lasting /\ call[d].sid = o /\ call[d].step # "answered"
    BY <1>1, <2>3 DEF Rest, OrphanHasCause
  <2> QED
    BY <1>1, <2>2, <2>4
<1> QED
  BY <1>4, <1>5, <1>6, <1>7 DEF Rest

LEMMA ExecuteRest ==
  ASSUME CallsOK, LineInv, Rest, NEW c \in Caller, Execute(c)
  PROVE  Rest'
<1>1. PICK s \in IF call[c].op = "register_session" THEN Session ELSE {call[c].sid} :
        /\ Executes(call[c].op, s)
        /\ call' = [call EXCEPT ![c].done = TRUE, ![c].sid = s]
  BY DEF Execute
<1>2. /\ call[c].step = "sent" /\ ~call[c].done
      /\ UNCHANGED <<pending, learnt, known, marked, failed>>
  BY DEF Execute
<1>3. s \in Session /\ s # None
  BY <1>1, SfuClientAssumption DEF CallsOK, Executes
<1>4. Becomes(c, "sent", s, TRUE, call[c].code)
  BY <1>1, <1>2, <1>3, DoneFacts
<1>5. /\ FrameInv(c) /\ \A d \in Caller : call[d].step = "sent" => d = c
  BY <1>2, SentIsFirst DEF Rest, CallInv
<1>6. /\ call[c].op = "register_session" => s \notin Opened /\ open' = open \cup {s}
      /\ call[c].op = "close_session" => s \in open /\ open' = open \ {s} /\ s \in marked
      /\ call[c].op \notin Lasting => s \in open /\ open' = open
      /\ call[c].op # "register_session" => s = call[c].sid
  BY <1>1, <1>2, <1>5 DEF Executes, Lasting, FrameInv
<1>7. CallInv'
  <2>1. \A d \in Caller \ {c} : FrameInv(d)'
    BY <1>2, <1>4, FrameKept DEF Rest, CallInv, Becomes
  <2>2. \A d \in Caller \ {c} : SentInv(d)'
    BY <1>4, <1>5 DEF SentInv, Becomes
  <2>3. FrameInv(c)'
    BY <1>2, <1>3, <1>4, <1>5, <1>6 DEF FrameInv, Becomes
  <2>4. SentInv(c)'
    BY <1>2, <1>4, <1>6 DEF SentInv, Becomes, Opened, Lasting
  <2> QED
    BY <2>1, <2>2, <2>3, <2>4 DEF CallInv
<1>8. PendingInv' /\ KnownIsOpen'
  BY <1>2, <1>6 DEF Rest, PendingInv, KnownIsOpen, Lasting
<1>9. OrphanHasCause'
  <2> SUFFICES ASSUME NEW o \in open', o \notin known, o \notin failed
               PROVE  \E d \in Caller : call'[d].op \in Lasting /\ call'[d].sid = o /\ call'[d].step # "answered"
    BY <1>2 DEF OrphanHasCause
  <2>1. CASE o = s
    BY <1>2, <1>4, <1>6, <2>1 DEF Becomes, Lasting, Rest, OrphanHasCause
  <2>2. CASE o # s
    <3>1. o \in open
      BY <1>6, <2>2 DEF Lasting
    <3>2. PICK d \in Caller : call[d].op \in Lasting /\ call[d].sid = o /\ call[d].step # "answered"
      BY <3>1 DEF Rest, OrphanHasCause
    <3> QED
      <4>1. o # None
        BY <3>1, SfuClientAssumption DEF CallsOK
      <4>2. d # c
        BY <1>2, <1>5, <1>6, <2>2, <3>2, <4>1 DEF FrameInv, Lasting
      <4> QED
        BY <1>4, <3>2, <4>2 DEF Becomes
  <2> QED
    BY <2>1, <2>2
<1> QED
  BY <1>7, <1>8, <1>9 DEF Rest

\* A call that is executed late opens a new session, or closes a marked one.
LEMMA LateRest ==
  ASSUME CallsOK, Rest, NEW op \in Lasting, NEW s \in Session \cup {None}, ExecuteLate(op, s)
  PROVE  Rest'
<1>1. PICK t \in IF op = "register_session" THEN Session ELSE {s} :
        /\ Executes(op, t)
        /\ failed' = IF op = "register_session" THEN failed \cup {t} ELSE failed
  BY DEF ExecuteLate
<1>2. /\ pending' \subseteq pending /\ <<op, s>> \in pending
      /\ UNCHANGED <<call, learnt, known, marked>>
  BY DEF ExecuteLate
<1>3. op = "close_session" => t \in marked
  BY <1>1, <1>2 DEF Rest, PendingInv
<1>4. /\ op = "register_session" => t \notin Opened /\ open' = open \cup {t} /\ t \in failed'
      /\ op = "close_session" => open' = open \ {t}
      /\ failed \subseteq failed'
  BY <1>1 DEF Executes
<1>5. CallInv'
  <2>1. \A d \in Caller : FrameInv(d)'
    BY <1>2, FrameKept DEF Rest, CallInv
  <2>2. ASSUME NEW d \in Caller PROVE SentInv(d)'
    <3>1. SentInv(d) /\ FrameInv(d)
      BY DEF Rest, CallInv
    <3>2. CASE op = "register_session"
      BY <1>2, <1>4, <3>1, <3>2 DEF SentInv, FrameInv, Opened
    <3>3. CASE op = "close_session"
      BY <1>2, <1>3, <1>4, <3>1, <3>3 DEF SentInv, CallsOK
    <3> QED
      BY <3>2, <3>3 DEF Lasting
  <2> QED
    BY <2>1, <2>2 DEF CallInv
<1>6. PendingInv' /\ KnownIsOpen'
  BY <1>2, <1>3, <1>4 DEF Rest, PendingInv, KnownIsOpen, Lasting
<1>7. OrphanHasCause'
  BY <1>2, <1>4 DEF Rest, OrphanHasCause, Lasting
<1> QED
  BY <1>5, <1>6, <1>7 DEF Rest

LEMMA RestStep ==
  ASSUME CallsOK, LineInv, Rest, [Next]_vars
  PROVE  Rest'
<1>0. None \notin open
  BY SfuClientAssumption DEF CallsOK
<1>1. ASSUME NEW c \in Caller, Requests(c) PROVE Rest'
  <2>1. PICK f : NewRequest(f) /\ call' = [call EXCEPT ![c] = f]
    BY <1>1, RequestFacts
  <2>2. /\ call[c].step = "idle" /\ marked \subseteq marked'
        /\ UNCHANGED <<open, pending, learnt, known, failed>>
    BY <1>1, RequestFacts
  <2>3. call'[c] = f /\ \A d \in Caller \ {c} : call'[d] = call[d]
    BY <2>1 DEF CallsOK
  <2>4. FrameInv(c)' /\ SentInv(c)'
    <3>1. call'[c] = f /\ learnt' = learnt
      BY <2>2, <2>3
    <3>2. /\ f.step = "asked" /\ ~f.done /\ f.code = ""
          /\ f.op = "register_session" => f.sid = None
          /\ f.op # "register_session" => f.sid \in learnt
          /\ f.op = "close_session" => f.sid \in marked' /\ f.complete
      BY <2>1 DEF NewRequest
    <3> QED
      BY <3>1, <3>2 DEF FrameInv, SentInv
  <2>5. call[c].sid = None
    <3>1. call[c] = Idle
      BY <2>2 DEF Rest, CallInv, FrameInv
    <3> QED
      BY <3>1, IdleFacts
  <2> QED
    BY <1>0, <2>2, <2>3, <2>4, <2>5, QuietStep
<1>2. ASSUME NEW c \in Caller, Refuse(c) PROVE Rest'
  <2>1. Becomes(c, "answered", call[c].sid, call[c].done, "refused") /\ call[c].step = "asked"
    BY <1>2, AnsweredFacts DEF Refuse
  <2>2. UNCHANGED <<open, pending, learnt, known, marked, failed>>
    BY <1>2 DEF Refuse
  <2>3. FrameInv(c)' /\ SentInv(c)'
    BY <2>1, <2>2 DEF FrameInv, SentInv, Becomes, Rest, CallInv
  <2>4. ~(call[c].op \in Lasting /\ call[c].sid # None)
    BY <1>2, <2>1 DEF Refuse, Rest, CallInv, FrameInv, Lasting
  <2> QED
    BY <1>0, <2>1, <2>2, <2>3, <2>4, QuietStep DEF Becomes
<1>3. ASSUME NEW c \in Caller, LineUp(c) \/ Send(c) PROVE Rest'
  <2>1. /\ call[c].step \in {"asked", "waiting"}
        /\ \E step \in {"waiting", "sent"} : Becomes(c, step, call[c].sid, call[c].done, call[c].code)
    BY <1>3, StepFacts DEF LineUp, Send
  <2>2. UNCHANGED <<open, pending, learnt, known, marked, failed>>
    BY <1>3 DEF LineUp, Send
  <2>3. FrameInv(c)' /\ SentInv(c)'
    BY <2>1, <2>2 DEF FrameInv, SentInv, Becomes, Rest, CallInv
  <2> QED
    BY <1>0, <2>1, <2>2, <2>3, QuietStep DEF Becomes
<1>4. ASSUME NEW c \in Caller, Finish(c) PROVE Rest'
  <2>1. /\ call[c].step = "answered" /\ call'[c] = Idle /\ \A d \in Caller \ {c} : call'[d] = call[d]
        /\ UNCHANGED <<open, pending, learnt, known, marked, failed>>
    BY <1>4 DEF Finish, CallsOK
  <2>2. FrameInv(c)' /\ SentInv(c)'
    BY <2>1, IdleFacts DEF FrameInv, SentInv
  <2> QED
    BY <1>0, <2>1, <2>2, QuietStep
<1>5. ASSUME NEW c \in Caller, Execute(c) PROVE Rest'
  BY <1>5, ExecuteRest
<1>6. ASSUME NEW c \in Caller, Fail(c) \/ \E a \in Answer(call[c].done, call[c].op) : Return(c, a)
      PROVE Rest'
  BY <1>6, SfuEnds, EndsRest
<1>7. ASSUME NEW op \in Lasting, NEW s \in Session \cup {None}, ExecuteLate(op, s) PROVE Rest'
  BY <1>7, LateRest
<1>8. CASE Hang \/ Resume \/ UNCHANGED vars
  <2>1. UNCHANGED <<call, open, pending, learnt, known, marked, failed>>
    BY <1>8 DEF Hang, Resume, vars
  <2> QED
    BY <2>1 DEF Rest, CallInv, FrameInv, SentInv, PendingInv, KnownIsOpen, OrphanHasCause
<1> QED
  BY <1>1, <1>2, <1>3, <1>4, <1>5, <1>6, <1>7, <1>8 DEF Next, Own, Sfu

-------------------------------------------------------------------------------
(* The theorems.                                                           *)

\* IInv is inductive, whatever calls are lost, refused, executed late or answered wrongly.
THEOREM Invariance == Spec => []IInv
<1>1. IInv /\ [Next]_vars => IInv'
  <2> SUFFICES ASSUME IInv, [Next]_vars PROVE IInv'
    OBVIOUS
  <2>1. CallsOK /\ CallInv /\ LineInv /\ Rest
    BY DEF IInv, Rest
  <2>2. CallsOK' /\ LineInv' /\ Rest'
    BY <2>1, TypeStep, LineStep, RestStep
  <2> QED
    BY <2>2 DEF IInv, Rest
<1> QED
  BY InitHolds, <1>1, PTL DEF Spec

LEMMA InLineOnce ==
  ASSUME CallsOK, LineInv, NEW c \in Caller
  PROVE  Cardinality({i \in DOMAIN line : line[i] = c}) = IF call[c].step \in {"waiting", "sent"} THEN 1 ELSE 0
<1> DEFINE at == {i \in DOMAIN line : line[i] = c}
<1>1. CASE call[c].step \in {"waiting", "sent"}
  <2>1. PICK i \in DOMAIN line : line[i] = c
    BY <1>1 DEF LineInv
  <2>2. at = {i}
    BY <2>1 DEF LineInv
  <2>3. Cardinality(at) = 1
    BY <2>2, FS_Singleton
  <2> QED
    BY <1>1, <2>3
<1>2. CASE call[c].step \notin {"waiting", "sent"}
  <2>1. at = {}
    BY <1>2 DEF LineInv
  <2>2. Cardinality(at) = 0
    BY <2>1, FS_EmptySet
  <2> QED
    BY <1>2, <2>2
<1> QED
  BY <1>1, <1>2

\* The frames keep their types; the line of the mutex (src/grpc/sfu/client.rs) holds exactly
\* the callers that wait for it or have sent, each once, and only its first has sent.
THEOREM TypeCorrect == Spec => []TypeOK
<1>1. IInv => TypeOK
  BY InLineOnce DEF IInv, CallsOK, LineInv, TypeOK
<1> QED
  BY Invariance, <1>1, PTL

\* No answer, however malformed, makes the server report a success (src/signal/core.rs) for
\* a call that the SFU has not executed.
THEOREM SuccessAlwaysMeansDone == Spec => []SuccessMeansDone
<1>1. IInv => SuccessMeansDone
  BY DEF IInv, CallInv, FrameInv, SuccessMeansDone
<1> QED
  BY Invariance, <1>1, PTL

\* A session that the SFU holds and the manager does not is being registered or closed, or
\* has a failed call in its past: none is lost by calls that went well.
THEOREM OrphanAlwaysHasCause == Spec => []OrphanHasCause
<1>1. IInv => OrphanHasCause
  BY DEF IInv
<1> QED
  BY Invariance, <1>1, PTL

\* The order of terminate_session (mark, then close) keeps every session the manager knows
\* open or marked, for any number of callers, although a join inserts without a look at the mark.
THEOREM KnownIsAlwaysOpen == Spec => []KnownIsOpen
<1>1. IInv => KnownIsOpen
  BY DEF IInv
<1> QED
  BY Invariance, <1>1, PTL

===============================================================================
