------------------------------- MODULE SfuClient -------------------------------
(***************************************************************************)
(* The calls to the SFU (src/grpc/sfu/client.rs) and the requests that     *)
(* make them (src/signal/core.rs).  One tokio mutex, a FIFO line, is held  *)
(* from the sending of a request to its answer, and no call has a timeout. *)
(*                                                                         *)
(* A request is checked for its required fields before it lines up.  The   *)
(* SFU executes a call or refuses it; the answer may be malformed, or lost *)
(* with the connection, and then the SFU may still execute the call later. *)
(* Of a session this module keeps whether the SFU holds it open, whether   *)
(* the manager holds it, and its terminating mark; the steps inside the    *)
(* manager are in SessionManager.                                          *)
(***************************************************************************)
EXTENDS Sequences, FiniteSets

CONSTANTS
  Caller,   \* connection handlers, event tasks and the tracker
  Session,  \* ids the SFU hands out, never the same twice
  MediaOp,  \* the media operations of the instance
  None

VARIABLES
  call,     \* the frame of each caller
  line,     \* who waits for the mutex, in order; the first has it
  hung,     \* the SFU answers nobody
  open,     \* sessions the SFU holds
  pending,  \* registrations and closes whose caller has given up and which the SFU may
            \* still execute; of other calls that would change nothing here
  learnt,   \* ghost: ids that reached this server
  known,    \* sessions of the manager
  marked,   \* terminating_sessions
  failed    \* ghost: sessions whose registration or close_session did not succeed

vars == <<call, line, hung, open, pending, learnt, known, marked, failed>>

AllMedia == {"get_router_rtp_capabilities", "set_rtp_capabilities", "create_transport",
             "connect_transport", "create_producer", "create_consumer", "resume_consumer"}

ASSUME SfuClientAssumption ==
  /\ MediaOp \subseteq AllMedia
  /\ None \notin Session

Op == MediaOp \cup {"register_session", "join_session", "close_session", "subscribe_to_events"}

\* The calls that change which sessions the SFU holds.
Lasting == {"register_session", "close_session"}

\* complete: the request has what is checked before the call; done: the SFU executed it.
Frame == [step : {"idle", "asked", "waiting", "sent", "answered"}, op : Op, sid : Session \cup {None},
          complete : BOOLEAN, done : BOOLEAN,
          code : {"", "ok", "refused", "internal_error"}]

Idle == [step |-> "idle", op |-> "register_session", sid |-> None, complete |-> TRUE,
         done |-> FALSE, code |-> ""]

\* The sessions the SFU has opened.
Opened == open \cup learnt \cup marked \cup failed

TypeOK ==
  /\ call \in [Caller -> Frame]
  /\ line \in Seq(Caller)
  /\ \A c \in Caller : Cardinality({i \in DOMAIN line : line[i] = c})
                         = IF call[c].step \in {"waiting", "sent"} THEN 1 ELSE 0
  /\ \A i \in DOMAIN line : call[line[i]].step = "sent" => i = 1
  /\ hung \in BOOLEAN
  /\ pending \subseteq Lasting \X (Session \cup {None})
  /\ {open, learnt, known, marked, failed} \subseteq SUBSET Session
  /\ known \cup marked \subseteq learnt

Init ==
  /\ call = [c \in Caller |-> Idle]
  /\ line = <<>> /\ hung = FALSE /\ open = {} /\ pending = {}
  /\ learnt = {} /\ known = {} /\ marked = {} /\ failed = {}

-------------------------------------------------------------------------------
(* The requests.  Ids come from earlier answers; fields may be missing.    *)

Ask(c, op, s, required) ==
  /\ call[c].step = "idle"
  /\ \E given \in SUBSET required :
       call' = [call EXCEPT ![c] = [Idle EXCEPT !.step = "asked", !.op = op, !.sid = s,
                                                !.complete = given = required]]
  /\ UNCHANGED <<line, hung, open, pending, learnt, known, marked, failed>>

\* What is required of a registration is a token that is valid.
RegisterSession(c) == Ask(c, "register_session", None, {"auth_token"})
JoinSession(c, s)  == Ask(c, "join_session", s, {})

Media(c, op, s, required) == op \in MediaOp /\ Ask(c, op, s, required)

GetRouterRtpCapabilities(c, s) == Media(c, "get_router_rtp_capabilities", s, {})
SetRtpCapabilities(c, s) == Media(c, "set_rtp_capabilities", s, {"rtp_capabilities"})
CreateTransport(c, s) == Media(c, "create_transport", s, {})
ConnectTransport(c, s) ==
  Media(c, "connect_transport", s, {"transport_id", "dtls_parameters"})
CreateProducer(c, s) == Media(c, "create_producer", s, {"transport_id", "rtp_parameters"})
CreateConsumer(c, s) ==
  Media(c, "create_consumer", s, {"transport_id", "producer_id", "rtp_capabilities"})
ResumeConsumer(c, s) == Media(c, "resume_consumer", s, {"consumer_id"})

SubscribeToEvents(c, s) == Ask(c, "subscribe_to_events", s, {})

\* Mutant of TerminateSession: the session is closed before it is marked.
TerminateSession_ClosesFirst(c, s) ==
  /\ s \notin marked
  /\ Ask(c, "close_session", s, {})

\* terminate_session: only the first caller goes on, and marks the session at once.
TerminateSession(c, s) ==
  /\ s \notin marked
  /\ marked' = marked \cup {s}
  /\ call[c].step = "idle"
  /\ call' = [call EXCEPT ![c] = [Idle EXCEPT !.step = "asked", !.op = "close_session", !.sid = s]]
  /\ UNCHANGED <<line, hung, open, pending, learnt, known, failed>>

Answered(c, code) == call' = [call EXCEPT ![c].step = "answered", ![c].code = code]

\* A request that lacks something is refused without a call.
Refuse(c) ==
  /\ call[c].step = "asked" /\ ~call[c].complete
  /\ Answered(c, "refused")
  /\ UNCHANGED <<line, hung, open, pending, learnt, known, marked, failed>>

-------------------------------------------------------------------------------
(* The call.                                                               *)

\* Mutant of LineUp: the request is checked when it has the mutex.
LineUp_Unchecked(c) ==
  /\ call[c].step = "asked"
  /\ line' = Append(line, c)
  /\ call' = [call EXCEPT ![c].step = "waiting"]
  /\ UNCHANGED <<hung, open, pending, learnt, known, marked, failed>>

LineUp(c) ==
  /\ call[c].step = "asked" /\ call[c].complete
  /\ line' = Append(line, c)
  /\ call' = [call EXCEPT ![c].step = "waiting"]
  /\ UNCHANGED <<hung, open, pending, learnt, known, marked, failed>>

\* The first of the line has the mutex and sends.
Send(c) ==
  /\ call[c].step = "waiting"
  /\ line[1] = c
  /\ call' = [call EXCEPT ![c].step = "sent"]
  /\ UNCHANGED <<line, hung, open, pending, learnt, known, marked, failed>>

\* Mutant of Accepts: an answer that is no error is taken for a success.
Accepts_AllButError(op, a) == a.data # "error"

\* Mutant of Accepts: the session of the answer is compared for every method; a
\* registration was sent with none.
Accepts_SameSession(op, a) == a.session = "same" /\ a.data = "own"

\* Whether the client returns Ok.
Accepts(op, a) ==
  \/ op = "subscribe_to_events"
  \/ /\ a.data = "own"
     /\ op = "register_session" => a.session # "empty"
     /\ op = "get_router_rtp_capabilities" => a.session = "same"

\* What an executed or refused call may answer; session compares the envelope with the
\* request, hasId says whether the data of a registration names the session.
Answer(done, op) ==
  [data : {IF done THEN "own" ELSE "error", "other", "none"},
   session : IF op = "register_session" THEN {"new", "empty"} ELSE {"same", "new", "empty"},
   hasId : BOOLEAN]

\* Mutant of Release: an error returns before the mutex is released.
Release_OnSuccess(code) == line' = IF code = "ok" THEN Tail(line) ELSE line

\* The guard is dropped with the statement of the call, on every path.
Release(code) == line' = Tail(line)

\* What the caller does with its result in the manager: a registration and a join insert the
\* session, marked or not; a termination goes on whatever the SFU said.
Leave(c, code, good) ==
  LET f == call[c] IN
  /\ learnt' = IF f.op = "register_session" /\ code = "ok" THEN learnt \cup {f.sid} ELSE learnt
  /\ known' = IF f.op = "close_session" THEN known \ {f.sid}
              ELSE IF f.op \in {"register_session", "join_session"} /\ code = "ok"
                   THEN known \cup {f.sid}
                   ELSE known
  /\ failed' = IF f.op \in Lasting /\ ~good
               THEN failed \cup ({f.sid} \ {None}) ELSE failed

\* The answer a correct SFU gives to a call it executed.
Good(op, a) ==
  /\ a.data = "own" /\ a.hasId
  /\ a.session = IF op = "register_session" THEN "new" ELSE "same"

\* An answer of the SFU; core.rs wants the id of a registration in its data as well.
Return(c, a) ==
  LET f == call[c]
      code == IF Accepts(f.op, a) /\ (f.op = "register_session" => a.hasId)
              THEN "ok" ELSE "internal_error"
  IN
  /\ f.step = "sent" /\ ~hung
  /\ f.op = "subscribe_to_events" => f.done
  /\ Answered(c, code)
  /\ Release(code)
  /\ Leave(c, code, Good(f.op, a))
  /\ UNCHANGED <<hung, open, pending, marked>>

\* The answer is a gRPC status, or the connection breaks before there is one.
Fail(c) ==
  LET f == call[c] IN
  /\ f.step = "sent"
  /\ Answered(c, "internal_error")
  /\ Release("internal_error")
  /\ Leave(c, "internal_error", FALSE)
  /\ pending' = IF f.done \/ f.op \notin Lasting THEN pending ELSE pending \cup {<<f.op, f.sid>>}
  /\ UNCHANGED <<hung, open, marked>>

Finish(c) ==
  /\ call[c].step = "answered"
  /\ call' = [call EXCEPT ![c] = Idle]
  /\ UNCHANGED <<line, hung, open, pending, learnt, known, marked, failed>>

-------------------------------------------------------------------------------
(* The SFU (external).                                                     *)

\* A session is opened once; everything else needs its session.
Executes(op, s) ==
  /\ IF op = "register_session" THEN s \notin Opened ELSE s \in open
  /\ open' = CASE op = "register_session" -> open \cup {s}
               [] op = "close_session" -> open \ {s}
               [] OTHER -> open

Execute(c) ==
  LET f == call[c] IN
  /\ f.step = "sent" /\ ~f.done /\ ~hung
  /\ \E s \in IF f.op = "register_session" THEN Session ELSE {f.sid} :
       /\ Executes(f.op, s)
       /\ call' = [call EXCEPT ![c].done = TRUE, ![c].sid = s]
  /\ UNCHANGED <<line, hung, pending, learnt, known, marked, failed>>

\* A call whose caller has given up.
ExecuteLate(op, s) ==
  /\ <<op, s>> \in pending /\ ~hung
  /\ \E t \in IF op = "register_session" THEN Session ELSE {s} :
       /\ Executes(op, t)
       /\ failed' = IF op = "register_session" THEN failed \cup {t} ELSE failed
  /\ pending' = pending \ {<<op, s>>}
  /\ UNCHANGED <<call, line, hung, learnt, known, marked>>

Hang   == ~hung /\ hung' = TRUE /\ UNCHANGED <<call, line, open, pending, learnt, known, marked, failed>>
Resume == hung /\ hung' = FALSE /\ UNCHANGED <<call, line, open, pending, learnt, known, marked, failed>>

-------------------------------------------------------------------------------
Requests(c) ==
  \/ RegisterSession(c)
  \/ \E s \in learnt :
       \/ JoinSession(c, s) \/ SubscribeToEvents(c, s) \/ TerminateSession(c, s)
       \/ GetRouterRtpCapabilities(c, s) \/ SetRtpCapabilities(c, s) \/ CreateTransport(c, s)
       \/ ConnectTransport(c, s) \/ CreateProducer(c, s) \/ CreateConsumer(c, s)
       \/ ResumeConsumer(c, s)

Own(c) == Refuse(c) \/ LineUp(c) \/ Send(c) \/ Finish(c)

Sfu(c) == \/ Execute(c) \/ Fail(c)
          \/ \E a \in Answer(call[c].done, call[c].op) : Return(c, a)

Next ==
  \/ \E c \in Caller : Requests(c) \/ Own(c) \/ Sfu(c)
  \/ \E op \in Lasting, s \in Session \cup {None} : ExecuteLate(op, s)
  \/ Hang \/ Resume

Spec == Init /\ [][Next]_vars

\* Tasks are scheduled, and an SFU that does not hang answers or breaks off.
FairSpec == Spec /\ \A c \in Caller : WF_vars(Own(c)) /\ WF_vars(~hung /\ Sfu(c))

-------------------------------------------------------------------------------
(* Properties.                                                             *)

\* A success reported to a client was executed by the SFU, in whatever order calls were
\* lost, refused or executed late.
SuccessMeansDone == \A c \in Caller : call[c].code = "ok" => call[c].done

\* A session the SFU holds and nobody here knows is one that is being registered or closed,
\* or one whose registration or close went wrong on the SFU's side.
OrphanHasCause ==
  \A s \in open \ known :
    \/ s \in failed
    \/ \E c \in Caller : /\ call[c].op \in Lasting
                         /\ call[c].sid = s /\ call[c].step # "answered"

\* The manager never offers a session that the SFU has closed: it is open or marked.
KnownIsOpen == known \subseteq open \cup marked

\* A request the server refuses by itself is answered even while the SFU hangs.
RefusalsReturn ==
  \A c \in Caller : call[c].step # "idle" /\ ~call[c].complete ~> call[c].step = "idle"

\* Every call is answered, and no caller is passed over in the line, unless the SFU hangs.
CallsReturn == \A c \in Caller : call[c].step # "idle" ~> call[c].step = "idle" \/ hung
===============================================================================
