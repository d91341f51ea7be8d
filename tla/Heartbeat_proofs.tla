--------------------------- MODULE Heartbeat_proofs ---------------------------
(* Proofs about Heartbeat, for every value of its constants. *)
EXTENDS Heartbeat, SequenceTheorems, FiniteSetTheorems, TLAPS

-------------------------------------------------------------------------------
(* The frames but pongs of the inbox.                                      *)

At(q) == {i \in DOMAIN q : q[i] # "pong"}

LEMMA AtFinite ==
  ASSUME NEW q \in Seq(Frame)
  PROVE  /\ IsFiniteSet(At(q))
         /\ Cardinality(At(q)) \in Nat
<1>1. IsFiniteSet(1..Len(q))
  BY LenProperties, FS_Interval
<1>2. At(q) \subseteq 1..Len(q)
  BY LenProperties DEF At
<1> QED
  BY <1>1, <1>2, FS_Subset, FS_CardinalityType

LEMMA AtAppend ==
  ASSUME NEW q \in Seq(Frame), NEW f \in Frame
  PROVE  Cardinality(At(Append(q, f))) =
           IF f # "pong" THEN Cardinality(At(q)) + 1 ELSE Cardinality(At(q))
<1>1. Len(q) \in Nat /\ DOMAIN q = 1..Len(q)
  BY LenProperties
<1>2. DOMAIN Append(q, f) = 1..(Len(q) + 1)
  BY AppendProperties, LenProperties
<1>3. /\ \A i \in 1..Len(q) : Append(q, f)[i] = q[i]
      /\ Append(q, f)[Len(q) + 1] = f
  BY AppendProperties
<1>4. At(Append(q, f)) = IF f # "pong" THEN At(q) \cup {Len(q) + 1} ELSE At(q)
  BY <1>1, <1>2, <1>3 DEF At
<1>5. Len(q) + 1 \notin At(q)
  BY <1>1 DEF At
<1> QED
  BY <1>4, <1>5, AtFinite, FS_AddElement

LEMMA AtTail ==
  ASSUME NEW q \in Seq(Frame), q # <<>>
  PROVE  Cardinality(At(Tail(q))) <= Cardinality(At(q))
<1> DEFINE shift == [i \in At(Tail(q)) |-> i + 1]
<1>1. /\ Tail(q) \in Seq(Frame)
      /\ Len(q) \in Nat /\ DOMAIN q = 1..Len(q)
      /\ DOMAIN Tail(q) = 1..(Len(q) - 1)
      /\ \A i \in 1..(Len(q) - 1) : Tail(q)[i] = q[i + 1]
  BY HeadTailProperties, LenProperties
<1>2. At(Tail(q)) \subseteq Nat /\ \A i \in At(Tail(q)) : i + 1 \in At(q)
  BY <1>1 DEF At
<1>3. shift \in [At(Tail(q)) -> At(q)]
  BY <1>2
<1>4. \A i, j \in At(Tail(q)) : shift[i] = shift[j] => i = j
  BY <1>2
<1>5. shift \in Injection(At(Tail(q)), At(q))
  BY <1>3, <1>4 DEF Injection, IsInjective
<1> QED
  BY <1>5, AtFinite, FS_Injection

-------------------------------------------------------------------------------
(* The inductive invariant.                                                *)

\* A tick that did not end the loop found a sign of life within the timeout, so the next
\* one is due an interval after that at the latest; a body begins before it is due, and
\* between bodies the clock stops at a tick that is due.
TickInv ==
  open =>
    /\ nextTick <= last + Timeout + Interval
    /\ body = 0 => now <= nextTick \/ now < last + Timeout + Interval + MaxBody
    /\ body # 0 => now <= body /\ body < last + Timeout + Interval + MaxBody

IInv == TypeOK /\ TickInv

LEMMA Constants ==
  /\ Interval \in Nat \ {0} /\ Timeout \in Nat \ {0}
  /\ MaxBody \in Nat \ {0} /\ MaxTime \in Nat \ {0}
  /\ RoundTrip \in Nat /\ MaxRequests \in Nat /\ MaxWrites \in Nat
  BY HeartbeatAssumption

LEMMA InitHolds == Init => IInv
<1> SUFFICES ASSUME Init PROVE IInv
  OBVIOUS
<1> USE Constants DEF Init
<1>1. inbox \in Seq(Frame) /\ Requests = 0
  <2>1. At(inbox) = {}
    BY DEF At
  <2> QED
    BY <2>1, FS_EmptySet, EmptySeq DEF Requests, At
<1>2. TypeOK
  BY <1>1 DEF TypeOK, None
<1>3. TickInv
  BY DEF TickInv
<1> QED
  BY <1>2, <1>3 DEF IInv

\* The frames ahead stay within the bound on them.
LEMMA InboxStep ==
  ASSUME TypeOK, [Next]_vars
  PROVE  inbox' \in Seq(Frame) /\ Requests' <= MaxRequests
<1> USE Constants DEF TypeOK
<1>0. Requests = Cardinality(At(inbox)) /\ Requests' = Cardinality(At(inbox'))
  BY DEF Requests, At
<1>1. CASE UNCHANGED inbox
  BY <1>0, <1>1
<1>2. CASE ReadFrame
  <2>1. inbox # <<>> /\ inbox' = Tail(inbox)
    BY <1>2 DEF ReadFrame
  <2>2. inbox' \in Seq(Frame)
    BY <2>1, HeadTailProperties
  <2>3. Cardinality(At(inbox')) <= Cardinality(At(inbox))
    BY <2>1, AtTail
  <2>4. Cardinality(At(inbox')) \in Nat /\ Cardinality(At(inbox)) \in Nat
    BY <2>2, AtFinite
  <2> QED
    BY <1>0, <2>2, <2>3, <2>4
<1>3. CASE Answer
  <2>1. inbox' = Append(inbox, "pong")
    BY <1>3 DEF Answer
  <2>2. "pong" \in Frame
    BY DEF Frame
  <2> QED
    BY <1>0, <2>1, <2>2, AtAppend, AppendProperties
<1>4. CASE SendRequest
  <2>1. PICK f \in Frame : f # "pong" /\ inbox' = Append(inbox, f)
    BY <1>4 DEF SendRequest
  <2>2. Requests < MaxRequests
    BY <1>4 DEF SendRequest
  <2> QED
    BY <1>0, <2>1, <2>2, AtAppend, AtFinite, AppendProperties
<1> QED
  BY <1>1, <1>2, <1>3, <1>4
  DEF Next, Tick, Write, BodyEnds, Vanish, Pass, vars

LEMMA StepHolds == IInv /\ [Next]_vars => IInv'
<1> SUFFICES ASSUME IInv, [Next]_vars PROVE IInv'
  OBVIOUS
<1>0. inbox' \in Seq(Frame) /\ Requests' <= MaxRequests
  BY InboxStep DEF IInv
<1> USE Constants, <1>0 DEF IInv, TypeOK, None, TickInv
<1>1. CASE Tick
  <2>1. /\ UNCHANGED <<now, last, inbox, writes, alive>> /\ nextTick' = nextTick + Interval
        /\ nextTick <= now /\ body = 0 /\ open
    BY <1>1 DEF Tick, Selecting, TickDue
  <2>2. CASE TimedOut
    <3>1. open' = FALSE /\ UNCHANGED <<body, ping>>
      BY <1>1, <2>2 DEF Tick, TimedOut
    <3>2. TypeOK'
      <4>1. open' \in BOOLEAN
        BY <3>1
      <4>2. /\ now' \in 0..MaxTime /\ last' \in 0..now'
            /\ body' \in 0..(now' + MaxBody) /\ ping' \in 0..(now' + MaxBody) \cup {None}
            /\ writes' \in 0..MaxWrites /\ alive' \in BOOLEAN
        BY <2>1, <3>1
      <4>3. nextTick' \in 0..(now' + Interval)
        BY <2>1
      <4> HIDE DEF IInv, TickInv, None
      <4> QED
        BY <1>0, <4>1, <4>2, <4>3
    <3>3. TickInv'
      BY <3>1
    <3> QED
      BY <3>2, <3>3
  <2>3. CASE ~TimedOut
    <3>0. open' = open
      BY <1>1, <2>3 DEF Tick, TimedOut
    <3>1. now <= last + Timeout /\ open'
      BY <2>1, <2>3, <3>0 DEF TimedOut
    <3>2. PICK d \in 0..MaxBody : SendPing(d)
      BY <1>1, <2>3 DEF Tick, TimedOut
    <3>3. /\ body' = IF d = 0 THEN 0 ELSE now + d
          /\ ping' \in {now + d, ping}
      BY <3>2 DEF SendPing, Takes
    <3>4. TypeOK'
      BY <2>1, <3>1, <3>3
    <3>5. TickInv'
      BY <2>1, <3>1, <3>3
    <3> QED
      BY <3>4, <3>5
  <2> QED
    BY <2>2, <2>3
<1>2. CASE ReadFrame
  BY <1>2 DEF ReadFrame, MayServe, Selecting, TickDue, Takes
<1>3. CASE Write
  BY <1>3 DEF Write, MayServe, Selecting, TickDue, Takes
<1>4. CASE BodyEnds
  BY <1>4 DEF BodyEnds
<1>5. CASE Answer \/ SendRequest \/ Vanish
  <2>1. UNCHANGED <<now, last, nextTick, body, writes, open>>
        /\ alive' \in BOOLEAN /\ ping' \in {ping, None}
    BY <1>5 DEF Answer, SendRequest, Vanish
  <2> QED
    BY <2>1
<1>6. CASE Pass
  BY <1>6 DEF Pass, TickDue
<1>7. CASE UNCHANGED vars
  BY <1>7 DEF vars
<1> QED
  BY <1>1, <1>2, <1>3, <1>4, <1>5, <1>6, <1>7 DEF Next

-------------------------------------------------------------------------------
(* The theorems.                                                           *)

\* The state of the loop and of its client keeps its types, and a tick is never due more
\* than an interval ahead.
THEOREM TypeCorrect == Spec => []TypeOK
<1>1. IInv => TypeOK
  BY DEF IInv
<1> QED
  BY InitHolds, StepHolds, <1>1, PTL DEF Spec

\* However busy the loop is, whatever the interval and the timeout: it does not go on when
\* the last sign of life is a timeout, an interval and the longest body ago.
THEOREM SilenceIsNoticedAlways == Spec => []SilenceIsNoticed
<1>1. IInv => SilenceIsNoticed
  BY Constants DEF IInv, TypeOK, TickInv, SilenceIsNoticed
<1> QED
  BY InitHolds, StepHolds, <1>1, PTL DEF Spec
-------------------------------------------------------------------------------
(* A live client, in units of what one frame may cost.                     *)

\* The longest time between two reads of the inbound branch: a write for each message that
\* goes first, and the body of the frame itself.
Turn == (MaxWrites + 1) * MaxBody

\* The longest a pong lies in the inbox: a turn for each frame ahead of it, and its own.
Queueing == (MaxRequests + 1) * Turn

\* What k ticks may add, with the pings they send, and how far apart they are.
Pings(k) == k * MaxBody
Apart(k) == k * Interval

\* Where the model's bounds put a ping, its answer and the bodies in between: the tick that
\* sends the ping is a body late at the most, the pong waits for the frames ahead, and each
\* of the ticks that fall due before the timeout takes up to a body for its ping.
Patient ==
  \E k \in Nat :
    /\ Timeout <= Apart(k)
    /\ Interval + MaxBody + RoundTrip + Queueing + Pings(k) <= Timeout

\* The frames but pongs ahead of position i.
AheadAt(q, i) == {j \in 1..(i - 1) : q[j] # "pong"}
Ahead(q, i) == Cardinality(AheadAt(q, i))

LEMMA AheadType ==
  ASSUME NEW q \in Seq(Frame), NEW i \in 1..(Len(q) + 1)
  PROVE  /\ IsFiniteSet(AheadAt(q, i))
         /\ Ahead(q, i) \in Nat
         /\ Ahead(q, i) <= Cardinality(At(q))
<1>1. Len(q) \in Nat /\ DOMAIN q = 1..Len(q)
  BY LenProperties
<1>2. AheadAt(q, i) \subseteq At(q)
  BY <1>1 DEF AheadAt, At
<1>3. IsFiniteSet(AheadAt(q, i)) /\ Ahead(q, i) <= Cardinality(At(q))
  BY <1>2, AtFinite, FS_Subset DEF Ahead
<1> QED
  BY <1>3, FS_CardinalityType DEF Ahead

LEMMA AheadAppend ==
  ASSUME NEW q \in Seq(Frame), NEW f \in Frame, NEW i \in DOMAIN q
  PROVE  /\ i \in DOMAIN Append(q, f) /\ Append(q, f)[i] = q[i]
         /\ Ahead(Append(q, f), i) = Ahead(q, i)
<1>1. Len(q) \in Nat /\ DOMAIN q = 1..Len(q)
  BY LenProperties
<1>2. DOMAIN Append(q, f) = 1..(Len(q) + 1)
  BY AppendProperties, LenProperties
<1>3. \A j \in 1..Len(q) : Append(q, f)[j] = q[j]
  BY AppendProperties
<1>4. AheadAt(Append(q, f), i) = AheadAt(q, i)
  BY <1>1, <1>3 DEF AheadAt
<1> QED
  BY <1>1, <1>2, <1>3, <1>4 DEF Ahead

\* Behind the last frame, all of them are ahead.
LEMMA AheadLast ==
  ASSUME NEW q \in Seq(Frame), NEW f \in Frame
  PROVE  Ahead(Append(q, f), Len(q) + 1) = Cardinality(At(q))
<1>1. Len(q) \in Nat /\ DOMAIN q = 1..Len(q)
  BY LenProperties
<1>2. \A j \in 1..Len(q) : Append(q, f)[j] = q[j]
  BY AppendProperties
<1>3. AheadAt(Append(q, f), Len(q) + 1) = At(q)
  BY <1>1, <1>2 DEF AheadAt, At
<1> QED
  BY <1>3 DEF Ahead

\* A frame that is read leaves one fewer ahead of the pongs behind it, if it was none.
LEMMA AheadTail ==
  ASSUME NEW q \in Seq(Frame), NEW i \in DOMAIN q, Head(q) # "pong", q[i] = "pong"
  PROVE  /\ q # <<>>
         /\ i - 1 \in DOMAIN Tail(q) /\ Tail(q)[i - 1] = "pong"
         /\ Ahead(Tail(q), i - 1) + 1 <= Ahead(q, i)
<1> DEFINE shift == [j \in AheadAt(Tail(q), i - 1) |-> j + 1]
           rest  == AheadAt(q, i) \ {1}
<1>1. Len(q) \in Nat /\ DOMAIN q = 1..Len(q) /\ q # <<>> /\ Head(q) = q[1]
  BY LenProperties
<1>2. i \in 2..Len(q)
  BY <1>1
<1>3. /\ Tail(q) \in Seq(Frame) /\ Len(Tail(q)) = Len(q) - 1
      /\ \A j \in 1..(Len(q) - 1) : Tail(q)[j] = q[j + 1]
  BY <1>1, HeadTailProperties
<1>4. DOMAIN Tail(q) = 1..(Len(q) - 1)
  BY <1>3, LenProperties
<1>5. i - 1 \in 1..(Len(q) - 1) /\ Tail(q)[i - 1] = q[i]
  <2>1. i - 1 \in 1..(Len(q) - 1) /\ (i - 1) + 1 = i
    BY <1>1, <1>2
  <2> QED
    BY <2>1, <1>3
<1>6. \A j \in AheadAt(Tail(q), i - 1) : j \in Nat /\ j + 1 \in rest
  BY <1>1, <1>2, <1>3 DEF AheadAt
<1>7. shift \in [AheadAt(Tail(q), i - 1) -> rest]
  BY <1>6
<1>8. \A a, b \in AheadAt(Tail(q), i - 1) : shift[a] = shift[b] => a = b
  BY <1>6
<1>9. shift \in Injection(AheadAt(Tail(q), i - 1), rest)
  BY <1>7, <1>8 DEF Injection, IsInjective
<1>10. 1 \in AheadAt(q, i) /\ IsFiniteSet(AheadAt(q, i)) /\ Ahead(q, i) \in Nat
  <2>1. i \in 1..(Len(q) + 1)
    BY <1>1, <1>2
  <2>2. 1 \in AheadAt(q, i)
    BY <1>1, <1>2 DEF AheadAt
  <2> QED
    BY <2>1, <2>2, AheadType
<1>11. IsFiniteSet(rest) /\ Cardinality(rest) = Ahead(q, i) - 1
  BY <1>10, FS_RemoveElement DEF Ahead
<1>12. Ahead(Tail(q), i - 1) <= Cardinality(rest)
  BY <1>9, <1>11, FS_Injection DEF Ahead
<1>13. Ahead(Tail(q), i - 1) \in Nat
  <2>1. i - 1 \in 1..(Len(Tail(q)) + 1)
    BY <1>1, <1>3, <1>5
  <2> QED
    BY <1>3, <2>1, AheadType
<1> QED
  BY <1>1, <1>4, <1>5, <1>10, <1>11, <1>12, <1>13

LEMMA Times ==
  ASSUME NEW a \in Nat, NEW b \in Nat, NEW d \in Nat, a <= b
  PROVE  /\ a * d \in Nat /\ a * d <= b * d
         /\ (a + 1) * d = a * d + d
         /\ a # 0 => a * d = (a - 1) * d + d /\ (a - 1) * d \in Nat
<1>1. a * d \in Nat /\ (a + 1) * d = a * d + d
  OBVIOUS
<1>2. b * d = a * d + (b - a) * d /\ (b - a) * d \in Nat
  OBVIOUS
<1> QED
  BY <1>1, <1>2

LEMMA TurnType ==
  /\ Turn \in Nat /\ MaxWrites * MaxBody \in Nat /\ Turn = MaxWrites * MaxBody + MaxBody
  /\ MaxRequests * Turn \in Nat
  /\ Queueing \in Nat /\ Queueing = MaxRequests * Turn + Turn
<1>1. Turn \in Nat /\ MaxWrites * MaxBody \in Nat /\ Turn = MaxWrites * MaxBody + MaxBody
  BY Constants, Times DEF Turn
<1> QED
  BY <1>1, Constants, Times DEF Queueing
LEMMA PingsType ==
  ASSUME NEW k \in Nat
  PROVE  /\ Pings(k) \in Nat /\ Apart(k) \in Nat /\ Apart(0) = 0
         /\ k # 0 => /\ Pings(k) = Pings(k - 1) + MaxBody
                     /\ Apart(k) = Apart(k - 1) + Interval
                     /\ Pings(k - 1) \in Nat
<1>1. Pings(k) \in Nat /\ (k # 0 => Pings(k) = Pings(k - 1) + MaxBody /\ Pings(k - 1) \in Nat)
  BY Constants, Times DEF Pings
<1>2. Apart(k) \in Nat /\ Apart(0) = 0 /\ (k # 0 => Apart(k) = Apart(k - 1) + Interval)
  BY Constants, Times DEF Apart
<1> QED
  BY <1>1, <1>2

\* When the pong at position i of the inbox is read, if no tick comes first: the body that
\* runs, the writes that still go first, and a turn for each frame ahead.
Rest == IF body = 0 THEN 0 ELSE body - now
Wait == (MaxWrites - writes) * MaxBody
ReadBy(i) == now + Rest + Wait + Ahead(inbox, i) * Turn

\* Fewer than k ticks fall due before a client silent since last is given up.
FewTicks(k) == last + Timeout < nextTick + Apart(k)

\* The next sign of life of a live client is a pong it has sent, the answer to a ping it was
\* sent, or the answer to the ping of the next tick, in time with k more ticks in between.
PongComes(k) ==
  \E i \in DOMAIN inbox : inbox[i] = "pong" /\ ReadBy(i) + Pings(k) <= last + Timeout
PingSent(k) == ping # None /\ ping + RoundTrip + Queueing + Pings(k) <= last + Timeout
PingNext(k) ==
  /\ ping = None
  /\ {now, body} \subseteq 0..(nextTick + MaxBody)
  /\ nextTick + MaxBody + RoundTrip + Queueing + Pings(k) <= last + Timeout

SignComes(k) == FewTicks(k) /\ (PongComes(k) \/ PingSent(k) \/ PingNext(k))

\* The oldest ping is on its way, or waits for room in the body that runs.
PingInv == ping # None => now <= ping + RoundTrip /\ (ping <= now \/ ping <= body)

LiveInv == alive => open /\ PingInv /\ \E k \in Nat : SignComes(k)

LEMMA WaitType ==
  ASSUME TypeOK
  PROVE  Wait \in Nat /\ Wait <= MaxWrites * MaxBody
<1>1. MaxWrites - writes \in Nat /\ MaxWrites - writes <= MaxWrites
  BY Constants DEF TypeOK
<1> QED
  BY <1>1, Constants, Times DEF Wait

LEMMA RestType ==
  ASSUME IInv, open
  PROVE  Rest \in Nat /\ Rest <= MaxBody
  BY Constants DEF IInv, TypeOK, TickInv, Rest

LEMMA QueueingBound ==
  ASSUME NEW n \in Nat, NEW r \in 0..MaxBody, NEW w \in 0..(MaxWrites * MaxBody),
         NEW a \in 0..MaxRequests
  PROVE  /\ n + r + w + a * Turn \in Nat /\ n <= n + r + w + a * Turn
         /\ n + r + w + a * Turn <= n + Queueing
<1>1. a * Turn \in Nat /\ a * Turn <= MaxRequests * Turn
  BY Constants, TurnType, Times
<1> QED
  BY <1>1, Constants, TurnType

\* Whatever is ahead of a pong, it is read within a turn for each frame and one more.
LEMMA ReadByBound ==
  ASSUME IInv, open, NEW i \in DOMAIN inbox
  PROVE  /\ ReadBy(i) \in Nat /\ now <= ReadBy(i)
         /\ ReadBy(i) <= now + Queueing
<1>1. inbox \in Seq(Frame) /\ Cardinality(At(inbox)) <= MaxRequests /\ now \in Nat
  BY DEF IInv, TypeOK, Requests, At
<1>2. Len(inbox) \in Nat /\ i \in 1..(Len(inbox) + 1)
  BY <1>1, LenProperties
<1>3. Ahead(inbox, i) \in Nat /\ Ahead(inbox, i) <= MaxRequests
  <2>1. /\ Ahead(inbox, i) \in Nat
        /\ Ahead(inbox, i) <= Cardinality(At(inbox))
    BY <1>1, <1>2, AheadType
  <2>2. Cardinality(At(inbox)) \in Nat
    BY <1>1, AtFinite
  <2> QED
    BY <1>1, <2>1, <2>2, Constants
<1>4. Rest \in 0..MaxBody /\ Wait \in 0..(MaxWrites * MaxBody) /\ Ahead(inbox, i) \in 0..MaxRequests
  BY <1>3, RestType, WaitType, Constants, TurnType DEF IInv
<1> QED
  BY <1>1, <1>4, QueueingBound DEF ReadBy

LEMMA AheadCost ==
  ASSUME IInv, NEW i \in DOMAIN inbox
  PROVE  Ahead(inbox, i) * Turn \in Nat
<1>1. inbox \in Seq(Frame)
  BY DEF IInv, TypeOK
<1>2. Len(inbox) \in Nat /\ i \in 1..(Len(inbox) + 1)
  BY <1>1, LenProperties
<1>3. Ahead(inbox, i) \in Nat /\ Turn \in Nat
  BY <1>1, <1>2, AheadType, TurnType
<1> QED
  BY <1>3, Times

LEMMA Numbers ==
  ASSUME IInv
  PROVE  /\ now \in Nat /\ last \in Nat /\ nextTick \in Nat /\ body \in Nat /\ ping \in Nat
         /\ last <= now /\ inbox \in Seq(Frame) /\ writes \in 0..MaxWrites
  BY Constants DEF IInv, TypeOK, None

LEMMA BeforeNone ==
  ASSUME IInv, NEW d \in 0..MaxBody
  PROVE  now + d # None
  BY Constants DEF IInv, TypeOK, None

\* No tick finds a live client silent for longer than the timeout.
LEMMA LiveInTime ==
  ASSUME IInv, LiveInv, alive
  PROVE  now <= last + Timeout /\ ~TimedOut
<1>1. PICK k \in Nat : SignComes(k)
  BY DEF LiveInv
<1>2. Pings(k) \in Nat /\ Queueing \in Nat /\ open /\ PingInv
  BY PingsType, TurnType DEF LiveInv
<1>3. /\ now \in Nat /\ last \in Nat /\ nextTick \in Nat /\ body \in Nat /\ ping \in Nat
      /\ RoundTrip \in Nat /\ MaxBody \in Nat /\ Timeout \in Nat
  BY Numbers, Constants
<1>4. now <= last + Timeout
  <2>1. CASE PongComes(k)
    <3>1. PICK i \in DOMAIN inbox : ReadBy(i) + Pings(k) <= last + Timeout
      BY <2>1 DEF PongComes
    <3>2. ReadBy(i) \in Nat /\ now <= ReadBy(i)
      BY <1>2, ReadByBound
    <3> QED
      BY <1>2, <1>3, <3>1, <3>2
  <2>2. CASE PingSent(k)
    <3>1. now <= ping + RoundTrip /\ ping + RoundTrip + Queueing + Pings(k) <= last + Timeout
      BY <1>2, <2>2 DEF PingSent, PingInv
    <3> QED
      BY <1>2, <1>3, <3>1
  <2>3. CASE PingNext(k)
    <3>1. now <= nextTick + MaxBody /\ nextTick + MaxBody + RoundTrip + Queueing + Pings(k) <= last + Timeout
      BY <1>3, <2>3 DEF PingNext
    <3> QED
      BY <1>2, <1>3, <3>1
  <2> QED
    BY <1>1, <2>1, <2>2, <2>3 DEF SignComes
<1> QED
  BY <1>3, <1>4 DEF TimedOut


\* Bodies as long as an interval leave no time for the ticks of a timeout.
LEMMA PatientTicks ==
  ASSUME Patient
  PROVE  \E k \in Nat : /\ Timeout <= Apart(k)
                        /\ Interval + MaxBody + RoundTrip + Queueing + Pings(k) <= Timeout
                        /\ MaxBody <= Interval
<1>1. PICK k \in Nat : /\ Timeout <= Apart(k)
                       /\ Interval + MaxBody + RoundTrip + Queueing + Pings(k) <= Timeout
  BY DEF Patient
<1>2. Interval <= MaxBody => Apart(k) <= Pings(k)
  <2>1. Interval \in Nat /\ MaxBody \in Nat
    BY Constants
  <2>2. Interval <= MaxBody => Interval * k <= MaxBody * k
    BY <2>1, Times
  <2>3. Interval * k = k * Interval /\ MaxBody * k = k * MaxBody
    BY <2>1
  <2> QED
    BY <2>2, <2>3 DEF Apart, Pings
<1>3. Pings(k) \in Nat /\ Apart(k) \in Nat /\ Queueing \in Nat
  BY PingsType, TurnType
<1> QED
  BY <1>1, <1>2, <1>3, Constants

LEMMA LiveInit == Patient /\ Init => LiveInv
<1> SUFFICES ASSUME Patient, Init PROVE LiveInv
  OBVIOUS
<1>1. PICK k \in Nat : /\ Timeout <= Apart(k)
                       /\ Interval + MaxBody + RoundTrip + Queueing + Pings(k) <= Timeout
                       /\ MaxBody <= Interval
  BY PatientTicks
<1>2. /\ k + 1 \in Nat /\ Apart(k + 1) = Apart(k) + Interval /\ Pings(k + 1) = Pings(k) + MaxBody
      /\ Apart(k) \in Nat /\ Pings(k) \in Nat /\ Queueing \in Nat
  <2>1. k + 1 \in Nat /\ k + 1 # 0 /\ (k + 1) - 1 = k
    OBVIOUS
  <2> QED
    BY <2>1, PingsType, TurnType
<1>3. /\ now = 0 /\ last = 0 /\ nextTick = 0 /\ body = 0 /\ ping = None /\ open
  BY DEF Init
<1>4. FewTicks(k + 1)
  BY <1>1, <1>2, <1>3, Constants DEF FewTicks
<1>5. PingNext(k + 1)
  BY <1>1, <1>2, <1>3, Constants DEF PingNext
<1> QED
  BY <1>2, <1>3, <1>4, <1>5 DEF LiveInv, PingInv, SignComes

\* A sign of life that is read starts the count anew, whatever else is on its way.
LEMMA AfterSign ==
  ASSUME Patient, IInv, LiveInv, IInv', alive', ReadFrame, Head(inbox) # "request"
  PROVE  LiveInv'
<1>1. /\ alive /\ open /\ open' /\ last' = now /\ UNCHANGED <<now, nextTick, ping>>
      /\ body = 0 /\ now < nextTick /\ PingInv
  BY Numbers DEF ReadFrame, MayServe, Selecting, TickDue, LiveInv
<1>2. /\ now \in Nat /\ ping \in Nat /\ nextTick \in Nat /\ nextTick <= now + Interval
  BY Numbers, Constants DEF IInv, TypeOK
<1>3. PICK d \in 0..MaxBody : body' = IF d = 0 THEN 0 ELSE now + d
  BY DEF ReadFrame, Takes
<1>4. PICK k \in Nat : /\ Timeout <= Apart(k)
                       /\ Interval + MaxBody + RoundTrip + Queueing + Pings(k) <= Timeout
                       /\ MaxBody <= Interval
  BY PatientTicks
<1>5. Pings(k) \in Nat /\ Apart(k) \in Nat /\ Queueing \in Nat
  BY PingsType, TurnType
<1>6. ping # None => ping <= now /\ now <= ping + RoundTrip
  BY <1>1, <1>2 DEF PingInv
<1>7. PingInv'
  BY <1>1, <1>2, <1>6 DEF PingInv, None
<1>8. FewTicks(k)'
  BY <1>1, <1>2, <1>4, <1>5, Constants DEF FewTicks
<1>9. CASE ping # None
  <2>1. ping + RoundTrip + Queueing + Pings(k) <= now + Timeout
    BY <1>2, <1>4, <1>5, <1>6, <1>9, Constants
  <2>2. PingSent(k)'
    BY <1>1, <1>9, <2>1 DEF PingSent, None
  <2> QED
    BY <1>1, <1>7, <1>8, <2>2 DEF LiveInv, SignComes
<1>10. CASE ping = None
  <2>1. nextTick + MaxBody + RoundTrip + Queueing + Pings(k) <= now + Timeout
    BY <1>2, <1>4, <1>5, Constants
  <2>2. {now', body'} \subseteq 0..(nextTick + MaxBody)
    BY <1>1, <1>2, <1>3, Constants
  <2>3. PingNext(k)'
    BY <1>1, <1>10, <2>1, <2>2 DEF PingNext, None
  <2> QED
    BY <1>1, <1>7, <1>8, <2>3 DEF LiveInv, SignComes
<1> QED
  BY <1>9, <1>10

\* A tick is one of those counted, and takes the time of its ping.
LEMMA TickKeepsComing ==
  ASSUME IInv, LiveInv, Tick, alive'
  PROVE  LiveInv'
<1>1. /\ alive /\ open /\ PingInv /\ body = 0 /\ nextTick <= now
      /\ UNCHANGED <<now, last, inbox, writes>> /\ nextTick' = nextTick + Interval
  BY DEF Tick, Selecting, TickDue, LiveInv
<1>2. now <= last + Timeout /\ ~TimedOut
  BY <1>1, LiveInTime
<1>3. open' /\ \E d \in 0..MaxBody : SendPing(d)
  BY <1>1, <1>2 DEF Tick, TimedOut
<1>4. PICK d \in 0..MaxBody : /\ body' = IF d = 0 THEN 0 ELSE now + d
                              /\ ping' = IF ping = None THEN now + d ELSE ping
  BY <1>1, <1>3 DEF SendPing, Takes
<1>5. PICK k \in Nat : SignComes(k)
  BY <1>1 DEF LiveInv
<1>0. /\ now \in Nat /\ last \in Nat /\ nextTick \in Nat /\ ping \in Nat
      /\ Timeout \in Nat /\ Interval \in Nat /\ MaxBody \in Nat /\ RoundTrip \in Nat
  BY Numbers, Constants
<1>6. k # 0
  <2>1. last + Timeout < nextTick + Apart(k)
    BY <1>5 DEF SignComes, FewTicks
  <2>2. Apart(0) = 0
    BY PingsType
  <2> QED
    BY <1>0, <1>1, <1>2, <2>1, <2>2
<1>7. /\ k - 1 \in Nat /\ Pings(k) \in Nat /\ Pings(k - 1) \in Nat /\ Queueing \in Nat
      /\ Pings(k) = Pings(k - 1) + MaxBody /\ Apart(k) = Apart(k - 1) + Interval
      /\ Apart(k - 1) \in Nat
  BY <1>6, PingsType, TurnType
<1>8. FewTicks(k - 1)'
  BY <1>1, <1>5, <1>7, Numbers, Constants DEF SignComes, FewTicks
<1>9. PingInv'
  BY <1>1, <1>4, Numbers, Constants DEF PingInv, None
<1>10. CASE PongComes(k)
  <2>1. PICK i \in DOMAIN inbox : inbox[i] = "pong" /\ ReadBy(i) + Pings(k) <= last + Timeout
    BY <1>10 DEF PongComes
  <2>2. Rest = 0 /\ Rest' = d /\ Wait' = Wait
    BY <1>1, <1>4, Numbers, Constants DEF Rest, Wait
  <2>3. ReadBy(i)' = ReadBy(i) + d
    <3>1. ReadBy(i) \in Nat
      BY <1>1, ReadByBound
    <3>2. Wait \in Nat /\ ReadBy(i) = now + Wait + Ahead(inbox, i) * Turn
      BY <2>2, Numbers, WaitType DEF ReadBy, IInv
    <3>3. ReadBy(i)' = now + d + Wait + Ahead(inbox, i) * Turn
      BY <1>1, <2>2 DEF ReadBy
    <3>4. Ahead(inbox, i) * Turn \in Nat
      BY <1>1, AheadCost
    <3> QED
      BY <3>2, <3>3, <3>4, Numbers
  <2>4. ReadBy(i) \in Nat
    BY <1>1, ReadByBound
  <2>5. ReadBy(i)' + Pings(k - 1) <= last' + Timeout
    BY <1>0, <1>1, <1>4, <1>7, <2>1, <2>3, <2>4
  <2>6. PongComes(k - 1)'
    BY <1>1, <2>1, <2>5 DEF PongComes
  <2> QED
    BY <1>3, <1>7, <1>8, <1>9, <2>6 DEF LiveInv, SignComes
<1>11. CASE PingSent(k)
  <2>0. ping # None /\ ping + RoundTrip + Queueing + Pings(k) <= last + Timeout
    BY <1>11 DEF PingSent
  <2>2. ping + RoundTrip + Queueing + Pings(k - 1) <= last + Timeout /\ ping' = ping
    BY <1>0, <1>4, <1>7, <2>0
  <2>1. PingSent(k - 1)'
    BY <1>1, <2>0, <2>2 DEF PingSent, None
  <2> QED
    BY <1>3, <1>7, <1>8, <1>9, <2>1 DEF LiveInv, SignComes
<1>12. CASE PingNext(k)
  <2>1. ping' = now + d /\ now + d # None
    BY <1>4, <1>12, BeforeNone DEF PingNext
  <2>2. now + d + RoundTrip + Queueing + Pings(k - 1) <= last + Timeout
    <3>1. now <= nextTick + MaxBody /\ nextTick + MaxBody + RoundTrip + Queueing + Pings(k) <= last + Timeout
      BY <1>0, <1>12 DEF PingNext
    <3> QED
      BY <1>0, <1>4, <1>7, <3>1
  <2>3. PingSent(k - 1)'
    BY <1>1, <2>1, <2>2 DEF PingSent, None
  <2> QED
    BY <1>3, <1>7, <1>8, <1>9, <2>3 DEF LiveInv, SignComes
<1> QED
  BY <1>5, <1>10, <1>11, <1>12 DEF SignComes

\* Steps that leave the ticks and the last sign of life alone: it is enough that a pong that
\* was in time still is, and that the ping that was sent has not been lost.
LEMMA QuietStep ==
  ASSUME LiveInv, alive, open', PingInv', UNCHANGED <<last, nextTick>>,
         \A k \in Nat : PongComes(k) \/ PingSent(k) \/ PingNext(k) =>
                          (PongComes(k) \/ PingSent(k) \/ PingNext(k))'
  PROVE  LiveInv'
<1>1. PICK k \in Nat : SignComes(k)
  BY DEF LiveInv
<1>2. FewTicks(k)'
  BY <1>1 DEF SignComes, FewTicks
<1>3. (PongComes(k) \/ PingSent(k) \/ PingNext(k))'
  BY <1>1 DEF SignComes
<1>4. SignComes(k)'
  BY <1>2, <1>3 DEF SignComes
<1> QED
  BY <1>4 DEF LiveInv

\* A body that begins, of a request or a write, takes the time that was set aside for it.
LEMMA BodyKeepsComing ==
  ASSUME IInv, LiveInv, alive', Write \/ (ReadFrame /\ Head(inbox) = "request")
  PROVE  LiveInv'
<1>1. /\ alive /\ open /\ open' /\ PingInv /\ UNCHANGED <<now, last, nextTick, ping>>
      /\ body = 0 /\ now < nextTick
  <2>1. CASE Write
    BY <2>1, Numbers DEF Write, MayServe, Selecting, TickDue, LiveInv
  <2>2. CASE ReadFrame /\ Head(inbox) = "request"
    BY <2>2, Numbers DEF ReadFrame, MayServe, Selecting, TickDue, LiveInv
  <2> QED
    BY <2>1, <2>2
<1>2. PICK d \in 0..MaxBody : body' = IF d = 0 THEN 0 ELSE now + d
  <2>1. CASE Write
    BY <2>1 DEF Write, Takes
  <2>2. CASE ReadFrame /\ Head(inbox) = "request"
    BY <2>2 DEF ReadFrame, Takes
  <2> QED
    BY <2>1, <2>2
<1>3. Rest = 0 /\ Rest' = d
  BY <1>1, <1>2, Numbers, Constants DEF Rest
<1>4. PingInv'
  BY <1>1, Numbers DEF PingInv, None
<1>5. ASSUME NEW k \in Nat, PongComes(k) PROVE PongComes(k)'
  <2>1. PICK i \in DOMAIN inbox : inbox[i] = "pong" /\ ReadBy(i) + Pings(k) <= last + Timeout
    BY <1>5 DEF PongComes
  <2>2. inbox \in Seq(Frame) /\ inbox # <<>> /\ Len(inbox) \in Nat /\ i \in 1..(Len(inbox) + 1)
    BY Numbers, LenProperties
  <2>3. Wait \in Nat /\ Ahead(inbox, i) \in Nat /\ Turn \in Nat /\ Pings(k) \in Nat
    BY <2>2, AheadType, TurnType, WaitType, PingsType DEF IInv
  <2>4. Ahead(inbox, i) * Turn \in Nat /\ ReadBy(i) = now + Wait + Ahead(inbox, i) * Turn
    BY <1>1, <1>3, <2>3, AheadCost, Numbers DEF ReadBy
  <2>5. CASE Write
    <3>1. writes < MaxWrites /\ writes' = writes + 1 /\ inbox' = inbox
      BY <2>2, <2>5 DEF Write
    <3>2. Wait = Wait' + MaxBody /\ Wait' \in Nat
      <4>1. MaxWrites - writes \in Nat \ {0} /\ MaxWrites - writes' = (MaxWrites - writes) - 1
        BY <3>1, Numbers, Constants
      <4>2. PICK a \in Nat : a = MaxWrites - writes /\ a # 0 /\ MaxWrites - writes' = a - 1
        BY <4>1
      <4>3. a * MaxBody = (a - 1) * MaxBody + MaxBody /\ (a - 1) * MaxBody \in Nat
        BY <4>2, Constants, Times
      <4> QED
        BY <4>2, <4>3 DEF Wait
    <3>3. ReadBy(i)' = now + d + Wait' + Ahead(inbox, i) * Turn
      BY <1>1, <1>3, <3>1 DEF ReadBy
    <3>4. ReadBy(i)' + Pings(k) <= last' + Timeout
      <4>1. /\ now \in Nat /\ last \in Nat /\ last' = last
            /\ Timeout \in Nat /\ MaxBody \in Nat /\ d \in Nat /\ d <= MaxBody
        BY <1>1, Numbers, Constants
      <4>2. now + (Wait' + MaxBody) + Ahead(inbox, i) * Turn + Pings(k) <= last + Timeout
        BY <2>1, <2>4, <3>2
      <4> QED
        BY <2>3, <2>4, <3>2, <3>3, <4>1, <4>2
    <3> QED
      BY <2>1, <3>1, <3>4 DEF PongComes
  <2>6. CASE ReadFrame /\ Head(inbox) = "request"
    <3>1. writes' = 0 /\ inbox' = Tail(inbox)
      BY <2>6 DEF ReadFrame
    <3>2. /\ i - 1 \in DOMAIN inbox' /\ inbox'[i - 1] = "pong"
          /\ Ahead(inbox', i - 1) + 1 <= Ahead(inbox, i)
      BY <2>1, <2>2, <2>6, <3>1, AheadTail
    <3>3. Ahead(inbox', i - 1) \in Nat
      <4>1. inbox' \in Seq(Frame)
        BY <2>2, <3>1, HeadTailProperties
      <4>2. Len(inbox') \in Nat /\ i - 1 \in 1..(Len(inbox') + 1)
        BY <3>2, <4>1, LenProperties
      <4> QED
        BY <4>1, <4>2, AheadType
    <3>4. Wait' = MaxWrites * MaxBody
      BY <3>1, Constants DEF Wait
    <3>5. /\ Ahead(inbox', i - 1) * Turn + Turn <= Ahead(inbox, i) * Turn
          /\ Ahead(inbox', i - 1) * Turn \in Nat
      BY <2>3, <3>2, <3>3, Times
    <3>6. now + d + MaxWrites * MaxBody + Ahead(inbox', i - 1) * Turn + Pings(k) <= last + Timeout
      <4>1. MaxWrites * MaxBody \in Nat /\ Turn = MaxWrites * MaxBody + MaxBody
        BY TurnType
      <4>2. /\ now \in Nat /\ last \in Nat
            /\ Timeout \in Nat /\ MaxBody \in Nat /\ d \in Nat /\ d <= MaxBody
        BY Numbers, Constants
      <4>3. now + Wait + Ahead(inbox, i) * Turn + Pings(k) <= last + Timeout
        BY <2>1, <2>4
      <4> QED
        BY <2>3, <2>4, <3>5, <4>1, <4>2, <4>3
    <3>7. ReadBy(i - 1)' + Pings(k) <= last' + Timeout
      BY <1>1, <1>3, <3>4, <3>6 DEF ReadBy
    <3> QED
      BY <3>2, <3>7 DEF PongComes
  <2> QED
    BY <2>5, <2>6
<1>6. ASSUME NEW k \in Nat, PingSent(k) PROVE PingSent(k)'
  BY <1>1, <1>6 DEF PingSent, None
<1>7. ASSUME NEW k \in Nat, PingNext(k) PROVE PingNext(k)'
  BY <1>1, <1>2, <1>7, Numbers, Constants DEF PingNext, None
<1> QED
  BY <1>1, <1>4, <1>5, <1>6, <1>7, QuietStep

\* The end of a body and the passing of time are accounted for in Rest.
LEMMA TimeKeepsComing ==
  ASSUME IInv, LiveInv, alive', BodyEnds \/ Pass
  PROVE  LiveInv'
<1>1. /\ alive /\ open /\ open' /\ PingInv /\ UNCHANGED <<last, nextTick, inbox, writes, ping>>
      /\ body' \in {0, body}
  BY DEF BodyEnds, Pass, LiveInv
<1>2. PingInv'
  <2>1. CASE BodyEnds
    BY <1>1, <2>1, Numbers DEF BodyEnds, PingInv, None
  <2>2. CASE Pass
    BY <1>1, <2>2, Numbers, Constants DEF Pass, PingInv, None
  <2> QED
    BY <2>1, <2>2
<1>3. ASSUME NEW k \in Nat, PongComes(k) PROVE PongComes(k)'
  <2>1. PICK i \in DOMAIN inbox : inbox[i] = "pong" /\ ReadBy(i) + Pings(k) <= last + Timeout
    BY <1>3 DEF PongComes
  <2>2. inbox # <<>>
    BY <2>1
  <2>3. now' + Rest' = now + Rest
    <3>1. CASE BodyEnds
      BY <3>1, Numbers DEF BodyEnds, Rest
    <3>2. CASE Pass
      BY <2>2, <3>2, Numbers DEF Pass, Rest
    <3> QED
      BY <3>1, <3>2
  <2>4. ReadBy(i)' = ReadBy(i)
    BY <1>1, <2>3 DEF ReadBy, Wait
  <2> QED
    BY <1>1, <2>1, <2>4 DEF PongComes
<1>4. ASSUME NEW k \in Nat, PingSent(k) PROVE PingSent(k)'
  BY <1>1, <1>4 DEF PingSent, None
<1>5. ASSUME NEW k \in Nat, PingNext(k) PROVE PingNext(k)'
  <2>1. CASE BodyEnds
    BY <1>1, <1>5, <2>1, Numbers, Constants DEF PingNext, BodyEnds, None
  <2>2. CASE Pass
    <3>1. now' = now + 1 /\ body' = body /\ IF body = 0 THEN now < nextTick ELSE now < body
      BY <2>2, Numbers DEF Pass, TickDue
    <3> QED
      BY <1>1, <1>5, <3>1, Numbers, Constants DEF PingNext, None
  <2> QED
    BY <2>1, <2>2
<1> QED
  BY <1>1, <1>2, <1>3, <1>4, <1>5, QuietStep

\* What the client sends goes behind what is there; its answer joins at the end.
LEMMA ClientKeepsComing ==
  ASSUME IInv, LiveInv, alive', Answer \/ SendRequest
  PROVE  LiveInv'
<1>1. /\ alive /\ open /\ open' /\ PingInv /\ UNCHANGED <<now, last, nextTick, body, writes>>
  BY DEF Answer, SendRequest, LiveInv
<1>2. PICK f \in Frame : inbox' = Append(inbox, f) /\ (Answer => f = "pong")
  BY DEF Answer, SendRequest, Frame
<1>3. ping' \in {ping, None} /\ (SendRequest => ping' = ping)
  BY DEF Answer, SendRequest
<1>4. PingInv'
  BY <1>1, <1>3 DEF PingInv, None
<1>5. ASSUME NEW k \in Nat, PongComes(k) PROVE PongComes(k)'
  <2>1. PICK i \in DOMAIN inbox : inbox[i] = "pong" /\ ReadBy(i) + Pings(k) <= last + Timeout
    BY <1>5 DEF PongComes
  <2>2. i \in DOMAIN inbox' /\ inbox'[i] = "pong" /\ Ahead(inbox', i) = Ahead(inbox, i)
    BY <1>2, <2>1, Numbers, AheadAppend
  <2>3. ReadBy(i)' = ReadBy(i)
    BY <1>1, <2>2 DEF ReadBy, Rest, Wait
  <2> QED
    BY <1>1, <2>1, <2>2, <2>3 DEF PongComes
<1>6. ASSUME NEW k \in Nat, PingSent(k), Answer PROVE PongComes(k)'
  <2>1. Queueing \in Nat /\ Pings(k) \in Nat
    BY TurnType, PingsType
  <2>2. now + Queueing + Pings(k) <= last + Timeout
    <3>1. ping <= now /\ ping # None
      BY <1>6 DEF Answer, PingSent
    <3>2. now <= ping + RoundTrip /\ ping + RoundTrip + Queueing + Pings(k) <= last + Timeout
      BY <1>1, <1>6, <3>1 DEF PingSent, PingInv
    <3>3. now \in Nat /\ last \in Nat /\ ping \in Nat /\ RoundTrip \in Nat /\ Timeout \in Nat
      BY Numbers, Constants
    <3> QED
      BY <2>1, <3>2, <3>3
  <2> DEFINE i == Len(inbox) + 1
  <2>3. i \in DOMAIN inbox' /\ inbox'[i] = "pong"
    BY <1>2, <1>6, Numbers, AppendProperties, LenProperties
  <2>4. Ahead(inbox', i) = Cardinality(At(inbox))
    BY <1>2, Numbers, AheadLast
  <2>5. Cardinality(At(inbox)) \in 0..MaxRequests
    <3>1. Cardinality(At(inbox)) <= MaxRequests
      BY DEF IInv, TypeOK, Requests, At
    <3> QED
      BY <3>1, AtFinite, Numbers, Constants
  <2>6. Rest \in 0..MaxBody /\ Wait \in 0..(MaxWrites * MaxBody)
    BY <1>1, RestType, WaitType, Constants, TurnType DEF IInv
  <2>7. /\ now + Rest + Wait + Ahead(inbox', i) * Turn <= now + Queueing
        /\ now + Rest + Wait + Ahead(inbox', i) * Turn \in Nat
    BY <2>4, <2>5, <2>6, Numbers, QueueingBound
  <2>8. now + Rest + Wait + Ahead(inbox', i) * Turn + Pings(k) <= last + Timeout
    BY <2>1, <2>2, <2>7, Numbers, Constants
  <2>9. Rest' = Rest /\ Wait' = Wait
    BY <1>1 DEF Rest, Wait
  <2>10. \A j \in DOMAIN inbox' : j = i => ReadBy(j)' + Pings(k) <= last' + Timeout
    BY <1>1, <2>8, <2>9 DEF ReadBy
  <2> QED
    BY <2>3, <2>10 DEF PongComes
<1>7. ASSUME NEW k \in Nat, PingSent(k), SendRequest PROVE PingSent(k)'
  BY <1>1, <1>3, <1>7 DEF PingSent, None
<1>8. ASSUME NEW k \in Nat, PingNext(k) PROVE PingNext(k)'
  BY <1>1, <1>3, <1>8 DEF PingNext, None
<1> QED
  BY <1>1, <1>4, <1>5, <1>6, <1>7, <1>8, QuietStep

LEMMA LiveStep ==
  ASSUME Patient, IInv, LiveInv, [Next]_vars
  PROVE  LiveInv'
<1> SUFFICES ASSUME alive' PROVE LiveInv'
  BY DEF LiveInv
<1>1. IInv'
  BY StepHolds
<1>2. CASE Tick
  BY <1>2, TickKeepsComing
<1>3. CASE ReadFrame /\ Head(inbox) # "request"
  <2>1. alive
    BY <1>3 DEF ReadFrame
  <2> QED
    BY <1>1, <1>3, AfterSign
<1>4. CASE Write \/ (ReadFrame /\ Head(inbox) = "request")
  BY <1>4, BodyKeepsComing
<1>5. CASE BodyEnds \/ Pass
  BY <1>5, TimeKeepsComing
<1>6. CASE Answer \/ SendRequest
  BY <1>6, ClientKeepsComing
<1>7. CASE Vanish
  BY <1>7 DEF Vanish
<1>8. CASE UNCHANGED vars
  BY <1>8
  DEF vars, LiveInv, PingInv, SignComes, FewTicks, PongComes, PingSent, PingNext, ReadBy, Rest, Wait, None
<1> QED
  BY <1>2, <1>3, <1>4, <1>5, <1>6, <1>7, <1>8 DEF Next

\* A client that answers its pings is kept, for every interval and timeout: if a ping, its
\* answer, the frames and writes before it and the pings of the ticks meanwhile fit into what
\* the timeout leaves beyond an interval.
THEOREM LiveClientKeptAlways ==
  ASSUME Patient
  PROVE  Spec => []LiveClientKept
<1>1. Init => IInv /\ LiveInv
  BY InitHolds, LiveInit
<1>2. IInv /\ LiveInv /\ [Next]_vars => IInv' /\ LiveInv'
  BY StepHolds, LiveStep
<1>3. LiveInv => LiveClientKept
  BY DEF LiveInv, LiveClientKept
<1> QED
  BY <1>1, <1>2, <1>3, PTL DEF Spec

===============================================================================
