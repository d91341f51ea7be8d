------------------------- MODULE OutboundQueues_proofs -------------------------
(***************************************************************************)
(* Theorems about the channels to the clients, for any number of them, any *)
(* capacities, any ids a client joins under, any sessions and event tasks: *)
(* the state keeps its types, an error for an undecodable request          *)
(* overtakes no reply, a subscriber is sent SessionEnded before            *)
(* SessionCreated only after another one was sent SessionCreated, and in a *)
(* group of handlers that wait for each other others have filled every     *)
(* channel but for what its own client's broadcasts put in, a few messages *)
(* per id it joined under.                                                 *)
(***************************************************************************)
EXTENDS OutboundQueues, SequenceTheorems, FiniteSetTheorems, TLAPS

-------------------------------------------------------------------------------
(* Sequences.                                                              *)

\* Without keeps the elements of the line but those of a task that is gone.
LEMMA WithoutFacts ==
  ASSUME NEW S, NEW q \in Seq(S), NEW gone
  PROVE  /\ Without(q, gone) \in Seq(S)
         /\ \A j \in DOMAIN Without(q, gone) :
              \E i \in DOMAIN q : Without(q, gone)[j] = q[i] /\ q[i][1] \notin gone
         /\ q = <<>> => Without(q, gone) = <<>>
         /\ \A i \in DOMAIN q : q[i][1] \notin gone =>
              \E j \in DOMAIN Without(q, gone) : Without(q, gone)[j] = q[i]
<1>. DEFINE kept == {i \in DOMAIN q : q[i][1] \notin gone}
            upTo(i) == {k \in kept : k <= i}
            n == Cardinality(kept)
            at(j) == CHOOSE i \in kept : Cardinality(upTo(i)) = j
            place == [i \in kept |-> Cardinality(upTo(i))]
<1>1. DOMAIN q = 1..Len(q) /\ Len(q) \in Nat
  BY LenProperties
<1>2. kept \subseteq 1..Len(q)
  BY <1>1
<1>3. IsFiniteSet(kept) /\ n \in Nat
  <2>1. IsFiniteSet(1..Len(q))
    BY <1>1, FS_Interval
  <2>2. IsFiniteSet(kept)
    BY <1>2, <2>1, FS_Subset
  <2>. QED
    BY <2>2, FS_CardinalityType
<1>4. \A i \in kept : IsFiniteSet(upTo(i)) /\ Cardinality(upTo(i)) \in Nat
  <2>. SUFFICES ASSUME NEW i \in kept PROVE IsFiniteSet(upTo(i)) /\ Cardinality(upTo(i)) \in Nat
    OBVIOUS
  <2>1. upTo(i) \in SUBSET kept
    OBVIOUS
  <2>. QED
    BY <1>3, <2>1, FS_Subset, FS_CardinalityType
<1>5. \A i \in kept : Cardinality(upTo(i)) \in 1..n
  <2>. SUFFICES ASSUME NEW i \in kept PROVE Cardinality(upTo(i)) \in 1..n
    OBVIOUS
  <2>1. upTo(i) \in SUBSET kept /\ i \in upTo(i)
    BY <1>1, <1>2
  <2>2. Cardinality(upTo(i)) <= n
    BY <1>3, <2>1, FS_Subset
  <2>3. Cardinality(upTo(i)) # 0
    BY <1>4, <2>1, FS_EmptySet
  <2>4. Cardinality(upTo(i)) \in Nat
    BY <1>4
  <2>. HIDE DEF n, upTo
  <2>. QED
    BY <1>3, <2>2, <2>3, <2>4
<1>6. \A i, k \in kept : i < k => Cardinality(upTo(i)) # Cardinality(upTo(k))
  <2>. SUFFICES ASSUME NEW i \in kept, NEW k \in kept, i < k
                PROVE  Cardinality(upTo(i)) # Cardinality(upTo(k))
    OBVIOUS
  <2>1. i \in Nat /\ k \in Nat /\ kept \subseteq Nat
    BY <1>1, <1>2
  <2>2. upTo(i) \in SUBSET upTo(k) /\ k \in upTo(k) /\ k \notin upTo(i)
    BY <2>1
  <2>. QED
    BY <1>4, <2>2, FS_Subset
<1>. HIDE DEF upTo
<1>7. place \in Injection(kept, 1..n)
  <2>1. place \in [kept -> 1..n]
    BY <1>5
  <2>2. \A i, k \in kept : place[i] = place[k] => i = k
    <3>1. \A i, k \in kept : i \in Nat /\ k \in Nat
      BY <1>1, <1>2
    <3>. QED
      BY <1>6, <3>1
  <2>. QED
    BY <2>1, <2>2 DEF Injection, IsInjective
<1>8. place \in Surjection(kept, 1..n)
  <2>1. IsFiniteSet(1..n) /\ Cardinality(1..n) = n
    BY <1>3, FS_Interval
  <2>. QED
    BY <1>7, <2>1, FS_Injection
<1>9. \A j \in 1..n : at(j) \in kept
  BY <1>8 DEF Surjection
<1>17. \A i \in kept : \E j \in 1..n : at(j) = i
  <2>. SUFFICES ASSUME NEW i \in kept PROVE at(Cardinality(upTo(i))) = i
    BY <1>5
  <2>1. \A k \in kept : k \in Nat
    BY <1>1, <1>2
  <2>2. \A k \in kept : Cardinality(upTo(k)) = Cardinality(upTo(i)) => k = i
    BY <1>6, <2>1
  <2>. QED
    BY <2>2
<1>10. Without(q, gone) = [j \in 1..n |-> q[at(j)]]
  BY DEF Without, upTo
<1>. HIDE DEF at, n
<1>11. \A j \in 1..n : q[at(j)] \in S /\ at(j) \in DOMAIN q /\ q[at(j)][1] \notin gone
  BY <1>9
<1>12. Without(q, gone) \in Seq(S)
  BY <1>3, <1>10, <1>11, IsASeq
<1>13. q = <<>> => n = 0
  <2>1. q = <<>> => kept = {}
    OBVIOUS
  <2>. QED
    BY <2>1, FS_EmptySet DEF n
<1>14. DOMAIN Without(q, gone) = 1..n
  BY <1>10
<1>15. n = 0 => Without(q, gone) = <<>>
  <2>1. Len(Without(q, gone)) = n
    BY <1>3, <1>12, <1>14, LenProperties
  <2>. QED
    BY <1>12, <2>1, EmptySeq
<1>16. \A j \in 1..n : Without(q, gone)[j] = q[at(j)]
  BY <1>10
<1>. QED
  BY <1>11, <1>12, <1>13, <1>14, <1>15, <1>16, <1>17

\* What Append adds is at the end, and nothing else changes.
LEMMA AppendFacts ==
  ASSUME NEW S, NEW q \in Seq(S), NEW m \in S
  PROVE  /\ Append(q, m) \in Seq(S) /\ Append(q, m) # <<>>
         /\ Len(Append(q, m)) = Len(q) + 1
         /\ \A i \in DOMAIN Append(q, m) :
              Append(q, m)[i] = m \/ \E j \in DOMAIN q : Append(q, m)[i] = q[j]
<1>1. /\ Append(q, m) \in Seq(S) /\ Append(q, m) # <<>>
      /\ Len(Append(q, m)) = Len(q) + 1
      /\ \A i \in 1..Len(q) : Append(q, m)[i] = q[i]
      /\ Append(q, m)[Len(q) + 1] = m
  BY AppendProperties
<1>2. DOMAIN q = 1..Len(q) /\ DOMAIN Append(q, m) = 1..(Len(q) + 1) /\ Len(q) \in Nat
  BY <1>1, LenProperties
<1>. QED
  BY <1>1, <1>2

\* Tail keeps no element that was not there.
LEMMA TailFacts ==
  ASSUME NEW S, NEW q \in Seq(S), q # <<>>
  PROVE  /\ Head(q) \in S /\ (\E j \in DOMAIN q : Head(q) = q[j])
         /\ Tail(q) \in Seq(S) /\ Len(Tail(q)) = Len(q) - 1 /\ Len(q) \in Nat \ {0}
         /\ \A i \in DOMAIN Tail(q) : \E j \in DOMAIN q : Tail(q)[i] = q[j]
<1>1. /\ Head(q) \in S /\ Tail(q) \in Seq(S)
      /\ Len(Tail(q)) = Len(q) - 1
      /\ \A i \in 1 .. Len(Tail(q)) : Tail(q)[i] = q[i + 1]
      /\ Head(q) = q[1]
  BY HeadTailProperties
<1>2. DOMAIN q = 1..Len(q) /\ Len(q) \in Nat \ {0}
  BY LenProperties, EmptySeq
<1>3. DOMAIN Tail(q) = 1..Len(Tail(q))
  BY <1>1, LenProperties
<1>4. 1 \in DOMAIN q /\ \A i \in DOMAIN Tail(q) : i + 1 \in DOMAIN q
  BY <1>1, <1>2, <1>3
<1>. QED
  BY <1>1, <1>2, <1>3, <1>4

-------------------------------------------------------------------------------
(* What a step does to the channels.                                       *)

\* The part of TypeOK about the channels.
ChannelsOK ==
  /\ queue \in [Channel -> Seq(Messages)]
  /\ line \in [Channel -> Seq(Task \X Messages)]
  /\ \A x \in Channel : /\ Len(queue[x]) <= Capacity[x]
                        /\ line[x] # <<>> => Len(queue[x]) = Capacity[x]

\* A message on its way to a client tells it the session s.
Carried(s) ==
  \E x \in Channel : \/ \E i \in DOMAIN queue[x] : queue[x][i].sid = s
                     \/ \E i \in DOMAIN line[x] : line[x][i][2].sid = s

\* What waits for room in a channel is marked as its owner's only if the owner sends it.
OwnLine == \A x \in Channel : \A i \in DOMAIN line[x] : line[x][i][2].own => line[x][i][1] = x

\* A step after which only the tasks T may have begun to wait, and only the sessions R may
\* newly be carried.
Channels(T, R) ==
  /\ ChannelsOK'
  /\ OwnLine => OwnLine'
  /\ \A u \in Task : Waiting(u)' => Waiting(u) \/ u \in T
  /\ \A s \in Session : Carried(s)' => Carried(s) \/ s \in R

\* The channels are left alone.
LEMMA ChannelsAlone ==
  ASSUME ChannelsOK, UNCHANGED <<queue, line>>
  PROVE  Channels({}, {})
BY DEF Channels, ChannelsOK, OwnLine, Waiting, WaitsFor, Carried

\* What the channels hold comes from what they held: no task and no session is new.
LEMMA ChannelsShrink ==
  ASSUME ChannelsOK, ChannelsOK',
         \A x \in Channel :
           /\ \A i \in DOMAIN queue'[x] :
                \/ \E j \in DOMAIN queue[x] : queue'[x][i] = queue[x][j]
                \/ \E j \in DOMAIN line[x] : queue'[x][i] = line[x][j][2]
           /\ \A i \in DOMAIN line'[x] : \E j \in DOMAIN line[x] : line'[x][i] = line[x][j]
  PROVE  Channels({}, {})
<1>1. ASSUME NEW u \in Task, Waiting(u)' PROVE Waiting(u)
  <2>1. PICK x \in Channel : \E i \in DOMAIN line'[x] : line'[x][i][1] = u
    BY <1>1 DEF Waiting, WaitsFor
  <2>. QED
    BY <2>1 DEF Waiting, WaitsFor
<1>2. ASSUME NEW s \in Session, Carried(s)' PROVE Carried(s)
  <2>1. PICK x \in Channel : \/ \E i \in DOMAIN queue'[x] : queue'[x][i].sid = s
                             \/ \E i \in DOMAIN line'[x] : line'[x][i][2].sid = s
    BY <1>2 DEF Carried
  <2>2. CASE \E i \in DOMAIN queue'[x] : queue'[x][i].sid = s
    BY <2>2 DEF Carried
  <2>3. CASE \E i \in DOMAIN line'[x] : line'[x][i][2].sid = s
    BY <2>3 DEF Carried
  <2>. QED
    BY <2>1, <2>2, <2>3
<1>3. OwnLine => OwnLine'
  BY DEF OwnLine
<1>. QED
  BY <1>1, <1>2, <1>3 DEF Channels

\* send().await: only the sender may wait, and only where there was no room; what the
\* client may learn is the session in the message.
LEMMA PutFacts ==
  ASSUME ChannelsOK, NEW t \in Task, NEW x \in Channel, NEW kind \in Kind,
         NEW s \in Session \cup {None}, Put(t, x, kind, s)
  PROVE  /\ Channels(IF Len(queue[x]) = Capacity[x] THEN {t} ELSE {}, {s})
         /\ \A y \in Channel : y # x => queue'[y] = queue[y]
         /\ \A i \in DOMAIN queue'[x] :
              queue'[x][i].kind = kind \/ \E j \in DOMAIN queue[x] : queue'[x][i] = queue[x][j]
<1>. DEFINE m == [kind |-> kind, sid |-> s, own |-> t = x]
            open == phase[x] \notin {"absent", "gone"}
            full == Len(queue[x]) = Capacity[x]
<1>1. /\ queue' = IF open /\ ~full THEN [queue EXCEPT ![x] = Append(@, m)] ELSE queue
      /\ line'  = IF open /\ full THEN [line EXCEPT ![x] = Append(@, <<t, m>>)] ELSE line
  BY Zenon DEF Put
<1>2. m \in Messages /\ m.kind = kind /\ m.sid = s
  BY DEF Messages
<1>3. queue[x] \in Seq(Messages) /\ line[x] \in Seq(Task \X Messages)
  BY DEF ChannelsOK
<1>4. /\ Append(queue[x], m) \in Seq(Messages)
      /\ Len(Append(queue[x], m)) = Len(queue[x]) + 1
      /\ \A i \in DOMAIN Append(queue[x], m) :
           Append(queue[x], m)[i] = m
           \/ \E j \in DOMAIN queue[x] : Append(queue[x], m)[i] = queue[x][j]
  BY <1>2, <1>3, AppendFacts
<1>5. /\ Append(line[x], <<t, m>>) \in Seq(Task \X Messages)
      /\ \A i \in DOMAIN Append(line[x], <<t, m>>) :
           Append(line[x], <<t, m>>)[i] = <<t, m>>
           \/ \E j \in DOMAIN line[x] : Append(line[x], <<t, m>>)[i] = line[x][j]
  <2>1. <<t, m>> \in Task \X Messages
    BY <1>2
  <2>. QED
    BY <1>3, <2>1, AppendFacts
<1>6. Len(queue[x]) \in Nat /\ Capacity[x] \in Nat
  BY <1>3, LenProperties, QueueAssumption
<1>10. m.own => t = x
  OBVIOUS
<1>. HIDE DEF m, open, full
<1>7. CASE open /\ ~full
  <2>1. queue' = [queue EXCEPT ![x] = Append(@, m)] /\ line' = line
    BY <1>1, <1>7
  <2>2. queue'[x] = Append(queue[x], m) /\ \A y \in Channel : y # x => queue'[y] = queue[y]
    BY <2>1 DEF ChannelsOK
  <2>3. line[x] = <<>> /\ Len(queue[x]) < Capacity[x]
    BY <1>6, <1>7 DEF ChannelsOK, full
  <2>4. ChannelsOK'
    <3>1. queue' \in [Channel -> Seq(Messages)]
      BY <1>4, <2>1 DEF ChannelsOK
    <3>2. \A y \in Channel : /\ Len(queue'[y]) <= Capacity[y]
                             /\ line'[y] # <<>> => Len(queue'[y]) = Capacity[y]
      BY <1>4, <1>6, <2>1, <2>2, <2>3 DEF ChannelsOK
    <3>. QED
      BY <2>1, <3>1, <3>2 DEF ChannelsOK
  <2>5. \A u \in Task : Waiting(u)' => Waiting(u)
    BY <2>1 DEF Waiting, WaitsFor
  <2>6. ASSUME NEW r \in Session, Carried(r)', r # s PROVE Carried(r)
    <3>1. PICK y \in Channel : \/ \E i \in DOMAIN queue'[y] : queue'[y][i].sid = r
                               \/ \E i \in DOMAIN line[y] : line[y][i][2].sid = r
      BY <2>1, <2>6 DEF Carried
    <3>2. CASE \E i \in DOMAIN queue'[y] : queue'[y][i].sid = r
      BY <1>2, <1>4, <2>2, <2>6, <3>2 DEF Carried
    <3>3. CASE \E i \in DOMAIN line[y] : line[y][i][2].sid = r
      BY <3>3 DEF Carried
    <3>. QED
      BY <3>1, <3>2, <3>3
  <2>7. OwnLine => OwnLine'
    BY <2>1 DEF OwnLine
  <2>. QED
    BY <1>2, <1>4, <2>2, <2>4, <2>5, <2>6, <2>7 DEF Channels
<1>8. CASE open /\ full
  <2>1. queue' = queue /\ line' = [line EXCEPT ![x] = Append(@, <<t, m>>)]
    BY <1>1, <1>8
  <2>2. line'[x] = Append(line[x], <<t, m>>) /\ \A y \in Channel : y # x => line'[y] = line[y]
    BY <2>1 DEF ChannelsOK
  <2>4. ChannelsOK'
    <3>1. line' \in [Channel -> Seq(Task \X Messages)]
      BY <1>5, <2>1 DEF ChannelsOK
    <3>. QED
      BY <1>8, <2>1, <2>2, <3>1 DEF ChannelsOK, full
  <2>5. ASSUME NEW u \in Task, Waiting(u)', u # t PROVE Waiting(u)
    <3>1. PICK y \in Channel : \E i \in DOMAIN line'[y] : line'[y][i][1] = u
      BY <2>5 DEF Waiting, WaitsFor
    <3>2. CASE y = x
      <4>1. PICK i \in DOMAIN Append(line[x], <<t, m>>) : Append(line[x], <<t, m>>)[i][1] = u
        BY <2>2, <3>1, <3>2
      <4>2. Append(line[x], <<t, m>>)[i] # <<t, m>>
        BY <2>5, <4>1
      <4>. QED
        BY <1>5, <4>1, <4>2 DEF Waiting, WaitsFor
    <3>3. CASE y # x
      BY <2>2, <3>1, <3>3 DEF Waiting, WaitsFor
    <3>. QED
      BY <3>2, <3>3
  <2>6. ASSUME NEW r \in Session, Carried(r)', r # s PROVE Carried(r)
    <3>1. PICK y \in Channel : \/ \E i \in DOMAIN queue[y] : queue[y][i].sid = r
                               \/ \E i \in DOMAIN line'[y] : line'[y][i][2].sid = r
      BY <2>1, <2>6 DEF Carried
    <3>2. CASE \E i \in DOMAIN line'[y] : line'[y][i][2].sid = r
      <4>1. CASE y # x
        BY <2>2, <3>2, <4>1 DEF Carried
      <4>2. CASE y = x
        <5>1. PICK i \in DOMAIN Append(line[x], <<t, m>>) : Append(line[x], <<t, m>>)[i][2].sid = r
          BY <2>2, <3>2, <4>2
        <5>2. Append(line[x], <<t, m>>)[i] # <<t, m>>
          BY <1>2, <2>6, <5>1
        <5>. QED
          BY <1>5, <5>1, <5>2 DEF Carried
      <4>. QED
        BY <4>1, <4>2
    <3>3. CASE \E i \in DOMAIN queue[y] : queue[y][i].sid = r
      BY <3>3 DEF Carried
    <3>. QED
      BY <3>1, <3>2, <3>3
  <2>7. ASSUME OwnLine PROVE OwnLine'
    <3>. SUFFICES ASSUME NEW y \in Channel, NEW i \in DOMAIN line'[y], line'[y][i][2].own
                  PROVE  line'[y][i][1] = y
      BY DEF OwnLine
    <3>1. CASE y # x
      BY <2>2, <2>7, <3>1 DEF OwnLine
    <3>2. CASE y = x
      <4>1. line'[y][i] = Append(line[x], <<t, m>>)[i] /\ i \in DOMAIN Append(line[x], <<t, m>>)
        BY <2>2, <3>2
      <4>2. CASE line'[y][i] = <<t, m>>
        BY <1>10, <3>2, <4>2
      <4>3. CASE \E j \in DOMAIN line[x] : line'[y][i] = line[x][j]
        BY <2>7, <3>2, <4>3 DEF OwnLine
      <4>. QED
        BY <1>5, <4>1, <4>2, <4>3
    <3>. QED
      BY <3>1, <3>2
  <2>. QED
    BY <1>8, <2>1, <2>4, <2>5, <2>6, <2>7 DEF Channels, full
<1>9. CASE ~open
  <2>1. queue' = queue /\ line' = line
    BY <1>1, <1>9
  <2>2. Channels({}, {})
    BY <2>1, ChannelsAlone
  <2>. QED
    BY <2>1, <2>2 DEF Channels
<1>. QED
  BY <1>7, <1>8, <1>9

-------------------------------------------------------------------------------
(* Type correctness.                                                       *)

OpRec == [step : Broadcast \cup {"none", "replying", "replied"},
          sid : Session \cup {None}, todo : SUBSET Receiver]

\* The rest of TypeOK.
ManagerOK ==
  /\ status \in [Session -> {"fresh", "live", "marked"}]
  /\ members \in [Session -> SUBSET Member]
  /\ streams \subseteq Stream
  /\ bound \in [Conn -> Session \cup {None}]
  /\ known \subseteq Session

GhostsOK ==
  /\ announced \in [Session -> SUBSET Subscriber]
  /\ endedTo \in [Session -> SUBSET Subscriber]

OwnersOK ==
  /\ phase \in [Channel -> {"absent", "loop", "rejecting", "away", "cleanup", "gone"}]
  /\ op \in [Task -> OpRec]

\* A broadcast is about a session; system subscribers alone are told of its announcement
\* and, at last, of its end.
TodoInv ==
  \A t \in Task :
    /\ op[t].step \in Broadcast => op[t].sid \in Session
    /\ op[t].step \in {"announcing", "tellingSystem"} => op[t].todo \subseteq Subscriber

TypeInv == ChannelsOK /\ ManagerOK /\ GhostsOK /\ OwnersOK /\ TodoInv

LEMMA TypeParts == TypeOK <=> ChannelsOK /\ ManagerOK /\ GhostsOK /\ OwnersOK
BY DEF TypeOK, ChannelsOK, ManagerOK, GhostsOK, OwnersOK, OpRec

\* Op builds an operation with the fields it is given.
LEMMA OpFacts ==
  ASSUME NEW step \in Broadcast \cup {"none", "replying", "replied"},
         NEW s \in Session \cup {None}, NEW todo \in SUBSET Receiver
  PROVE  /\ Op(step, s, todo) \in OpRec
         /\ Op(step, s, todo).step = step
         /\ Op(step, s, todo).sid = s
         /\ Op(step, s, todo).todo = todo
BY DEF Op, OpRec

LEMMA NoOpFacts ==
  NoOp \in OpRec /\ NoOp.step = "none" /\ NoOp.sid = None /\ NoOp.todo = {}
BY DEF NoOp, Op, OpRec

LEMMA OpTypes ==
  ASSUME OwnersOK, NEW t \in Task
  PROVE  /\ op[t] \in OpRec
         /\ op[t].step \in Broadcast \cup {"none", "replying", "replied"}
         /\ op[t].sid \in Session \cup {None}
         /\ op[t].todo \subseteq Receiver
BY DEF OwnersOK, OpRec

LEMMA SubscribersAreChannels == SystemSubscribers \in SUBSET Subscriber /\ Subscriber \subseteq Channel
BY DEF SystemSubscribers, Channel

\* A receiver of a broadcast has a channel: a subscriber's own, or the one of the connection.
LEMMA ReceiverFacts ==
  /\ Member \subseteq Receiver /\ Subscriber \subseteq Receiver /\ SystemSubscribers \in SUBSET Receiver
  /\ \A x \in Receiver : ChannelOf(x) \in Channel
  /\ \A x \in Subscriber : ChannelOf(x) = x
  /\ \A m \in Member : /\ m[1] \in Participant /\ m[2] \in Conn /\ m[1] \in Ids[m[2]]
                        /\ m = <<m[1], m[2]>> /\ m \notin Subscriber /\ ChannelOf(m) = m[2]
BY QueueAssumption DEF Member, Receiver, Channel, ChannelOf, SystemSubscribers

\* Who enters a session is a member, in place of whoever had the participant id.
LEMMA EnterFacts ==
  ASSUME members \in [Session -> SUBSET Member], NEW s \in Session, NEW c \in Conn, NEW p \in Ids[c],
         Enter(s, p, c)
  PROVE  members' \in [Session -> SUBSET Member]
<1>1. <<p, c>> \in Member
  BY QueueAssumption DEF Member
<1>2. {m \in members[s] : m[1] # p} \cup {<<p, c>>} \in SUBSET Member
  BY <1>1
<1>. QED
  BY <1>2 DEF Enter

LEMMA ConnFacts ==
  /\ Conn \subseteq Channel /\ Conn \subseteq Task /\ Stream \subseteq Task /\ Tracker \in Task
  /\ Conn \cap Stream = {} /\ Tracker \notin Conn /\ Tracker \notin Stream
BY QueueAssumption DEF Channel, Task, Stream

\* One task begins or ends an operation, and TodoInv is kept when what it begins is in order.
LEMMA OpSet ==
  ASSUME OwnersOK, TodoInv, NEW t \in Task, NEW o \in OpRec, op' = [op EXCEPT ![t] = o],
         o.step \in Broadcast => o.sid \in Session,
         o.step \in {"announcing", "tellingSystem"} => o.todo \subseteq Subscriber
  PROVE  /\ op' \in [Task -> OpRec] /\ TodoInv'
         /\ op'[t] = o /\ \A u \in Task : u # t => op'[u] = op[u]
<1>1. op' \in [Task -> OpRec]
  BY DEF OwnersOK
<1>2. op'[t] = o /\ \A u \in Task : u # t => op'[u] = op[u]
  BY DEF OwnersOK
<1>. QED
  BY <1>1, <1>2 DEF TodoInv

\* Mark begins the broadcast of the end of s by t.
LEMMA MarkFacts ==
  ASSUME OwnersOK, ManagerOK, TodoInv, NEW t \in Task, NEW s \in Session, Mark(t, s)
  PROVE  /\ op' \in [Task -> OpRec] /\ TodoInv'
         /\ op'[t].step = "telling" /\ op'[t].sid = s
         /\ \A u \in Task : u # t => op'[u] = op[u]
         /\ status' \in [Session -> {"fresh", "live", "marked"}]
         /\ status'[s] = "marked" /\ \A r \in Session : r # s => status'[r] = status[r]
<1>1. members[s] \in SUBSET Receiver
  BY ReceiverFacts DEF ManagerOK
<1>2. /\ Op("telling", s, members[s]) \in OpRec
      /\ Op("telling", s, members[s]).step = "telling"
      /\ Op("telling", s, members[s]).sid = s
  BY <1>1, OpFacts DEF Broadcast
<1>3. op' = [op EXCEPT ![t] = Op("telling", s, members[s])]
  BY DEF Mark
<1>4. /\ op' \in [Task -> OpRec] /\ TodoInv'
      /\ op'[t] = Op("telling", s, members[s]) /\ \A u \in Task : u # t => op'[u] = op[u]
  BY <1>2, <1>3, OpSet
<1>5. status' = [status EXCEPT ![s] = "marked"]
  BY DEF Mark
<1>. QED
  BY <1>2, <1>4, <1>5 DEF ManagerOK

\* A message is taken: the sessions the client then knows are known or were carried.
LEMMA ReceiveFacts ==
  ASSUME TypeInv, NEW x \in Channel, Receive(x)
  PROVE  /\ Channels({}, {})
         /\ known' \subseteq Session /\ \A s \in known' : s \in known \/ Carried(s)
         /\ \A y \in Channel : y # x => queue'[y] = queue[y]
<1>1. queue[x] \in Seq(Messages) /\ line[x] \in Seq(Task \X Messages) /\ queue[x] # <<>>
  BY DEF TypeInv, ChannelsOK, Receive
<1>2. /\ Head(queue[x]) \in Messages /\ (\E j \in DOMAIN queue[x] : Head(queue[x]) = queue[x][j])
      /\ Tail(queue[x]) \in Seq(Messages) /\ Len(Tail(queue[x])) = Len(queue[x]) - 1
      /\ Len(queue[x]) \in Nat \ {0}
      /\ \A i \in DOMAIN Tail(queue[x]) : \E j \in DOMAIN queue[x] : Tail(queue[x])[i] = queue[x][j]
  BY <1>1, TailFacts
<1>3. Capacity[x] \in Nat
  BY QueueAssumption
<1>4. known' \subseteq Session /\ \A s \in known' : s \in known \/ Carried(s)
  <2>1. known' = known \cup ({Head(queue[x]).sid} \ {None})
    BY DEF Receive
  <2>2. Head(queue[x]).sid \in Session \cup {None}
    BY <1>2 DEF Messages
  <2>. QED
    BY <1>2, <2>1, <2>2 DEF Carried, TypeInv, ManagerOK
<1>5. CASE line[x] = <<>>
  <2>1. queue' = [queue EXCEPT ![x] = Tail(@)] /\ line' = line
    BY <1>5 DEF Receive
  <2>2. queue'[x] = Tail(queue[x]) /\ \A y \in Channel : y # x => queue'[y] = queue[y]
    BY <2>1 DEF TypeInv, ChannelsOK
  <2>3. queue' \in [Channel -> Seq(Messages)]
    BY <1>2, <2>1 DEF TypeInv, ChannelsOK
  <2>4. \A y \in Channel : /\ Len(queue'[y]) <= Capacity[y]
                           /\ line'[y] # <<>> => Len(queue'[y]) = Capacity[y]
    BY <1>2, <1>3, <1>5, <2>1, <2>2 DEF TypeInv, ChannelsOK
  <2>5. ChannelsOK /\ ChannelsOK'
    BY <2>1, <2>3, <2>4 DEF TypeInv, ChannelsOK
  <2>6. ASSUME NEW y \in Channel
        PROVE  /\ \A i \in DOMAIN queue'[y] :
                    \/ \E j \in DOMAIN queue[y] : queue'[y][i] = queue[y][j]
                    \/ \E j \in DOMAIN line[y] : queue'[y][i] = line[y][j][2]
               /\ \A i \in DOMAIN line'[y] : \E j \in DOMAIN line[y] : line'[y][i] = line[y][j]
    BY <1>2, <2>1, <2>2
  <2>7. Channels({}, {})
    BY <2>5, <2>6, ChannelsShrink
  <2>. QED
    BY <1>4, <2>2, <2>7
<1>6. CASE line[x] # <<>>
  <2>1. /\ queue' = [queue EXCEPT ![x] = Append(Tail(@), Head(line[x])[2])]
        /\ line' = [line EXCEPT ![x] = Tail(@)]
    BY <1>6 DEF Receive
  <2>2. /\ Head(line[x]) \in Task \X Messages
        /\ (\E j \in DOMAIN line[x] : Head(line[x]) = line[x][j])
        /\ Tail(line[x]) \in Seq(Task \X Messages)
        /\ \A i \in DOMAIN Tail(line[x]) : \E j \in DOMAIN line[x] : Tail(line[x])[i] = line[x][j]
    BY <1>1, <1>6, TailFacts
  <2>. DEFINE m == Head(line[x])[2]
              q == Append(Tail(queue[x]), m)
  <2>3. m \in Messages
    BY <2>2
  <2>4. /\ q \in Seq(Messages) /\ Len(q) = Len(Tail(queue[x])) + 1
        /\ \A i \in DOMAIN q : q[i] = m \/ \E j \in DOMAIN Tail(queue[x]) : q[i] = Tail(queue[x])[j]
    BY <1>2, <2>3, AppendFacts
  <2>5. /\ queue'[x] = q /\ (\A y \in Channel : y # x => queue'[y] = queue[y])
        /\ line'[x] = Tail(line[x]) /\ (\A y \in Channel : y # x => line'[y] = line[y])
    BY <2>1 DEF TypeInv, ChannelsOK
  <2>6. queue' \in [Channel -> Seq(Messages)] /\ line' \in [Channel -> Seq(Task \X Messages)]
    BY <2>1, <2>2, <2>4 DEF TypeInv, ChannelsOK
  <2>7. \E j \in DOMAIN line[x] : m = line[x][j][2]
    BY <2>2
  <2>. HIDE DEF m, q
  <2>8. Len(q) = Capacity[x]
    BY <1>2, <1>3, <1>6, <2>4 DEF TypeInv, ChannelsOK
  <2>9. ChannelsOK /\ ChannelsOK'
    <3>1. \A y \in Channel : /\ Len(queue'[y]) <= Capacity[y]
                             /\ line'[y] # <<>> => Len(queue'[y]) = Capacity[y]
      <4>1. Len(queue'[x]) <= Capacity[x] /\ Len(queue'[x]) = Capacity[x]
        BY <1>3, <2>5, <2>8
      <4>2. ASSUME NEW y \in Channel, y # x
            PROVE  Len(queue'[y]) <= Capacity[y] /\ (line'[y] # <<>> => Len(queue'[y]) = Capacity[y])
        BY <2>5, <4>2 DEF TypeInv, ChannelsOK
      <4>. QED
        BY <4>1, <4>2
    <3>. QED
      BY <2>6, <3>1 DEF TypeInv, ChannelsOK
  <2>10. ASSUME NEW y \in Channel
         PROVE  /\ \A i \in DOMAIN queue'[y] :
                     \/ \E j \in DOMAIN queue[y] : queue'[y][i] = queue[y][j]
                     \/ \E j \in DOMAIN line[y] : queue'[y][i] = line[y][j][2]
                /\ \A i \in DOMAIN line'[y] : \E j \in DOMAIN line[y] : line'[y][i] = line[y][j]
    <3>1. CASE y # x
      BY <2>5, <3>1
    <3>2. CASE y = x
      <4>1. \A i \in DOMAIN q : \/ \E j \in DOMAIN queue[x] : q[i] = queue[x][j]
                                \/ \E j \in DOMAIN line[x] : q[i] = line[x][j][2]
        BY <1>2, <2>4, <2>7
      <4>2. \A i \in DOMAIN line'[x] : \E j \in DOMAIN line[x] : line'[x][i] = line[x][j]
        BY <2>2, <2>5
      <4>3. queue'[x] = q
        BY <2>5
      <4>. QED
        BY <3>2, <4>1, <4>2, <4>3
    <3>. QED
      BY <3>1, <3>2
  <2>11. Channels({}, {})
    BY <2>9, <2>10, ChannelsShrink
  <2>. QED
    BY <1>4, <2>5, <2>11
<1>. QED
  BY <1>5, <1>6

\* The channel of x and its line are dropped.
LEMMA DropFacts ==
  ASSUME TypeInv, NEW x \in Channel, DropReceiver(x)
  PROVE  /\ Channels({}, {})
         /\ phase' \in [Channel -> {"absent", "loop", "rejecting", "away", "cleanup", "gone"}]
         /\ phase'[x] \in {"gone", "absent"}
         /\ queue'[x] = <<>>
         /\ \A y \in Channel : y # x => phase'[y] = phase[y] /\ queue'[y] = queue[y]
<1>1. /\ queue' = [queue EXCEPT ![x] = <<>>] /\ line' = [line EXCEPT ![x] = <<>>]
      /\ phase' = [phase EXCEPT ![x] = IF x \in Conn THEN "gone" ELSE "absent"]
  BY DEF DropReceiver
<1>2. /\ queue'[x] = <<>> /\ (\A y \in Channel : y # x => queue'[y] = queue[y])
      /\ line'[x] = <<>> /\ (\A y \in Channel : y # x => line'[y] = line[y])
  BY <1>1 DEF TypeInv, ChannelsOK
<1>3. <<>> \in Seq(Messages) /\ <<>> \in Seq(Task \X Messages) /\ Len(<<>>) = 0
  OBVIOUS
<1>4. queue' \in [Channel -> Seq(Messages)] /\ line' \in [Channel -> Seq(Task \X Messages)]
  BY <1>1, <1>3 DEF TypeInv, ChannelsOK
<1>5. Capacity[x] \in Nat \ {0}
  BY QueueAssumption
<1>6. \A y \in Channel : /\ Len(queue'[y]) <= Capacity[y]
                         /\ line'[y] # <<>> => Len(queue'[y]) = Capacity[y]
  BY <1>2, <1>3, <1>5 DEF TypeInv, ChannelsOK
<1>7. ChannelsOK /\ ChannelsOK'
  BY <1>4, <1>6 DEF TypeInv, ChannelsOK
<1>8. ASSUME NEW y \in Channel
      PROVE  /\ \A i \in DOMAIN queue'[y] :
                  \/ \E j \in DOMAIN queue[y] : queue'[y][i] = queue[y][j]
                  \/ \E j \in DOMAIN line[y] : queue'[y][i] = line[y][j][2]
             /\ \A i \in DOMAIN line'[y] : \E j \in DOMAIN line[y] : line'[y][i] = line[y][j]
  BY <1>2
<1>9. Channels({}, {})
  BY <1>7, <1>8, ChannelsShrink
<1>. QED
  BY <1>1, <1>2, <1>9 DEF TypeInv, OwnersOK

\* The event tasks of a session are aborted and its terminator goes on: no sender is added,
\* and no operation but the terminator's and those of the aborted tasks is touched.
LEMMA EndFacts ==
  ASSUME TypeInv, NEW t \in Task, EndTermination(t)
  PROVE  /\ Channels({}, {})
         /\ \A y \in Channel : queue'[y] \in {queue[y], <<>>}
         /\ phase' \in [Channel -> {"absent", "loop", "rejecting", "away", "cleanup", "gone"}]
         /\ op' \in [Task -> OpRec] /\ TodoInv'
         /\ op'[t] = NoOp \/ (t \in Conn /\ phase[t] # "cleanup" /\ op'[t] = Op("replying", None, {}))
         /\ t \in Conn /\ phase[t] = "cleanup" => phase'[t] = "gone" /\ op'[t] = NoOp
         /\ \A u \in Task : u # t => op'[u] \in {op[u], NoOp}
         /\ \A c \in Conn : c # t => op'[c] = op[c]
         /\ \A y \in Channel : y # t \/ phase[y] # "cleanup" \/ t \notin Conn => phase'[y] = phase[y]
         /\ members' \in [Session -> SUBSET Member] /\ streams' \subseteq streams
         /\ op[t].step = "tellingSystem" /\ ~Waiting(t)
<1>. DEFINE s       == op[t].sid
            aborted == {s} \X Listener
            over    == t \in Conn /\ phase[t] = "cleanup"
            dropped == IF over THEN {t} ELSE {}
            ending  == IF t \in Conn /\ ~over THEN Op("replying", None, {}) ELSE NoOp
            replyOp == Op("replying", None, {})
<1>1. /\ streams' = streams \ aborted
      /\ members' = [members EXCEPT ![s] = {}]
      /\ queue' = [x \in Channel |-> IF x \in dropped THEN <<>> ELSE queue[x]]
      /\ line'  = [x \in Channel |-> IF x \in dropped THEN <<>> ELSE Without(line[x], aborted)]
      /\ phase' = [x \in Channel |-> IF x \in dropped THEN "gone" ELSE phase[x]]
      /\ op' = [u \in Task |-> IF u = t /\ t \in Conn /\ ~over THEN replyOp
                               ELSE IF u = t \/ u \in aborted THEN NoOp ELSE op[u]]
  BY Zenon DEF EndTermination
<1>2. op[t].step = "tellingSystem" /\ ~Waiting(t) /\ s \in Session
  BY DEF EndTermination, Sent, TypeInv, TodoInv, Broadcast
<1>3. \A u \in aborted : u \notin Conn
  BY <1>2, ConnFacts DEF Stream
<1>4. replyOp \in OpRec /\ replyOp.step = "replying" /\ NoOp \in OpRec /\ NoOp.step = "none"
  BY NoOpFacts DEF Op, OpRec
<1>. HIDE DEF replyOp, aborted
<1>5. Channels({}, {})
  <2>1. /\ queue \in [Channel -> Seq(Messages)] /\ line \in [Channel -> Seq(Task \X Messages)]
        /\ ChannelsOK
    BY DEF TypeInv, ChannelsOK
  <2>2. \A x \in Channel :
          /\ Without(line[x], aborted) \in Seq(Task \X Messages)
          /\ \A j \in DOMAIN Without(line[x], aborted) :
               \E i \in DOMAIN line[x] : Without(line[x], aborted)[j] = line[x][i]
          /\ line[x] = <<>> => Without(line[x], aborted) = <<>>
    <3>. SUFFICES ASSUME NEW x \in Channel
                  PROVE  /\ Without(line[x], aborted) \in Seq(Task \X Messages)
                         /\ \A j \in DOMAIN Without(line[x], aborted) :
                              \E i \in DOMAIN line[x] : Without(line[x], aborted)[j] = line[x][i]
                         /\ line[x] = <<>> => Without(line[x], aborted) = <<>>
      OBVIOUS
    <3>1. line[x] \in Seq(Task \X Messages)
      BY <2>1
    <3>. QED
      BY <3>1, WithoutFacts
  <2>3. <<>> \in Seq(Messages) /\ <<>> \in Seq(Task \X Messages) /\ Len(<<>>) = 0
    OBVIOUS
  <2>4. queue' \in [Channel -> Seq(Messages)] /\ line' \in [Channel -> Seq(Task \X Messages)]
    BY <1>1, <2>1, <2>2, <2>3
  <2>5. \A x \in Channel : \/ queue'[x] = <<>> /\ line'[x] = <<>>
                           \/ queue'[x] = queue[x] /\ line'[x] = Without(line[x], aborted)
    BY <1>1
  <2>6. \A x \in Channel : Capacity[x] \in Nat \ {0}
    BY QueueAssumption
  <2>7. \A x \in Channel : Len(queue'[x]) <= Capacity[x] /\ (line'[x] # <<>> => Len(queue'[x]) = Capacity[x])
    BY <2>1, <2>2, <2>3, <2>5, <2>6 DEF ChannelsOK
  <2>8. ChannelsOK'
    BY <2>4, <2>7 DEF ChannelsOK
  <2>9. ASSUME NEW x \in Channel
        PROVE  /\ \A i \in DOMAIN queue'[x] :
                    \/ \E j \in DOMAIN queue[x] : queue'[x][i] = queue[x][j]
                    \/ \E j \in DOMAIN line[x] : queue'[x][i] = line[x][j][2]
               /\ \A i \in DOMAIN line'[x] : \E j \in DOMAIN line[x] : line'[x][i] = line[x][j]
    <3>1. CASE queue'[x] = <<>> /\ line'[x] = <<>>
      BY <3>1
    <3>2. CASE queue'[x] = queue[x] /\ line'[x] = Without(line[x], aborted)
      <4>1. \A i \in DOMAIN line'[x] : \E j \in DOMAIN line[x] : line'[x][i] = line[x][j]
        <5>. DEFINE w == Without(line[x], aborted)
        <5>1. \A i \in DOMAIN w : \E j \in DOMAIN line[x] : w[i] = line[x][j]
          BY <2>2
        <5>2. line'[x] = w
          BY <3>2
        <5>. HIDE DEF w
        <5>. QED
          BY <5>1, <5>2
      <4>2. \A i \in DOMAIN queue'[x] : \E j \in DOMAIN queue[x] : queue'[x][i] = queue[x][j]
        BY <3>2
      <4>. QED
        BY <4>1, <4>2
    <3>. QED
      BY <2>5, <3>1, <3>2
  <2>. QED
    BY <2>1, <2>8, <2>9, ChannelsShrink
<1>6. \A y \in Channel : queue'[y] \in {queue[y], <<>>}
  BY <1>1
<1>7. /\ phase' \in [Channel -> {"absent", "loop", "rejecting", "away", "cleanup", "gone"}]
      /\ \A y \in Channel : y # t \/ phase[y] # "cleanup" \/ t \notin Conn => phase'[y] = phase[y]
      /\ t \in Conn /\ phase[t] = "cleanup" => phase'[t] = "gone"
  BY <1>1, ConnFacts DEF TypeInv, OwnersOK
<1>8. /\ op' \in [Task -> OpRec]
      /\ op'[t] = NoOp \/ (t \in Conn /\ phase[t] # "cleanup" /\ op'[t] = replyOp)
      /\ t \in Conn /\ phase[t] = "cleanup" => op'[t] = NoOp
      /\ \A u \in Task : u # t => op'[u] \in {op[u], NoOp}
      /\ \A c \in Conn : c # t => op'[c] = op[c]
  BY <1>1, <1>3, <1>4, ConnFacts DEF TypeInv, OwnersOK
<1>9. TodoInv'
  BY <1>4, <1>8 DEF TodoInv, TypeInv, Broadcast
<1>10. members' \in [Session -> SUBSET Member] /\ streams' \subseteq streams
  BY <1>1 DEF TypeInv, ManagerOK
<1>. QED
  BY <1>2, <1>5, <1>6, <1>7, <1>8, <1>9, <1>10 DEF replyOp

\* One more send of a broadcast: the sender goes on with the same operation.
LEMMA SendFacts ==
  ASSUME TypeInv, NEW t \in Task, NEW x \in Receiver, SendNext(t, x)
  PROVE  /\ Channels({t}, IF op[t].step = "announcing" THEN {op[t].sid} ELSE {})
         /\ \A y \in Channel : \A i \in DOMAIN queue'[y] :
              queue'[y][i].kind = "reply" => \E j \in DOMAIN queue[y] : queue'[y][i] = queue[y][j]
         /\ op' \in [Task -> OpRec] /\ TodoInv'
         /\ op'[t].step = op[t].step /\ op'[t].sid = op[t].sid
         /\ \A u \in Task : u # t => op'[u] = op[u]
         /\ op[t].step \in Broadcast /\ op[t].sid \in Session
         /\ op[t].step = "announcing" => announced' = [announced EXCEPT ![op[t].sid] = @ \cup {x}]
         /\ op[t].step # "announcing" => announced' = announced
         /\ endedTo' = endedTo \/ (/\ op[t].step = "tellingSystem" /\ Announcing(op[t].sid)
                                   /\ endedTo' = [endedTo EXCEPT ![op[t].sid] = @ \cup {x}])
         /\ GhostsOK'
<1>. DEFINE s == op[t].sid
<1>1. op[t].step \in Broadcast /\ s \in Session /\ x \in op[t].todo
  BY DEF SendNext, TypeInv, TodoInv
<1>2. /\ op[t].step \in {"announcing", "tellingSystem"} => x \in Subscriber
      /\ op[t] \in OpRec
  BY <1>1, OpTypes DEF TypeInv, TodoInv
<1>. DEFINE y == ChannelOf(x)
<1>13. y \in Channel
  BY ReceiverFacts
<1>3. PICK kind \in {"created", "event"}, r \in {s, None} :
         /\ Put(t, y, kind, r)
         /\ op[t].step # "announcing" => r = None
  BY DEF SendNext
<1>4. kind \in Kind /\ r \in Session \cup {None} /\ kind # "reply" /\ ChannelsOK
  BY <1>1, <1>3 DEF Kind, TypeInv
<1>. HIDE DEF y
<1>5. /\ Channels(IF Len(queue[y]) = Capacity[y] THEN {t} ELSE {}, {r})
      /\ \A z \in Channel : z # y => queue'[z] = queue[z]
      /\ \A i \in DOMAIN queue'[y] :
           queue'[y][i].kind = kind \/ \E j \in DOMAIN queue[y] : queue'[y][i] = queue[y][j]
  BY <1>3, <1>4, <1>13, PutFacts
<1>6. Channels({t}, IF op[t].step = "announcing" THEN {s} ELSE {})
  <2>1. r # None => op[t].step = "announcing" /\ r = s
    BY <1>3
  <2>2. None \notin Session
    BY QueueAssumption
  <2>. QED
    BY <1>5, <2>1, <2>2 DEF Channels
<1>7. /\ op' = [op EXCEPT ![t].todo = @ \ {x}]
      /\ announced' = IF op[t].step = "announcing" THEN [announced EXCEPT ![s] = @ \cup {x}]
                                                   ELSE announced
      /\ endedTo' = IF op[t].step = "tellingSystem" /\ Announcing(s)
                      THEN [endedTo EXCEPT ![s] = @ \cup {x}] ELSE endedTo
  BY Zenon DEF SendNext
<1>8. /\ op' \in [Task -> OpRec]
      /\ op'[t].step = op[t].step /\ op'[t].sid = op[t].sid /\ op'[t].todo \subseteq op[t].todo
      /\ \A u \in Task : u # t => op'[u] = op[u]
  BY <1>2, <1>7 DEF TypeInv, OwnersOK, OpRec
<1>9. TodoInv'
  BY <1>8 DEF TypeInv, TodoInv
<1>10. GhostsOK'
  BY <1>1, <1>2, <1>7 DEF TypeInv, GhostsOK
<1>11. \A z \in Channel : \A i \in DOMAIN queue'[z] :
         queue'[z][i].kind = "reply" => \E j \in DOMAIN queue[z] : queue'[z][i] = queue[z][j]
  BY <1>4, <1>5
<1>. QED
  BY <1>1, <1>6, <1>7, <1>8, <1>9, <1>10, <1>11

\* The reply: c waits only when its own channel is full, and its announcement is over.
LEMMA ReplyFacts ==
  ASSUME TypeInv, NEW c \in Conn, Reply(c)
  PROVE  /\ Channels(IF Len(queue[c]) = Capacity[c] THEN {c} ELSE {}, {op[c].sid})
         /\ \A y \in Channel : y # c => queue'[y] = queue[y] /\ phase'[y] = phase[y]
         /\ phase' \in [Channel -> {"absent", "loop", "rejecting", "away", "cleanup", "gone"}]
         /\ phase'[c] \in {"away", "loop"}
         /\ op' \in [Task -> OpRec] /\ TodoInv'
         /\ IF Len(queue[c]) = Capacity[c]
              THEN op'[c].step = "replied" /\ op'[c].sid = op[c].sid /\ phase'[c] = "away"
              ELSE op'[c] = NoOp
         /\ \A u \in Task : u # c => op'[u] = op[u]
         /\ bound' \in [Conn -> Session \cup {None}] /\ \A d \in Conn : bound'[d] \in {bound[d], op[c].sid}
         /\ GhostsOK'
         /\ \A s \in Session :
              IF op[c].step = "announcing" /\ op[c].sid = s
                THEN announced'[s] = {} /\ endedTo'[s] = {}
                ELSE announced'[s] = announced[s] /\ endedTo'[s] = endedTo[s]
<1>. DEFINE full == Len(queue[c]) = Capacity[c]
            over == IF op[c].step = "announcing" THEN {op[c].sid} ELSE {}
<1>1. /\ Put(c, c, "reply", Learnt(op[c].sid))
      /\ bound' = [bound EXCEPT ![c] = IF op[c].sid = None THEN @ ELSE op[c].sid]
      /\ op' = [op EXCEPT ![c] = IF full THEN [@ EXCEPT !.step = "replied"] ELSE NoOp]
      /\ phase' = [phase EXCEPT ![c] = IF full THEN @ ELSE "loop"]
      /\ announced' = [s \in Session |-> IF s \in over THEN {} ELSE announced[s]]
      /\ endedTo' = [s \in Session |-> IF s \in over THEN {} ELSE endedTo[s]]
      /\ phase[c] = "away"
  BY Zenon DEF Reply
<1>2. c \in Channel /\ c \in Task /\ op[c] \in OpRec /\ op[c].sid \in Session \cup {None}
  BY ConnFacts, OpTypes DEF TypeInv
<1>3. "reply" \in Kind /\ ChannelsOK
  BY DEF Kind, TypeInv
<1>14. Learnt(op[c].sid) \in Session \cup {None} /\ Learnt(op[c].sid) \in {op[c].sid, None}
  BY <1>2 DEF Learnt
<1>15. /\ Channels(IF full THEN {c} ELSE {}, {Learnt(op[c].sid)})
       /\ \A y \in Channel : y # c => queue'[y] = queue[y]
  BY <1>1, <1>2, <1>3, <1>14, PutFacts
<1>4. /\ Channels(IF full THEN {c} ELSE {}, {op[c].sid})
      /\ \A y \in Channel : y # c => queue'[y] = queue[y]
  BY <1>14, <1>15, QueueAssumption DEF Channels
<1>5. /\ [op[c] EXCEPT !.step = "replied"] \in OpRec
      /\ [op[c] EXCEPT !.step = "replied"].step = "replied"
      /\ [op[c] EXCEPT !.step = "replied"].sid = op[c].sid
  BY <1>2 DEF OpRec
<1>. DEFINE o == IF full THEN [op[c] EXCEPT !.step = "replied"] ELSE NoOp
<1>7. /\ o \in OpRec /\ o.step \in {"none", "replied"}
      /\ IF full THEN o.step = "replied" /\ o.sid = op[c].sid ELSE o = NoOp
  BY <1>5, NoOpFacts
<1>8. op' = [op EXCEPT ![c] = o]
  BY <1>1
<1>. HIDE DEF o
<1>9. /\ op' \in [Task -> OpRec] /\ TodoInv'
      /\ op'[c] = o /\ \A u \in Task : u # c => op'[u] = op[u]
  BY <1>2, <1>7, <1>8, OpSet DEF TypeInv, Broadcast
<1>10. /\ phase' \in [Channel -> {"absent", "loop", "rejecting", "away", "cleanup", "gone"}]
       /\ (IF full THEN phase'[c] = "away" ELSE phase'[c] = "loop")
       /\ \A y \in Channel : y # c => phase'[y] = phase[y]
  BY <1>1, <1>2 DEF TypeInv, OwnersOK
<1>11. bound' \in [Conn -> Session \cup {None}] /\ \A d \in Conn : bound'[d] \in {bound[d], op[c].sid}
  BY <1>1, <1>2 DEF TypeInv, ManagerOK
<1>12. \A s \in Session :
         IF op[c].step = "announcing" /\ op[c].sid = s
           THEN announced'[s] = {} /\ endedTo'[s] = {}
           ELSE announced'[s] = announced[s] /\ endedTo'[s] = endedTo[s]
  BY <1>1
<1>13. GhostsOK'
  BY <1>1 DEF TypeInv, GhostsOK
<1>. QED
  BY <1>4, <1>7, <1>9, <1>10, <1>11, <1>12, <1>13

\* Every step keeps the types.
LEMMA TypeStep ==
  ASSUME TypeInv, [Next]_vars
  PROVE  TypeInv'
<1>. USE DEF TypeInv
<1>1. ASSUME UNCHANGED <<queue, line>> PROVE ChannelsOK'
  BY <1>1, ChannelsAlone DEF Channels
<1>2. ASSUME UNCHANGED <<announced, endedTo>> PROVE GhostsOK'
  BY <1>2 DEF GhostsOK
<1>3. ASSUME UNCHANGED <<status, members, streams, bound, known>> PROVE ManagerOK'
  BY <1>3 DEF ManagerOK
<1>4. ASSUME UNCHANGED op PROVE op' \in [Task -> OpRec] /\ TodoInv'
  BY <1>4 DEF OwnersOK, TodoInv
<1>5. ASSUME NEW t \in Task, NEW s \in Session \cup {None}, NEW todo \in SUBSET Receiver,
             NEW step \in Broadcast \cup {"none", "replying", "replied"},
             op' = [op EXCEPT ![t] = Op(step, s, todo)],
             step \in Broadcast => s \in Session,
             step \in {"announcing", "tellingSystem"} => todo \subseteq Subscriber
      PROVE  op' \in [Task -> OpRec] /\ TodoInv'
  <2>. DEFINE o == Op(step, s, todo)
  <2>1. o \in OpRec /\ o.step = step /\ o.sid = s /\ o.todo = todo
    BY OpFacts
  <2>2. op' = [op EXCEPT ![t] = o]
    BY <1>5
  <2>. HIDE DEF o
  <2>. QED
    BY <1>5, <2>1, <2>2, OpSet
<1>6. ASSUME NEW x \in Channel, NEW p \in {"absent", "loop", "rejecting", "away", "cleanup", "gone"},
             phase' = [phase EXCEPT ![x] = p]
      PROVE  phase' \in [Channel -> {"absent", "loop", "rejecting", "away", "cleanup", "gone"}]
  BY <1>6 DEF OwnersOK
<1>7. /\ Conn \subseteq Channel /\ Subscriber \subseteq Channel /\ Conn \subseteq Task
      /\ Stream \subseteq Task /\ Tracker \in Task
      /\ SystemSubscribers \in SUBSET Subscriber /\ SystemSubscribers \in SUBSET Receiver
      /\ \A s \in Session : members[s] \in SUBSET Receiver
  BY ConnFacts, SubscribersAreChannels, ReceiverFacts DEF ManagerOK
<1>. DEFINE Replying(c, s) == op' = [op EXCEPT ![c] = Op("replying", s, {})]
<1>8. ASSUME NEW c \in Conn, NEW s \in Session \cup {None}, Replying(c, s)
      PROVE  op' \in [Task -> OpRec] /\ TodoInv'
  BY <1>5, <1>7, <1>8 DEF Broadcast
<1>10. ASSUME NEW x \in Channel, Receive(x) PROVE TypeInv'
  <2>1. ChannelsOK' /\ known' \subseteq Session
    BY <1>10, ReceiveFacts DEF Channels
  <2>2. UNCHANGED <<phase, op, status, members, streams, bound, announced, endedTo>>
    BY <1>10 DEF Receive
  <2>. QED
    BY <1>2, <1>4, <2>1, <2>2 DEF ManagerOK, OwnersOK
<1>11. ASSUME NEW x \in Channel, Written(x) PROVE TypeInv'
  BY <1>1, <1>2, <1>3, <1>4, <1>6, <1>11 DEF Written, OwnersOK
<1>12. ASSUME NEW x \in Channel, LoopEnds(x) PROVE TypeInv'
  <2>1. UNCHANGED <<members, streams, bound, known, announced, endedTo>>
    BY <1>12 DEF LoopEnds
  <2>2. CASE DropReceiver(x) /\ UNCHANGED <<op, status>>
    BY <1>2, <1>3, <1>4, <2>1, <2>2, DropFacts DEF Channels, OwnersOK
  <2>3. CASE /\ x \in Conn /\ MustTerminate(x)
             /\ phase' = [phase EXCEPT ![x] = "cleanup"]
             /\ Mark(x, bound[x])
             /\ UNCHANGED <<queue, line>>
    <3>1. bound[x] \in Session
      BY <2>3 DEF MustTerminate
    <3>2. /\ op' \in [Task -> OpRec] /\ TodoInv'
          /\ status' \in [Session -> {"fresh", "live", "marked"}]
      BY <1>7, <2>3, <3>1, MarkFacts
    <3>. QED
      BY <1>1, <1>2, <1>6, <2>1, <2>3, <3>2 DEF OwnersOK, ManagerOK
  <2>. QED
    BY <1>12, <2>2, <2>3 DEF LoopEnds, Leave
<1>13. ASSUME NEW u \in Subscriber, SystemConnects(u) PROVE TypeInv'
  BY <1>1, <1>2, <1>3, <1>4, <1>6, <1>7, <1>13 DEF SystemConnects, OwnersOK
<1>14. ASSUME NEW c \in Conn, Relay(c) PROVE TypeInv'
  BY <1>1, <1>2, <1>3, <1>6, <1>7, <1>8, <1>14 DEF Relay, Away, OwnersOK
<1>24. ASSUME NEW c \in Conn, NEW s \in Session, Refused(c, s) PROVE TypeInv'
  BY <1>1, <1>2, <1>3, <1>6, <1>7, <1>8, <1>24 DEF Refused, Away, OwnersOK
<1>15. ASSUME NEW c \in Conn, Malformed(c) PROVE TypeInv'
  BY <1>1, <1>2, <1>3, <1>4, <1>6, <1>7, <1>15 DEF Malformed, OwnersOK
<1>16. ASSUME NEW c \in Conn, NEW p \in Participant, NEW s \in Session, Register(c, p, s) PROVE TypeInv'
  <2>1. op' = [op EXCEPT ![c] = Op("announcing", s, SystemSubscribers)]
    BY <1>16 DEF Register, Announce
  <2>2. op' \in [Task -> OpRec] /\ TodoInv'
    BY <1>5, <1>7, <2>1 DEF Broadcast
  <2>3. ManagerOK'
    BY <1>16, EnterFacts DEF Register, ManagerOK
  <2>. QED
    BY <1>1, <1>2, <1>6, <1>7, <1>16, <2>2, <2>3 DEF Register, OwnersOK
<1>17. ASSUME NEW c \in Conn, NEW p \in Participant, NEW s \in Session, Join(c, p, s) PROVE TypeInv'
  <2>1. ManagerOK'
    BY <1>17, EnterFacts DEF Join, ManagerOK
  <2>. QED
    BY <1>1, <1>2, <1>6, <1>7, <1>8, <1>17, <2>1 DEF Join, Away, OwnersOK
<1>18. ASSUME NEW c \in Conn, NEW p \in Participant, NEW s \in Session, Subscribe(c, p, s) PROVE TypeInv'
  <2>1. ManagerOK'
    BY <1>18 DEF Subscribe, ManagerOK, Stream
  <2>. QED
    BY <1>1, <1>2, <1>6, <1>7, <1>8, <1>18, <2>1 DEF Subscribe, Away, OwnersOK
<1>19. ASSUME NEW c \in Conn, NEW s \in Session, Close(c, s) PROVE TypeInv'
  <2>1. /\ op' \in [Task -> OpRec] /\ TodoInv'
        /\ status' \in [Session -> {"fresh", "live", "marked"}]
    BY <1>7, <1>19, MarkFacts DEF Close
  <2>. QED
    BY <1>1, <1>2, <1>6, <1>7, <1>19, <2>1 DEF Close, OwnersOK, ManagerOK
<1>20. ASSUME NEW t \in Task, NEW x \in Receiver, SendNext(t, x) PROVE TypeInv'
  <2>1. UNCHANGED <<phase, status, members, streams, bound, known>>
    BY <1>20 DEF SendNext
  <2>. QED
    BY <1>3, <1>20, <2>1, SendFacts DEF Channels, OwnersOK
<1>21. ASSUME NEW t \in Task, ParticipantsTold(t) PROVE TypeInv'
  <2>1. op[t].sid \in Session
    BY <1>21 DEF ParticipantsTold, Sent, TodoInv, Broadcast
  <2>2. op' = [op EXCEPT ![t] = Op("tellingSystem", op[t].sid, SystemSubscribers)]
    BY <1>21 DEF ParticipantsTold
  <2>3. op' \in [Task -> OpRec] /\ TodoInv'
    BY <1>5, <1>7, <2>1, <2>2 DEF Broadcast
  <2>. QED
    BY <1>1, <1>2, <1>3, <1>21, <2>3 DEF ParticipantsTold, OwnersOK
<1>22. ASSUME NEW t \in Task, EndTermination(t) PROVE TypeInv'
  <2>1. UNCHANGED <<status, bound, known, announced, endedTo>>
    BY <1>22 DEF EndTermination
  <2>. QED
    BY <1>2, <1>22, <2>1, EndFacts DEF Channels, OwnersOK, ManagerOK
<1>23. ASSUME NEW c \in Conn, Reply(c) PROVE TypeInv'
  <2>1. UNCHANGED <<status, members, streams, known>>
    BY <1>23 DEF Reply
  <2>. QED
    BY <1>23, <2>1, ReplyFacts DEF Channels, OwnersOK, ManagerOK
<1>25. ASSUME Reported PROVE TypeInv'
  <2>1. UNCHANGED <<queue, line, phase, members, streams, bound, known, announced, endedTo>>
    BY <1>25 DEF Reported
  <2>2. CASE op' = [op EXCEPT ![Tracker] = NoOp] /\ UNCHANGED status
    <3>1. op' \in [Task -> OpRec] /\ TodoInv'
      BY <1>7, <2>2, NoOpFacts, OpSet DEF Broadcast
    <3>. QED
      BY <1>1, <1>2, <1>3, <2>1, <2>2, <3>1 DEF OwnersOK
  <2>3. CASE Sent(Tracker, "farewell") /\ Mark(Tracker, op[Tracker].sid)
    <3>1. op[Tracker].sid \in Session
      BY <1>7, <2>3 DEF Sent, TodoInv, Broadcast
    <3>2. /\ op' \in [Task -> OpRec] /\ TodoInv'
          /\ status' \in [Session -> {"fresh", "live", "marked"}]
      BY <1>7, <2>3, <3>1, MarkFacts
    <3>. QED
      BY <1>1, <1>2, <2>1, <3>2 DEF OwnersOK, ManagerOK
  <2>. QED
    BY <1>25, <2>2, <2>3 DEF Reported
<1>26. ASSUME NEW s \in Session, Report(s) PROVE TypeInv'
  <2>1. \/ op' = [op EXCEPT ![Tracker] = Op("warning", s, members[s])]
        \/ op' = [op EXCEPT ![Tracker] = Op("farewell", s, SystemSubscribers)]
    BY <1>26 DEF Report
  <2>2. op' \in [Task -> OpRec] /\ TodoInv'
    BY <1>5, <1>7, <2>1 DEF Broadcast
  <2>. QED
    BY <1>1, <1>2, <1>3, <1>26, <2>2 DEF Report, OwnersOK
<1>27. ASSUME NEW s \in Session, NEW p \in Listener, Forward(s, p) PROVE TypeInv'
  <2>1. PICK m \in members[s] : Put(<<s, p>>, m[2], "event", None)
    BY <1>27 DEF Forward
  <2>2. <<s, p>> \in Task /\ m[2] \in Channel /\ "event" \in Kind
    BY <1>7, ReceiverFacts DEF Stream, Kind, ManagerOK
  <2>3. ChannelsOK'
    BY <2>1, <2>2, PutFacts DEF Channels
  <2>. QED
    BY <1>2, <1>3, <1>4, <1>27, <2>3 DEF Forward, OwnersOK
<1>28. ASSUME NEW s \in Session, NEW p \in Listener, MediaCloses(s, p) PROVE TypeInv'
  <2>1. UNCHANGED <<queue, line, phase, members, bound, known, announced, endedTo>>
    BY <1>28 DEF MediaCloses
  <2>2. CASE Mark(<<s, p>>, s) /\ UNCHANGED streams
    <3>1. <<s, p>> \in Task
      BY <1>7 DEF Stream
    <3>2. /\ op' \in [Task -> OpRec] /\ TodoInv'
          /\ status' \in [Session -> {"fresh", "live", "marked"}]
      BY <2>2, <3>1, MarkFacts
    <3>. QED
      BY <1>1, <1>2, <2>1, <2>2, <3>2 DEF OwnersOK, ManagerOK
  <2>3. CASE streams' = streams \ {<<s, p>>} /\ UNCHANGED <<op, status>>
    BY <1>1, <1>2, <1>4, <2>1, <2>3 DEF OwnersOK, ManagerOK
  <2>. QED
    BY <1>28, <2>2, <2>3 DEF MediaCloses
<1>29. CASE UNCHANGED vars
  BY <1>1, <1>2, <1>3, <1>4, <1>29 DEF vars, OwnersOK
<1>. HIDE DEF TypeInv
<1>. QED
  BY <1>10, <1>11, <1>12, <1>13, <1>14, <1>15, <1>16, <1>17, <1>18, <1>19, <1>20, <1>21, <1>22,
     <1>23, <1>24, <1>25, <1>26, <1>27, <1>28, <1>29 DEF Next, Request, Proceed

\* The channels are empty and nobody is in an operation at the start.
LEMMA InitTypes == Init => TypeInv
<1>1. Init => ChannelsOK
  <2>1. /\ <<>> \in Seq(Messages) /\ <<>> \in Seq(Task \X Messages) /\ Len(<<>>) = 0
        /\ \A x \in Channel : Capacity[x] \in Nat
    BY QueueAssumption
  <2>. QED
    BY <2>1 DEF Init, ChannelsOK
<1>2. Init => ManagerOK /\ GhostsOK
  BY DEF Init, ManagerOK, GhostsOK
<1>3. Init => OwnersOK /\ TodoInv
  BY NoOpFacts DEF Init, OwnersOK, TodoInv, Broadcast
<1>. QED
  BY <1>1, <1>2, <1>3 DEF TypeInv

\* Every type of the state: queues and lines hold messages, a channel never more than its
\* capacity, and senders are in line only while it is full; with it that broadcasts are about
\* sessions, and that a session's announcement goes to system subscribers alone.
THEOREM TypeInvariance == Spec => []TypeInv
<1>1. Init => TypeInv
  BY InitTypes
<1>2. TypeInv /\ [Next]_vars => TypeInv'
  BY TypeStep
<1>. QED
  BY <1>1, <1>2, PTL DEF Spec

\* The channels, the operations of their users and the manager's maps keep their types.
THEOREM TypeCorrect == Spec => []TypeOK
<1>1. TypeInv => TypeOK
  BY TypeParts DEF TypeInv
<1>. QED
  BY <1>1, TypeInvariance, PTL

-------------------------------------------------------------------------------
(* Replies and errors.                                                     *)

\* What a step adds to the channel of a handler that is writing an error is no reply: the
\* handler sends none, and lets nobody in from the line.
LEMMA NoReplyEnters ==
  ASSUME TypeInv, [Next]_vars, NEW c \in Conn, phase[c] = "rejecting"
  PROVE  \A i \in DOMAIN queue'[c] :
           queue'[c][i].kind = "reply" => \E j \in DOMAIN queue[c] : queue'[c][i] = queue[c][j]
<1>. DEFINE Effect == \A i \in DOMAIN queue'[c] :
              queue'[c][i].kind = "reply" => \E j \in DOMAIN queue[c] : queue'[c][i] = queue[c][j]
<1>. SUFFICES Effect
  OBVIOUS
<1>1. c \in Channel
  BY ConnFacts
<1>2. ASSUME queue'[c] = queue[c] \/ queue'[c] = <<>> PROVE Effect
  BY <1>2
<1>3. ASSUME UNCHANGED queue PROVE Effect
  BY <1>3
<1>. HIDE DEF Effect
<1>4. ASSUME NEW x \in Channel, Receive(x) PROVE Effect
  <2>1. x # c
    BY <1>4 DEF Receive
  <2>. QED
    BY <1>1, <1>2, <1>4, <2>1, ReceiveFacts
<1>5. ASSUME NEW x \in Channel, LoopEnds(x) PROVE Effect
  <2>1. CASE DropReceiver(x)
    BY <1>1, <1>2, <2>1, DropFacts
  <2>2. CASE UNCHANGED queue
    BY <1>3, <2>2
  <2>. QED
    BY <1>5, <2>1, <2>2 DEF LoopEnds, Leave
<1>6. ASSUME NEW t \in Task, NEW x \in Receiver, SendNext(t, x) PROVE Effect
  BY <1>1, <1>6, SendFacts DEF Effect
<1>7. ASSUME NEW t \in Task, EndTermination(t) PROVE Effect
  BY <1>1, <1>2, <1>7, EndFacts
<1>8. ASSUME NEW d \in Conn, Reply(d) PROVE Effect
  <2>1. d # c
    BY <1>8 DEF Reply
  <2>. QED
    BY <1>1, <1>2, <1>8, <2>1, ReplyFacts
<1>9. ASSUME NEW s \in Session, NEW p \in Listener, Forward(s, p) PROVE Effect
  <2>1. PICK m \in members[s] : Put(<<s, p>>, m[2], "event", None)
    BY <1>9 DEF Forward
  <2>. DEFINE d == m[2]
  <2>2. <<s, p>> \in Task /\ d \in Channel /\ "event" \in Kind /\ ChannelsOK
    BY ConnFacts, ReceiverFacts DEF Stream, Kind, TypeInv, ManagerOK
  <2>. HIDE DEF d
  <2>3. /\ \A y \in Channel : y # d => queue'[y] = queue[y]
        /\ \A i \in DOMAIN queue'[d] :
             queue'[d][i].kind = "event" \/ \E j \in DOMAIN queue[d] : queue'[d][i] = queue[d][j]
    BY <2>1, <2>2, PutFacts DEF d
  <2>4. CASE d = c
    BY <2>3, <2>4 DEF Effect
  <2>5. CASE d # c
    BY <1>1, <1>2, <2>3, <2>5
  <2>. QED
    BY <2>4, <2>5
<1>10. ASSUME NEW x \in Channel, Written(x) PROVE Effect
  BY <1>3, <1>10 DEF Written
<1>11. ASSUME NEW u \in Subscriber, SystemConnects(u) PROVE Effect
  BY <1>3, <1>11 DEF SystemConnects
<1>12. ASSUME NEW d \in Conn, Request(d) PROVE Effect
  BY <1>3, <1>12 DEF Request, Relay, Refused, Malformed, Register, Join, Subscribe, Close
<1>13. ASSUME NEW t \in Task, ParticipantsTold(t) PROVE Effect
  BY <1>3, <1>13 DEF ParticipantsTold
<1>15. ASSUME Reported PROVE Effect
  BY <1>3, <1>15 DEF Reported
<1>16. ASSUME NEW s \in Session, Report(s) PROVE Effect
  BY <1>3, <1>16 DEF Report
<1>17. ASSUME NEW s \in Session, NEW p \in Listener, MediaCloses(s, p) PROVE Effect
  BY <1>3, <1>17 DEF MediaCloses
<1>18. CASE UNCHANGED vars
  BY <1>3, <1>18 DEF vars
<1>. QED
  BY <1>4, <1>5, <1>6, <1>7, <1>8, <1>9, <1>10, <1>11, <1>12, <1>13, <1>15, <1>16, <1>17,
     <1>18 DEF Next, Proceed

\* A handler begins to write an error only in Malformed, with its channel empty.
LEMMA RejectingStarts ==
  ASSUME TypeInv, [Next]_vars, NEW c \in Conn, phase'[c] = "rejecting"
  PROVE  phase[c] = "rejecting" \/ (queue[c] = <<>> /\ queue' = queue)
<1>. DEFINE Effect == phase'[c] = "rejecting" =>
              phase[c] = "rejecting" \/ (queue[c] = <<>> /\ queue' = queue)
<1>. SUFFICES Effect
  OBVIOUS
<1>1. c \in Channel
  BY ConnFacts
<1>2. ASSUME phase'[c] = phase[c] PROVE Effect
  BY <1>2
<1>3. ASSUME NEW x \in Channel, NEW p \in {"absent", "loop", "away", "cleanup", "gone"},
             phase' = [phase EXCEPT ![x] = p]
      PROVE  Effect
  BY <1>1, <1>3 DEF TypeInv, OwnersOK
<1>4. ASSUME NEW x \in Channel, Receive(x) PROVE Effect
  BY <1>2, <1>4 DEF Receive
<1>5. ASSUME NEW x \in Channel, LoopEnds(x) PROVE Effect
  BY <1>3, <1>5 DEF LoopEnds, Leave, DropReceiver
<1>6. ASSUME NEW t \in Task, NEW x \in Receiver, SendNext(t, x) PROVE Effect
  BY <1>2, <1>6 DEF SendNext
<1>7. ASSUME NEW t \in Task, EndTermination(t) PROVE Effect
  <2>1. CASE c = t /\ phase[c] = "cleanup"
    BY <1>7, <2>1, EndFacts
  <2>2. CASE c # t \/ phase[c] # "cleanup"
    BY <1>1, <1>2, <1>7, <2>2, EndFacts
  <2>. QED
    BY <2>1, <2>2
<1>8. ASSUME NEW d \in Conn, Reply(d) PROVE Effect
  BY <1>1, <1>2, <1>8, ReplyFacts
<1>9. ASSUME NEW s \in Session, NEW p \in Listener, Forward(s, p) \/ MediaCloses(s, p) PROVE Effect
  BY <1>2, <1>9 DEF Forward, MediaCloses
<1>10. ASSUME NEW x \in Channel, Written(x) PROVE Effect
  BY <1>3, <1>10 DEF Written
<1>11. ASSUME NEW u \in Subscriber, SystemConnects(u) PROVE Effect
  BY <1>3, <1>11, SubscribersAreChannels DEF SystemConnects
<1>12. ASSUME NEW d \in Conn, Request(d) PROVE Effect
  <2>1. d \in Channel
    BY ConnFacts
  <2>2. CASE phase' = [phase EXCEPT ![d] = "away"]
    BY <1>3, <2>1, <2>2
  <2>3. CASE Malformed(d)
    <3>1. CASE d = c
      BY <2>3, <3>1 DEF Malformed, MayRead
    <3>2. CASE d # c
      BY <1>1, <1>2, <2>3, <3>2 DEF Malformed, TypeInv, OwnersOK
    <3>. QED
      BY <3>1, <3>2
  <2>. QED
    BY <1>12, <2>2, <2>3 DEF Request, Relay, Refused, Away, Register, Join, Subscribe, Close
<1>13. ASSUME NEW t \in Task, ParticipantsTold(t) PROVE Effect
  BY <1>2, <1>13 DEF ParticipantsTold
<1>15. ASSUME Reported PROVE Effect
  BY <1>2, <1>15 DEF Reported
<1>16. ASSUME NEW s \in Session, Report(s) PROVE Effect
  BY <1>2, <1>16 DEF Report
<1>18. CASE UNCHANGED vars
  BY <1>2, <1>18 DEF vars
<1>. HIDE DEF Effect
<1>. QED
  BY <1>4, <1>5, <1>6, <1>7, <1>8, <1>9, <1>10, <1>11, <1>12, <1>13, <1>15, <1>16,
     <1>18 DEF Next, Proceed

\* While the handler writes an error past its channel, the channel holds no reply, so that
\* the client gets its answers in the order of its requests (biased, handler.rs).
THEOREM RepliesAlwaysInOrder == Spec => []RepliesInOrder
<1>1. Init => RepliesInOrder
  BY DEF Init, RepliesInOrder, Channel
<1>2. ASSUME TypeInv, RepliesInOrder, [Next]_vars PROVE RepliesInOrder'
  <2>. SUFFICES ASSUME NEW c \in Conn, phase'[c] = "rejecting", NEW i \in DOMAIN queue'[c]
                PROVE  queue'[c][i].kind # "reply"
    BY DEF RepliesInOrder
  <2>1. CASE phase[c] = "rejecting"
    BY <1>2, <2>1, NoReplyEnters DEF RepliesInOrder
  <2>2. CASE queue[c] = <<>> /\ queue' = queue
    BY <2>2
  <2>. QED
    BY <1>2, <2>1, <2>2, RejectingStarts
<1>. QED
  BY <1>1, <1>2, TypeInvariance, PTL DEF Spec

-------------------------------------------------------------------------------
(* Who can know of a session before it is announced.                       *)

\* A handler in its loop, or gone, is in no operation; it waits for room only in a broadcast
\* or for its reply.
HandlerInv ==
  \A c \in Conn : /\ phase[c] \notin {"away", "cleanup"} => op[c].step = "none"
                  /\ Waiting(c) => op[c].step \notin {"none", "replying"}

\* A session the SFU opened is announced by one handler; when that waits, it has sent somebody the event.
AnnounceInv ==
  \A t \in Task : op[t].step = "announcing" =>
    /\ t \in Conn /\ op[t].sid # EmptySession
    /\ Waiting(t) => announced[op[t].sid] # {}
    /\ \A u \in Task : op[u].step = "announcing" /\ op[u].sid = op[t].sid => u = t

\* The SFU has not opened s yet, or nobody was sent its SessionCreated so far.
Secret(s) ==
  s # EmptySession /\ (status[s] = "fresh" \/ (Announcing(s) /\ announced[s] = {}))

\* Then no client knows or will be told the id, nothing runs for the session, and nobody is
\* in an operation on it but the one who announces it.
SecretInv ==
  \A s \in Session : Secret(s) =>
    /\ s \notin known /\ ~Carried(s)
    /\ \A c \in Conn : bound[c] # s
    /\ \A p \in Listener : <<s, p>> \notin streams
    /\ \A t \in Task : op[t].sid = s => op[t].step = "announcing" /\ status[s] # "fresh"
    /\ announced[s] = {} /\ endedTo[s] = {}

IInv == TypeInv /\ HandlerInv /\ AnnounceInv /\ SecretInv

\* A task turns to s only if s is known, bound, subscribed to, its operation already, reported
\* on, or the id of a refusal.
MayTurnTo(t, s) ==
  \/ s \in known \/ Reportable(s) \/ s = EmptySession
  \/ \E c \in Conn : bound[c] = s
  \/ \E p \in Listener : <<s, p>> \in streams
  \/ op[t].sid = s /\ op[t].step # "announcing"

\* A step that neither registers nor announces a session nor replies: what is announced,
\* bound or carried does not change, and what a task turns to was open to it.
Quiet ==
  /\ Channels({u \in Task : op'[u].step # "announcing"}, {})
  /\ UNCHANGED <<announced, bound>>
  /\ \A s \in Session : endedTo'[s] = endedTo[s] \/ \E t \in Task : MayTurnTo(t, s)
  /\ \A s \in Session \ {EmptySession} : status'[s] = "fresh" <=> status[s] = "fresh"
  /\ \A s \in known' : s \in known \/ Carried(s)
  /\ \A p \in streams' : p \in streams \/ p[1] \in known
  /\ \A t \in Task : op'[t].step = "announcing" =>
       op[t].step = "announcing" /\ op'[t].sid = op[t].sid
  /\ \A t \in Task, s \in Session : op'[t].sid = s =>
       (op'[t].step = op[t].step /\ op[t].sid = s) \/ MayTurnTo(t, s)

\* Nobody may turn to a secret session.
LEMMA SecretIsOutOfReach ==
  ASSUME TypeInv, AnnounceInv, SecretInv, NEW t \in Task, NEW s \in Session, MayTurnTo(t, s)
  PROVE  ~Secret(s)
<1>. SUFFICES ASSUME Secret(s) PROVE FALSE
  OBVIOUS
<1>1. CASE Reportable(s)
  <2>1. status[s] = "live"
    BY <1>1 DEF Reportable
  <2>2. PICK u \in Task : op[u].step = "announcing" /\ op[u].sid = s /\ announced[s] = {}
    BY <2>1 DEF Secret, Announcing
  <2>3. Waiting(u)
    BY <1>1, <2>2 DEF Reportable
  <2>. QED
    BY <2>2, <2>3 DEF AnnounceInv
<1>2. CASE ~Reportable(s)
  BY <1>2 DEF MayTurnTo, SecretInv, Secret
<1>. QED
  BY <1>1, <1>2

\* Quiet steps keep the secret.
LEMMA QuietKeeps ==
  ASSUME TypeInv, AnnounceInv, SecretInv, Quiet
  PROVE  AnnounceInv' /\ SecretInv'
<1>1. AnnounceInv'
  <2>. SUFFICES ASSUME NEW t \in Task, op'[t].step = "announcing"
                PROVE  /\ t \in Conn /\ op'[t].sid # EmptySession
                       /\ Waiting(t)' => announced'[op'[t].sid] # {}
                       /\ \A u \in Task : op'[u].step = "announcing" /\ op'[u].sid = op'[t].sid => u = t
    BY DEF AnnounceInv
  <2>1. op[t].step = "announcing" /\ op'[t].sid = op[t].sid /\ announced' = announced
    BY DEF Quiet
  <2>2. t \in Conn /\ op[t].sid # EmptySession
    BY <2>1 DEF AnnounceInv
  <2>3. Waiting(t)' => Waiting(t)
    BY DEF Quiet, Channels
  <2>4. \A u \in Task : op'[u].step = "announcing" /\ op'[u].sid = op'[t].sid => u = t
    BY <2>1 DEF Quiet, AnnounceInv
  <2>. QED
    BY <2>1, <2>2, <2>3, <2>4 DEF AnnounceInv
<1>2. ASSUME NEW s \in Session, Secret(s)' PROVE Secret(s)
  <2>. s # EmptySession
    BY <1>2 DEF Secret
  <2>1. CASE status'[s] = "fresh"
    BY <2>1 DEF Quiet, Secret
  <2>2. CASE Announcing(s)' /\ announced'[s] = {}
    <3>1. PICK t \in Task : op'[t].step = "announcing" /\ op'[t].sid = s
      BY <2>2 DEF Announcing
    <3>2. op[t].step = "announcing" /\ op[t].sid = s /\ announced[s] = {}
      BY <2>2, <3>1 DEF Quiet
    <3>. QED
      BY <3>2 DEF Secret, Announcing
  <2>. QED
    BY <1>2, <2>1, <2>2 DEF Secret
<1>3. ASSUME NEW s \in Session, Secret(s)'
      PROVE  /\ s \notin known' /\ ~Carried(s)'
             /\ \A c \in Conn : bound'[c] # s
             /\ \A p \in Listener : <<s, p>> \notin streams'
             /\ \A t \in Task : op'[t].sid = s => op'[t].step = "announcing" /\ status'[s] # "fresh"
             /\ announced'[s] = {} /\ endedTo'[s] = {}
  <2>. s # EmptySession
    BY <1>3 DEF Secret
  <2>1. Secret(s)
    BY <1>2, <1>3
  <2>2. /\ s \notin known /\ ~Carried(s)
        /\ \A c \in Conn : bound[c] # s
        /\ \A p \in Listener : <<s, p>> \notin streams
        /\ \A t \in Task : op[t].sid = s => op[t].step = "announcing" /\ status[s] # "fresh"
        /\ announced[s] = {} /\ endedTo[s] = {}
    BY <2>1 DEF SecretInv
  <2>3. ~Carried(s)' /\ s \notin known'
    BY <2>2 DEF Quiet, Channels
  <2>4. \A p \in Listener : <<s, p>> \notin streams'
    BY <2>2 DEF Quiet
  <2>6. endedTo'[s] = {}
    BY <2>1, <2>2, SecretIsOutOfReach DEF Quiet
  <2>5. ASSUME NEW t \in Task, op'[t].sid = s
        PROVE  op'[t].step = "announcing" /\ status'[s] # "fresh"
    <3>1. ~MayTurnTo(t, s)
      BY <2>1, SecretIsOutOfReach
    <3>2. op'[t].step = op[t].step /\ op[t].sid = s
      BY <2>5, <3>1 DEF Quiet
    <3>. QED
      BY <2>2, <3>2 DEF Quiet
  <2>. QED
    BY <2>2, <2>3, <2>4, <2>5, <2>6 DEF Quiet
<1>. QED
  BY <1>1, <1>3 DEF SecretInv

\* Mark turns t to s.
LEMMA MarkTurns ==
  ASSUME TypeInv, NEW t \in Task, NEW s \in Session, Mark(t, s), MayTurnTo(t, s),
         status[s] # "fresh" \/ s = EmptySession
  PROVE  /\ \A r \in Session \ {EmptySession} : status'[r] = "fresh" <=> status[r] = "fresh"
         /\ \A u \in Task : op'[u].step = "announcing" =>
              op[u].step = "announcing" /\ op'[u].sid = op[u].sid
         /\ \A u \in Task, r \in Session : op'[u].sid = r =>
              (op'[u].step = op[u].step /\ op[u].sid = r) \/ MayTurnTo(u, r)
<1>1. /\ op'[t].step = "telling" /\ op'[t].sid = s
      /\ \A u \in Task : u # t => op'[u] = op[u]
      /\ status'[s] = "marked" /\ \A r \in Session : r # s => status'[r] = status[r]
  BY MarkFacts DEF TypeInv
<1>. QED
  BY <1>1

\* The actions that are quiet.
LEMMA QuietStep ==
  ASSUME TypeInv, SecretInv,
         \/ \E x \in Channel : Receive(x) \/ Written(x) \/ LoopEnds(x)
         \/ \E u \in Subscriber : SystemConnects(u)
         \/ \E c \in Conn : \/ Relay(c) \/ Malformed(c)
                            \/ \E s \in Session : Refused(c, s) \/ Close(c, s)
                            \/ \E s \in Session, p \in Participant : Join(c, p, s) \/ Subscribe(c, p, s)
         \/ \E t \in Task : ParticipantsTold(t) \/ EndTermination(t)
         \/ Reported
         \/ \E s \in Session : Report(s) \/ \E p \in Listener : Forward(s, p) \/ MediaCloses(s, p)
         \/ UNCHANGED vars
  PROVE  Quiet
<1>1. /\ Conn \subseteq Channel /\ Conn \subseteq Task
      /\ Tracker \in Task /\ Tracker \notin Conn /\ None \notin Session
      /\ \A s \in Session, p \in Listener : <<s, p>> \in Task /\ <<s, p>> \notin Conn
  BY ConnFacts, QueueAssumption DEF Stream
\* What the operations of the tasks become.
<1>. DEFINE Turns == /\ \A t \in Task : op'[t].step = "announcing" =>
                          op[t].step = "announcing" /\ op'[t].sid = op[t].sid
                     /\ \A t \in Task, s \in Session : op'[t].sid = s =>
                          (op'[t].step = op[t].step /\ op[t].sid = s) \/ MayTurnTo(t, s)
            Fresh == \A s \in Session \ {EmptySession} : status'[s] = "fresh" <=> status[s] = "fresh"
            Learns == \A s \in known' : s \in known \/ Carried(s)
            Streams == \A p \in streams' : p \in streams \/ p[1] \in known
            NewWaiters == Channels({u \in Task : op'[u].step # "announcing"}, {})
<1>2. UNCHANGED <<queue, line>> => NewWaiters
  BY ChannelsAlone DEF Channels, TypeInv
<1>3. Channels({}, {}) => NewWaiters
  BY DEF Channels
<1>4. UNCHANGED op => Turns
  OBVIOUS
<1>5. UNCHANGED status => Fresh
  OBVIOUS
<1>6. UNCHANGED known => Learns
  OBVIOUS
<1>7. UNCHANGED streams => Streams
  OBVIOUS
<1>8. ASSUME NEW t \in Task, NEW o \in OpRec, op' = [op EXCEPT ![t] = o],
             o.step # "announcing", o.sid = None \/ MayTurnTo(t, o.sid)
      PROVE  Turns
  <2>1. op'[t] = o /\ \A u \in Task : u # t => op'[u] = op[u]
    BY <1>8 DEF TypeInv, OwnersOK
  <2>. QED
    BY <1>1, <1>8, <2>1
<1>9. ASSUME NEW t \in Task, NEW s \in Session, Mark(t, s), MayTurnTo(t, s),
             status[s] # "fresh" \/ s = EmptySession
      PROVE  Turns /\ Fresh
  BY <1>9, MarkTurns
<1>10. ASSUME NewWaiters, UNCHANGED <<announced, endedTo, bound>>, Turns, Fresh, Learns, Streams
       PROVE  Quiet
  BY <1>10 DEF Quiet
<1>. HIDE DEF Turns, Fresh, Learns, Streams, NewWaiters
<1>11. ASSUME NEW t \in Task, NEW s \in Session \cup {None}, NEW todo \in SUBSET Receiver,
              NEW step \in (Broadcast \ {"announcing"}) \cup {"none", "replying", "replied"},
              op' = [op EXCEPT ![t] = Op(step, s, todo)], s = None \/ MayTurnTo(t, s)
       PROVE  Turns
  <2>. DEFINE o == Op(step, s, todo)
  <2>1. o \in OpRec /\ o.step = step /\ o.sid = s
    BY OpFacts
  <2>2. op' = [op EXCEPT ![t] = o]
    BY <1>11
  <2>3. step # "announcing"
    BY <1>11
  <2>. HIDE DEF o
  <2>. QED
    BY <1>8, <1>11, <2>1, <2>2, <2>3
<1>12. ASSUME NEW t \in Task, op' = [op EXCEPT ![t] = NoOp] PROVE Turns
  BY <1>8, <1>12, NoOpFacts
<1>20. ASSUME NEW x \in Channel, Receive(x) PROVE Quiet
  <2>1. UNCHANGED <<op, status, streams, bound, announced, endedTo>>
    BY <1>20 DEF Receive
  <2>2. NewWaiters /\ Learns
    BY <1>3, <1>20, ReceiveFacts DEF Learns
  <2>. QED
    BY <1>4, <1>5, <1>7, <1>10, <2>1, <2>2
<1>21. ASSUME NEW x \in Channel, Written(x) PROVE Quiet
  BY <1>2, <1>4, <1>5, <1>6, <1>7, <1>10, <1>21 DEF Written
<1>22. ASSUME NEW x \in Channel, LoopEnds(x) PROVE Quiet
  <2>1. UNCHANGED <<streams, bound, known, announced, endedTo>>
    BY <1>22 DEF LoopEnds
  <2>2. CASE DropReceiver(x) /\ UNCHANGED <<op, status>>
    BY <1>3, <1>4, <1>5, <1>6, <1>7, <1>10, <2>1, <2>2, DropFacts
  <2>3. CASE x \in Conn /\ MustTerminate(x) /\ Mark(x, bound[x]) /\ UNCHANGED <<queue, line>>
    <3>1. /\ bound[x] \in Session /\ MayTurnTo(x, bound[x])
          /\ status[bound[x]] # "fresh" \/ bound[x] = EmptySession
      BY <2>3 DEF MustTerminate, MayTurnTo, SecretInv, Secret
    <3>2. Turns /\ Fresh
      BY <1>1, <1>9, <2>3, <3>1
    <3>. QED
      BY <1>2, <1>6, <1>7, <1>10, <2>1, <2>3, <3>2
  <2>. QED
    BY <1>22, <2>2, <2>3 DEF LoopEnds, Leave
<1>23. ASSUME NEW u \in Subscriber, SystemConnects(u) PROVE Quiet
  BY <1>2, <1>4, <1>5, <1>6, <1>7, <1>10, <1>23 DEF SystemConnects
<1>24. ASSUME NEW c \in Conn, Relay(c) PROVE Quiet
  <2>1. Turns
    BY <1>1, <1>11, <1>24 DEF Relay, Away
  <2>. QED
    BY <1>2, <1>5, <1>6, <1>7, <1>10, <1>24, <2>1 DEF Relay
<1>26. ASSUME NEW c \in Conn, NEW s \in Session, Refused(c, s) PROVE Quiet
  <2>1. MayTurnTo(c, s)
    BY <1>26 DEF Refused, MayTurnTo
  <2>2. Turns
    BY <1>1, <1>11, <1>26, <2>1 DEF Refused, Away
  <2>. QED
    BY <1>2, <1>5, <1>6, <1>7, <1>10, <1>26, <2>2 DEF Refused
<1>25. ASSUME NEW c \in Conn, Malformed(c) PROVE Quiet
  BY <1>2, <1>4, <1>5, <1>6, <1>7, <1>10, <1>25 DEF Malformed
<1>27. ASSUME NEW c \in Conn, NEW p \in Participant, NEW s \in Session, Join(c, p, s) PROVE Quiet
  <2>1. MayTurnTo(c, s)
    BY <1>27 DEF Join, MayTurnTo
  <2>2. Turns
    BY <1>1, <1>11, <1>27, <2>1 DEF Join, Away
  <2>. QED
    BY <1>2, <1>5, <1>6, <1>7, <1>10, <1>27, <2>2 DEF Join
<1>28. ASSUME NEW c \in Conn, NEW p \in Participant, NEW s \in Session, Subscribe(c, p, s) PROVE Quiet
  <2>1. Turns
    BY <1>1, <1>11, <1>28 DEF Subscribe, Away
  <2>2. Streams
    BY <1>28 DEF Subscribe, Streams
  <2>. QED
    BY <1>2, <1>5, <1>6, <1>10, <1>28, <2>1, <2>2 DEF Subscribe
<1>29. ASSUME NEW c \in Conn, NEW s \in Session, Close(c, s) PROVE Quiet
  <2>1. MayTurnTo(c, s)
    BY <1>29 DEF Close, MayTurnTo
  <2>2. Turns /\ Fresh
    BY <1>1, <1>9, <1>29, <2>1 DEF Close
  <2>. QED
    BY <1>2, <1>6, <1>7, <1>10, <1>29, <2>2 DEF Close
<1>30. ASSUME NEW t \in Task, ParticipantsTold(t) PROVE Quiet
  <2>1. op[t].step = "telling" /\ op[t].sid \in Session
    BY <1>30 DEF ParticipantsTold, Sent, TypeInv, TodoInv, Broadcast
  <2>2. MayTurnTo(t, op[t].sid)
    BY <2>1 DEF MayTurnTo
  <2>3. op' = [op EXCEPT ![t] = Op("tellingSystem", op[t].sid, SystemSubscribers)]
    BY <1>30 DEF ParticipantsTold
  <2>4. SystemSubscribers \in SUBSET Receiver
    BY ReceiverFacts
  <2>5. Turns
    BY <1>11, <2>1, <2>2, <2>3, <2>4 DEF Broadcast
  <2>. QED
    BY <1>2, <1>5, <1>6, <1>7, <1>10, <1>30, <2>5 DEF ParticipantsTold
<1>31. ASSUME NEW t \in Task, EndTermination(t) PROVE Quiet
  <2>1. UNCHANGED <<status, bound, known, announced, endedTo>>
    BY <1>31 DEF EndTermination
  <2>2. streams' \subseteq streams /\ NewWaiters
    BY <1>3, <1>31, EndFacts
  <2>3. \A u \in Task : op'[u] \in {op[u], NoOp, Op("replying", None, {})}
    BY <1>31, EndFacts
  <2>4. /\ Op("replying", None, {}).step = "replying" /\ Op("replying", None, {}).sid = None
        /\ NoOp.step = "none" /\ NoOp.sid = None
    BY NoOpFacts DEF Op
  <2>5. Turns
    BY <1>1, <2>3, <2>4 DEF Turns
  <2>6. Streams
    BY <2>2 DEF Streams
  <2>. QED
    BY <1>5, <1>6, <1>10, <2>1, <2>2, <2>5, <2>6
<1>32. ASSUME Reported PROVE Quiet
  <2>1. UNCHANGED <<queue, line, streams, bound, known, announced, endedTo>>
    BY <1>32 DEF Reported
  <2>2. CASE op' = [op EXCEPT ![Tracker] = NoOp] /\ UNCHANGED status
    BY <1>1, <1>2, <1>5, <1>6, <1>7, <1>10, <1>12, <2>1, <2>2
  <2>3. CASE /\ Sent(Tracker, "farewell")
             /\ status[op[Tracker].sid] = "live" /\ Mark(Tracker, op[Tracker].sid)
    <3>1. op[Tracker].step = "farewell" /\ op[Tracker].sid \in Session
      BY <1>1, <2>3 DEF Sent, TypeInv, TodoInv, Broadcast
    <3>2. MayTurnTo(Tracker, op[Tracker].sid)
      BY <3>1 DEF MayTurnTo
    <3>3. Turns /\ Fresh
      BY <1>1, <1>9, <2>3, <3>1, <3>2
    <3>. QED
      BY <1>2, <1>6, <1>7, <1>10, <2>1, <3>3
  <2>. QED
    BY <1>32, <2>2, <2>3 DEF Reported
<1>33. ASSUME NEW s \in Session, Report(s) PROVE Quiet
  <2>1. \/ op' = [op EXCEPT ![Tracker] = Op("warning", s, members[s])]
        \/ op' = [op EXCEPT ![Tracker] = Op("farewell", s, SystemSubscribers)]
    BY <1>33 DEF Report
  <2>2. MayTurnTo(Tracker, s)
    BY <1>33 DEF Report, MayTurnTo
  <2>3. members[s] \in SUBSET Receiver /\ SystemSubscribers \in SUBSET Receiver
    BY ReceiverFacts DEF TypeInv, ManagerOK
  <2>4. Turns
    BY <1>1, <1>11, <2>1, <2>2, <2>3 DEF Broadcast
  <2>. QED
    BY <1>2, <1>5, <1>6, <1>7, <1>10, <1>33, <2>4 DEF Report
<1>34. ASSUME NEW s \in Session, NEW p \in Listener, Forward(s, p) PROVE Quiet
  <2>1. PICK m \in members[s] : Put(<<s, p>>, m[2], "event", None)
    BY <1>34 DEF Forward
  <2>2. m[2] \in Channel /\ "event" \in Kind /\ ChannelsOK
    BY <1>1, ReceiverFacts DEF Kind, TypeInv, ManagerOK
  <2>3. Channels(IF Len(queue[m[2]]) = Capacity[m[2]] THEN {<<s, p>>} ELSE {}, {None})
    BY <1>1, <2>1, <2>2, PutFacts
  <2>4. NewWaiters
    <3>1. op'[<<s, p>>].step # "announcing"
      BY <1>34, NoOpFacts DEF Forward
    <3>. QED
      BY <1>1, <2>3, <3>1 DEF Channels, NewWaiters
  <2>. QED
    BY <1>4, <1>5, <1>6, <1>7, <1>10, <1>34, <2>4 DEF Forward
<1>35. ASSUME NEW s \in Session, NEW p \in Listener, MediaCloses(s, p) PROVE Quiet
  <2>1. UNCHANGED <<queue, line, bound, known, announced, endedTo>>
    BY <1>35 DEF MediaCloses
  <2>2. CASE status[s] = "live" /\ Mark(<<s, p>>, s) /\ UNCHANGED streams
    <3>1. MayTurnTo(<<s, p>>, s)
      BY <1>35 DEF MediaCloses, MayTurnTo
    <3>2. Turns /\ Fresh
      BY <1>1, <1>9, <2>2, <3>1
    <3>. QED
      BY <1>2, <1>6, <1>7, <1>10, <2>1, <2>2, <3>2
  <2>3. CASE streams' = streams \ {<<s, p>>} /\ UNCHANGED <<op, status>>
    <3>1. Streams
      BY <2>3 DEF Streams
    <3>. QED
      BY <1>2, <1>4, <1>5, <1>6, <1>10, <2>1, <2>3, <3>1
  <2>. QED
    BY <1>35, <2>2, <2>3 DEF MediaCloses
<1>36. CASE UNCHANGED vars
  BY <1>2, <1>4, <1>5, <1>6, <1>7, <1>10, <1>36 DEF vars
<1>. QED
  BY <1>20, <1>21, <1>22, <1>23, <1>24, <1>25, <1>26, <1>27, <1>28, <1>29, <1>30, <1>31, <1>32,
     <1>33, <1>34, <1>35, <1>36

\* Every step keeps HandlerInv: operations begin in the loop, and a handler goes back to it,
\* or ends, with its operation over and no send of its own waiting.
LEMMA HandlerStep ==
  ASSUME TypeInv, HandlerInv, [Next]_vars
  PROVE  HandlerInv'
<1>. SUFFICES ASSUME NEW c \in Conn
              PROVE  /\ phase'[c] \notin {"away", "cleanup"} => op'[c].step = "none"
                     /\ Waiting(c)' => op'[c].step \notin {"none", "replying"}
  BY DEF HandlerInv
<1>. DEFINE Held == /\ phase'[c] \notin {"away", "cleanup"} => op'[c].step = "none"
                    /\ Waiting(c)' => op'[c].step \notin {"none", "replying"}
            NoWait == Waiting(c)' => Waiting(c)
<1>. SUFFICES Held
  OBVIOUS
<1>1. /\ c \in Channel /\ c \in Task /\ Conn \subseteq Channel
      /\ Tracker \in Task /\ Tracker # c
      /\ \A s \in Session, p \in Listener : <<s, p>> \in Task /\ <<s, p>> # c
  BY ConnFacts, QueueAssumption DEF Stream
<1>2. /\ phase[c] \notin {"away", "cleanup"} => op[c].step = "none"
      /\ Waiting(c) => op[c].step \notin {"none", "replying"}
  BY DEF HandlerInv
<1>3. UNCHANGED <<queue, line>> => NoWait
  BY DEF Waiting, WaitsFor
<1>4. ASSUME NEW T, NEW R, Channels(T, R), c \notin T PROVE NoWait
  BY <1>1, <1>4 DEF Channels
\* The handler goes on, or moves while it is in no operation.
<1>5. ASSUME op'[c].step = op[c].step, NoWait, phase'[c] = phase[c] \/ phase[c] \notin {"away", "cleanup"}
      PROVE  Held
  BY <1>2, <1>5
\* It begins an operation.
<1>6. ASSUME NoWait, phase[c] = "loop", phase'[c] \in {"away", "cleanup"} PROVE Held
  BY <1>2, <1>6
<1>. HIDE DEF Held, NoWait
<1>7. ASSUME NEW d \in Conn, MayRead(d), phase' = [phase EXCEPT ![d] = "away"],
             UNCHANGED <<queue, line>>, d # c => op'[c] = op[c]
      PROVE  Held
  <2>1. CASE d = c
    BY <1>1, <1>3, <1>6, <1>7, <2>1 DEF MayRead, TypeInv, OwnersOK
  <2>2. CASE d # c
    BY <1>1, <1>3, <1>5, <1>7, <2>2 DEF TypeInv, OwnersOK
  <2>. QED
    BY <2>1, <2>2
<1>8. \A t \in Task : t # c => \A o : op' = [op EXCEPT ![t] = o] => op'[c] = op[c]
  BY <1>1 DEF TypeInv, OwnersOK
<1>9. ASSUME NEW t \in Task, NEW s \in Session, Mark(t, s), t # c PROVE op'[c] = op[c]
  BY <1>1, <1>9, MarkFacts DEF TypeInv
<1>20. ASSUME NEW x \in Channel, Receive(x) PROVE Held
  BY <1>4, <1>5, <1>20, ReceiveFacts DEF Receive
<1>21. ASSUME NEW x \in Channel, Written(x) PROVE Held
  <2>1. phase'[c] = phase[c] \/ phase[c] = "rejecting"
    BY <1>1, <1>21 DEF Written, TypeInv, OwnersOK
  <2>. QED
    BY <1>3, <1>5, <1>21, <2>1 DEF Written
<1>22. ASSUME NEW x \in Channel, LoopEnds(x) PROVE Held
  <2>1. CASE DropReceiver(x) /\ UNCHANGED op
    <3>1. phase'[c] = phase[c] \/ phase[c] = "loop"
      BY <1>1, <1>22, <2>1, DropFacts DEF LoopEnds
    <3>. QED
      BY <1>4, <1>5, <2>1, <3>1, DropFacts
  <2>2. CASE /\ x \in Conn /\ MustTerminate(x) /\ Mark(x, bound[x])
             /\ phase' = [phase EXCEPT ![x] = "cleanup"] /\ UNCHANGED <<queue, line>>
    <3>1. CASE x = c
      BY <1>1, <1>3, <1>6, <1>22, <2>2, <3>1 DEF LoopEnds, TypeInv, OwnersOK
    <3>2. CASE x # c
      <4>1. bound[x] \in Session /\ x \in Task
        BY <2>2, ConnFacts DEF MustTerminate
      <4>2. op'[c] = op[c]
        BY <1>9, <2>2, <3>2, <4>1
      <4>3. phase'[c] = phase[c]
        BY <1>1, <2>2, <3>2 DEF TypeInv, OwnersOK
      <4>. QED
        BY <1>3, <1>5, <2>2, <4>2, <4>3
    <3>. QED
      BY <3>1, <3>2
  <2>. QED
    BY <1>22, <2>1, <2>2 DEF LoopEnds, Leave
<1>23. ASSUME NEW u \in Subscriber, SystemConnects(u) PROVE Held
  <2>1. phase'[c] = phase[c] \/ phase[c] = "absent"
    BY <1>1, <1>23 DEF SystemConnects, TypeInv, OwnersOK
  <2>. QED
    BY <1>3, <1>5, <1>23, <2>1 DEF SystemConnects
<1>24. ASSUME NEW d \in Conn, Relay(d) PROVE Held
  BY <1>7, <1>8, <1>24, ConnFacts DEF Relay, Away
<1>32. ASSUME NEW d \in Conn, NEW s \in Session, Refused(d, s) PROVE Held
  BY <1>7, <1>8, <1>32, ConnFacts DEF Refused, Away
<1>25. ASSUME NEW d \in Conn, Malformed(d) PROVE Held
  <2>1. phase'[c] = phase[c] \/ phase[c] = "loop"
    BY <1>1, <1>25 DEF Malformed, MayRead, TypeInv, OwnersOK
  <2>. QED
    BY <1>3, <1>5, <1>25, <2>1 DEF Malformed
<1>26. ASSUME NEW d \in Conn, NEW p \in Participant, NEW s \in Session,
              Register(d, p, s) \/ Join(d, p, s) \/ Subscribe(d, p, s)
       PROVE  Held
  BY <1>7, <1>8, <1>26, ConnFacts DEF Register, Announce, Join, Subscribe, Away
<1>27. ASSUME NEW d \in Conn, NEW s \in Session, Close(d, s) PROVE Held
  BY <1>7, <1>9, <1>27, ConnFacts DEF Close
<1>28. ASSUME NEW t \in Task, NEW x \in Receiver, SendNext(t, x) PROVE Held
  <2>1. /\ Channels({t}, IF op[t].step = "announcing" THEN {op[t].sid} ELSE {})
        /\ op'[t].step = op[t].step /\ op[t].step \in Broadcast
        /\ \A u \in Task : u # t => op'[u] = op[u]
    BY <1>28, SendFacts
  <2>2. phase' = phase
    BY <1>28 DEF SendNext
  <2>3. CASE t = c
    BY <1>2, <2>1, <2>2, <2>3 DEF Held, Broadcast
  <2>4. CASE t # c
    BY <1>1, <1>4, <1>5, <2>1, <2>2, <2>4
  <2>. QED
    BY <2>3, <2>4
<1>29. ASSUME NEW t \in Task, ParticipantsTold(t) PROVE Held
  <2>1. UNCHANGED <<queue, line, phase>> /\ op[t].step = "telling"
    BY <1>29 DEF ParticipantsTold, Sent
  <2>2. CASE t # c
    BY <1>3, <1>5, <1>8, <1>29, <2>1, <2>2 DEF ParticipantsTold
  <2>3. CASE t = c
    <3>1. op' = [op EXCEPT ![c] = Op("tellingSystem", op[c].sid, SystemSubscribers)]
      BY <1>29, <2>3 DEF ParticipantsTold
    <3>2. op'[c].step = "tellingSystem"
      BY <1>1, <3>1 DEF TypeInv, OwnersOK, Op
    <3>. QED
      BY <1>2, <2>1, <2>3, <3>2 DEF Held
  <2>. QED
    BY <2>2, <2>3
<1>30. ASSUME NEW t \in Task, EndTermination(t) PROVE Held
  <2>1. NoWait
    BY <1>4, <1>30, EndFacts
  <2>2. CASE t # c
    BY <1>1, <1>5, <1>30, <2>1, <2>2, EndFacts
  <2>3. CASE t = c
    <3>1. ~Waiting(c) /\ op[c].step = "tellingSystem"
      BY <1>30, <2>3, EndFacts
    <3>2. phase[c] \in {"away", "cleanup"}
      BY <1>2, <3>1
    <3>3. CASE phase[c] = "cleanup"
      <4>1. op'[c] = NoOp
        BY <1>30, <2>3, <3>3, EndFacts
      <4>. QED
        BY <2>1, <3>1, <4>1, NoOpFacts DEF Held, NoWait
    <3>4. CASE phase[c] = "away"
      <4>1. phase'[c] = "away"
        BY <1>1, <1>30, <2>3, <3>4, EndFacts
      <4>. QED
        BY <2>1, <3>1, <4>1 DEF Held, NoWait
    <3>. QED
      BY <3>2, <3>3, <3>4
  <2>. QED
    BY <2>2, <2>3
<1>31. ASSUME NEW d \in Conn, Reply(d) PROVE Held
  <2>1. /\ Channels(IF Len(queue[d]) = Capacity[d] THEN {d} ELSE {}, {op[d].sid})
        /\ \A y \in Channel : y # d => phase'[y] = phase[y]
        /\ IF Len(queue[d]) = Capacity[d]
             THEN op'[d].step = "replied" /\ phase'[d] = "away" ELSE op'[d] = NoOp
        /\ \A u \in Task : u # d => op'[u] = op[u]
    BY <1>31, ReplyFacts
  <2>2. CASE d # c
    BY <1>1, <1>4, <1>5, <2>1, <2>2
  <2>3. CASE d = c /\ Len(queue[c]) = Capacity[c]
    BY <2>1, <2>3 DEF Held
  <2>4. CASE d = c /\ Len(queue[c]) # Capacity[c]
    <3>1. NoWait
      BY <1>4, <2>1, <2>4
    <3>2. ~Waiting(c)
      BY <1>2, <1>31, <2>4 DEF Reply, Sent
    <3>. QED
      BY <2>1, <2>4, <3>1, <3>2, NoOpFacts DEF Held, NoWait
  <2>. QED
    BY <2>2, <2>3, <2>4
<1>33. ASSUME Reported \/ \E s \in Session : Report(s) PROVE Held
  <2>1. UNCHANGED <<queue, line, phase>>
    BY <1>33 DEF Reported, Report
  <2>2. op'[c] = op[c]
    <3>1. CASE \E o : op' = [op EXCEPT ![Tracker] = o]
      BY <1>1, <1>8, <3>1
    <3>. QED
      BY <1>33, <3>1 DEF Reported, Report, Mark
  <2>. QED
    BY <1>3, <1>5, <2>1, <2>2
<1>34. ASSUME NEW s \in Session, NEW p \in Listener, Forward(s, p) PROVE Held
  <2>1. PICK m \in members[s] : Put(<<s, p>>, m[2], "event", None)
    BY <1>34 DEF Forward
  <2>2. m[2] \in Channel /\ "event" \in Kind /\ ChannelsOK
    BY <1>1, ReceiverFacts DEF Kind, TypeInv, ManagerOK
  <2>3. Channels(IF Len(queue[m[2]]) = Capacity[m[2]] THEN {<<s, p>>} ELSE {}, {None})
    BY <1>1, <2>1, <2>2, PutFacts
  <2>4. NoWait
    BY <1>1, <1>4, <2>3
  <2>. QED
    BY <1>5, <1>34, <2>4 DEF Forward
<1>35. ASSUME NEW s \in Session, NEW p \in Listener, MediaCloses(s, p) PROVE Held
  <2>1. UNCHANGED <<queue, line, phase>>
    BY <1>35 DEF MediaCloses
  <2>2. op'[c] = op[c]
    BY <1>1, <1>9, <1>35 DEF MediaCloses
  <2>. QED
    BY <1>3, <1>5, <2>1, <2>2
<1>36. CASE UNCHANGED vars
  BY <1>3, <1>5, <1>36 DEF vars
<1>. QED
  BY <1>20, <1>21, <1>22, <1>23, <1>24, <1>25, <1>26, <1>27, <1>28, <1>29, <1>30, <1>31,
     <1>32, <1>33, <1>34, <1>35, <1>36 DEF Next, Request, Proceed

\* A broadcast other than the announcement is quiet, too.
LEMMA QuietSend ==
  ASSUME TypeInv, NEW t \in Task, NEW x \in Receiver, SendNext(t, x), op[t].step # "announcing"
  PROVE  Quiet
<1>1. /\ Channels({t}, {})
      /\ op'[t].step = op[t].step /\ op'[t].sid = op[t].sid
      /\ \A u \in Task : u # t => op'[u] = op[u]
      /\ op[t].sid \in Session /\ announced' = announced
      /\ endedTo' = endedTo \/ (/\ op[t].step = "tellingSystem" /\ Announcing(op[t].sid)
                                /\ endedTo' = [endedTo EXCEPT ![op[t].sid] = @ \cup {x}])
  BY SendFacts
<1>2. UNCHANGED <<phase, status, members, streams, bound, known>>
  BY DEF SendNext
<1>3. ASSUME NEW s \in Session PROVE endedTo'[s] = endedTo[s] \/ \E u \in Task : MayTurnTo(u, s)
  <2>1. CASE s # op[t].sid
    BY <1>1, <2>1 DEF TypeInv, GhostsOK
  <2>2. CASE s = op[t].sid
    BY <2>2 DEF MayTurnTo
  <2>. QED
    BY <2>1, <2>2
<1>4. Channels({u \in Task : op'[u].step # "announcing"}, {})
  BY <1>1 DEF Channels
<1>5. \A u \in Task : op'[u].step = op[u].step /\ op'[u].sid = op[u].sid
  BY <1>1
<1>. QED
  BY <1>1, <1>2, <1>3, <1>4, <1>5 DEF Quiet

\* A send of SessionCreated ends the secret of its session, and no other.
LEMMA AnnouncementKeeps ==
  ASSUME TypeInv, AnnounceInv, SecretInv,
         NEW t \in Task, NEW x \in Receiver, SendNext(t, x), op[t].step = "announcing"
  PROVE  AnnounceInv' /\ SecretInv'
<1>. DEFINE r == op[t].sid
<1>1. /\ Channels({t}, {r}) /\ r \in Session
      /\ op'[t].step = op[t].step /\ op'[t].sid = op[t].sid
      /\ \A u \in Task : u # t => op'[u] = op[u]
      /\ announced' = [announced EXCEPT ![r] = @ \cup {x}] /\ endedTo' = endedTo
  BY SendFacts
<1>2. UNCHANGED <<phase, status, members, streams, bound, known>>
  BY DEF SendNext
<1>3. /\ x \in announced'[r] /\ \A s \in Session : s # r => announced'[s] = announced[s]
      /\ \A s \in Session : announced[s] \subseteq announced'[s]
  BY <1>1 DEF TypeInv, GhostsOK
<1>4. \A u \in Task : op'[u].step = op[u].step /\ op'[u].sid = op[u].sid
  BY <1>1
<1>. HIDE DEF r
<1>5. AnnounceInv'
  <2>. SUFFICES ASSUME NEW u \in Task, op'[u].step = "announcing"
                PROVE  /\ u \in Conn /\ op'[u].sid # EmptySession
                       /\ Waiting(u)' => announced'[op'[u].sid] # {}
                       /\ \A v \in Task : op'[v].step = "announcing" /\ op'[v].sid = op'[u].sid => v = u
    BY DEF AnnounceInv
  <2>1. op[u].step = "announcing" /\ op'[u].sid = op[u].sid /\ op[u].sid \in Session
    BY <1>4 DEF TypeInv, TodoInv, Broadcast
  <2>2. u \in Conn /\ op[u].sid # EmptySession /\ \A v \in Task : op'[v].step = "announcing" /\ op'[v].sid = op'[u].sid => v = u
    BY <1>4, <2>1 DEF AnnounceInv
  <2>3. CASE u = t
    BY <1>3, <2>1, <2>2, <2>3 DEF r
  <2>4. CASE u # t
    <3>1. Waiting(u)' => announced[op[u].sid] # {}
      BY <1>1, <2>1, <2>4 DEF Channels, AnnounceInv
    <3>. QED
      BY <1>3, <2>1, <2>2, <3>1
  <2>. QED
    BY <2>3, <2>4
<1>6. ASSUME NEW s \in Session, Secret(s)'
      PROVE  /\ s \notin known' /\ ~Carried(s)'
             /\ \A c \in Conn : bound'[c] # s
             /\ \A p \in Listener : <<s, p>> \notin streams'
             /\ \A u \in Task : op'[u].sid = s => op'[u].step = "announcing" /\ status'[s] # "fresh"
             /\ announced'[s] = {} /\ endedTo'[s] = {}
  <2>1. s # r
    <3>. SUFFICES ASSUME s = r PROVE FALSE
      OBVIOUS
    <3>1. status[r] = "fresh" /\ r # EmptySession
      BY <1>2, <1>3, <1>6 DEF Secret
    <3>2. op[t].sid = r
      BY DEF r
    <3>3. Secret(r)
      BY <3>1 DEF Secret
    <3>. QED
      BY <1>1, <3>1, <3>2, <3>3 DEF SecretInv
  <2>2. Secret(s)
    BY <1>2, <1>3, <1>4, <1>6, <2>1 DEF Secret, Announcing
  <2>3. ~Carried(s)'
    BY <1>1, <2>1, <2>2 DEF Channels, SecretInv
  <2>. QED
    BY <1>1, <1>2, <1>3, <1>4, <2>1, <2>2, <2>3 DEF SecretInv
<1>. QED
  BY <1>5, <1>6 DEF SecretInv

\* A registration takes an id nobody knows, and is the only one to announce it.
LEMMA RegisterKeeps ==
  ASSUME IInv, NEW c \in Conn, NEW i \in Participant, NEW r \in Session, Register(c, i, r)
  PROVE  AnnounceInv' /\ SecretInv'
<1>. USE DEF IInv
<1>1. /\ status[r] = "fresh" /\ r # EmptySession /\ phase[c] = "loop"
      /\ op' = [op EXCEPT ![c] = Op("announcing", r, SystemSubscribers)]
      /\ status' = [status EXCEPT ![r] = "live"]
      /\ UNCHANGED <<queue, line, streams, bound, known, announced, endedTo>>
  BY DEF Register, Announce, MayRead
<1>2. c \in Task /\ Channels({}, {})
  BY <1>1, ConnFacts, ChannelsAlone DEF TypeInv
<1>3. /\ op'[c].step = "announcing" /\ op'[c].sid = r
      /\ \A u \in Task : u # c => op'[u] = op[u]
      /\ status'[r] = "live" /\ \A s \in Session : s # r => status'[s] = status[s]
  BY <1>1, <1>2 DEF TypeInv, OwnersOK, ManagerOK, Op
<1>4. ~Waiting(c)
  BY <1>1 DEF HandlerInv
<1>5. /\ r \notin known /\ ~Carried(r)
      /\ \A d \in Conn : bound[d] # r
      /\ \A p \in Listener : <<r, p>> \notin streams
      /\ \A u \in Task : op[u].sid # r
      /\ announced[r] = {} /\ endedTo[r] = {}
  BY <1>1 DEF SecretInv, Secret
<1>6. AnnounceInv'
  <2>. SUFFICES ASSUME NEW u \in Task, op'[u].step = "announcing"
                PROVE  /\ u \in Conn /\ op'[u].sid # EmptySession
                       /\ Waiting(u)' => announced'[op'[u].sid] # {}
                       /\ \A v \in Task : op'[v].step = "announcing" /\ op'[v].sid = op'[u].sid => v = u
    BY DEF AnnounceInv
  <2>1. Waiting(u)' => Waiting(u)
    BY <1>2 DEF Channels
  <2>2. CASE u = c
    BY <1>1, <1>3, <1>4, <1>5, <2>1, <2>2
  <2>3. CASE u # c
    BY <1>1, <1>3, <1>5, <2>1, <2>3 DEF AnnounceInv
  <2>. QED
    BY <2>2, <2>3
<1>7. ASSUME NEW s \in Session, Secret(s)'
      PROVE  /\ s \notin known' /\ ~Carried(s)'
             /\ \A d \in Conn : bound'[d] # s
             /\ \A p \in Listener : <<s, p>> \notin streams'
             /\ \A u \in Task : op'[u].sid = s => op'[u].step = "announcing" /\ status'[s] # "fresh"
             /\ announced'[s] = {} /\ endedTo'[s] = {}
  <2>1. Carried(s)' => Carried(s)
    BY <1>2 DEF Channels
  <2>2. CASE s = r
    BY <1>1, <1>3, <1>5, <2>1, <2>2
  <2>3. CASE s # r
    <3>1. Secret(s)
      BY <1>1, <1>3, <1>7, <2>3 DEF Secret, Announcing
    <3>. QED
      BY <1>1, <1>3, <2>1, <2>3, <3>1 DEF SecretInv
  <2>. QED
    BY <2>2, <2>3
<1>. QED
  BY <1>6, <1>7 DEF SecretInv

\* The reply is about a session whose secret is out, or whose announcement it ends.
LEMMA ReplyKeeps ==
  ASSUME TypeInv, AnnounceInv, SecretInv, NEW c \in Conn, Reply(c)
  PROVE  AnnounceInv' /\ SecretInv'
<1>. DEFINE r == op[c].sid
<1>1. /\ Channels(IF Len(queue[c]) = Capacity[c] THEN {c} ELSE {}, {r})
      /\ IF Len(queue[c]) = Capacity[c]
           THEN op'[c].step = "replied" /\ op'[c].sid = r ELSE op'[c] = NoOp
      /\ \A u \in Task : u # c => op'[u] = op[u]
      /\ \A d \in Conn : bound'[d] \in {bound[d], r}
      /\ \A s \in Session :
           IF op[c].step = "announcing" /\ r = s
             THEN announced'[s] = {} /\ endedTo'[s] = {}
             ELSE announced'[s] = announced[s] /\ endedTo'[s] = endedTo[s]
  BY ReplyFacts
<1>2. UNCHANGED <<status, streams, known>> /\ c \in Task /\ None \notin Session
  BY ConnFacts, QueueAssumption DEF Reply
<1>3. op'[c].step # "announcing" /\ op'[c].sid \in {r, None}
  BY <1>1, NoOpFacts
<1>4. op[c].step \in {"replying", "announcing"}
  BY DEF Reply, Sent
<1>5. AnnounceInv'
  <2>. SUFFICES ASSUME NEW u \in Task, op'[u].step = "announcing"
                PROVE  /\ u \in Conn /\ op'[u].sid # EmptySession
                       /\ Waiting(u)' => announced'[op'[u].sid] # {}
                       /\ \A v \in Task : op'[v].step = "announcing" /\ op'[v].sid = op'[u].sid => v = u
    BY DEF AnnounceInv
  <2>1. u # c /\ op'[u] = op[u] /\ op[u].step = "announcing" /\ op[u].sid \in Session
    BY <1>1, <1>3 DEF TypeInv, TodoInv, Broadcast
  <2>2. Waiting(u)' => Waiting(u)
    BY <1>1, <2>1 DEF Channels
  <2>3. announced'[op[u].sid] = announced[op[u].sid]
    BY <1>1, <1>2, <2>1 DEF AnnounceInv
  <2>4. \A v \in Task : op'[v].step = "announcing" => v # c /\ op'[v] = op[v]
    BY <1>1, <1>3
  <2>. QED
    BY <2>1, <2>2, <2>3, <2>4 DEF AnnounceInv
<1>6. ASSUME NEW s \in Session, Secret(s)'
      PROVE  /\ s \notin known' /\ ~Carried(s)'
             /\ \A d \in Conn : bound'[d] # s
             /\ \A p \in Listener : <<s, p>> \notin streams'
             /\ \A u \in Task : op'[u].sid = s => op'[u].step = "announcing" /\ status'[s] # "fresh"
             /\ announced'[s] = {} /\ endedTo'[s] = {}
  <2>1. s # r
    <3>. SUFFICES ASSUME s = r PROVE FALSE
      OBVIOUS
    <3>1. status[s] # "fresh"
      BY <1>2, <1>6 DEF Secret, SecretInv
    <3>2. PICK u \in Task : op'[u].step = "announcing" /\ op'[u].sid = s /\ announced'[s] = {}
      BY <1>2, <1>6, <3>1 DEF Secret, Announcing
    <3>3. u # c /\ op[u].step = "announcing" /\ op[u].sid = s
      BY <1>1, <1>3, <3>2
    <3>4. op[c].step # "announcing"
      BY <1>2, <3>3 DEF AnnounceInv
    <3>5. Secret(s)
      BY <1>1, <1>6, <3>2, <3>3, <3>4 DEF Secret, Announcing
    <3>. QED
      BY <1>2, <3>4, <3>5 DEF SecretInv
  <2>2. announced'[s] = announced[s] /\ endedTo'[s] = endedTo[s]
    BY <1>1, <2>1
  <2>3. Secret(s)
    BY <1>1, <1>2, <1>3, <1>6, <2>2 DEF Secret, Announcing
  <2>4. ~Carried(s)'
    BY <1>1, <2>1, <2>3 DEF Channels, SecretInv
  <2>5. \A d \in Conn : bound'[d] # s
    BY <1>1, <2>1, <2>3 DEF SecretInv
  <2>6. \A u \in Task : op'[u].sid = s => op'[u].step = "announcing" /\ status'[s] # "fresh"
    BY <1>1, <1>2, <1>3, <2>1, <2>3 DEF SecretInv
  <2>. QED
    BY <1>2, <2>2, <2>3, <2>4, <2>5, <2>6 DEF SecretInv
<1>. QED
  BY <1>5, <1>6 DEF SecretInv

\* The inductive invariant: what a secret session, an announcement and a handler that waits
\* for room have to do with each other.
THEOREM Invariance == Spec => []IInv
<1>1. Init => IInv
  <2>1. Init => TypeInv
    BY InitTypes
  <2>2. Init => \A t \in Task : op[t] = NoOp /\ ~Waiting(t)
    BY DEF Init, Waiting, WaitsFor
  <2>3. Init => HandlerInv /\ AnnounceInv
    BY <2>2, NoOpFacts, ConnFacts DEF HandlerInv, AnnounceInv
  <2>4. Init => \A s \in Session : ~Carried(s)
    BY DEF Init, Carried
  <2>5. Init => SecretInv
    BY <2>2, <2>4, NoOpFacts, QueueAssumption DEF Init, SecretInv
  <2>. QED
    BY <2>1, <2>3, <2>5 DEF IInv
<1>2. ASSUME IInv, [Next]_vars PROVE IInv'
  <2>1. TypeInv' /\ HandlerInv'
    BY <1>2, TypeStep, HandlerStep DEF IInv
  <2>2. CASE \E c \in Conn : Reply(c)
    BY <1>2, <2>1, <2>2, ReplyKeeps DEF IInv
  <2>3. CASE \E c \in Conn, p \in Participant, s \in Session : Register(c, p, s)
    BY <1>2, <2>1, <2>3, RegisterKeeps DEF IInv
  <2>4. CASE \E t \in Task, x \in Receiver : SendNext(t, x) /\ op[t].step = "announcing"
    BY <1>2, <2>1, <2>4, AnnouncementKeeps DEF IInv
  <2>5. CASE \E t \in Task, x \in Receiver : SendNext(t, x) /\ op[t].step # "announcing"
    BY <1>2, <2>1, <2>5, QuietSend, QuietKeeps DEF IInv
  <2>6. CASE Quiet
    BY <1>2, <2>1, <2>6, QuietKeeps DEF IInv
  <2>. QED
    BY <1>2, <2>2, <2>3, <2>4, <2>5, <2>6, QuietStep DEF IInv, Next, Request, Proceed
<1>. QED
  BY <1>1, <1>2, PTL DEF Spec

\* A subscriber to whom SessionCreated is still on its way is sent SessionEnded only if
\* another one was sent SessionCreated before (register_session, core.rs).
THEOREM EndedFirstAlwaysNeedsLeak == Spec => []EndedFirstNeedsLeak
<1>1. IInv => EndedFirstNeedsLeak
  BY DEF IInv, AnnounceInv, SecretInv, Secret, Announcing, EndedFirstNeedsLeak
<1>. QED
  BY <1>1, Invariance, PTL

-------------------------------------------------------------------------------
(* What handlers send to themselves.                                       *)

\* The places in a channel of the messages its owner sent.
OwnIn(q) == {i \in DOMAIN q : q[i].own}
Owned(c) == Cardinality(OwnIn(queue[c]))

\* Counting them: what is not the owner's makes up the rest.
LEMMA OwnedFacts ==
  ASSUME NEW q \in Seq(Messages)
  PROVE  /\ IsFiniteSet(OwnIn(q)) /\ Cardinality(OwnIn(q)) \in Nat
         /\ Cardinality({i \in DOMAIN q : ~q[i].own}) = Len(q) - Cardinality(OwnIn(q))
         /\ q = <<>> => Cardinality(OwnIn(q)) = 0
<1>1. DOMAIN q = 1..Len(q) /\ Len(q) \in Nat
  BY LenProperties
<1>2. IsFiniteSet(1..Len(q)) /\ Cardinality(1..Len(q)) = Len(q)
  BY <1>1, FS_Interval
<1>3. OwnIn(q) \in SUBSET (1..Len(q))
  BY <1>1 DEF OwnIn
<1>4. IsFiniteSet(OwnIn(q)) /\ Cardinality(OwnIn(q)) \in Nat
  BY <1>2, <1>3, FS_Subset, FS_CardinalityType
<1>5. {i \in DOMAIN q : ~q[i].own} = (1..Len(q)) \ OwnIn(q) /\ (1..Len(q)) \cap OwnIn(q) = OwnIn(q)
  BY <1>1, <1>3 DEF OwnIn
<1>6. Cardinality((1..Len(q)) \ OwnIn(q)) = Len(q) - Cardinality((1..Len(q)) \cap OwnIn(q))
  BY <1>2, FS_Difference
<1>7. q = <<>> => OwnIn(q) = {}
  BY DEF OwnIn
<1>. QED
  BY <1>4, <1>5, <1>6, <1>7, FS_EmptySet

\* Append adds one of them at most, and none when the message is another task's.
LEMMA OwnedAppend ==
  ASSUME NEW q \in Seq(Messages), NEW m \in Messages
  PROVE  /\ Cardinality(OwnIn(Append(q, m))) <= Cardinality(OwnIn(q)) + 1
         /\ ~m.own => Cardinality(OwnIn(Append(q, m))) <= Cardinality(OwnIn(q))
<1>1. /\ Append(q, m) \in Seq(Messages)
      /\ Len(Append(q, m)) = Len(q) + 1
      /\ \A i \in 1..Len(q) : Append(q, m)[i] = q[i]
      /\ Append(q, m)[Len(q) + 1] = m
  BY AppendProperties
<1>2. DOMAIN q = 1..Len(q) /\ DOMAIN Append(q, m) = 1..(Len(q) + 1) /\ Len(q) \in Nat
  BY <1>1, LenProperties
<1>3. IsFiniteSet(OwnIn(q)) /\ Cardinality(OwnIn(q)) \in Nat
  BY OwnedFacts
<1>4. OwnIn(Append(q, m)) \in SUBSET (OwnIn(q) \cup {Len(q) + 1})
  BY <1>1, <1>2 DEF OwnIn
<1>5. ~m.own => OwnIn(Append(q, m)) \in SUBSET OwnIn(q)
  BY <1>1, <1>2 DEF OwnIn
<1>6. /\ IsFiniteSet(OwnIn(q) \cup {Len(q) + 1})
      /\ Cardinality(OwnIn(q) \cup {Len(q) + 1}) <= Cardinality(OwnIn(q)) + 1
  <2>1. Len(q) + 1 \notin OwnIn(q)
    BY <1>2 DEF OwnIn
  <2>2. /\ IsFiniteSet(OwnIn(q) \cup {Len(q) + 1})
        /\ Cardinality(OwnIn(q) \cup {Len(q) + 1}) = Cardinality(OwnIn(q)) + 1
    BY <1>3, <2>1, FS_AddElement
  <2>. QED
    BY <1>3, <2>2
<1>7. /\ Cardinality(OwnIn(Append(q, m))) <= Cardinality(OwnIn(q) \cup {Len(q) + 1})
      /\ Cardinality(OwnIn(Append(q, m))) \in Nat
      /\ Cardinality(OwnIn(q) \cup {Len(q) + 1}) \in Nat
  BY <1>1, <1>4, <1>6, FS_Subset, FS_CardinalityType, OwnedFacts
<1>8. Cardinality(OwnIn(Append(q, m))) <= Cardinality(OwnIn(q)) + 1
  BY <1>3, <1>6, <1>7
<1>9. ~m.own => Cardinality(OwnIn(Append(q, m))) <= Cardinality(OwnIn(q))
  BY <1>3, <1>5, FS_Subset
<1>. QED
  BY <1>8, <1>9

\* Tail adds none.
LEMMA OwnedTail ==
  ASSUME NEW q \in Seq(Messages), q # <<>>
  PROVE  Cardinality(OwnIn(Tail(q))) <= Cardinality(OwnIn(q))
<1>. DEFINE f == [i \in OwnIn(Tail(q)) |-> i + 1]
<1>1. /\ Tail(q) \in Seq(Messages) /\ Len(Tail(q)) = Len(q) - 1
      /\ \A i \in 1 .. Len(Tail(q)) : Tail(q)[i] = q[i + 1]
  BY HeadTailProperties
<1>2. DOMAIN q = 1..Len(q) /\ Len(q) \in Nat /\ DOMAIN Tail(q) = 1..Len(Tail(q))
  BY <1>1, LenProperties
<1>3. \A i \in OwnIn(Tail(q)) : i \in Nat /\ i + 1 \in OwnIn(q)
  BY <1>1, <1>2 DEF OwnIn
<1>4. f \in [OwnIn(Tail(q)) -> OwnIn(q)]
  BY <1>3
<1>5. \A i, k \in OwnIn(Tail(q)) : f[i] = f[k] => i = k
  BY <1>3
<1>6. f \in Injection(OwnIn(Tail(q)), OwnIn(q))
  BY <1>4, <1>5 DEF Injection, IsInjective
<1>. QED
  BY <1>6, OwnedFacts, FS_Injection

\* send().await puts one message more into a channel with room, and it is the owner's only
\* if the owner sends it.
LEMMA PutOwned ==
  ASSUME ChannelsOK, NEW t \in Task, NEW x \in Channel, NEW kind \in Kind,
         NEW s \in Session \cup {None}, Put(t, x, kind, s), NEW c \in Conn
  PROVE  /\ Owned(c)' <= Owned(c) + 1
         /\ Owned(c) \in Nat /\ Owned(c)' \in Nat
         /\ c # x \/ t # x \/ Len(queue[x]) = Capacity[x] => Owned(c)' <= Owned(c)
<1>. DEFINE m == [kind |-> kind, sid |-> s, own |-> t = x]
<1>1. queue' = queue \/ (Len(queue[x]) # Capacity[x] /\ queue' = [queue EXCEPT ![x] = Append(@, m)])
  BY DEF Put
<1>2. m \in Messages /\ (m.own => t = x)
  BY DEF Messages
<1>3. c \in Channel /\ queue[c] \in Seq(Messages) /\ queue[x] \in Seq(Messages)
  BY ConnFacts DEF ChannelsOK
<1>. HIDE DEF m
<1>4. Owned(c) \in Nat
  BY <1>3, OwnedFacts DEF Owned
<1>5. CASE queue' = queue
  BY <1>4, <1>5 DEF Owned
<1>6. CASE Len(queue[x]) # Capacity[x] /\ queue' = [queue EXCEPT ![x] = Append(@, m)]
  <2>1. CASE c # x
    <3>1. queue'[c] = queue[c]
      BY <1>6, <2>1
    <3>. QED
      BY <1>4, <3>1 DEF Owned
  <2>2. CASE c = x
    <3>1. queue'[c] = Append(queue[c], m) /\ Append(queue[c], m) \in Seq(Messages)
      BY <1>2, <1>3, <1>6, <2>2, AppendFacts DEF ChannelsOK
    <3>2. /\ Owned(c)' <= Owned(c) + 1 /\ Owned(c)' \in Nat
          /\ ~m.own => Owned(c)' <= Owned(c)
      BY <1>2, <1>3, <3>1, OwnedAppend, OwnedFacts DEF Owned
    <3>. QED
      BY <1>2, <1>4, <1>6, <2>2, <3>2
  <2>. QED
    BY <2>1, <2>2
<1>. QED
  BY <1>1, <1>5, <1>6

\* Of the receivers todo, the participants which are c.
Mine(todo, c) == {m \in todo : m \in Member /\ m[2] = c}

\* There are at most as many as the client has ids; a send takes one of them away.
LEMMA MineFacts ==
  ASSUME NEW c \in Conn, NEW todo
  PROVE  /\ Cardinality(Ids[c]) \in Nat
         /\ Cardinality(Mine(todo, c)) \in Nat /\ Cardinality(Mine(todo, c)) <= Cardinality(Ids[c])
         /\ Mine({}, c) = {} /\ Cardinality({}) = 0
         /\ \A x : IF x \in Mine(todo, c)
                   THEN Cardinality(Mine(todo \ {x}, c)) = Cardinality(Mine(todo, c)) - 1
                   ELSE Mine(todo \ {x}, c) = Mine(todo, c)
<1>. DEFINE S == Mine(todo, c)
            f == [m \in S |-> m[1]]
<1>1. IsFiniteSet(Ids[c]) /\ Cardinality(Ids[c]) \in Nat
  BY QueueAssumption, FS_CardinalityType
<1>2. \A m \in S : m[1] \in Ids[c] /\ m = <<m[1], c>>
  BY ReceiverFacts DEF Mine
<1>3. f \in Injection(S, Ids[c])
  <2>1. f \in [S -> Ids[c]]
    BY <1>2
  <2>2. \A m, n \in S : f[m] = f[n] => m = n
    BY <1>2
  <2>. QED
    BY <2>1, <2>2 DEF Injection, IsInjective
<1>4. IsFiniteSet(S) /\ Cardinality(S) <= Cardinality(Ids[c])
  <2>. HIDE DEF S, f
  <2>. QED
    BY <1>1, <1>3, FS_Injection
<1>5. Cardinality(S) \in Nat
  BY <1>4, FS_CardinalityType
<1>6. ASSUME NEW x
      PROVE  IF x \in S THEN Cardinality(Mine(todo \ {x}, c)) = Cardinality(S) - 1
                        ELSE Mine(todo \ {x}, c) = S
  <2>1. Mine(todo \ {x}, c) = S \ {x}
    BY DEF Mine
  <2>2. x \in S => Cardinality(S \ {x}) = Cardinality(S) - 1
    <3>. HIDE DEF S
    <3>. QED
      BY <1>4, FS_RemoveElement
  <2>. QED
    BY <2>1, <2>2
<1>7. Mine({}, c) = {} /\ Cardinality({}) = 0
  BY FS_EmptySet DEF Mine
<1>. QED
  BY <1>1, <1>4, <1>5, <1>6, <1>7

\* How many messages to itself the broadcast of c has ahead.
Ahead(c) == IF op[c].step = "telling" THEN Cardinality(Mine(op[c].todo, c)) ELSE 0

\* How many messages of its own the channel of c may hold.  A request finds it empty; the
\* SessionEnded for each participant of the client and the reply it then gets are there when
\* the loop ends, and the cleanup adds one for each participant again.
Allowed(c) ==
  CASE phase[c] = "cleanup" -> 2 * Cardinality(Ids[c]) + 1 - Ahead(c)
    [] phase[c] = "away" -> Cardinality(Ids[c]) - Ahead(c)
    [] OTHER -> Cardinality(Ids[c]) + 1

OwnInv ==
  /\ OwnLine
  /\ \A c \in Conn : Owned(c) <= Allowed(c) /\ op[c].step \notin {"warning", "farewell"}

\* Every step keeps OwnInv.
LEMMA OwnStep ==
  ASSUME TypeInv, TypeInv', HandlerInv, OwnInv, [Next]_vars
  PROVE  OwnInv'
<1>. DEFINE Line == OwnLine'
<1>1. /\ \A T, R : Channels(T, R) => Line
      /\ UNCHANGED <<queue, line>> => Line
  BY DEF Channels, OwnInv, OwnLine
<1>2. OwnLine'
  <2>. SUFFICES Line
    OBVIOUS
  <2>. HIDE DEF Line
  <2>1. ASSUME NEW x \in Channel, Receive(x) PROVE Line
    BY <1>1, <2>1, ReceiveFacts
  <2>2. ASSUME NEW x \in Channel, LoopEnds(x) PROVE Line
    BY <1>1, <2>2, DropFacts DEF LoopEnds, Leave
  <2>3. ASSUME NEW t \in Task, NEW x \in Receiver, SendNext(t, x) PROVE Line
    BY <1>1, <2>3, SendFacts
  <2>4. ASSUME NEW t \in Task, EndTermination(t) PROVE Line
    BY <1>1, <2>4, EndFacts
  <2>5. ASSUME NEW d \in Conn, Reply(d) PROVE Line
    BY <1>1, <2>5, ReplyFacts
  <2>6. ASSUME NEW s \in Session, NEW p \in Listener, Forward(s, p) PROVE Line
    <3>1. PICK m \in members[s] : Put(<<s, p>>, m[2], "event", None)
      BY <2>6 DEF Forward
    <3>2. "event" \in Kind /\ <<s, p>> \in Task /\ m[2] \in Channel /\ ChannelsOK
      BY ConnFacts, ReceiverFacts DEF Kind, Stream, TypeInv, ManagerOK
    <3>. QED
      BY <1>1, <3>1, <3>2, PutFacts
  <2>7. CASE UNCHANGED <<queue, line>>
    BY <1>1, <2>7
  <2>8. \/ \E x \in Channel : Written(x)
        \/ \E u \in Subscriber : SystemConnects(u)
        \/ \E d \in Conn : Request(d)
        \/ \E t \in Task : ParticipantsTold(t)
        \/ Reported
        \/ \E s \in Session : Report(s) \/ \E p \in Listener : MediaCloses(s, p)
        \/ UNCHANGED vars
        => UNCHANGED <<queue, line>>
    BY DEF Written, SystemConnects, Request, Relay, Refused, Malformed, Register, Join, Subscribe, Close,
           Away, ParticipantsTold, Reported, Report, MediaCloses, vars
  <2>. QED
    BY <2>1, <2>2, <2>3, <2>4, <2>5, <2>6, <2>7, <2>8 DEF Next, Proceed
<1>. HIDE DEF Line
<1>. SUFFICES ASSUME NEW c \in Conn
              PROVE  Owned(c)' <= Allowed(c)' /\ op'[c].step \notin {"warning", "farewell"}
  BY <1>2 DEF OwnInv
<1>. DEFINE Held == Owned(c)' <= Allowed(c)' /\ op'[c].step \notin {"warning", "farewell"}
            NoMore == Owned(c)' <= Owned(c)
<1>. SUFFICES Held
  OBVIOUS
<1>3. /\ c \in Channel /\ c \in Task /\ Conn \subseteq Channel
      /\ Tracker \in Task /\ Tracker # c /\ c \notin Subscriber /\ Conn \subseteq Task
      /\ \A s \in Session, p \in Listener : <<s, p>> \in Task /\ <<s, p>> # c
  BY ConnFacts, QueueAssumption DEF Stream
<1>4. /\ Owned(c) <= Allowed(c) /\ op[c].step \notin {"warning", "farewell"}
      /\ phase[c] \notin {"away", "cleanup"} => op[c].step = "none"
      /\ Waiting(c) => op[c].step \notin {"none", "replying"}
  BY DEF OwnInv, HandlerInv
<1>5. Owned(c) \in Nat /\ Owned(c)' \in Nat
  <2>1. queue[c] \in Seq(Messages) /\ queue'[c] \in Seq(Messages)
    BY <1>3 DEF TypeInv, ChannelsOK
  <2>. QED
    BY <2>1, OwnedFacts DEF Owned
<1>6. queue'[c] = queue[c] => NoMore
  BY <1>5 DEF Owned
<1>7. queue'[c] = <<>> => Owned(c)' = 0
  <2>1. <<>> \in Seq(Messages)
    OBVIOUS
  <2>. QED
    BY <2>1, OwnedFacts DEF Owned
<1>. DEFINE k == Cardinality(Ids[c])
            left == Ahead(c)
            left1 == Ahead(c)'
<1>14. /\ k \in Nat /\ left \in Nat /\ left <= k /\ left1 \in Nat /\ left1 <= k
       /\ op[c].step # "telling" => left = 0
       /\ op'[c].step # "telling" => left1 = 0
       /\ op'[c] = op[c] => left1 = left
  BY MineFacts DEF Ahead
<1>15. /\ Allowed(c) = IF phase[c] = "cleanup" THEN 2 * k + 1 - left
                        ELSE IF phase[c] = "away" THEN k - left ELSE k + 1
       /\ Allowed(c)' = IF phase'[c] = "cleanup" THEN 2 * k + 1 - left1
                         ELSE IF phase'[c] = "away" THEN k - left1 ELSE k + 1
  BY DEF Allowed
<1>. HIDE DEF k, left, left1
<1>. DEFINE calm == phase[c] \notin {"away", "cleanup"}
\* Nothing of c changes but that its channel may lose messages.
<1>8. ASSUME NoMore, op'[c] = op[c], phase'[c] = phase[c] \/ (calm /\ phase'[c] \notin {"away", "cleanup"})
      PROVE  Held
  BY <1>4, <1>5, <1>8, <1>14, <1>15
\* Its channel is empty.
<1>9. ASSUME queue'[c] = <<>>, op'[c].step \notin {"warning", "farewell"} PROVE Held
  BY <1>7, <1>9, <1>14, <1>15
<1>. HIDE DEF Held, NoMore
<1>10. ASSUME NEW d \in Conn, MayRead(d), phase' = [phase EXCEPT ![d] = "away"],
              UNCHANGED <<queue, line>>, d # c => op'[c] = op[c],
              d = c => op'[c].step \notin {"warning", "farewell"}
       PROVE  Held
  <2>1. CASE d = c
    BY <1>9, <1>10, <2>1 DEF MayRead
  <2>2. CASE d # c
    BY <1>3, <1>6, <1>8, <1>10, <2>2 DEF TypeInv, OwnersOK
  <2>. QED
    BY <2>1, <2>2
<1>11. \A t \in Task : t # c => \A o : op' = [op EXCEPT ![t] = o] => op'[c] = op[c]
  BY <1>3 DEF TypeInv, OwnersOK
<1>12. ASSUME NEW t \in Task, NEW s \in Session, Mark(t, s)
       PROVE  /\ t # c => op'[c] = op[c]
              /\ t = c => op'[c].step = "telling"
  BY <1>3, <1>12, MarkFacts DEF TypeInv
<1>13. \A step, s, todo : op' = [op EXCEPT ![c] = Op(step, s, todo)] => op'[c].step = step
  BY <1>3 DEF TypeInv, OwnersOK, Op
<1>20. ASSUME NEW x \in Channel, Receive(x) PROVE Held
  <2>1. op' = op /\ phase' = phase
    BY <1>20 DEF Receive
  <2>2. CASE x # c
    BY <1>3, <1>6, <1>8, <1>20, <2>1, <2>2, ReceiveFacts
  <2>3. CASE x = c
    <3>1. queue[c] \in Seq(Messages) /\ queue[c] # <<>> /\ line[c] \in Seq(Task \X Messages)
      BY <1>3, <1>20, <2>3 DEF Receive, TypeInv, ChannelsOK
    <3>2. /\ Tail(queue[c]) \in Seq(Messages)
          /\ Cardinality(OwnIn(Tail(queue[c]))) <= Owned(c)
          /\ Cardinality(OwnIn(Tail(queue[c]))) \in Nat
      BY <3>1, TailFacts, OwnedTail, OwnedFacts DEF Owned
    <3>3. CASE line[c] = <<>>
      <4>1. queue'[c] = Tail(queue[c])
        BY <1>3, <1>20, <2>3, <3>3 DEF Receive, TypeInv, ChannelsOK
      <4>2. NoMore
        BY <3>2, <4>1 DEF NoMore, Owned
      <4>. QED
        BY <1>8, <2>1, <4>2
    <3>4. CASE line[c] # <<>>
      <4>. DEFINE m == Head(line[c])[2]
      <4>1. queue'[c] = Append(Tail(queue[c]), m)
        BY <1>3, <1>20, <2>3, <3>4 DEF Receive, TypeInv, ChannelsOK
      <4>2. Head(line[c]) \in Task \X Messages /\ \E j \in DOMAIN line[c] : Head(line[c]) = line[c][j]
        BY <3>1, <3>4, TailFacts
      <4>3. PICK j \in DOMAIN line[c] : Head(line[c]) = line[c][j]
        BY <4>2
      <4>4. ~Waiting(c)
        BY <1>4, <1>20, <2>3 DEF Receive
      <4>5. line[c][j][1] # c
        BY <1>3, <4>4 DEF Waiting, WaitsFor
      <4>6. m \in Messages /\ ~m.own
        BY <1>3, <4>2, <4>3, <4>5 DEF OwnInv, OwnLine
      <4>. HIDE DEF m
      <4>7. Cardinality(OwnIn(Append(Tail(queue[c]), m))) <= Cardinality(OwnIn(Tail(queue[c])))
        BY <3>2, <4>6, OwnedAppend
      <4>8. NoMore
        BY <1>5, <3>2, <4>1, <4>7 DEF NoMore, Owned
      <4>. QED
        BY <1>8, <2>1, <4>8
    <3>. QED
      BY <3>3, <3>4
  <2>. QED
    BY <2>2, <2>3
<1>21. ASSUME NEW x \in Channel, Written(x) PROVE Held
  <2>1. phase'[c] = phase[c] \/ (phase[c] = "rejecting" /\ phase'[c] = "loop")
    BY <1>3, <1>21 DEF Written, TypeInv, OwnersOK
  <2>. QED
    BY <1>6, <1>8, <1>21, <2>1 DEF Written
<1>22. ASSUME NEW x \in Channel, LoopEnds(x) PROVE Held
  <2>1. CASE DropReceiver(x) /\ UNCHANGED op
    <3>1. CASE x = c
      BY <1>4, <1>9, <1>22, <2>1, <3>1, DropFacts
    <3>2. CASE x # c
      BY <1>3, <1>6, <1>8, <2>1, <3>2, DropFacts
    <3>. QED
      BY <3>1, <3>2
  <2>2. CASE /\ x \in Conn /\ MustTerminate(x) /\ Mark(x, bound[x])
             /\ phase' = [phase EXCEPT ![x] = "cleanup"] /\ UNCHANGED <<queue, line>>
    <3>1. bound[x] \in Session /\ x \in Task
      BY <1>3, <2>2 DEF MustTerminate
    <3>2. CASE x = c
      <4>1. phase'[c] = "cleanup" /\ op'[c].step = "telling"
        BY <1>3, <1>12, <2>2, <3>1, <3>2 DEF TypeInv, OwnersOK
      <4>2. Owned(c)' <= k + 1
        BY <1>4, <1>5, <1>6, <1>14, <1>15, <1>22, <2>2, <3>2 DEF NoMore, LoopEnds
      <4>. QED
        BY <1>5, <1>14, <1>15, <4>1, <4>2 DEF Held
    <3>3. CASE x # c
      <4>1. op'[c] = op[c]
        BY <1>12, <2>2, <3>1, <3>3
      <4>2. phase'[c] = phase[c]
        BY <1>3, <2>2, <3>3 DEF TypeInv, OwnersOK
      <4>. QED
        BY <1>6, <1>8, <2>2, <4>1, <4>2
    <3>. QED
      BY <3>2, <3>3
  <2>. QED
    BY <1>22, <2>1, <2>2 DEF LoopEnds, Leave
<1>23. ASSUME NEW u \in Subscriber, SystemConnects(u) PROVE Held
  <2>1. phase'[c] = phase[c]
    BY <1>3, <1>23 DEF SystemConnects, TypeInv, OwnersOK
  <2>. QED
    BY <1>6, <1>8, <1>23, <2>1 DEF SystemConnects
<1>24. ASSUME NEW d \in Conn, Relay(d) PROVE Held
  BY <1>3, <1>10, <1>11, <1>13, <1>24 DEF Relay, Away
<1>32. ASSUME NEW d \in Conn, NEW s \in Session, Refused(d, s) PROVE Held
  BY <1>3, <1>10, <1>11, <1>13, <1>32 DEF Refused, Away
<1>25. ASSUME NEW d \in Conn, Malformed(d) PROVE Held
  <2>1. phase'[c] = phase[c] \/ (phase[c] = "loop" /\ phase'[c] = "rejecting")
    BY <1>3, <1>25 DEF Malformed, MayRead, TypeInv, OwnersOK
  <2>. QED
    BY <1>6, <1>8, <1>25, <2>1 DEF Malformed
<1>26. ASSUME NEW d \in Conn, NEW p \in Participant, NEW s \in Session,
              Register(d, p, s) \/ Join(d, p, s) \/ Subscribe(d, p, s)
       PROVE  Held
  BY <1>3, <1>10, <1>11, <1>13, <1>26 DEF Register, Announce, Join, Subscribe, Away
<1>27. ASSUME NEW d \in Conn, NEW s \in Session, Close(d, s) PROVE Held
  BY <1>3, <1>10, <1>12, <1>27 DEF Close
<1>28. ASSUME NEW t \in Task, NEW x \in Receiver, SendNext(t, x) PROVE Held
  <2>1. /\ op'[t].step = op[t].step /\ op[t].step \in Broadcast
        /\ \A u \in Task : u # t => op'[u] = op[u]
        /\ op[t].sid \in Session
    BY <1>28, SendFacts
  <2>2. phase' = phase /\ x \in op[t].todo /\ op' = [op EXCEPT ![t].todo = @ \ {x}]
    BY <1>28 DEF SendNext
  <2>. DEFINE y == ChannelOf(x)
  <2>3. PICK kind \in {"created", "event"}, r \in {op[t].sid, None} : Put(t, y, kind, r)
    BY <1>28 DEF SendNext
  <2>4. /\ Owned(c)' <= Owned(c) + 1
        /\ c # y \/ t # y => Owned(c)' <= Owned(c)
    <3>1. kind \in Kind /\ r \in Session \cup {None} /\ ChannelsOK /\ y \in Channel
      BY <2>1, <2>3, ReceiverFacts DEF Kind, TypeInv
    <3>. HIDE DEF y
    <3>. QED
      BY <2>3, <3>1, PutOwned
  <2>7. IF x \in Member /\ x[2] = c THEN y = c ELSE y # c
    BY <1>3, ReceiverFacts DEF Receiver
  <2>. HIDE DEF y
  <2>5. CASE t # c
    <3>1. NoMore /\ op'[c] = op[c]
      BY <1>3, <2>1, <2>4, <2>5 DEF NoMore
    <3>. QED
      BY <1>8, <2>2, <3>1
  <2>6. CASE t = c
    <3>1. phase[c] \in {"away", "cleanup"} /\ phase'[c] = phase[c] /\ op'[c].step = op[c].step
      BY <1>4, <2>1, <2>2, <2>6 DEF Broadcast
    <3>2. op'[c].todo = op[c].todo \ {x}
      BY <1>3, <2>2, <2>6 DEF TypeInv, OwnersOK, OpRec
    <3>3. CASE y # c
      <4>1. Mine(op[c].todo \ {x}, c) = Mine(op[c].todo, c)
        BY <2>7, <3>3 DEF Mine
      <4>2. left1 = left
        BY <3>1, <3>2, <4>1 DEF Ahead, left, left1
      <4>3. NoMore
        BY <2>4, <3>3 DEF NoMore
      <4>. QED
        BY <1>4, <1>5, <1>14, <1>15, <3>1, <4>2, <4>3 DEF Held, NoMore
    <3>4. CASE y = c
      <4>1. x \in Member /\ x[2] = c
        BY <2>7, <3>4
      <4>2. op[c].step = "telling"
        BY <1>3, <1>4, <2>1, <2>2, <2>6, <4>1, ReceiverFacts DEF TypeInv, TodoInv, Broadcast
      <4>3. x \in Mine(op[c].todo, c)
        BY <2>2, <2>6, <4>1 DEF Mine
      <4>4. Cardinality(Mine(op[c].todo \ {x}, c)) = Cardinality(Mine(op[c].todo, c)) - 1
        BY <4>3, MineFacts
      <4>5. left1 = left - 1
        BY <3>1, <3>2, <4>2, <4>4 DEF Ahead, left, left1
      <4>. QED
        BY <1>4, <1>5, <1>14, <1>15, <2>4, <3>1, <4>5 DEF Held
    <3>. QED
      BY <3>3, <3>4
  <2>. QED
    BY <2>5, <2>6
<1>29. ASSUME NEW t \in Task, ParticipantsTold(t) PROVE Held
  <2>1. /\ UNCHANGED <<queue, line, phase>> /\ op[t].step = "telling" /\ op[t].todo = {}
        /\ op' = [op EXCEPT ![t] = Op("tellingSystem", op[t].sid, SystemSubscribers)]
    BY <1>29 DEF ParticipantsTold, Sent
  <2>2. CASE t # c
    BY <1>6, <1>8, <1>11, <2>1, <2>2
  <2>3. CASE t = c
    <3>1. op'[c].step = "tellingSystem" /\ left1 = 0
      BY <1>13, <1>14, <2>1, <2>3
    <3>2. left = 0
      BY <2>1, <2>3, MineFacts DEF Ahead, left
    <3>. QED
      BY <1>4, <1>5, <1>6, <1>14, <1>15, <2>1, <2>3, <3>1, <3>2 DEF Held, NoMore
  <2>. QED
    BY <2>2, <2>3
<1>30. ASSUME NEW t \in Task, EndTermination(t) PROVE Held
  <2>1. CASE queue'[c] = <<>>
    <3>1. op'[c] \in {op[c], NoOp, Op("replying", None, {})}
      BY <1>3, <1>30, EndFacts
    <3>. QED
      BY <1>4, <1>9, <2>1, <3>1 DEF NoOp, Op
  <2>2. CASE queue'[c] = queue[c] /\ t # c
    BY <1>3, <1>6, <1>8, <1>30, <2>2, EndFacts
  <2>3. CASE queue'[c] = queue[c] /\ t = c
    <3>1. op[c].step = "tellingSystem" /\ phase[c] \in {"away", "cleanup"}
      BY <1>4, <1>30, <2>3, EndFacts
    <3>2. CASE phase[c] = "cleanup"
      <4>1. queue'[c] = <<>>
        BY <1>3, <1>30, <2>3, <3>2 DEF EndTermination
      <4>. QED
        BY <2>1, <4>1
    <3>3. CASE phase[c] = "away"
      <4>1. phase'[c] = "away" /\ op'[c] \in {NoOp, Op("replying", None, {})}
        BY <1>3, <1>30, <2>3, <3>3, EndFacts
      <4>2. op'[c].step \in {"none", "replying"}
        BY <4>1 DEF NoOp, Op
      <4>. QED
        BY <1>4, <1>5, <1>6, <1>14, <1>15, <2>3, <3>1, <3>3, <4>1, <4>2 DEF Held, NoMore
    <3>. QED
      BY <3>1, <3>2, <3>3
  <2>. QED
    BY <1>3, <1>30, <2>1, <2>2, <2>3, EndFacts
<1>31. ASSUME NEW d \in Conn, Reply(d) PROVE Held
  <2>1. /\ \A y \in Channel : y # d => queue'[y] = queue[y] /\ phase'[y] = phase[y]
        /\ phase'[d] \in {"away", "loop"}
        /\ IF Len(queue[d]) = Capacity[d] THEN op'[d].step = "replied" ELSE op'[d] = NoOp
        /\ \A u \in Task : u # d => op'[u] = op[u]
    BY <1>31, ReplyFacts
  <2>2. CASE d # c
    BY <1>3, <1>6, <1>8, <2>1, <2>2
  <2>3. CASE d = c
    <3>1. Put(c, c, "reply", Learnt(op[c].sid)) /\ op[c].step \in {"replying", "announcing"} /\ phase[c] = "away"
      BY <1>31, <2>3 DEF Reply, Sent
    <3>2. "reply" \in Kind /\ Learnt(op[c].sid) \in Session \cup {None} /\ ChannelsOK
      BY <1>3, OpTypes DEF Kind, TypeInv, Learnt
    <3>3. /\ Owned(c)' <= Owned(c) + 1
          /\ Len(queue[c]) = Capacity[c] => Owned(c)' <= Owned(c)
      BY <1>3, <3>1, <3>2, PutOwned
    <3>4. Owned(c) <= k /\ left = 0
      BY <1>4, <1>5, <1>14, <1>15, <3>1
    <3>5. CASE Len(queue[c]) = Capacity[c]
      <4>1. op'[c].step = "replied" /\ phase'[c] \in {"away", "loop"}
        BY <2>1, <2>3, <3>5
      <4>. QED
        BY <1>5, <1>14, <1>15, <3>3, <3>4, <3>5, <4>1 DEF Held
    <3>6. CASE Len(queue[c]) # Capacity[c]
      <4>1. op'[c] = NoOp /\ phase'[c] = "loop"
        BY <1>31, <2>1, <2>3, <3>6, <1>3 DEF Reply, TypeInv, OwnersOK
      <4>. QED
        BY <1>5, <1>14, <1>15, <3>3, <3>4, <4>1, NoOpFacts DEF Held
    <3>. QED
      BY <3>5, <3>6
  <2>. QED
    BY <2>2, <2>3
<1>33. ASSUME Reported \/ \E s \in Session : Report(s) PROVE Held
  <2>1. UNCHANGED <<queue, line, phase>>
    BY <1>33 DEF Reported, Report
  <2>2. op'[c] = op[c]
    <3>1. CASE \E o : op' = [op EXCEPT ![Tracker] = o]
      BY <1>3, <1>11, <3>1
    <3>. QED
      BY <1>33, <3>1 DEF Reported, Report, Mark
  <2>. QED
    BY <1>6, <1>8, <2>1, <2>2
<1>34. ASSUME NEW s \in Session, NEW p \in Listener, Forward(s, p) PROVE Held
  <2>1. PICK m \in members[s] : Put(<<s, p>>, m[2], "event", None)
    BY <1>34 DEF Forward
  <2>2. /\ m[2] \in Channel /\ m[2] \in Conn /\ "event" \in Kind /\ ChannelsOK
        /\ <<s, p>> \in Task /\ <<s, p>> # m[2]
    BY <1>3, ReceiverFacts, ConnFacts, QueueAssumption DEF Kind, TypeInv, ManagerOK, Stream
  <2>3. NoMore
    BY <2>1, <2>2, PutOwned DEF NoMore
  <2>. QED
    BY <1>8, <1>34, <2>3 DEF Forward
<1>35. ASSUME NEW s \in Session, NEW p \in Listener, MediaCloses(s, p) PROVE Held
  <2>1. UNCHANGED <<queue, line, phase>>
    BY <1>35 DEF MediaCloses
  <2>2. op'[c] = op[c]
    BY <1>3, <1>12, <1>35 DEF MediaCloses
  <2>. QED
    BY <1>6, <1>8, <2>1, <2>2
<1>36. CASE UNCHANGED vars
  BY <1>6, <1>8, <1>36 DEF vars
<1>. QED
  BY <1>20, <1>21, <1>22, <1>23, <1>24, <1>25, <1>26, <1>27, <1>28, <1>29, <1>30, <1>31,
     <1>32, <1>33, <1>34, <1>35, <1>36 DEF Next, Request, Proceed

\* Where a handler waits for room while handlers wait for room in its channel, others have
\* filled that but for one message per id of its client, or twice as many and a reply in the
\* cleanup of a session (handle_session_websocket, terminate_session).
THEOREM DeadlockAlwaysNeedsBurst == Spec => []DeadlockNeedsBurst
<1>1. Init => OwnInv
  <2>1. Init => OwnLine
    BY DEF Init, OwnLine
  <2>2. Init => \A c \in Conn : Owned(c) = 0
    <3>1. <<>> \in Seq(Messages)
      OBVIOUS
    <3>2. Cardinality(OwnIn(<<>>)) = 0
      BY <3>1, OwnedFacts
    <3>. QED
      BY <3>2, ConnFacts DEF Init, Owned
  <2>3. Init => \A c \in Conn : op[c] = NoOp /\ phase[c] = "loop"
    BY ConnFacts DEF Init
  <2>4. \A c \in Conn : Cardinality(Ids[c]) \in Nat
    BY MineFacts
  <2>. QED
    BY <2>1, <2>2, <2>3, <2>4, NoOpFacts DEF OwnInv, Allowed
<1>2. TypeInv /\ TypeInv' /\ HandlerInv /\ OwnInv /\ [Next]_vars => OwnInv'
  BY OwnStep
<1>3. ASSUME TypeInv, HandlerInv, OwnInv PROVE DeadlockNeedsBurst
  <2>. SUFFICES ASSUME NEW c \in Conn, NEW d \in Conn, WaitsFor(c, d), Waiting(d)
                PROVE  Foreign(d) + OwnAtMost(d) >= Capacity[d]
    BY DEF DeadlockNeedsBurst
  <2>1. /\ d \in Channel /\ queue[d] \in Seq(Messages) /\ line[d] # <<>>
    BY <1>3, ConnFacts DEF TypeInv, ChannelsOK, WaitsFor
  <2>2. Len(queue[d]) = Capacity[d] /\ Capacity[d] \in Nat
    BY <1>3, <2>1, QueueAssumption DEF TypeInv, ChannelsOK
  <2>3. Foreign(d) = Capacity[d] - Owned(d) /\ Owned(d) \in Nat
    BY <2>1, <2>2, OwnedFacts DEF Foreign, Owned, OwnIn
  <2>4. phase[d] \in {"away", "cleanup"}
    BY <1>3 DEF HandlerInv
  <2>7. Cardinality(Ids[d]) \in Nat /\ Ahead(d) \in Nat
    BY MineFacts DEF Ahead
  <2>5. Owned(d) <= OwnAtMost(d)
    BY <1>3, <2>3, <2>4, <2>7 DEF OwnInv, Allowed, OwnAtMost
  <2>6. OwnAtMost(d) \in Nat
    BY <2>7 DEF OwnAtMost
  <2>. QED
    BY <2>2, <2>3, <2>5, <2>6
<1>4. IInv => TypeInv /\ HandlerInv
  BY DEF IInv
<1>. QED
  BY <1>1, <1>2, <1>3, <1>4, Invariance, PTL DEF Spec

-------------------------------------------------------------------------------
(* A handler that waits for itself.                                        *)

\* A handler whose reply found its own channel full waits in that channel's line.
StuckInv == \A c \in Conn : op[c].step = "replied" => phase[c] = "away" /\ WaitsFor(c, c)

\* A send takes nobody out of a line, and its sender joins it where there is no room.
LEMMA PutWaits ==
  ASSUME ChannelsOK, NEW t \in Task, NEW x \in Channel, NEW kind \in Kind,
         NEW s \in Session \cup {None}, Put(t, x, kind, s)
  PROVE  /\ \A u \in Task, y \in Channel : WaitsFor(u, y) => WaitsFor(u, y)'
         /\ Len(queue[x]) = Capacity[x] /\ phase[x] = "away" => WaitsFor(t, x)'
<1>. DEFINE m == [kind |-> kind, sid |-> s, own |-> t = x]
            full == Len(queue[x]) = Capacity[x]
<1>1. /\ line' = line \/ line' = [line EXCEPT ![x] = Append(@, <<t, m>>)]
      /\ full /\ phase[x] = "away" => line' = [line EXCEPT ![x] = Append(@, <<t, m>>)]
  BY DEF Put
<1>2. m \in Messages
  BY DEF Messages
<1>3. line[x] \in Seq(Task \X Messages) /\ <<t, m>> \in Task \X Messages
  BY <1>2 DEF ChannelsOK
<1>. HIDE DEF m
<1>. DEFINE e == <<t, m>>
<1>4. /\ Append(line[x], e) \in Seq(Task \X Messages)
      /\ Len(Append(line[x], e)) = Len(line[x]) + 1
      /\ \A i \in 1..Len(line[x]) : Append(line[x], e)[i] = line[x][i]
      /\ Append(line[x], e)[Len(line[x]) + 1] = e
  BY <1>3, AppendProperties
<1>5. e[1] = t
  OBVIOUS
<1>6. /\ DOMAIN line[x] = 1..Len(line[x]) /\ Len(line[x]) \in Nat
      /\ DOMAIN Append(line[x], e) = 1..(Len(line[x]) + 1)
  BY <1>3, <1>4, LenProperties
<1>. HIDE DEF e
<1>7. CASE line' = [line EXCEPT ![x] = Append(@, e)]
  <2>1. line'[x] = Append(line[x], e) /\ \A y \in Channel : y # x => line'[y] = line[y]
    BY <1>7 DEF ChannelsOK
  <2>2. \A u \in Task : WaitsFor(u, x) => WaitsFor(u, x)'
    BY <1>4, <1>6, <2>1 DEF WaitsFor
  <2>3. \A u \in Task, y \in Channel : y # x /\ WaitsFor(u, y) => WaitsFor(u, y)'
    BY <2>1 DEF WaitsFor
  <2>4. Len(line[x]) + 1 \in DOMAIN line'[x] /\ line'[x][Len(line[x]) + 1][1] = t
    BY <1>4, <1>5, <1>6, <2>1
  <2>5. WaitsFor(t, x)'
    BY <2>4 DEF WaitsFor
  <2>. QED
    BY <2>2, <2>3, <2>5
<1>8. CASE line' = line /\ ~(full /\ phase[x] = "away")
  BY <1>8 DEF WaitsFor
<1>. QED
  BY <1>1, <1>7, <1>8 DEF e

\* Every step keeps StuckInv: only the loop takes messages out of a channel.
LEMMA StuckStep ==
  ASSUME TypeInv, HandlerInv, StuckInv, [Next]_vars
  PROVE  StuckInv'
<1>. SUFFICES ASSUME NEW c \in Conn, op'[c].step = "replied"
              PROVE  phase'[c] = "away" /\ WaitsFor(c, c)'
  BY DEF StuckInv
<1>. DEFINE Held == phase'[c] = "away" /\ WaitsFor(c, c)'
<1>. SUFFICES Held
  OBVIOUS
<1>1. /\ c \in Channel /\ c \in Task /\ Conn \subseteq Channel
      /\ Tracker \in Task /\ Tracker # c /\ Conn \subseteq Task
      /\ \A s \in Session, p \in Listener : <<s, p>> \in Task /\ <<s, p>> # c
  BY ConnFacts, QueueAssumption DEF Stream
<1>2. op[c].step = "replied" => phase[c] = "away" /\ WaitsFor(c, c)
  BY DEF StuckInv
<1>3. UNCHANGED line => (WaitsFor(c, c) => WaitsFor(c, c)')
  BY DEF WaitsFor
<1>4. ASSUME op[c].step = "replied", phase'[c] = phase[c], WaitsFor(c, c) => WaitsFor(c, c)' PROVE Held
  BY <1>2, <1>4
<1>. HIDE DEF Held
<1>5. \A t \in Task : t # c => \A o : op' = [op EXCEPT ![t] = o] => op'[c] = op[c]
  BY <1>1 DEF TypeInv, OwnersOK
<1>7. \A step, s, todo : op' = [op EXCEPT ![c] = Op(step, s, todo)] => step = "replied"
  BY <1>1 DEF TypeInv, OwnersOK, Op
<1>8. \A t \in Task, s \in Session : Mark(t, s) => t # c /\ op'[c] = op[c]
  BY <1>1, <1>5, <1>7 DEF Mark
<1>20. ASSUME NEW x \in Channel, Receive(x) PROVE Held
  <2>1. UNCHANGED <<op, phase>> /\ phase[x] = "loop"
    BY <1>20 DEF Receive
  <2>2. x # c /\ op[c].step = "replied"
    BY <1>2, <2>1
  <2>3. line'[c] = line[c]
    BY <1>1, <1>20, <2>2 DEF Receive, TypeInv, ChannelsOK
  <2>. QED
    BY <1>4, <2>1, <2>2, <2>3 DEF WaitsFor
<1>21. ASSUME NEW x \in Channel, Written(x) PROVE Held
  <2>1. UNCHANGED <<op, line>> /\ phase[x] = "rejecting" /\ phase' = [phase EXCEPT ![x] = "loop"]
    BY <1>21 DEF Written
  <2>2. x # c /\ op[c].step = "replied"
    BY <1>2, <2>1
  <2>. QED
    BY <1>1, <1>3, <1>4, <2>1, <2>2 DEF TypeInv, OwnersOK
<1>22. ASSUME NEW x \in Channel, LoopEnds(x) PROVE Held
  <2>1. phase[x] = "loop"
    BY <1>22 DEF LoopEnds
  <2>2. op'[c] = op[c]
    <3>1. CASE UNCHANGED op
      BY <3>1
    <3>2. CASE x \in Conn /\ MustTerminate(x) /\ Mark(x, bound[x])
      BY <1>1, <1>8, <3>2 DEF MustTerminate
    <3>. QED
      BY <1>22, <3>1, <3>2 DEF LoopEnds, Leave
  <2>3. x # c /\ op[c].step = "replied"
    BY <1>2, <2>1, <2>2
  <2>4. phase'[c] = phase[c] /\ line'[c] = line[c]
    BY <1>1, <1>22, <2>3 DEF LoopEnds, Leave, DropReceiver, TypeInv, OwnersOK, ChannelsOK
  <2>. QED
    BY <1>4, <2>3, <2>4 DEF WaitsFor
<1>23. ASSUME NEW u \in Subscriber, SystemConnects(u) PROVE Held
  <2>1. UNCHANGED <<op, line>> /\ phase[u] = "absent" /\ phase' = [phase EXCEPT ![u] = "loop"]
    BY <1>23 DEF SystemConnects
  <2>2. u # c /\ op[c].step = "replied"
    BY <1>2, <2>1
  <2>. QED
    BY <1>1, <1>3, <1>4, <2>1, <2>2 DEF TypeInv, OwnersOK
\* A request is read in the loop: its handler is not c.
<1>9. ASSUME NEW d \in Conn, phase[d] = "loop", UNCHANGED line, op'[c] = op[c],
             \E p : phase' = [phase EXCEPT ![d] = p]
      PROVE  Held
  <2>1. d # c /\ op[c].step = "replied"
    BY <1>2, <1>9
  <2>. QED
    BY <1>1, <1>3, <1>4, <1>9, <2>1 DEF TypeInv, OwnersOK
<1>24. ASSUME NEW d \in Conn, Relay(d) PROVE Held
  <2>1. phase[d] = "loop" /\ UNCHANGED line /\ phase' = [phase EXCEPT ![d] = "away"]
        /\ op' = [op EXCEPT ![d] = Op("replying", None, {})]
    BY <1>24 DEF Relay, Away, MayRead
  <2>. QED
    BY <1>1, <1>5, <1>7, <1>9, <2>1
<1>32. ASSUME NEW d \in Conn, NEW s \in Session, Refused(d, s) PROVE Held
  <2>1. phase[d] = "loop" /\ UNCHANGED line /\ phase' = [phase EXCEPT ![d] = "away"]
        /\ op' = [op EXCEPT ![d] = Op("replying", s, {})]
    BY <1>32 DEF Refused, Away, MayRead
  <2>. QED
    BY <1>1, <1>5, <1>7, <1>9, <2>1
<1>25. ASSUME NEW d \in Conn, Malformed(d) PROVE Held
  BY <1>9, <1>25 DEF Malformed, MayRead
<1>26. ASSUME NEW d \in Conn, NEW p \in Participant, NEW s \in Session,
              Register(d, p, s) \/ Join(d, p, s) \/ Subscribe(d, p, s)
       PROVE  Held
  <2>1. phase[d] = "loop" /\ UNCHANGED line /\ phase' = [phase EXCEPT ![d] = "away"]
    BY <1>26 DEF Register, Join, Subscribe, Away, MayRead
  <2>2. \/ op' = [op EXCEPT ![d] = Op("announcing", s, SystemSubscribers)]
        \/ \E r : op' = [op EXCEPT ![d] = Op("replying", r, {})]
    BY <1>26 DEF Register, Announce, Join, Subscribe, Away
  <2>3. d # c
    BY <1>7, <2>2
  <2>. QED
    BY <1>1, <1>5, <1>9, <2>1, <2>2, <2>3
<1>27. ASSUME NEW d \in Conn, NEW s \in Session, Close(d, s) PROVE Held
  BY <1>1, <1>8, <1>9, <1>27 DEF Close, MayRead
<1>28. ASSUME NEW t \in Task, NEW x \in Receiver, SendNext(t, x) PROVE Held
  <2>1. /\ op'[t].step = op[t].step /\ op[t].step \in Broadcast /\ op[t].sid \in Session
        /\ \A u \in Task : u # t => op'[u] = op[u]
    BY <1>28, SendFacts
  <2>2. t # c /\ op[c].step = "replied"
    BY <1>1, <2>1 DEF Broadcast
  <2>3. PICK kind \in {"created", "event"}, r \in {op[t].sid, None} : Put(t, ChannelOf(x), kind, r)
    BY <1>28 DEF SendNext
  <2>4. kind \in Kind /\ r \in Session \cup {None} /\ ChannelsOK /\ ChannelOf(x) \in Channel
    BY <2>1, <2>3, ReceiverFacts DEF Kind, TypeInv
  <2>5. WaitsFor(c, c) => WaitsFor(c, c)'
    BY <1>1, <2>3, <2>4, PutWaits
  <2>. QED
    BY <1>4, <1>28, <2>2, <2>5 DEF SendNext
<1>29. ASSUME NEW t \in Task, ParticipantsTold(t) PROVE Held
  <2>1. /\ UNCHANGED <<line, phase>>
        /\ op' = [op EXCEPT ![t] = Op("tellingSystem", op[t].sid, SystemSubscribers)]
    BY <1>29 DEF ParticipantsTold
  <2>2. op'[c] = op[c]
    BY <1>1, <1>5, <1>7, <2>1
  <2>. QED
    BY <1>3, <1>4, <2>1, <2>2
<1>30. ASSUME NEW t \in Task, EndTermination(t) PROVE Held
  <2>1. t # c
    <3>1. op'[t] \in {NoOp, Op("replying", None, {})}
      BY <1>30, EndFacts
    <3>. QED
      BY <3>1 DEF NoOp, Op
  <2>2. op'[c] = op[c] /\ phase'[c] = phase[c] /\ op[t].sid \in Session
    BY <1>1, <1>30, <2>1, EndFacts DEF EndTermination, Sent, TypeInv, TodoInv, Broadcast
  <2>. DEFINE aborted == {op[t].sid} \X Listener
              w == Without(line[c], aborted)
  <2>3. line'[c] = w
    BY <1>1, <1>30, <2>1 DEF EndTermination
  <2>4. c \notin aborted
    BY <1>1, <2>2
  <2>5. line[c] \in Seq(Task \X Messages)
    BY <1>1 DEF TypeInv, ChannelsOK
  <2>6. \A i \in DOMAIN line[c] : line[c][i][1] \notin aborted => \E j \in DOMAIN w : w[j] = line[c][i]
    <3>. HIDE DEF aborted
    <3>. QED
      BY <2>5, WithoutFacts
  <2>. HIDE DEF w, aborted
  <2>7. WaitsFor(c, c) => WaitsFor(c, c)'
    BY <2>3, <2>4, <2>6 DEF WaitsFor
  <2>. QED
    BY <1>4, <2>2, <2>7
<1>31. ASSUME NEW d \in Conn, Reply(d) PROVE Held
  <2>1. /\ Put(d, d, "reply", Learnt(op[d].sid)) /\ phase[d] = "away" /\ op[d].step # "replied"
    BY <1>31 DEF Reply, Sent
  <2>2. "reply" \in Kind /\ Learnt(op[d].sid) \in Session \cup {None} /\ ChannelsOK
    BY <1>1, OpTypes DEF Kind, TypeInv, Learnt
  <2>3. /\ WaitsFor(c, c) => WaitsFor(c, c)'
        /\ Len(queue[d]) = Capacity[d] => WaitsFor(d, d)'
    BY <1>1, <2>1, <2>2, PutWaits
  <2>4. CASE d # c
    BY <1>1, <1>4, <1>31, <2>3, <2>4, ReplyFacts
  <2>5. CASE d = c
    <3>1. IF Len(queue[c]) = Capacity[c] THEN phase'[c] = "away" ELSE op'[c] = NoOp
      BY <1>31, <2>5, ReplyFacts
    <3>. QED
      BY <2>3, <2>5, <3>1, NoOpFacts DEF Held
  <2>. QED
    BY <2>4, <2>5
<1>33. ASSUME Reported \/ \E s \in Session : Report(s) PROVE Held
  <2>1. UNCHANGED <<line, phase>>
    BY <1>33 DEF Reported, Report
  <2>2. op'[c] = op[c]
    <3>1. CASE \E o : op' = [op EXCEPT ![Tracker] = o]
      BY <1>1, <1>5, <3>1
    <3>. QED
      BY <1>33, <3>1 DEF Reported, Report, Mark
  <2>. QED
    BY <1>3, <1>4, <2>1, <2>2
<1>34. ASSUME NEW s \in Session, NEW p \in Listener, Forward(s, p) PROVE Held
  <2>1. PICK m \in members[s] : Put(<<s, p>>, m[2], "event", None)
    BY <1>34 DEF Forward
  <2>2. m[2] \in Channel /\ "event" \in Kind /\ ChannelsOK /\ UNCHANGED <<op, phase>>
    BY <1>34, ReceiverFacts, ConnFacts DEF Forward, Kind, TypeInv, ManagerOK
  <2>3. WaitsFor(c, c) => WaitsFor(c, c)'
    BY <1>1, <2>1, <2>2, PutWaits
  <2>. QED
    BY <1>4, <2>2, <2>3
<1>35. ASSUME NEW s \in Session, NEW p \in Listener, MediaCloses(s, p) PROVE Held
  <2>1. UNCHANGED <<line, phase>>
    BY <1>35 DEF MediaCloses
  <2>2. op'[c] = op[c]
    BY <1>1, <1>8, <1>35 DEF MediaCloses
  <2>. QED
    BY <1>3, <1>4, <2>1, <2>2
<1>36. CASE UNCHANGED vars
  BY <1>3, <1>4, <1>36 DEF vars
<1>. QED
  BY <1>20, <1>21, <1>22, <1>23, <1>24, <1>25, <1>26, <1>27, <1>28, <1>29, <1>30, <1>31,
     <1>32, <1>33, <1>34, <1>35, <1>36 DEF Next, Request, Proceed

\* A handler that finds its own channel full when it replies (tx.send(reply).await in
\* handle_session_websocket) never gets back to its loop: from then on it waits in the line
\* of the channel that only its loop empties.
THEOREM FullChannelLocksItsHandler == Spec => []StuckInv
<1>1. Init => StuckInv
  BY NoOpFacts, ConnFacts DEF Init, StuckInv
<1>2. TypeInv /\ HandlerInv /\ StuckInv /\ [Next]_vars => StuckInv'
  BY StuckStep
<1>3. IInv => TypeInv /\ HandlerInv
  BY DEF IInv
<1>. QED
  BY <1>1, <1>2, <1>3, Invariance, PTL DEF Spec
===============================================================================
