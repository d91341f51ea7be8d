--------------------------- MODULE HealthGate_proofs ---------------------------
(* Proofs about HealthGate and ServerSetup, for every value of their constants. *)
EXTENDS HealthGate, TLAPS

-------------------------------------------------------------------------------
(* Arithmetic.                                                             *)

\* A sum below the modulus does not wrap, and no credential expires at the absent value.
LEMMA ExpiryFits ==
  ASSUME NEW t \in Nat, NEW ttl \in Nat, Modulus \in Nat \ {0}
  PROVE  /\ (t + ttl) % Modulus \in 0..(Modulus - 1)
         /\ t + ttl < Modulus => (t + ttl) % Modulus = t + ttl
  OBVIOUS

LEMMA LatestIs ==
  ASSUME NEW a \in Nat, NEW b \in Nat
  PROVE  /\ Latest(a, b) \in {a, b}
         /\ Latest(a, b) >= a /\ Latest(a, b) >= b
  BY DEF Latest

LEMMA WorkersInRange ==
  ASSUME NEW requested \in Requests PROVE EffectiveActixWorkers(requested) \in 0..Logical
  BY SetupAssumption DEF EffectiveActixWorkers

-------------------------------------------------------------------------------
(* The inductive invariant.                                                *)

\* The ticker is never more than an interval ahead of the last probe (which has begun by
\* now), and nothing but start-up happens before the service is spawned.
TickerInv ==
  /\ nextTick <= now + CheckInterval
  /\ probe # None => nextTick <= probe + CheckInterval

\* The clock does not pass a probe's deadline, and a healthy SFU looks at a probe in time.
LookInv == probe # None /\ up /\ seen = "nothing" => now <= Latest(probe, since) + Latency

\* What the service says, or is about to say, is news of the SFU from a probe sent when
\* the SFU last was so; the probe after that one began within the longer of the interval
\* and the timeout.
Behind(says, answer) ==
  /\ status = says /\ probe = None =>
       /\ nextTick <= since + CheckInterval
       /\ now <= Latest(nextTick, since + RequestTimeout)
  /\ probe # None /\ seen = answer => probe <= since
  /\ status = says /\ probe # None /\ seen # answer =>
       probe <= since + Latest(CheckInterval, RequestTimeout)

NewsInv == IF up THEN Behind(FALSE, "unhealthy") ELSE Behind(TRUE, "healthy")

\* The settings decide coturn_config once, and a server with part of them gets no further.
CoturnRead ==
  phase \in {"sfu", "core", "address", "bind", "serving"} =>
    /\ config.coturn \in {{}, CoturnField}
    /\ coturn = (config.coturn = CoturnField)

ServesReplies == reply # "none" => phase = "serving"

IInv ==
  /\ TypeOK /\ TickerInv /\ LookInv /\ NewsInv /\ CoturnRead /\ ServesReplies
  /\ OutageIsNoticed /\ RecoveryIsNoticed /\ CredentialAsConfigured

LEMMA Constants ==
  /\ CheckInterval \in Nat \ {0} /\ RequestTimeout \in Nat \ {0} /\ MaxTime \in Nat \ {0}
  /\ Latency \in Nat /\ Latency < RequestTimeout
  /\ Modulus \in Nat \ {0} /\ MaxTime < Modulus
  /\ Requests \subseteq Nat /\ Ttls \subseteq Nat
  BY HealthAssumption, SetupAssumption

\* What the numbers of a state are.
LEMMA Numbers ==
  ASSUME TypeOK
  PROVE  /\ now \in Nat /\ now <= MaxTime
         /\ nextTick \in Nat /\ since \in Nat /\ since <= now
         /\ probe # None => probe \in Nat /\ probe <= now /\ now <= probe + RequestTimeout
  BY Constants DEF TypeOK, None

LEMMA InitHolds == Init => IInv
<1> SUFFICES ASSUME Init PROVE IInv
  OBVIOUS
<1> USE Constants DEF Init, SetupInit
<1>1. TypeOK
  <2>1. SetupTypeOK
    <3>1. 0 \in 0..Logical
      BY SetupAssumption
    <3> QED
      BY <3>1 DEF SetupTypeOK, Phase
  <2>2. now \in 0..MaxTime /\ nextTick \in 0..(MaxTime + 2 * CheckInterval)
    OBVIOUS
  <2>3. since \in 0..now /\ expiry \in {None} /\ probe = None
    OBVIOUS
  <2> QED
    BY <2>1, <2>2, <2>3 DEF TypeOK
<1>2. TickerInv /\ LookInv /\ CoturnRead /\ ServesReplies
  BY DEF TickerInv, LookInv, CoturnRead, ServesReplies, None
<1>3. NewsInv
  BY DEF NewsInv, Behind, Latest, None
<1>4. OutageIsNoticed /\ RecoveryIsNoticed /\ CredentialAsConfigured
  BY DEF OutageIsNoticed, RecoveryIsNoticed, CredentialAsConfigured
<1> QED
  BY <1>1, <1>2, <1>3, <1>4 DEF IInv

-------------------------------------------------------------------------------
(* Start-up.                                                               *)

\* A step of main keeps the types, reads COTURN_* once and never leaves "serving".
LEMMA SetupStepFacts ==
  ASSUME SetupTypeOK, CoturnRead, SetupStep
  PROVE  /\ SetupTypeOK' /\ CoturnRead'
         /\ phase # "serving" /\ config' = config
<1> USE DEF SetupTypeOK, CoturnRead, Step, Phase, Config, CoturnField
<1>1. CASE LoadConfig
  BY <1>1 DEF LoadConfig
<1>2. CASE LoadKey
  BY <1>2 DEF LoadKey
<1>3. CASE LoadCoturn
  BY <1>3 DEF LoadCoturn
<1>4. CASE ConnectSfu
  BY <1>4 DEF ConnectSfu
<1>5. CASE ConnectCore
  BY <1>5 DEF ConnectCore
<1>6. CASE ResolveAddress
  BY <1>6, WorkersInRange DEF ResolveAddress
<1>7. CASE Bind
  BY <1>7 DEF Bind
<1> QED
  BY <1>1, <1>2, <1>3, <1>4, <1>5, <1>6, <1>7 DEF SetupStep

-------------------------------------------------------------------------------
(* Type correctness.                                                       *)

HealthActions ==
  Tick \/ Arrive \/ Fails \/ UpgradeToSessionWs \/ Readiness \/ IceServers \/ Look \/ Toggle \/ Pass

LEMMA TypeStep ==
  ASSUME TypeOK, TickerInv, HealthActions, UNCHANGED setup
  PROVE  TypeOK'
<1> USE Constants, Numbers DEF TypeOK, None
<1>0. SetupTypeOK'
  BY DEF setup, SetupTypeOK
<1>1. CASE Tick
  BY <1>0, <1>1 DEF Tick
<1>2. CASE Arrive
  BY <1>0, <1>2 DEF Arrive, EndProbe
<1>3. CASE Fails
  BY <1>0, <1>3 DEF Fails, EndProbe
<1>4. CASE UpgradeToSessionWs \/ Readiness
  BY <1>0, <1>4 DEF UpgradeToSessionWs, Readiness, Reply
<1>5. CASE IceServers
  <2>1. config.ttl \in Nat
    BY DEF SetupTypeOK, Config
  <2>2. Expiry(now) \in 0..(Modulus - 1)
    BY <2>1, ExpiryFits DEF Expiry
  <2> QED
    BY <1>0, <1>5, <2>2 DEF IceServers, Reply
<1>6. CASE Look
  BY <1>0, <1>6 DEF Look
<1>7. CASE Toggle
  BY <1>0, <1>7 DEF Toggle
<1>8. CASE Pass
  BY <1>0, <1>8 DEF Pass, Deadline
<1> QED
  BY <1>1, <1>2, <1>3, <1>4, <1>5, <1>6, <1>7, <1>8 DEF HealthActions

-------------------------------------------------------------------------------
(* The clock, the ticker and the probe.                                    *)

LEMMA TickerStep ==
  ASSUME TypeOK, TickerInv, HealthActions
  PROVE  TickerInv'
<1> USE Constants, Numbers DEF TickerInv, None
<1>1. CASE Tick
  BY <1>1 DEF Tick
<1>2. CASE Arrive \/ Fails
  BY <1>2 DEF Arrive, Fails, EndProbe
<1>3. CASE UpgradeToSessionWs \/ Readiness \/ IceServers
  BY <1>3 DEF UpgradeToSessionWs, Readiness, IceServers, Reply
<1>4. CASE Look \/ Toggle
  BY <1>4 DEF Look, Toggle
<1>5. CASE Pass
  BY <1>5 DEF Pass
<1> QED
  BY <1>1, <1>2, <1>3, <1>4, <1>5 DEF HealthActions

LEMMA LookStep ==
  ASSUME TypeOK, LookInv, HealthActions
  PROVE  LookInv'
<1> USE Constants, Numbers DEF LookInv, None, Latest
<1>1. CASE Tick
  BY <1>1 DEF Tick
<1>2. CASE Arrive \/ Fails
  BY <1>2 DEF Arrive, Fails, EndProbe
<1>3. CASE UpgradeToSessionWs \/ Readiness \/ IceServers
  BY <1>3 DEF UpgradeToSessionWs, Readiness, IceServers, Reply
<1>4. CASE Look \/ Toggle
  BY <1>4 DEF Look, Toggle
<1>5. CASE Pass
  BY <1>5 DEF Pass
<1> QED
  BY <1>1, <1>2, <1>3, <1>4, <1>5 DEF HealthActions

\* A probe that ends with a failure while the SFU is up was sent before it came up.
LEMMA FailureIsOld ==
  ASSUME TypeOK, TickerInv, LookInv, NewsInv, Fails, up
  PROVE  probe <= since
<1> USE Constants, Numbers
<1>1. CASE seen = "unhealthy"
  BY <1>1 DEF NewsInv, Behind, Fails
<1>2. CASE seen = "nothing"
  BY <1>2 DEF LookInv, Fails, Deadline, Latest
<1> QED
  BY <1>1, <1>2 DEF TypeOK, Fails

LEMMA NewsStep ==
  ASSUME TypeOK, TickerInv, LookInv, NewsInv, HealthActions
  PROVE  NewsInv'
<1> USE Constants, Numbers
<1>1. CASE Tick
  <2>1. probe = None /\ probe' = now /\ now \in Nat /\ seen = "nothing"
    BY <1>1 DEF Tick, TypeOK
  <2>2. /\ seen' = seen /\ status' = status /\ up' = up /\ since' = since
        /\ nextTick <= now
    BY <1>1 DEF Tick
  <2>3. ASSUME NEW says \in BOOLEAN, NEW answer \in {"healthy", "unhealthy"}, Behind(says, answer)
        PROVE  Behind(says, answer)'
    <3>1. probe' # None
      BY <2>1 DEF None
    <3>2. seen' # answer
      BY <2>1, <2>2
    <3>3. status = says => now <= since + Latest(CheckInterval, RequestTimeout)
      BY <2>1, <2>2, <2>3 DEF Behind, Latest
    <3> QED
      BY <2>1, <2>2, <3>1, <3>2, <3>3 DEF Behind
  <2> QED
    BY <2>2, <2>3 DEF NewsInv
<1>2. CASE Arrive
  <2>1. probe # None /\ probe' = None
    BY <1>2 DEF Arrive, EndProbe
  <2>2. CASE up /\ seen = "unhealthy"
    BY <1>2, <2>1, <2>2 DEF Arrive, EndProbe, NewsInv, Behind, Latest, TickerInv
  <2>3. CASE up /\ seen # "unhealthy"
    BY <1>2, <2>1, <2>3 DEF Arrive, EndProbe, NewsInv, Behind, TypeOK
  <2>4. CASE ~up /\ seen = "healthy"
    BY <1>2, <2>1, <2>4 DEF Arrive, EndProbe, NewsInv, Behind, Latest, TickerInv
  <2>5. CASE ~up /\ seen # "healthy"
    BY <1>2, <2>1, <2>5 DEF Arrive, EndProbe, NewsInv, Behind
  <2> QED
    BY <2>2, <2>3, <2>4, <2>5
<1>3. CASE Fails
  <2>1. CASE up
    <3>1. probe <= since
      BY <1>3, <2>1, FailureIsOld
    <3> QED
      BY <1>3, <2>1, <3>1 DEF Fails, EndProbe, NewsInv, Behind, Latest, TickerInv
  <2>2. CASE ~up
    BY <1>3, <2>2 DEF Fails, EndProbe, NewsInv, Behind
  <2> QED
    BY <2>1, <2>2
<1>4. CASE UpgradeToSessionWs \/ Readiness \/ IceServers
  BY <1>4 DEF UpgradeToSessionWs, Readiness, IceServers, Reply, NewsInv, Behind, Latest
<1>5. CASE Look
  BY <1>5 DEF Look, NewsInv, Behind, Latest
<1>6. CASE Toggle
  BY <1>6 DEF Toggle, NewsInv, Behind, Latest, TickerInv, None
<1>7. CASE Pass
  BY <1>7 DEF Pass, NewsInv, Behind, Latest, Deadline
<1> QED
  BY <1>1, <1>2, <1>3, <1>4, <1>5, <1>6, <1>7 DEF HealthActions
-------------------------------------------------------------------------------
(* What the readers of the status say.                                     *)

LEMMA RepliesStep ==
  ASSUME IInv, HealthActions, phase \in {"bind", "serving"}, UNCHANGED setup
  PROVE  ServesReplies' /\ OutageIsNoticed' /\ RecoveryIsNoticed'
<1> USE Constants, Numbers DEF IInv, setup
<1>1. CASE Tick \/ Look
  BY <1>1 DEF Tick, Look, ServesReplies, OutageIsNoticed, RecoveryIsNoticed
<1>2. CASE Arrive \/ Fails
  BY <1>2 DEF Arrive, Fails, EndProbe, ServesReplies, OutageIsNoticed, RecoveryIsNoticed
<1>3. CASE UpgradeToSessionWs \/ Readiness
  <2>1. status /\ ~up => now - since <= Lag
    BY DEF NewsInv, Behind, Latest, Lag, TypeOK
  <2>2. ~status /\ up => now - since <= Lag
    BY DEF NewsInv, Behind, Latest, Lag, TypeOK
  <2> QED
    BY <1>3, <2>1, <2>2
    DEF UpgradeToSessionWs, Readiness, Reply, ServesReplies, OutageIsNoticed, RecoveryIsNoticed, TypeOK, Lag
<1>4. CASE IceServers
  BY <1>4 DEF IceServers, Reply, ServesReplies, OutageIsNoticed, RecoveryIsNoticed
<1>5. CASE Toggle
  BY <1>5, LatestIs DEF Toggle, ServesReplies, OutageIsNoticed, RecoveryIsNoticed, Lag
<1>6. CASE Pass
  BY <1>6 DEF Pass, ServesReplies, OutageIsNoticed, RecoveryIsNoticed
<1> QED
  BY <1>1, <1>2, <1>3, <1>4, <1>5, <1>6 DEF HealthActions

LEMMA CredentialStep ==
  ASSUME IInv, HealthActions, UNCHANGED setup
  PROVE  CredentialAsConfigured'
<1> USE DEF IInv, setup, CredentialAsConfigured
<1>1. CASE Tick \/ Look \/ Toggle
  BY <1>1 DEF Tick, Look, Toggle, None
<1>2. CASE Arrive \/ Fails
  BY <1>2 DEF Arrive, Fails, EndProbe, None
<1>3. CASE UpgradeToSessionWs \/ Readiness
  BY <1>3 DEF UpgradeToSessionWs, Readiness, Reply
<1>4. CASE IceServers
  <2>1. phase = "serving"
    BY <1>4 DEF IceServers, Reply
  <2>2. /\ config.coturn \in {{}, CoturnField}
        /\ coturn <=> (config.coturn = CoturnField)
    BY <2>1 DEF CoturnRead
  <2>3. config.ttl \in Nat /\ now \in Nat
    BY Constants, Numbers DEF TypeOK, SetupTypeOK, Config
  <2>4. /\ Expiry(now) \in 0..(Modulus - 1)
        /\ now + config.ttl < Modulus => Expiry(now) = now + config.ttl
    BY <2>3, Constants, ExpiryFits DEF Expiry
  <2>5. CoturnField # {}
    BY DEF CoturnField
  <2>6. CASE Reply("registered", IF coturn THEN Expiry(now) ELSE None)
    <3>1. /\ now' = now /\ config' = config /\ reply' = "registered"
          /\ expiry' = IF coturn THEN Expiry(now) ELSE None
      BY <2>6 DEF Reply
    <3>2. CASE config.coturn = {}
      BY <2>2, <2>5, <3>1, <3>2
    <3>3. CASE config.coturn = CoturnField
      BY <2>2, <2>3, <2>4, <2>5, <3>1, <3>3, Constants DEF None
    <3> QED
      BY <2>2, <3>2, <3>3
  <2>7. CASE coturn /\ Reply("registered_warned", None)
    <3>1. config' = config /\ reply' = "registered_warned" /\ config.coturn = CoturnField
      BY <2>2, <2>7 DEF Reply
    <3> QED
      BY <3>1
  <2> QED
    BY <1>4, <2>6, <2>7 DEF IceServers
<1>5. CASE Pass
  BY <1>5 DEF Pass
<1> QED
  BY <1>1, <1>2, <1>3, <1>4, <1>5 DEF HealthActions

-------------------------------------------------------------------------------
(* The theorems.                                                           *)

\* What a step of main leaves alone, everything about the service and its replies included.
LEMMA SetupKeeps ==
  ASSUME IInv, SetupStep, UNCHANGED health
  PROVE  IInv'
<1>1. SetupTypeOK' /\ CoturnRead' /\ phase # "serving" /\ config' = config
  BY SetupStepFacts DEF IInv, TypeOK
<1>2. TypeOK'
  BY <1>1 DEF IInv, TypeOK, health, None
<1>3. reply = "none"
  BY <1>1 DEF IInv, ServesReplies
<1>4. TickerInv' /\ LookInv'
  BY DEF IInv, TickerInv, LookInv, health, None, Latest
<1>5. NewsInv'
  BY DEF IInv, NewsInv, Behind, health, None, Latest
<1>6. ServesReplies' /\ OutageIsNoticed' /\ RecoveryIsNoticed' /\ CredentialAsConfigured'
  BY <1>3 DEF health, ServesReplies, OutageIsNoticed, RecoveryIsNoticed, CredentialAsConfigured
<1> QED
  BY <1>1, <1>2, <1>4, <1>5, <1>6 DEF IInv

LEMMA Stutter == IInv /\ UNCHANGED vars => IInv'
<1> SUFFICES ASSUME IInv, UNCHANGED vars PROVE IInv'
  OBVIOUS
<1> USE DEF vars, setup, health, IInv
<1>1. TypeOK' /\ CoturnRead' /\ ServesReplies'
  BY DEF TypeOK, SetupTypeOK, CoturnRead, ServesReplies, None
<1>2. TickerInv' /\ LookInv' /\ NewsInv'
  BY DEF TickerInv, LookInv, NewsInv, Behind, None, Latest
<1>3. OutageIsNoticed' /\ RecoveryIsNoticed' /\ CredentialAsConfigured'
  BY DEF OutageIsNoticed, RecoveryIsNoticed, CredentialAsConfigured
<1> QED
  BY <1>1, <1>2, <1>3

\* IInv is inductive: main, the service, the readers, the SFU and the clock keep it.
THEOREM Invariance == Spec => []IInv
<1>1. IInv /\ [Next]_vars => IInv'
  <2> SUFFICES ASSUME IInv, [Next]_vars PROVE IInv'
    OBVIOUS
  <2>1. CASE SetupStep /\ UNCHANGED health
    BY <2>1, SetupKeeps
  <2>2. CASE Running
    <3>1. HealthActions /\ phase \in {"bind", "serving"} /\ UNCHANGED setup
      BY <2>2 DEF Running, HealthActions
    <3>2. TypeOK' /\ TickerInv' /\ LookInv' /\ NewsInv'
      BY <3>1, TypeStep, TickerStep, LookStep, NewsStep DEF IInv
    <3>3. CoturnRead'
      BY <3>1 DEF IInv, CoturnRead, setup
    <3> QED
      BY <3>1, <3>2, <3>3, RepliesStep, CredentialStep DEF IInv
  <2>3. CASE UNCHANGED vars
    BY <2>3, Stutter
  <2> QED
    BY <2>1, <2>2, <2>3 DEF Next
<1> QED
  BY InitHolds, <1>1, PTL DEF Spec

\* The variables of main and of the health service keep their types; the probe in progress
\* never outlives its deadline (src/background/health.rs).
THEOREM TypeCorrect == Spec => []TypeOK
<1>1. IInv => TypeOK
  BY DEF IInv
<1> QED
  BY Invariance, <1>1, PTL

\* Whatever the interval, the timeout and the moment of the outage, no upgrade and no
\* readiness reply says healthy later than two probes after the SFU went down.
THEOREM OutageIsNoticedAlways == Spec => []OutageIsNoticed
<1>1. IInv => OutageIsNoticed
  BY DEF IInv
<1> QED
  BY Invariance, <1>1, PTL

\* An SFU that is up again is not refused for longer than two probes either, provided it
\* looks at a probe before the timeout (HealthAssumption).
THEOREM RecoveryIsNoticedAlways == Spec => []RecoveryIsNoticed
<1>1. IInv => RecoveryIsNoticed
  BY DEF IInv
<1> QED
  BY Invariance, <1>1, PTL

\* A registration is answered with a credential when all of COTURN_* was set, unless a warning
\* is logged (src/signal/core.rs:240), and with none when none was; the credential lasts the
\* TTL from the moment of the answer (src/turn.rs).
THEOREM CredentialAlwaysAsConfigured == Spec => []CredentialAsConfigured
<1>1. IInv => CredentialAsConfigured
  BY DEF IInv
<1> QED
  BY Invariance, <1>1, PTL

===============================================================================
