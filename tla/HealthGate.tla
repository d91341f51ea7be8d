------------------------------- MODULE HealthGate -------------------------------
(***************************************************************************)
(* The health service (src/background/health.rs), the gate in front of the *)
(* session WebSocket (src/websocket/handler.rs) and the readiness endpoint *)
(* (src/http/health.rs): one task probes the SFU at each tick of an        *)
(* interval and overwrites the status; upgrades and readiness requests     *)
(* read it.  Start-up (ServerSetup) precedes all of this, and what it has   *)
(* set up decides the TURN credentials a registration is answered with.    *)
(*                                                                         *)
(* The SFU decides what a probe sees at some instant of the request, the   *)
(* answer arrives later.  An answer too late for the timeout counts as one *)
(* the SFU never gave.                                                     *)
(***************************************************************************)
EXTENDS ServerSetup

CONSTANTS
  CheckInterval,  \* of the ticker
  RequestTimeout, \* of a probe
  Latency,        \* a healthy SFU looks at a probe within this time
  MaxTime         \* bound on the clock

ASSUME HealthAssumption ==
  /\ {CheckInterval, RequestTimeout, MaxTime} \subseteq Nat \ {0}
  /\ Latency \in 0..(RequestTimeout - 1)
  /\ MaxTime < Modulus

VARIABLES
  now,      \* the clock
  status,   \* HealthStatus.sfu
  nextTick, \* when the ticker is due
  probe,    \* when the probe in progress was sent, or None
  seen,     \* what the SFU answers it: "nothing" yet, "healthy" or "unhealthy"
  up,       \* the SFU is healthy
  since,    \* ghost: since when it is, or is not
  reply,    \* the last response to a client at this instant
  expiry    \* of the credential in it, or None

health == <<now, status, nextTick, probe, seen, up, since, reply, expiry>>
vars == <<setup, health>>

None == Modulus
Latest(a, b) == IF a > b THEN a ELSE b

Deadline(sent) == sent + RequestTimeout

TypeOK ==
  /\ SetupTypeOK
  /\ now \in 0..MaxTime
  /\ {status, up} \subseteq BOOLEAN
  /\ nextTick \in 0..(MaxTime + 2 * CheckInterval)
  /\ probe \in 0..now \cup {None} /\ (probe # None => now <= probe + RequestTimeout)
  /\ seen \in {"nothing", "healthy", "unhealthy"} /\ (probe = None => seen = "nothing")
  /\ since \in 0..now
  /\ reply \in {"none", "upgraded", "unavailable", "ready", "not_ready",
                "registered", "registered_warned"}
  /\ expiry \in 0..(Modulus - 1) \cup {None}

\* Not ready until the first probe has said so; the first tick is due at once.
Init ==
  /\ SetupInit
  /\ now = 0 /\ status = FALSE /\ nextTick = 0 /\ probe = None /\ seen = "nothing"
  /\ up \in BOOLEAN /\ since = 0 /\ reply = "none" /\ expiry = None

-------------------------------------------------------------------------------
(* The health service.                                                     *)

\* Mutant of Tick: the next check is due an interval after the deadline of this one.
Tick_AfterSleep ==
  /\ probe = None /\ nextTick <= now
  /\ probe' = now
  /\ nextTick' = now + RequestTimeout + CheckInterval
  /\ UNCHANGED <<now, status, seen, up, since, reply, expiry>>

\* A tick missed during a slow probe is made up for at once (Burst).
Tick ==
  /\ probe = None /\ nextTick <= now
  /\ probe' = now
  /\ nextTick' = nextTick + CheckInterval
  /\ UNCHANGED <<now, status, seen, up, since, reply, expiry>>

EndProbe(result) ==
  /\ status' = result
  /\ probe' = None
  /\ seen' = "nothing"
  /\ UNCHANGED <<now, nextTick, up, since, reply, expiry>>

\* The response arrives: a success means healthy.
Arrive == probe # None /\ seen # "nothing" /\ EndProbe(seen = "healthy")

\* Mutant of Fails: an error leaves the status as it was.
Fails_KeepsStatus ==
  /\ probe # None /\ seen # "healthy"
  /\ ~up \/ now = Deadline(probe)
  /\ EndProbe(status)

\* The connection is refused or breaks, or the timeout ends the request.
Fails ==
  /\ probe # None /\ seen # "healthy"
  /\ ~up \/ now = Deadline(probe)
  /\ EndProbe(FALSE)

-------------------------------------------------------------------------------
(* The readers of the status.                                              *)

Reply(r, e) ==
  /\ phase = "serving"
  /\ reply' = r /\ expiry' = e
  /\ UNCHANGED <<now, status, nextTick, probe, seen, up, since>>

UpgradeToSessionWs == Reply(IF status THEN "upgraded" ELSE "unavailable", None)
Readiness          == Reply(IF status THEN "ready" ELSE "not_ready", None)

\* The response to a registration, on a connection opened at any time before.  The credential
\* may fail to be made (the system clock): a warning is logged and the response has none.
IceServers ==
  \/ Reply("registered", IF coturn THEN Expiry(now) ELSE None)
  \/ coturn /\ Reply("registered_warned", None)

-------------------------------------------------------------------------------
(* The SFU and the clock (external).                                       *)

Look ==
  /\ probe # None /\ seen = "nothing"
  /\ seen' = IF up THEN "healthy" ELSE "unhealthy"
  /\ UNCHANGED <<now, status, nextTick, probe, up, since, reply, expiry>>

Toggle ==
  /\ since < now
  /\ up' = ~up /\ since' = now
  /\ UNCHANGED <<now, status, nextTick, probe, seen, reply, expiry>>

\* The service is not late for a tick, a probe ends by its deadline, and a healthy SFU looks
\* at it in time.
Pass ==
  /\ now < MaxTime
  /\ IF probe = None THEN now < nextTick ELSE now < Deadline(probe)
  /\ probe # None /\ up /\ seen = "nothing" => now < Latest(probe, since) + Latency
  /\ now' = now + 1
  /\ reply' = "none" /\ expiry' = None
  /\ UNCHANGED <<status, nextTick, probe, seen, up, since>>

\* The health service and its surroundings from the moment it is spawned.
Running ==
  /\ phase \in {"bind", "serving"}
  /\ \/ Tick \/ Arrive \/ Fails
     \/ UpgradeToSessionWs \/ Readiness \/ IceServers
     \/ Look \/ Toggle \/ Pass
  /\ UNCHANGED setup

Next == (SetupStep /\ UNCHANGED health) \/ Running

Spec == Init /\ [][Next]_vars

-------------------------------------------------------------------------------
(* Properties.                                                             *)

\* From one probe to the end of the next.
Lag == Latest(CheckInterval, RequestTimeout) + RequestTimeout

\* No session WebSocket is opened, and the server does not call itself ready, when the SFU
\* has been down for longer than two probes can take, slow and failing ones included.
OutageIsNoticed == reply \in {"upgraded", "ready"} => up \/ now - since <= Lag

\* An SFU that came up is used at the latest when two probes have ended.
RecoveryIsNoticed == reply \in {"unavailable", "not_ready"} => ~up \/ now - since <= Lag

\* A registration is answered with a credential when all four settings were given, unless a
\* warning was logged, and with none when none was; however long the process has run since it
\* read them, the credential then is good for the whole TTL.  A server with part of the
\* settings does not come to serve.  The addition is unchecked: the property leaves out a TTL
\* that does not fit below the modulus.
CredentialAsConfigured ==
  /\ reply = "registered" =>
       IF config.coturn = {} THEN expiry = None
       ELSE /\ config.coturn = CoturnField
            /\ expiry # None
            /\ now + config.ttl < Modulus => expiry >= now + config.ttl
  /\ reply = "registered_warned" => config.coturn = CoturnField
=================================================================================
