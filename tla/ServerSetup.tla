------------------------------ MODULE ServerSetup ------------------------------
(***************************************************************************)
(* Start-up: what main (src/main.rs) does with the settings                *)
(* (src/config.rs) before the server serves, and the expiry of the TURN    *)
(* credentials they lead to (src/turn.rs).  Module HealthGate runs these   *)
(* steps and what follows them.                                            *)
(***************************************************************************)
EXTENDS Naturals

CONSTANTS
  Physical, Logical, \* CPUs of the machine
  Requests,  \* values of actix_workers
  Ttls,      \* values of COTURN_CREDENTIAL_TTL
  Modulus    \* 2^64: an unsigned addition wraps in a release build

ASSUME SetupAssumption ==
  /\ {Physical, Logical} \subseteq Nat \ {0}
  /\ Physical <= Logical
  /\ Requests \subseteq Nat
  /\ Modulus \in Nat
  /\ Ttls \subseteq 0..(Modulus - 1)

VARIABLES
  phase,    \* how far main has come
  config,   \* the settings the process was started with
  coturn,   \* coturn_config: TRUE when it is Some
  workers   \* of the HTTP server

setup == <<phase, config, coturn, workers>>

CoturnField == {"COTURN_HOST", "COTURN_PORT", "COTURN_SHARED_SECRET", "COTURN_CREDENTIAL_TTL"}

Config == [coturn : SUBSET CoturnField, ttl : Ttls, actixWorkers : Requests,
           keyParses : BOOLEAN, addressParses : BOOLEAN]

Phase == {"config", "key", "coturn", "sfu", "core", "address", "bind", "serving", "exited"}

SetupTypeOK ==
  /\ phase \in Phase
  /\ config \in Config
  /\ coturn \in BOOLEAN
  /\ workers \in 0..Logical

SetupInit ==
  /\ phase = "config"
  /\ config \in Config
  /\ coturn = FALSE /\ workers = 0

\* A step of main succeeds or ends the process with an error.
Step(from, to, succeeds) ==
  /\ phase = from
  /\ phase' = IF succeeds THEN to ELSE "exited"
  /\ UNCHANGED config

LoadConfig == \E ok \in BOOLEAN : Step("config", "key", ok) /\ UNCHANGED <<coturn, workers>>
LoadKey    == Step("key", "coturn", config.keyParses) /\ UNCHANGED <<coturn, workers>>

\* All four settings or none.
LoadCoturn ==
  /\ Step("coturn", "sfu", config.coturn \in {{}, CoturnField})
  /\ coturn' = (config.coturn = CoturnField)
  /\ UNCHANGED workers

\* A peer answers or not.  The tracker's task starts with the second.
ConnectSfu  == \E ok \in BOOLEAN : Step("sfu", "core", ok) /\ UNCHANGED <<coturn, workers>>
ConnectCore == \E ok \in BOOLEAN : Step("core", "address", ok) /\ UNCHANGED <<coturn, workers>>

\* Mutant of EffectiveActixWorkers: what is asked for is taken as it is.
EffectiveActixWorkers_Unclamped(requested) == IF requested = 0 THEN Physical ELSE requested

\* 0 stands for the physical CPUs; never more than the logical ones.
EffectiveActixWorkers(requested) ==
  LET wanted == IF requested = 0 THEN Physical ELSE requested
  IN  IF wanted > Logical THEN Logical ELSE wanted

\* The health service is spawned next, before the server is bound.
ResolveAddress ==
  /\ Step("address", "bind", config.addressParses)
  /\ workers' = EffectiveActixWorkers(config.actixWorkers)
  /\ UNCHANGED coturn

Bind == \E ok \in BOOLEAN : Step("bind", "serving", ok) /\ UNCHANGED <<coturn, workers>>

SetupStep ==
  LoadConfig \/ LoadKey \/ LoadCoturn \/ ConnectSfu \/ ConnectCore \/ ResolveAddress \/ Bind

\* Mutant of Expiry: the expiry is computed when the settings are read.
Expiry_AtStart(at) == config.ttl

\* generate_ice_servers
Expiry(at) == (at + config.ttl) % Modulus
===============================================================================
