SPECIFICATION Spec
CONSTANTS
  CheckInterval = 5
  RequestTimeout = 5
  Latency = 1
  MaxTime = 30
  Physical = 2
  Logical = 4
  Requests = {0, 5}
  Ttls = {0, 3, 63}
  Modulus = 64
INVARIANTS TypeOK OutageIsNoticed RecoveryIsNoticed CredentialAsConfigured
CHECK_DEADLOCK FALSE
