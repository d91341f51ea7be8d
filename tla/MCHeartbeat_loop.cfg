SPECIFICATION Spec
CONSTANTS
  Interval = 30
  Timeout = 60
  RoundTrip = 1
  MaxBody = 2
  MaxRequests = 2
  MaxWrites = 2
  MaxTime = 100
INVARIANTS TypeOK LiveClientKept SilenceIsNoticed
CHECK_DEADLOCK FALSE
