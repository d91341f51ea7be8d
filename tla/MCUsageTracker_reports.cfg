SPECIFICATION Spec
CONSTANTS
  Session = {s1, s2}
  NoSession = NoSession
  TickInterval = 1
  ReportInterval = 2
  FarewellWait = 1
  TwoMinWarning = 1
  StartCountdown = 0
  Answer <- Answers
  MaxLatency = 1
  QueueCapacity = 1
  MaxTime = 13
SYMMETRY Symmetry
CHECK_DEADLOCK FALSE
INVARIANTS TypeOK NeverOverBilled WarnedBeforeTimeout AtMostTwoWarnings SnapshotStaysFresh ReportDelayBounded
