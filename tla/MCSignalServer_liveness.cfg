SPECIFICATION FairSpec
CONSTANTS
  Session = {s1, noid}
  EmptySession = noid
  Participant = {p1}
  Conn = {c1, c2}
  Subscriber = {}
  EventTask = {}
  Tracker = tracker
  None = None
  QueueCapacity = 1
  OneSession = TRUE
CHECK_DEADLOCK FALSE
PROPERTIES DisconnectEndsSession TerminationFinishes
