SPECIFICATION Spec
CONSTANTS
  Session = {s1, noid}
  EmptySession = noid
  Participant = {p1, p2}
  Conn = {c1, c2}
  Subscriber = {u1}
  EventTask = {e1}
  Tracker = tracker
  None = None
  QueueCapacity = 1
  OneSession = TRUE
SYMMETRY Symmetry
CHECK_DEADLOCK FALSE
INVARIANTS TypeOK DeadMemberHasCause TrackedHasOwner AbortStaysInSession
