SPECIFICATION Spec
CONSTANTS
  Conn = {c1, c2}
  Subscriber = {u1, u2}
  Session = {s1}
  EmptySession = s0
  Participant = {p1, p2}
  Listener = {p2}
  Ids <- IdsUsed
  Wide = {c1}
  Capacity <- Capacities
  Tracker = Tracker
  None = None
SYMMETRY Symmetry
CHECK_DEADLOCK FALSE
INVARIANTS TypeOK DeadlockNeedsBurst RepliesInOrder EndedFirstNeedsLeak
