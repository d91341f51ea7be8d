SPECIFICATION Spec
CONSTANTS
  Session = {s1}
  Participant = {p1, p2}
  Conn = {c1, c2}
  Subscriber = {u1}
  Task = {t1}
  EventTask = {e1, e2}
  None = None
SYMMETRY Symmetry
INVARIANTS TypeOK OneTerminator OneEndReason RunningTasksHaveHandles NoOrphanEventTask LeftoverHasCause
PROPERTIES ToldBeforeRemoval ImplementsLifecycle
