SPECIFICATION Spec
CONSTANTS
  Session = {s1}
  Participant = {p1, p2}
  Conn = {c1}
  Subscriber = {u1}
  Task = {t1, t2}
  EventTask = {e1, e2}
  None = None
SYMMETRY Symmetry
INVARIANT RemovedWhenFinished
