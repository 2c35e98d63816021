SPECIFICATION Spec
CONSTANTS
  Workers = {w1, w2, w3}
  Clients = {p1, p2}
  Tasks = {t1, t2, t3}
  None = None
INVARIANTS TypeOK OneTaskAtATime ServedInOrder NoLostWakeup DrainedWhenGone
PROPERTIES ActsSerially DestructorReturns
CHECK_DEADLOCK FALSE
