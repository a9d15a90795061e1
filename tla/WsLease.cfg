SPECIFICATION Spec
CONSTANTS
  Socket = {s1, s2}
  Session = {c1}
  Pat = {p1}
  None = None
  MaxFailures = 1
CHECK_DEADLOCK FALSE
INVARIANTS TimerCoversEntries OnlyDeadAreDestroyed NoCheckIsLost
PROPERTIES DeadSocketsEnd
