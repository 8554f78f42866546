CONSTANTS
  N = 2
  p1 = p1
  p2 = p2
  Procs = {p1, p2}
  Detached = FALSE
  MaxCommands = 3
  MaxMishaps = 1
  MaxWrites = 2
SPECIFICATION Spec
CHECK_DEADLOCK FALSE
INVARIANTS ReadsRight CloseWaits
PROPERTY WritesFinish
