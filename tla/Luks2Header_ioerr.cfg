SPECIFICATION Spec
CONSTANTS
  Procs = {p1, p2}
  Updates = {u1, u2}
  UuidUpdates = {}
  None = None
  Torn = Torn
  MaxKills = 0
  MaxPowerFails = 0
  MaxIOErr = 1
INVARIANT SingleFaultSurvived
PROPERTY AckedIsRedundant
CHECK_DEADLOCK FALSE
