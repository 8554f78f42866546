SPECIFICATION Spec
CONSTANTS
  Procs = {p1, p2, p3}
  Updates = {u1, u2}
  UuidUpdates = {}
  None = None
  Torn = Torn
  MaxKills = 1
  MaxPowerFails = 1
  MaxIOErr = 0
SYMMETRY Symmetry
CHECK_DEADLOCK FALSE
INVARIANTS SomeHeaderValid NoLostUpdate SeqidIdentifiesHeader
PROPERTIES LoadRestoresRedundancy ImplementsRegister
