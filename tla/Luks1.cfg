SPECIFICATION Spec
CONSTANTS
  KEYSLOTS_MAX = 4
  TOKENS_MAX = 1
  DIGEST_MAX = 1
  MinOffset = 4
  MaxOffset = 16
  NUMKEYS = 3
  AREA = 4
  HDR2 = 2
  Procs = {p1, p2}
  Pass = {"a", "b", "c"}
  InitPass <- MCInitPass
  MaxEvents = 3
  MaxFaults = 1
SYMMETRY Symmetry
CHECK_DEADLOCK FALSE
INVARIANTS StoredOpens DestroyedIsGone
PROPERTY ConversionKeepsSlots
