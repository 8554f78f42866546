SPECIFICATION Spec
CONSTANTS
  Names = {"v"}
  Vols = {"A", "B"}
  Procs = {p1, p2}
  Kinds <- MCKinds
  Commands <- MCCommands
  Capabilities <- MCCapabilities
  Wrapped = {"B"}
  FullSize = 2
  RetryCount = 2
  MaxCommands = 3
  MaxMishaps = 1
SYMMETRY Sym
CHECK_DEADLOCK FALSE
INVARIANTS KeyMatches SuspendedIsKeyless StackWhole
PROPERTIES SuspendSticks
