SPECIFICATION Spec
CONSTANTS
  KEYSLOTS_MAX = 3
  TOKENS_MAX = 2
  DIGEST_MAX = 2
  MinOffset = 1
  MaxOffset = 5
  Procs = {p1, p2}
  Pass = {"a", "b", "c"}
  TokenPass = {"a"}
  VK = vk
  VolumeKeys = {vk, uk}
  InitPass <- MCInitPass
  MaxEvents = 3
  MaxFaults = 1
SYMMETRY Symmetry
CHECK_DEADLOCK FALSE
INVARIANTS PromisesKept RevokedIsGone LastKeyslotConfirmed
PROPERTY ChangeKeepsPlace
