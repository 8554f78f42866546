SPECIFICATION Spec
CONSTANTS
  Scenarios <- MCScenarios
  Hashes <- MCHashes
  AreaSize = 2
  HashSize = 1
  MaxSlots = 6
  Passes <- MCPasses
  VolumeKeys <- MCVolumeKeys
  Aligns <- MCAligns
  MovedSizes <- MCMovedSizes
  MaxCommands = 2
  MaxFaults = 2
  MaxKills = 1
CHECK_DEADLOCK FALSE
INVARIANTS DataSafe FlagAfterMove CleanFailure DigestHolds
