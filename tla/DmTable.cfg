SPECIFICATION Spec
CONSTANTS
  Kernels <- MCKernels
  CryptReqs <- MCCryptReqs
  VerityReqs <- MCVerityReqs
  IntegrityReqs <- MCIntegrityReqs
  Formats <- MCFormats
  MaxDisk = 2
  MaxCmds = 4
CHECK_DEADLOCK FALSE
INVARIANTS TableAsAsked GrownIsProtected
