SPECIFICATION Spec
CONSTANTS
  Size = 3
  HdrBlocks = 1
  Options <- MCOptions
  MaxInterrupts = 1
  MaxMishaps = 0
INVARIANT InterruptIsSafe
