\* Two processes; no symmetry, since liveness and refinement are checked.
CONSTANTS
  None = None
  Procs = {p1, p2}
  Inodes = {i1, i2, i3}
  MaxRef = 2
  MaxCrashes = 1
SPECIFICATION FairSpec
INVARIANT MutualExclusion HeldFileLinked NoStaleFile
PROPERTY ImplementsRWLock SomeoneGetsLock
