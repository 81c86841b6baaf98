CONSTANTS
  LeafDegree = 2
  Keys = {1, 2, 3, 4}
  Values = {v1, v2}
  LineSlots = 2
  MaxCrashes = 1
  Hash <- MCHash
SYMMETRY ValueSymmetry
SPECIFICATION DurableLeafSpec
INVARIANTS
  DurableWhenIdle
  CrashKeepsEntries
PROPERTY SplitLosesOnlyMoved
CHECK_DEADLOCK FALSE
