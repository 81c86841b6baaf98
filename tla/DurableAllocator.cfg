CONSTANTS
  GroupSize <- MCGroupSize
  MaxFiles <- MCMaxFiles
  MaxFrees <- MCMaxFrees
  MaxCrashes <- MCMaxCrashes
SPECIFICATION StepsSpec
INVARIANTS
  DurableTypeOK
  CountCovered
  OwnedNeverOffered
  UsedNumCovers
  LeaksBounded
  PopsMapped
PROPERTY StepsAreOperations
CHECK_DEADLOCK FALSE
