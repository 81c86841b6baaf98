CONSTANTS
  GroupSize <- MCGroupSize
  MaxFiles <- MCMaxFiles
  MaxFrees <- MCMaxFrees
SPECIFICATION FairChainSpec
INVARIANTS
  ChainTypeOK
  ChainIntact
  ListsAgree
  LeavesOwned
  NoUndefinedStep
  NextNeverDangles
PROPERTIES
  RecoveryExact
  LoadEnds
CHECK_DEADLOCK FALSE
