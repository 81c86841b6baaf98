CONSTANTS
  GroupSize <- MCGroupSize
  MaxFiles <- MCMaxFiles
  MaxFrees <- MCMaxFrees
SPECIFICATION ChainSpec
PROPERTY RecoveryLosesNothing
CHECK_DEADLOCK FALSE
