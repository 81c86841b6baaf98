CONSTANTS
  GroupSize <- MCGroupSize
  MaxFiles <- MCMaxFiles
  MaxFrees <- MCMaxFrees
  Degree = 2
  LeafDegree = 2
  Keys <- MCKeys
  Values = {10}
  NoValue = none
SPECIFICATION StoreSpec
INVARIANTS
  FreeLeavesEmpty
  ChainAscends
PROPERTIES
  KeepsDictionary
CHECK_DEADLOCK FALSE
