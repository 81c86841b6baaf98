CONSTANTS
  Degree = 2
  LeafDegree = 2
  Keys <- MCKeys
  OpKeys = {4, 8, 9, 12}
  Values = {v1, v2}
  OpValues = {v2}
  NoValue = NoValue
  Chains <- AllChains
  MaxKey = 16
SPECIFICATION Spec
INVARIANTS TreeTypeOK SeparatorsBound Balanced Occupancy LoopIsBulkLoad
PROPERTIES ImplementsKVStore LeavesStayInPlace
CHECK_DEADLOCK FALSE
