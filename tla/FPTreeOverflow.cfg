CONSTANTS
  Degree = 2
  LeafDegree = 2
  Keys <- MCKeys
  OpKeys = {4, 5, 12}
  Values = {v1, v2}
  OpValues = {v2}
  NoValue = NoValue
  Chains <- PairChains
  MaxKey = 12
SPECIFICATION Spec
INVARIANT NodesFitTheirArrays
CHECK_DEADLOCK FALSE
