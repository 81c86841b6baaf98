CONSTANTS
  LeafDegree = 2
  Keys = {1, 2, 3, 4}
  Values = {10, 20}
  NoValue = 99
  Hash <- MCHash
  Width = 3
  Native = TRUE
SPECIFICATION LeafSpec
INVARIANTS
  LeafTypeOK
  CountExact
  SlotsSound
  SlotToSpare
  BytesAreSlots
PROPERTY ImplementsLeafStore
