CONSTANTS
  GroupSize <- MCGroupSize
  MaxFiles <- MCMaxFiles
  MaxFrees <- MCMaxFrees
SPECIFICATION AllocSpec
INVARIANTS
  AllocTypeOK
  FreeListSound
  FreeNumCovered
