SPECIFICATION Spec
CONSTANTS
  Elements = {e1, e2}
  Zero = zero
  Cut = cut
  MaxSize = 4
INVARIANTS
  StackTypeOK
  CellsMapped
PROPERTIES
  ImplementsStack
