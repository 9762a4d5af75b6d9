SPECIFICATION Spec
CONSTANTS
  None = None
  Value = {v1, v2}
  numPriorities = 2
  blockSize = 2
  BaseAllocation = 1
  MaxSize = 4
SYMMETRY Elements
CONSTRAINT OnTheRails
INVARIANTS
  ListsInOrder
  NodesAccounted
