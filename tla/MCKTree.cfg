SPECIFICATION Spec
CONSTANTS
  Value = {v1, v2}
  None = None
  MaxArity = 3
  MaxDepth = 5
  MaxElements = 15
  W = 50
  WordBits = 4
SYMMETRY Elements
CONSTRAINT FewInUse
INVARIANTS
  TypeOK
  SizeCounts
  BFSIndexRight
  DFSLeafIndexRight
  GuardIdle
PROPERTY PathTreeSpec
