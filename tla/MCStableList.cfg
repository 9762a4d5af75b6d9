SPECIFICATION Spec
CONSTANTS
  Value = {v1, v2}
  None = None
  W = 9
  Increment = 3
  MaxCapacity = 4
SYMMETRY Elements
INVARIANTS
  TypeOK
  InBlock
PROPERTIES
  AppendsInsideBlock
  IRefListSpec
CHECK_DEADLOCK FALSE
