SPECIFICATION Spec
CONSTANTS
  None = None
  Name = {a, b}
  Value = {v1, v2}
  BaseAllocation = 2
  MaxSize = 4
  MaxReserve = 4
SYMMETRY Elements
INVARIANT OffsetsAgree
PROPERTY LinesSpec
CHECK_DEADLOCK FALSE
