SPECIFICATION Spec
CONSTANTS
  Name = {n1, n2}
  Value = {a, b}
  None = None
  OutOfRange = OutOfRange
  BaseAllocation = 1
  MaxSize = 3
  MaxRoom = 4
VIEW Future
SYMMETRY Symmetric
CHECK_DEADLOCK FALSE
INVARIANT InsideArray
PROPERTY VectorsSpec
