SPECIFICATION Spec
CONSTANTS
  Name = {n1, n2}
  Literal <- MCLiteral
  npos = 1000
  Overrun = Overrun
  OutOfRange = OutOfRange
  MaxSize = 2
  MaxRoom = 4
  MaxCapacity = 4
VIEW Future
SYMMETRY Symmetric
CHECK_DEADLOCK FALSE
PROPERTY ReplacesInMemory
