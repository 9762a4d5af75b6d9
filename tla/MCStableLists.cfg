SPECIFICATION ClassSpec
CONSTANTS
  Value = {v1, v2}
  None = None
  W = 17
  Increment = 6
  MaxCapacity = 8
  DefaultCapacity = 2
  DefaultMargin = 2
  MaxInstances = 2
  MaxSize = 4
VIEW Future
SYMMETRY Elements
INVARIANT WalksInOrder
PROPERTY ValueListSpec
CHECK_DEADLOCK FALSE
