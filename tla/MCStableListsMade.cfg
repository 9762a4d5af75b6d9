SPECIFICATION ClassSpec
CONSTANTS
  Value = {v1}
  None = None
  W = 13
  Increment = 5
  MaxCapacity = 6
  DefaultCapacity = 2
  DefaultMargin = 2
  MaxInstances = 2
  MaxSize = 3
PROPERTY MadeInMemory
CHECK_DEADLOCK FALSE
