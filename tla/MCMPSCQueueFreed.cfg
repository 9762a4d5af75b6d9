SPECIFICATION MPSCSpec
CONSTANTS
  Consumer = {c1}
  BlockSize = 2
  BaseAllocation = 1
  MaxElements = 5
  MaxReserve = 8
  MayFail = FALSE
PROPERTY ReadsLiveArray
