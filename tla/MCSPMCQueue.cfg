SPECIFICATION SPMCFairSpec
CONSTANTS
  Consumer = {c1, c2}
  BlockSize = 2
  BaseAllocation = 1
  MaxElements = 6
  MaxReserve = 8
  MayFail = TRUE
INVARIANTS
  TypeOK
  InLine
  ClaimHolds
PROPERTY DequeueFinishes
