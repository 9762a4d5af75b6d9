SPECIFICATION Spec
CONSTANTS
  Value = {v1, v2}
  None = None
  DefaultCapacity = 2
  MaxCapacity = 4
  GenMod = 2
SYMMETRY Elements
INVARIANTS
  TypeOK
  LookupsAccounted
  ReverseInverts
  FreeListIntact
  LiveResolve
  RetiredRefused
PROPERTY HandleMapSpec
