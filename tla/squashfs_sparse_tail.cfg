SPECIFICATION Spec
CONSTANTS
  BlockSize = 2
  InodesPerBlock = 2
  GroupMax = 2
  DeltaMax = 1
  Contents <- SparseTail
  Links = {1}
  MaxNodes = 3
INVARIANTS
  ImageVerifies
