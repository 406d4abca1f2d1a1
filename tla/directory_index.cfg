SPECIFICATION Spec
CONSTANTS
  BlockSize = 8
  HeaderSize = 2
  EntrySizes <- ShortAndLong
  InodeBlocks = {0, 1}
  Numbers = {1, 5}
  GroupMax = 2
  DeltaMax = 2
  MaxEntries = 5
INVARIANTS
  TypeOK
  EntriesFitTheirHeader
  IndexLeadsToHeader
  IndexedOften
