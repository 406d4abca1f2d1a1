SPECIFICATION Spec
CONSTANTS
  BlockSize = 2
  Contents <- DataContents
  Links = {1}
  InodesPerBlock = 2
  GroupMax = 2
  DeltaMax = 1
  MaxNodes = 5
INVARIANTS
  TypeOK
  ReadsBackTree
  LinksShareInode
  ExportTableComplete
