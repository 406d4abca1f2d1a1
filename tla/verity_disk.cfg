SPECIFICATION ModelSpec
CONSTANTS
  BlockSize = 2
  DigestSize = 1
  SectorSize = 1
  AlignSectors = 4
  HeadSectors = 3
  BackupSectors = 2
  MaxSize = 11
  MaxBuilds = 2
  MaxFaults = 1
  Repos <- TwoRepos
  Siblings <- TheirFiles
  Includes <- SomeIncludes
  Nested <- NestedFiles
  DiskSizes = {1, 5, 11}
  MaxDownloads = 3
INVARIANTS
  ModelTypeOK
  EveryBlockReads
  SealedOrRefused
  PartitionsApart
  SealedModelsComplete
CHECK_DEADLOCK FALSE
