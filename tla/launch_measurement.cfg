SPECIFICATION Spec
CONSTANTS
  None = None
  Zeros = Zeros
  Empty = Empty
  Absent = Absent
  Error = Error
  ZeroUnit = ZeroUnit
  FourGB = 20
  VmsaGpa = 99
  PageSize = 4096
  ChunksPerPage = 2
  PadTo = 2
  Firmware <- SomeFirmware
  Kernel <- SomeKernels
  DsdtValid = {"d1", "d2"}
  Requests <- SomeRequests
  Disks <- SomeDisks
  NewContents <- SomeContents
  Cpus <- SomeCpus
  CpuLists <- SomeLists
  Configs <- TheirConfigs
  Sessions <- SomeSessions
  MaxChanges = 1
INVARIANTS
  TypeOK
  DigestIsOfInputs
  OneKernelPerMap
  ManifestBindsOrSays
  MrtdIsLoadedImage
  SameRegisterSameInput
PROPERTIES
  LaunchMeasuresGuest
