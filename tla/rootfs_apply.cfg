SPECIFICATION Spec
CONSTANTS
  None = None
  NoName = NoName
  Absent = Absent
  Torn = Torn
  Names = {"root", "mail", "svc", "extra", "app", "web"}
  GidTop = 5
  GidLow = 4
  GidFallback = 3
  UidTop = 4
  IdMin = 1
  BaseGroup <- SmallGroup
  BaseGshadow <- SmallShadow
  BasePasswd <- SmallPasswd
  BaseShadow <- SmallShadow
  Configs <- ApplyConfigs
  BaseTree <- SmallTree
  HostTree <- SmallHost
  HostWritable <- SmallWritable
  Inside <- SmallInside
  GoodKernels = {"kernel"}
  MaxApplies = 3
  MaxFaults = 1
INVARIANTS
  TypeOK
  IdsDistinct
  GeneratedInPlace
  ReuseSucceeds
  VerifiedIsSealed
  TreeIsHardened
PROPERTIES
  EntriesKept
  UsersJoinTheirGroup
CHECK_DEADLOCK FALSE
