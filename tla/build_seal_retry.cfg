SPECIFICATION FairSpec
CONSTANTS
  Procs = {p1}
  Outputs = {o1}
  imgA = imgA
  imgB = imgB
  Images = {imgA, imgB}
  models = models
  Disks = {models}
  NamedDisks = {models}
  Configs <- SealConfigs
  g1 = g1
  g2 = g2
  Gens = {g1, g2}
  deb9 = deb9
  deb10 = deb10
  fed10 = fed10
  Initrds = {deb9, deb10, fed10}
  Releases <- TheirReleases
  TextOrder <- AsText
  KernelsOf <- TheirKernels
  InitrdSets <- TheirInitrdSets
  NameOf <- TheirNames
  Versions = {v1}
  Commands = {"build", "extract", "seal"}
  AllowSkip = TRUE
  DevShm = TRUE
  ExtractDir = ExtractDir
  Absent = Absent
  Torn = Torn
  Unavailable = Unavailable
  Zero = Zero
  NoGen = NoGen
  MaxCommands = 3
  MaxFaults = 1
INVARIANTS
  TypeOK
  SuccessfulCommandVerifies
  SealedTreeIsOneExtraction
PROPERTIES
  CommandsEnd
CHECK_DEADLOCK FALSE
