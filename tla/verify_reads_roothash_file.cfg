SPECIFICATION Spec
CONSTANTS
  Procs = {p1}
  Outputs = {o1}
  imgA = imgA
  imgB = imgB
  Images = {imgA, imgB}
  models = models
  Disks = {models}
  NamedDisks = {models}
  Configs <- OneConfig
  g1 = g1
  g2 = g2
  Gens = {g1, g2}
  deb9 = deb9
  deb10 = deb10
  fed10 = fed10
  Initrds = {deb9, deb10, fed10}
  Releases <- TheirReleases
  TextOrder <- AsText
  KernelsOf <- TheirKernels
  InitrdSets <- TheirInitrdSets
  NameOf <- TheirNames
  Versions = {v1, v2}
  Commands = {"build", "seal"}
  AllowSkip = FALSE
  DevShm = FALSE
  ExtractDir = ExtractDir
  Absent = Absent
  Torn = Torn
  Unavailable = Unavailable
  Zero = Zero
  NoGen = NoGen
  MaxCommands = 3
  MaxFaults = 2
INVARIANTS
  VerifiedImageIsRecorded
CHECK_DEADLOCK FALSE
