SPECIFICATION Spec
CONSTANTS
  Procs = {p1, p2}
  Outputs = {o1, o2}
  imgA = imgA
  imgB = imgB
  Images = {imgA, imgB}
  models = models
  Disks = {models}
  NamedDisks = {models}
  Configs <- RenameConfigs
  g1 = g1
  g2 = g2
  Gens = {g1, g2}
  deb9 = deb9
  deb10 = deb10
  fed10 = fed10
  Initrds = {deb9, deb10, fed10}
  Releases <- TheirReleases
  TextOrder <- AsText
  KernelsOf <- TheirKernels
  InitrdSets <- TheirInitrdSets
  NameOf <- TheirNames
  Versions = {v1}
  Commands = {"build"}
  AllowSkip = TRUE
  DevShm = TRUE
  ExtractDir = ExtractDir
  Absent = Absent
  Torn = Torn
  Unavailable = Unavailable
  Zero = Zero
  NoGen = NoGen
  MaxCommands = 2
  MaxFaults = 1
INVARIANTS
  ManifestDescribesFiles
  SuccessfulCommandVerifies
PROPERTY
  NothingRewrittenUnderManifest
CHECK_DEADLOCK FALSE
