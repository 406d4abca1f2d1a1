------------------------- MODULE BuildPipelineProofs -------------------------
(***************************************************************************)
(* Proofs about BuildPipeline, for any number of processes, directories,   *)
(* images, disks and faults.                                               *)
(***************************************************************************)
EXTENDS BuildPipeline, TLAPS
-----------------------------------------------------------------------------
(* What a write of one file changes.                                       *)
LEMMA WriteIsLocal ==
  ASSUME TypeOK, NEW p \in Procs, job[p] \in Jobs,
         NEW fn \in Files, NEW c \in Contents, Write(p, fn, c)
  PROVE  /\ file' \in [Outputs -> [Files -> Contents]]
         /\ file'[job[p].out][fn] = c
         /\ \A g \in Files : g # fn => file'[job[p].out][g] = file[job[p].out][g]
         /\ \A o \in Outputs : o # job[p].out => file'[o] = file[o]
<1>1. job[p].out \in Outputs
  BY DEF Jobs
<1>2. /\ file \in [Outputs -> [Files -> Contents]]
      /\ file' = [file EXCEPT ![job[p].out] = [file[job[p].out] EXCEPT ![fn] = c]]
  BY DEF TypeOK, Write
<1> QED
  BY <1>1, <1>2

(* What is chosen or left of a tree's initrds is among them.               *)
LEMMA BootFacts ==
  /\ \A g \in Gens : \A new \in InitrdSets[g] : new \subseteq Initrds
  /\ \A old \in SUBSET Initrds, new \in SUBSET Initrds : Over(old, new) \subseteq Initrds
  /\ \A some \in SUBSET Initrds :
       Candidates(some) # {} =>
         /\ BaseInitrd(some) \in Candidates(some)
         /\ ReleaseOf(BaseInitrd(some)) = LastByName({ReleaseOf(i) : i \in Candidates(some)})
  /\ \A some \in SUBSET Initrds : Candidates(some) \subseteq some
<1>1. \A g \in Gens : \A new \in InitrdSets[g] : new \subseteq Initrds
  BY BootAssumption
<1>2. \A some \in SUBSET Initrds : Candidates(some) \subseteq some
  BY DEF Candidates, Matches
<1>3. ASSUME NEW some \in SUBSET Initrds, Candidates(some) # {}
      PROVE  /\ BaseInitrd(some) \in Candidates(some)
             /\ ReleaseOf(BaseInitrd(some))
                  = LastByName({ReleaseOf(i) : i \in Candidates(some)})
  <2> DEFINE all == Candidates(some)
             releases == {ReleaseOf(j) : j \in all}
  <2>1. releases \in (SUBSET Releases) \ {{}}
    <3>1. \A i \in Initrds : ReleaseOf(i) \in Releases
      BY BootAssumption DEF ReleaseOf, FileNames
    <3>2. all \subseteq Initrds /\ all # {}
      BY <1>2, <1>3
    <3> HIDE DEF all
    <3> QED
      BY <3>1, <3>2
  <2>2. \E r \in releases : \A q \in releases : TextOrder[q] <= TextOrder[r]
    BY <2>1, LastAssumption
  <2> HIDE DEF releases
  <2>3. LastByName(releases) \in releases
    BY <2>2 DEF LastByName
  <2>4. \E i \in all : ReleaseOf(i) = LastByName(releases)
    BY <2>3 DEF releases
  <2> QED
    BY <2>4 DEF BaseInitrd, releases
<1>4. \A old \in SUBSET Initrds, new \in SUBSET Initrds : Over(old, new) \subseteq Initrds
  BY DEF Over
<1> QED
  BY <1>1, <1>2, <1>3, <1>4

(* The names of an image's artifacts and of a disk's files.                *)
LEMMA ArtifactNames ==
  ASSUME NEW p \in Procs, job[p] \in Jobs
  PROVE  /\ job[p].cfg.image \in Images
         /\ \A kind \in ImageKinds : Art(p, kind) \in Files
         /\ \A kind \in DiskKinds, d \in Disks : <<kind, d>> \in Files
         /\ {Squashfs, Verity, Manifest} \subseteq Files
<1>1. job[p].cfg \in ConfigType
  BY SetsAssumption DEF Jobs
<1> QED
  BY <1>1 DEF ConfigType, Art, Files

(* Writing an image's artifact leaves files of every other name alone.     *)
LEMMA OtherNames ==
  ASSUME NEW p \in Procs, NEW kind \in ImageKinds, NEW f, NEW g,
         \A fn \in Files : fn # Art(p, kind) => g[fn] = f[fn]
  PROVE  /\ \A k \in ImageKinds, i \in Images : k # kind => g[<<k, i>>] = f[<<k, i>>]
         /\ \A k \in DiskKinds, d \in Disks : g[<<k, d>>] = f[<<k, d>>]
         /\ g[Manifest] = f[Manifest] /\ g[Squashfs] = f[Squashfs] /\ g[Verity] = f[Verity]
<1>1. \A k \in ImageKinds, i \in Images :
        <<k, i>> \in Files /\ (k # kind => <<k, i>> # Art(p, kind))
  BY DEF Files, Art
<1>2. \A k \in DiskKinds, d \in Disks : <<k, d>> \in Files /\ <<k, d>> # Art(p, kind)
  BY DEF Files, Art, ImageKinds, DiskKinds
<1>3. \A fn \in {Manifest, Squashfs, Verity} : fn \in Files /\ fn # Art(p, kind)
  BY DEF Files, Art, Manifest, Squashfs, Verity, ImageKinds
<1> QED
  BY <1>1, <1>2, <1>3

(* What is known of every command, sealing over other files or not.        *)
TypeInv == TypeOK /\ OwnOutputs /\ MemoryFollowsSteps

(* A step of p keeps what is known of the commands that write elsewhere.   *)
LEMMA OthersKeep ==
  ASSUME TypeInv, NEW p \in Procs, Running(p),
         \A q \in Procs \ {p} : pc'[q] = pc[q] /\ job'[q] = job[q],
         \A o \in Outputs : o # job[p].out => file'[o] = file[o]
  PROVE  \A q \in Procs \ {p} : /\ MemoryOf(q)'
                                /\ CleanOf(q) => CleanOf(q)'
<1> SUFFICES ASSUME NEW q \in Procs \ {p}
             PROVE  MemoryOf(q)' /\ (CleanOf(q) => CleanOf(q)')
  OBVIOUS
<1>1. CASE ~Running(q)
  BY <1>1 DEF Running, MemoryOf, CleanOf, Sealing
<1>2. CASE Running(q)
  <2>1. job[q] \in Jobs /\ job[q].out # job[p].out
    BY <1>2 DEF TypeInv, TypeOK, OwnOutputs, Running
  <2>2. file'[job[q].out] = file[job[q].out]
    BY <2>1 DEF Jobs
  <2>3. MemoryOf(q)
    BY SMTT(60) DEF TypeInv, MemoryFollowsSteps
  <2>4. MemoryOf(q)'
    BY <2>2, <2>3, SMTT(60) DEF MemoryOf, Running, Art
  <2>5. CleanOf(q) => CleanOf(q)'
    BY <2>2, SMTT(60) DEF CleanOf, Agrees
  <2> QED
    BY <2>4, <2>5
<1> QED
  BY <1>1, <1>2

(* A running command that goes on with its job changes nothing but its own *)
(* memory, its output and the work directories.                            *)
LEMMA CommandMoves ==
  ASSUME TypeInv, NEW p \in Procs, Running(p), NEW step \in Steps, NEW j \in Jobs,
         j.out = job[p].out,
         pc' = [pc EXCEPT ![p] = step],
         job' = [job EXCEPT ![p] = j],
         rootfs' \in [WorkDirs -> Trees \cup {Absent}],
         file' \in [Outputs -> [Files -> Contents]],
         started' \in 0 .. MaxCommands, faults' \in 0 .. MaxFaults,
         \A o \in Outputs : o # job[p].out => file'[o] = file[o],
         MemoryOf(p)'
  PROVE  /\ TypeInv'
         /\ \A q \in Procs \ {p} : CleanOf(q) => CleanOf(q)'
<1>1. \A q \in Procs \ {p} : pc'[q] = pc[q] /\ job'[q] = job[q]
  BY DEF TypeInv, TypeOK
<1>2. pc'[p] = step /\ job'[p] = j /\ step # "idle"
  BY DEF TypeInv, TypeOK, Steps, BeforeClean, Sealing
<1>3. TypeOK'
  BY <1>1, <1>2 DEF TypeInv, TypeOK
<1>4. OwnOutputs'
  BY <1>1, <1>2 DEF TypeInv, OwnOutputs, Running
<1>5. \A q \in Procs \ {p} : MemoryOf(q)' /\ (CleanOf(q) => CleanOf(q)')
  BY <1>1, OthersKeep
<1>6. MemoryFollowsSteps'
  BY <1>5 DEF MemoryFollowsSteps
<1> QED
  BY <1>3, <1>4, <1>5, <1>6 DEF TypeInv

(* The types of a running command's state.                                 *)
LEMMA RunningTypes ==
  ASSUME TypeInv, NEW p \in Procs, Running(p)
  PROVE  /\ job[p] \in Jobs /\ pc[p] \in Steps
         /\ job[p].out \in Outputs /\ job[p].dir \in WorkDirs
         /\ job[p].cfg \in ConfigType
         /\ file[job[p].out] \in [Files -> Contents]
         /\ rootfs[job[p].dir] \in Trees \cup {Absent}
         /\ MemoryOf(p)
<1>1. job[p] \in Jobs /\ pc[p] \in Steps
  BY DEF TypeInv, TypeOK, Running
<1>2. job[p].out \in Outputs /\ job[p].dir \in WorkDirs /\ job[p].cfg \in ConfigType
  BY <1>1, SetsAssumption DEF Jobs
<1> QED
  BY <1>1, <1>2 DEF TypeInv, TypeOK, MemoryFollowsSteps
-----------------------------------------------------------------------------
(* One lemma per action.                                                   *)
LEMMA StartKeeps ==
  ASSUME TypeInv, NEW p \in Procs, NEW step \in BeforeClean,
         NEW cmd \in Commands, NEW c \in Configs, NEW o \in Outputs, NEW w \in WorkDirs,
         NEW skip \in BOOLEAN, Start(p, step, NewJob(cmd, c, o, w, skip))
  PROVE  TypeInv' /\ \A q \in Procs : CleanOf(q) => CleanOf(q)'
<1> DEFINE j == NewJob(cmd, c, o, w, skip)
<1>1. c \in ConfigType
  BY SetsAssumption
<1>2. j \in Jobs
  BY <1>1 DEF NewJob, Jobs, ConfigType, DiskSets, Kernels, Ramdisks
<1>3. /\ pc' = [pc EXCEPT ![p] = step] /\ job' = [job EXCEPT ![p] = j]
      /\ rootfs' = rootfs /\ file' = file /\ faults' = faults
      /\ started' = started + 1 /\ started < MaxCommands
  BY DEF Start
<1>4. /\ pc'[p] = step /\ job'[p] = j
      /\ \A q \in Procs \ {p} : pc'[q] = pc[q] /\ job'[q] = job[q]
  BY <1>3 DEF TypeInv, TypeOK
<1>5. TypeOK'
  BY <1>2, <1>3, <1>4, SetsAssumption DEF TypeInv, TypeOK, Steps
<1>6. OwnOutputs'
  <2>1. \A q \in Procs : Running(q) => job[q].out # j.out
    BY DEF Start, OutputFree
  <2> QED
    BY <2>1, <1>4 DEF TypeInv, OwnOutputs, Running
<1>7. MemoryOf(p)'
  BY <1>1, <1>4, SMTT(60)
  DEF MemoryOf, NewJob, BeforeClean, Sealing, BeforeRoot, BeforeInitrd, DiskSteps,
              ConfigType
<1>8. ASSUME NEW q \in Procs \ {p}
      PROVE  MemoryOf(q)' /\ (CleanOf(q) => CleanOf(q)')
  <2>1. MemoryOf(q)
    BY DEF TypeInv, MemoryFollowsSteps
  <2> QED
    BY <2>1, <1>3, <1>4, SMTT(60) DEF MemoryOf, CleanOf, Running, Agrees, Art
<1>9. CleanOf(p)'
  BY <1>4 DEF CleanOf, BeforeClean, Sealing
<1> QED
  BY <1>5, <1>6, <1>7, <1>8, <1>9 DEF TypeInv, MemoryFollowsSteps

(* The steps that touch the work directory only.                           *)
LEMMA RootfsSteps ==
  ASSUME TypeInv, NEW p \in Procs,
         ReuseRootfs(p) \/ WipeRootfs(p) \/ ExtractRootfs(p) \/ ApplyConfig(p)
  PROVE  /\ TypeInv'
         /\ \A q \in Procs \ {p} : CleanOf(q) => CleanOf(q)'
         /\ job[p].cmd # "seal" => CleanOf(p)'
<1>1. Running(p) /\ pc[p] \in {"reuse", "wipe", "extract", "apply"}
  BY DEF ReuseRootfs, WipeRootfs, ExtractRootfs, ApplyConfig, Step, Running
<1>2. /\ job[p] \in Jobs /\ job[p].dir \in WorkDirs
      /\ rootfs[job[p].dir] \in Trees \cup {Absent} /\ MemoryOf(p)
  BY <1>1, RunningTypes
<1>3. PICK step \in {"extract", "apply", "clean", "done", "kernel"} :
        /\ pc' = [pc EXCEPT ![p] = step]
        /\ step = "kernel" => job[p].cmd = "seal"
  BY DEF ReuseRootfs, WipeRootfs, ExtractRootfs, ApplyConfig, Step
<1>4. file' = file /\ job' = job /\ started' = started /\ faults' = faults
  BY DEF ReuseRootfs, WipeRootfs, ExtractRootfs, ApplyConfig
<1>5. rootfs' \in [WorkDirs -> Trees \cup {Absent}]
  <2>1. EmptyTree \in Trees
    BY DEF EmptyTree, Trees
  <2>2. CASE ReuseRootfs(p)
    BY <2>2 DEF ReuseRootfs, TypeInv, TypeOK
  <2>3. CASE WipeRootfs(p)
    BY <2>1, <2>3 DEF WipeRootfs, TypeInv, TypeOK
  <2>4. CASE ExtractRootfs(p)
    <3> DEFINE old == rootfs[job[p].dir]
    <3>1. PICK g \in Gens : \E new \in InitrdSets[g] :
            rootfs' = [rootfs EXCEPT ![job[p].dir] =
                         [gen |-> g, whole |-> (@ = EmptyTree), hardened |-> FALSE,
                          initrds |-> Over(@.initrds, new)]]
      BY <2>4 DEF ExtractRootfs
    <3>2. PICK new \in InitrdSets[g] :
            rootfs' = [rootfs EXCEPT ![job[p].dir] =
                         [gen |-> g, whole |-> (@ = EmptyTree), hardened |-> FALSE,
                          initrds |-> Over(@.initrds, new)]]
      BY <3>1
    <3>3. Over(old.initrds, new) \subseteq Initrds
      BY <1>2, <2>4, BootFacts DEF ExtractRootfs, Trees
    <3>4. [gen |-> g, whole |-> (old = EmptyTree), hardened |-> FALSE,
           initrds |-> Over(old.initrds, new)] \in Trees
      BY <3>3 DEF Trees
    <3> QED
      BY <3>2, <3>4 DEF TypeInv, TypeOK
  <2>5. CASE ApplyConfig(p)
    <3>1. \A tree \in Trees : [tree EXCEPT !.hardened = TRUE] \in Trees
      BY DEF Trees
    <3>2. Hardened(rootfs[job[p].dir]) \in Trees
      BY <1>2, <2>1, <3>1 DEF Hardened
    <3> QED
      BY <2>5, <3>2 DEF ApplyConfig, TypeInv, TypeOK
  <2> QED
    BY <2>2, <2>3, <2>4, <2>5
<1>6. pc'[p] = step /\ job'[p] = job[p]
  BY <1>3, <1>4 DEF TypeInv, TypeOK
<1>7. MemoryOf(p)'
  BY <1>1, <1>2, <1>4, <1>6 DEF MemoryOf, Running, BeforeClean, Sealing, BeforeRoot,
       BeforeInitrd, DiskSteps, Art
<1>8. job' = [job EXCEPT ![p] = job[p]] /\ step \in Steps
  BY <1>4 DEF TypeInv, TypeOK, Steps, BeforeClean, Sealing
<1>9. /\ TypeInv'
      /\ \A q \in Procs \ {p} : CleanOf(q) => CleanOf(q)'
  BY <1>1, <1>2, <1>3, <1>4, <1>5, <1>7, <1>8, CommandMoves DEF TypeInv, TypeOK
<1>10. job[p].cmd # "seal" => CleanOf(p)'
  BY <1>3, <1>6 DEF CleanOf, Sealing
<1> QED
  BY <1>9, <1>10

LEMMA CleanOutputKeeps ==
  ASSUME TypeInv, NEW p \in Procs, CleanOutput(p)
  PROVE  TypeInv' /\ \A q \in Procs : CleanOf(q) => CleanOf(q)'
<1>1. Running(p) /\ pc[p] = "clean"
  BY DEF CleanOutput, Step, Running
<1>2. /\ job[p] \in Jobs /\ job[p].out \in Outputs /\ MemoryOf(p)
      /\ file[job[p].out] \in [Files -> Contents]
  BY <1>1, RunningTypes
<1> DEFINE swept == [fn \in Files |-> IF fn \in Cleaned THEN Absent ELSE file[job[p].out][fn]]
<1>3. /\ pc' = [pc EXCEPT ![p] = "kernel"]
      /\ file' = [file EXCEPT ![job[p].out] = swept]
      /\ job' = job /\ rootfs' = rootfs /\ started' = started /\ faults' = faults
  BY DEF CleanOutput, Step
<1>4. swept \in [Files -> Contents]
  BY <1>2 DEF Contents
<1>5. /\ file' \in [Outputs -> [Files -> Contents]]
      /\ file'[job[p].out] = swept
      /\ \A o \in Outputs : o # job[p].out => file'[o] = file[o]
  BY <1>2, <1>3, <1>4 DEF TypeInv, TypeOK
<1>6. pc'[p] = "kernel" /\ job'[p] = job[p]
  BY <1>3 DEF TypeInv, TypeOK
<1>7. MemoryOf(p)'
  BY <1>1, <1>2, <1>6 DEF MemoryOf, Running, BeforeClean, Sealing, BeforeRoot,
       BeforeInitrd, DiskSteps
<1>8. job' = [job EXCEPT ![p] = job[p]] /\ "kernel" \in Steps
  BY <1>3, SMTT(60) DEF TypeInv, TypeOK, Steps, Sealing
<1>9. TypeInv' /\ \A q \in Procs \ {p} : CleanOf(q) => CleanOf(q)'
  BY <1>1, <1>2, <1>3, <1>5, <1>7, <1>8, CommandMoves DEF TypeInv, TypeOK
<1>10. CleanOf(p)'
  <2>1. /\ swept[Manifest] = Absent
        /\ \A i \in Images, kind \in {"vmlinuz", "initrd", "roothash", "raw"} :
             swept[<<kind, i>>] = Absent
        /\ \A d \in Disks, kind \in DiskKinds : swept[<<kind, d>>] = Absent
    BY DEF Cleaned, Files, Manifest, ImageKinds, DiskKinds
  <2> HIDE DEF swept
  <2>2. job'[p].out = job[p].out /\ file'[job'[p].out] = swept
    BY <1>5, <1>6
  <2>3. Agrees(job'[p], swept)
    BY <2>1 DEF Agrees, AsRecorded
  <2> QED
    BY <2>1, <2>2, <2>3 DEF CleanOf
<1> QED
  BY <1>9, <1>10

(* A step that leaves the files alone or writes one of them.               *)
OneFileStep(p, fn, c, step, j) ==
  /\ Running(p) /\ fn \in Files /\ c \in Contents
  /\ step \in Steps /\ j \in Jobs /\ j.out = job[p].out
  /\ file' = file \/ Write(p, fn, c)
  /\ pc' = [pc EXCEPT ![p] = step]
  /\ job' = [job EXCEPT ![p] = j]
  /\ rootfs' \in [WorkDirs -> Trees \cup {Absent}]
  /\ started' = started /\ faults' \in 0 .. MaxFaults

LEMMA OneFileChanges ==
  ASSUME TypeInv, NEW p \in Procs, NEW fn, NEW c, NEW step, NEW j,
         OneFileStep(p, fn, c, step, j)
  PROVE  /\ pc'[p] = step /\ job'[p] = j
         /\ file' \in [Outputs -> [Files -> Contents]]
         /\ \A o \in Outputs : o # job[p].out => file'[o] = file[o]
         /\ \A g \in Files : g # fn => file'[job[p].out][g] = file[job[p].out][g]
         /\ file' # file => file'[job[p].out][fn] = c
<1>1. job[p] \in Jobs /\ job[p].out \in Outputs
  BY RunningTypes DEF OneFileStep
<1>2. pc'[p] = step /\ job'[p] = j
  BY DEF TypeInv, TypeOK, OneFileStep
<1>3. CASE file' = file
  BY <1>2, <1>3 DEF TypeInv, TypeOK
<1>4. CASE Write(p, fn, c)
  BY <1>1, <1>2, <1>4, WriteIsLocal DEF TypeInv, OneFileStep
<1> QED
  BY <1>3, <1>4 DEF OneFileStep

LEMMA OneFileKeeps ==
  ASSUME TypeInv, NEW p \in Procs, NEW fn, NEW c, NEW step, NEW j,
         OneFileStep(p, fn, c, step, j), MemoryOf(p)'
  PROVE  TypeInv' /\ \A q \in Procs \ {p} : CleanOf(q) => CleanOf(q)'
<1>1. started' \in 0 .. MaxCommands
  BY DEF TypeInv, TypeOK, OneFileStep
<1> QED
  BY <1>1, OneFileChanges, CommandMoves DEF OneFileStep

(* Files g differ from files f by an artifact of that kind with content c. *)
OnlyArtifact(kind, c, f, g) ==
  /\ \A k \in ImageKinds, i \in Images : k # kind => g[<<k, i>>] = f[<<k, i>>]
  /\ \A k \in DiskKinds, d \in Disks : g[<<k, d>>] = f[<<k, d>>]
  /\ g[Manifest] = f[Manifest] /\ g[Squashfs] = f[Squashfs] /\ g[Verity] = f[Verity]
  /\ \A i \in Images : g[<<kind, i>>] \in {f[<<kind, i>>], c}

LEMMA ArtifactChanges ==
  ASSUME TypeInv, NEW p \in Procs, NEW kind \in ImageKinds, NEW c, NEW step, NEW j,
         OneFileStep(p, Art(p, kind), c, step, j)
  PROVE  OnlyArtifact(kind, c, file[job[p].out], file'[job[p].out])
<1> DEFINE f == file[job[p].out]
           g == file'[job[p].out]
<1>1. /\ \A fn \in Files : fn # Art(p, kind) => g[fn] = f[fn]
      /\ g = f \/ g[Art(p, kind)] = c
  BY OneFileChanges
<1>2. \A i \in Images : <<kind, i>> \in Files
  BY DEF Files
<1> HIDE DEF f, g
<1>3. \A i \in Images : g[<<kind, i>>] \in {f[<<kind, i>>], c}
  BY <1>1, <1>2
<1>4. /\ \A k \in ImageKinds, i \in Images : k # kind => g[<<k, i>>] = f[<<k, i>>]
      /\ \A k \in DiskKinds, d \in Disks : g[<<k, d>>] = f[<<k, d>>]
      /\ g[Manifest] = f[Manifest] /\ g[Squashfs] = f[Squashfs]
      /\ g[Verity] = f[Verity]
  BY <1>1, OtherNames
<1> QED
  BY <1>3, <1>4 DEF f, g, OnlyArtifact

(* Files g and f agree on all that Agrees speaks of, and on the manifest.  *)
SameNamed(f, g) ==
  /\ \A k \in ImageKinds, i \in Images : g[<<k, i>>] = f[<<k, i>>]
  /\ \A k \in DiskKinds, d \in Disks : g[<<k, d>>] = f[<<k, d>>]
  /\ g[Manifest] = f[Manifest]

LEMMA RootFileChanges ==
  ASSUME TypeInv, NEW p \in Procs, NEW fn \in {Squashfs, Verity}, NEW c, NEW step, NEW j,
         OneFileStep(p, fn, c, step, j)
  PROVE  SameNamed(file[job[p].out], file'[job[p].out])
<1> DEFINE f == file[job[p].out]
           g == file'[job[p].out]
<1>1. \A x \in Files : x # fn => g[x] = f[x]
  BY OneFileChanges
<1> HIDE DEF f, g
<1>2. \A k \in ImageKinds, i \in Images : <<k, i>> \in Files /\ <<k, i>> # fn
  BY DEF Files, ImageKinds, Squashfs, Verity
<1>3. \A k \in DiskKinds, d \in Disks : <<k, d>> \in Files /\ <<k, d>> # fn
  BY DEF Files, DiskKinds, Squashfs, Verity
<1>4. Manifest \in Files /\ Manifest # fn
  BY SMTT(60) DEF Files, Manifest, Squashfs, Verity
<1> QED
  BY <1>1, <1>2, <1>3, <1>4 DEF SameNamed, f, g

(* Files g differ from files f by a file of disk d with content c.         *)
OnlyDisk(kind, d, c, f, g) ==
  /\ \A k \in ImageKinds, i \in Images : g[<<k, i>>] = f[<<k, i>>]
  /\ \A k \in DiskKinds, e \in Disks : k # kind \/ e # d => g[<<k, e>>] = f[<<k, e>>]
  /\ g[Manifest] = f[Manifest]
  /\ g[<<kind, d>>] \in {f[<<kind, d>>], c}

LEMMA DiskFileChanges ==
  ASSUME TypeInv, NEW p \in Procs, NEW kind \in DiskKinds, NEW d \in Disks,
         NEW c, NEW step, NEW j, OneFileStep(p, <<kind, d>>, c, step, j)
  PROVE  OnlyDisk(kind, d, c, file[job[p].out], file'[job[p].out])
<1> DEFINE f == file[job[p].out]
           g == file'[job[p].out]
<1>1. /\ \A x \in Files : x # <<kind, d>> => g[x] = f[x]
      /\ g = f \/ g[<<kind, d>>] = c
  BY OneFileChanges
<1> HIDE DEF f, g
<1>2. \A k \in ImageKinds, i \in Images : <<k, i>> \in Files /\ <<k, i>> # <<kind, d>>
  BY DEF Files, ImageKinds, DiskKinds
<1>3. \A k \in DiskKinds, e \in Disks :
        <<k, e>> \in Files /\ (k # kind \/ e # d => <<k, e>> # <<kind, d>>)
  BY DEF Files
<1>4. Manifest \in Files /\ Manifest # <<kind, d>>
  BY DEF Files, Manifest, DiskKinds
<1> QED
  BY <1>1, <1>2, <1>3, <1>4 DEF OnlyDisk, f, g

LEMMA ExtractKernelKeeps ==
  ASSUME TypeInv, NEW p \in Procs, ExtractKernel(p)
  PROVE  TypeInv' /\ \A q \in Procs : CleanOf(q) => CleanOf(q)'
<1> DEFINE tree == rootfs[job[p].dir]
<1>1. Running(p) /\ pc[p] = "kernel" /\ pc' = [pc EXCEPT ![p] = "base"]
  BY DEF ExtractKernel, Step, Running
<1>2. /\ job[p] \in Jobs /\ job[p].out \in Outputs /\ MemoryOf(p)
      /\ file[job[p].out] \in [Files -> Contents]
      /\ tree \in Trees \cup {Absent}
  BY <1>1, RunningTypes
<1>3. Art(p, "vmlinuz") \in Files /\ Torn \in Contents
  BY <1>2, ArtifactNames DEF ImageKinds, Contents
<1>4. HasKernel(tree) => tree.gen \in Gens /\ tree.gen \in Contents /\ tree.gen \in Kernels
  BY <1>2 DEF HasKernel, Bootable, Contents, Kernels
<1>5. PICK c \in Contents, k \in Kernels :
        /\ file' = file \/ Write(p, Art(p, "vmlinuz"), c)
        /\ job' = [job EXCEPT ![p].kernel = k]
        /\ c = IF k = Unavailable THEN Torn ELSE k
  BY <1>3, <1>4, SentinelAssumption DEF ExtractKernel, Kernels
<1>6. /\ rootfs' \in [WorkDirs -> Trees \cup {Absent}]
      /\ started' = started /\ faults' \in 0 .. MaxFaults
  BY SetsAssumption DEF ExtractKernel, Fault, TypeInv, TypeOK
<1> DEFINE j == [job[p] EXCEPT !.kernel = k]
<1>7. /\ j \in Jobs /\ job' = [job EXCEPT ![p] = j]
      /\ j.out = job[p].out /\ j.cfg = job[p].cfg /\ j.kernel = k
      /\ j.root = job[p].root /\ j.initrd = job[p].initrd /\ j.base = job[p].base
      /\ j.todo = job[p].todo /\ j.disks = job[p].disks
  BY <1>2, <1>5 DEF Jobs
<1> HIDE DEF j
<1>8. OneFileStep(p, Art(p, "vmlinuz"), c, "base", j)
  BY <1>1, <1>3, <1>5, <1>6, <1>7 DEF OneFileStep, Steps, Sealing
<1> DEFINE f == file[job[p].out]
           g == file'[job[p].out]
<1>9. pc'[p] = "base" /\ job'[p] = j
  BY <1>8, OneFileChanges
<1>10. OnlyArtifact("vmlinuz", c, f, g)
  <2>1. "vmlinuz" \in ImageKinds
    BY DEF ImageKinds
  <2> QED
    BY <1>8, <2>1, ArtifactChanges
<1> HIDE DEF f, g
<1>11. MemoryOf(p)'
  BY <1>1, <1>2, <1>7, <1>9, SMTT(60) DEF MemoryOf, Running, BeforeClean, Sealing, BeforeRoot,
       BeforeInitrd, DiskSteps
<1>12. ASSUME CleanOf(p)
       PROVE  CleanOf(p)'
  <2>1. f[Manifest] = Absent /\ Agrees(job[p], f)
    BY <1>1, <1>12 DEF CleanOf, Sealing, f
  <2>2. \A i \in Images : f[<<"vmlinuz", i>>] = Absent
    BY <1>1, <1>2, <2>1, SentinelAssumption DEF MemoryOf, Running, Agrees, AsRecorded
  <2>3. \A i \in Images : AsRecorded(g[<<"vmlinuz", i>>], k)
    BY <1>5, <1>10, <2>2 DEF OnlyArtifact, AsRecorded
  <2>4. Agrees(j, g)
    BY <1>7, <1>10, <2>1, <2>3, SMTT(60) DEF Agrees, ImageKinds, OnlyArtifact
  <2> QED
    BY <1>7, <1>9, <1>10, <2>1, <2>4 DEF CleanOf, OnlyArtifact, g
<1> QED
  BY <1>8, <1>11, <1>12, OneFileKeeps

LEMMA ExtractBaseInitrdKeeps ==
  ASSUME TypeInv, NEW p \in Procs, ExtractBaseInitrd(p)
  PROVE  TypeInv' /\ \A q \in Procs : CleanOf(q) => CleanOf(q)'
<1> DEFINE tree == rootfs[job[p].dir]
           base == Art(p, "initrd.base")
<1>1. Running(p) /\ pc[p] = "base" /\ pc' = [pc EXCEPT ![p] = "squashfs"]
  BY DEF ExtractBaseInitrd, Step, Running
<1>2. /\ job[p] \in Jobs /\ job[p].out \in Outputs /\ job[p].dir \in WorkDirs /\ MemoryOf(p)
      /\ file[job[p].out] \in [Files -> Contents]
      /\ tree \in Trees \cup {Absent}
  BY <1>1, RunningTypes
<1>3. base \in Files /\ Torn \in Contents
  BY <1>2, ArtifactNames DEF ImageKinds, Contents
<1> DEFINE chosen == BaseInitrd(tree.initrds)
<1>4. HasInitrd(tree) => tree \in Trees /\ chosen \in Initrds /\ chosen \in Contents
  <2> SUFFICES ASSUME HasInitrd(tree) PROVE tree \in Trees /\ chosen \in Initrds
    BY DEF Contents
  <2>1. tree \in Trees /\ tree.initrds \in SUBSET Initrds /\ Candidates(tree.initrds) # {}
    BY <1>2 DEF HasInitrd, Trees
  <2> QED
    BY <2>1, BootFacts, ZenonT(60)
<1>5. PICK c \in Contents, b \in BOOLEAN :
        /\ file' = file \/ Write(p, base, c)
        /\ job' = [job EXCEPT ![p] = [job[p] EXCEPT !.base = b]]
        /\ b => Write(p, base, c) /\ c \in Initrds
  <2>1. CASE HasInitrd(tree) /\ Write(p, base, chosen) /\ job' = [job EXCEPT ![p].base = TRUE]
    BY <2>1, <1>4
  <2>2. CASE job' = job /\ (file' = file \/ Write(p, base, Torn))
    <3>1. job[p].base = FALSE
      BY <1>1, <1>2 DEF MemoryOf, Running, Jobs
    <3>2. [job[p] EXCEPT !.base = FALSE] = job[p]
      BY <3>1, <1>2 DEF Jobs
    <3>3. job' = [job EXCEPT ![p] = [job[p] EXCEPT !.base = FALSE]]
      BY <2>2, <3>2 DEF TypeInv, TypeOK
    <3> QED
      BY <3>3, <2>2, <1>3
  <2> QED
    BY <2>1, <2>2 DEF ExtractBaseInitrd
<1>6. /\ rootfs' \in [WorkDirs -> Trees \cup {Absent}]
      /\ started' = started /\ faults' \in 0 .. MaxFaults
  <2> DEFINE left == tree.initrds \ Deleted(tree.initrds)
  <2>1. HasInitrd(tree) => [tree EXCEPT !.initrds = left] \in Trees
    BY <1>4 DEF Trees
  <2>2. \/ rootfs' = rootfs
        \/ HasInitrd(tree) /\ rootfs' = [rootfs EXCEPT ![job[p].dir] = [tree EXCEPT !.initrds = left]]
    BY DEF ExtractBaseInitrd
  <2>3. rootfs' \in [WorkDirs -> Trees \cup {Absent}]
    BY <1>2, <2>1, <2>2 DEF TypeInv, TypeOK
  <2> QED
    BY <2>3, SetsAssumption DEF ExtractBaseInitrd, Fault, TypeInv, TypeOK
<1> DEFINE j == [job[p] EXCEPT !.base = b]
<1>7. /\ j \in Jobs /\ job' = [job EXCEPT ![p] = j]
      /\ j.out = job[p].out /\ j.cfg = job[p].cfg /\ j.base = b
      /\ j.root = job[p].root /\ j.kernel = job[p].kernel /\ j.initrd = job[p].initrd
      /\ j.todo = job[p].todo /\ j.disks = job[p].disks
  BY <1>2, <1>5 DEF Jobs
<1> HIDE DEF j, base, chosen
<1> DEFINE f == file[job[p].out]
           g == file'[job[p].out]
<1>8. OneFileStep(p, base, c, "squashfs", j)
  BY <1>1, <1>3, <1>5, <1>6, <1>7 DEF OneFileStep, Steps, Sealing
<1>9. pc'[p] = "squashfs" /\ job'[p] = j
  BY <1>8, OneFileChanges
<1>10. OnlyArtifact("initrd.base", c, f, g)
  <2>1. "initrd.base" \in ImageKinds
    BY DEF ImageKinds
  <2> QED
    BY <1>8, <2>1, ArtifactChanges DEF base
<1> HIDE DEF f, g
<1>11. MemoryOf(p)'
  <2>1. b => file'[job[p].out][base] \in Initrds
    BY <1>2, <1>3, <1>5, WriteIsLocal DEF TypeInv
  <2>2. Art(p, "initrd.base")' = base
    BY <1>7, <1>9, SMTT(60) DEF Art, base
  <2> QED
    BY <1>1, <1>2, <1>7, <1>9, <2>1, <2>2 DEF MemoryOf, Running, BeforeClean, Sealing,
         BeforeRoot, BeforeInitrd, DiskSteps
<1>12. ASSUME CleanOf(p)
       PROVE  CleanOf(p)'
  <2>1. f[Manifest] = Absent /\ Agrees(job[p], f)
    BY <1>1, <1>12 DEF CleanOf, Sealing, f
  <2>2. Agrees(j, g)
    BY <1>7, <1>10, <2>1, SMTT(60) DEF Agrees, ImageKinds, OnlyArtifact
  <2> QED
    BY <1>7, <1>9, <1>10, <2>1, <2>2 DEF CleanOf, OnlyArtifact, g
<1> QED
  BY <1>8, <1>11, <1>12, OneFileKeeps

LEMMA CreateSquashfsKeeps ==
  ASSUME TypeInv, NEW p \in Procs, CreateSquashfs(p)
  PROVE  TypeInv' /\ \A q \in Procs : CleanOf(q) => CleanOf(q)'
<1> DEFINE f == file[job[p].out]
           g == file'[job[p].out]
           tree == rootfs[job[p].dir]
<1>1. Running(p) /\ pc[p] = "squashfs" /\ pc' = [pc EXCEPT ![p] = "verity"]
  BY DEF CreateSquashfs, Step, Running
<1>2. /\ job[p] \in Jobs /\ job[p].out \in Outputs /\ MemoryOf(p)
      /\ f \in [Files -> Contents] /\ tree \in Trees
  BY <1>1, RunningTypes DEF CreateSquashfs
<1>3. Squashfs \in Files /\ tree \in Contents
  BY <1>2 DEF Files, Contents
<1>4. OneFileStep(p, Squashfs, tree, "verity", job[p])
  BY <1>1, <1>2, <1>3, SetsAssumption
     DEF OneFileStep, Steps, Sealing, CreateSquashfs, TypeInv, TypeOK
<1>5. pc'[p] = "verity" /\ job'[p] = job[p]
  BY <1>4, OneFileChanges
<1>6. SameNamed(f, g)
  BY <1>4, RootFileChanges
<1>7. g[Squashfs] = tree
  BY <1>2, <1>3, WriteIsLocal DEF CreateSquashfs, TypeInv
<1> HIDE DEF f, g, tree
<1>8. MemoryOf(p)'
  <2>1. job[p].base => g[Art(p, "initrd.base")] \in Initrds
    <3>1. g[Art(p, "initrd.base")] = f[Art(p, "initrd.base")]
      BY <1>2, <1>6, ArtifactNames DEF Art, SameNamed, ImageKinds
    <3> QED
      BY <1>1, <1>2, <3>1 DEF MemoryOf, Running, BeforeRoot, BeforeInitrd, f
  <2>2. Art(p, "initrd.base")' = Art(p, "initrd.base")
    BY <1>5 DEF Art
  <2> QED
    BY <1>1, <1>2, <1>5, <1>7, <2>1, <2>2 DEF MemoryOf, Running, BeforeClean, Sealing,
         BeforeRoot, BeforeInitrd, DiskSteps, g
<1>9. ASSUME CleanOf(p)
      PROVE  CleanOf(p)'
  <2>1. f[Manifest] = Absent /\ Agrees(job[p], f)
    BY <1>1, <1>9 DEF CleanOf, Sealing, f
  <2>2. Agrees(job[p], g)
    BY <1>6, <2>1 DEF Agrees, ImageKinds, SameNamed
  <2> QED
    BY <1>5, <1>6, <2>1, <2>2 DEF CleanOf, SameNamed, g
<1> QED
  BY <1>4, <1>8, <1>9, OneFileKeeps

LEMMA CreateVerityKeeps ==
  ASSUME TypeInv, NEW p \in Procs, CreateVerity(p)
  PROVE  TypeInv' /\ \A q \in Procs : CleanOf(q) => CleanOf(q)'
<1> DEFINE f == file[job[p].out]
           g == file'[job[p].out]
           data == f[Squashfs]
<1>1. Running(p) /\ pc[p] = "verity" /\ pc' = [pc EXCEPT ![p] = "roothash"]
  BY DEF CreateVerity, Step, Running
<1>2. /\ job[p] \in Jobs /\ job[p].out \in Outputs /\ MemoryOf(p)
      /\ f \in [Files -> Contents]
  BY <1>1, RunningTypes
<1>3. Verity \in Files /\ data \in Trees /\ data \in Contents
  BY <1>1, <1>2, SMTT(60) DEF Files, Contents, MemoryOf, Running
<1> DEFINE j == [job[p] EXCEPT !.root = data]
<1>4. /\ j \in Jobs /\ job' = [job EXCEPT ![p] = j]
      /\ j.out = job[p].out /\ j.cfg = job[p].cfg /\ j.root = data /\ j.base = job[p].base
      /\ j.kernel = job[p].kernel /\ j.initrd = job[p].initrd
      /\ j.todo = job[p].todo /\ j.disks = job[p].disks
  BY <1>2, <1>3 DEF Jobs, CreateVerity
<1>5. Write(p, Verity, data)
  BY DEF CreateVerity
<1> HIDE DEF f, g, data, j
<1>6. OneFileStep(p, Verity, data, "roothash", j)
  BY <1>1, <1>2, <1>3, <1>4, <1>5, SetsAssumption
     DEF OneFileStep, Steps, Sealing, CreateVerity, TypeInv, TypeOK
<1>7. pc'[p] = "roothash" /\ job'[p] = j
  BY <1>6, OneFileChanges
<1>8. SameNamed(f, g)
  BY <1>6, RootFileChanges DEF f, g
<1>9. g[Verity] = data /\ g[Squashfs] = data
  <2>1. Squashfs # Verity /\ Squashfs \in Files
    BY DEF Squashfs, Verity, Files
  <2> QED
    BY <1>2, <1>3, <1>5, <2>1, WriteIsLocal DEF TypeInv, f, g, data
<1>10. MemoryOf(p)'
  <2>1. job[p].base => g[Art(p, "initrd.base")] \in Initrds
    <3>1. g[Art(p, "initrd.base")] = f[Art(p, "initrd.base")]
      BY <1>2, <1>8, ArtifactNames DEF Art, SameNamed, ImageKinds
    <3> QED
      BY <1>1, <1>2, <3>1 DEF MemoryOf, Running, BeforeRoot, BeforeInitrd, f
  <2>2. Art(p, "initrd.base")' = Art(p, "initrd.base")
    BY <1>4, <1>7 DEF Art
  <2> QED
    BY <1>1, <1>2, <1>3, <1>4, <1>7, <1>9, <2>1, <2>2 DEF MemoryOf, Running, BeforeClean,
         Sealing, BeforeRoot, BeforeInitrd, DiskSteps, g
<1>11. ASSUME CleanOf(p)
       PROVE  CleanOf(p)'
  <2>1. f[Manifest] = Absent /\ Agrees(job[p], f)
    BY <1>1, <1>11 DEF CleanOf, Sealing, f
  <2>2. job[p].root = Absent
    BY <1>1, <1>2 DEF MemoryOf, Running, BeforeRoot
  <2>3. Agrees(j, g)
    BY <1>4, <1>8, <2>1, <2>2 DEF Agrees, ImageKinds, SameNamed
  <2> QED
    BY <1>4, <1>7, <1>8, <2>1, <2>3 DEF CleanOf, SameNamed, g
<1> QED
  BY <1>6, <1>10, <1>11, OneFileKeeps

LEMMA WriteRoothashKeeps ==
  ASSUME TypeInv, NEW p \in Procs, WriteRoothash(p)
  PROVE  TypeInv' /\ \A q \in Procs : CleanOf(q) => CleanOf(q)'
<1> DEFINE f == file[job[p].out]
           g == file'[job[p].out]
<1>1. Running(p) /\ pc[p] = "roothash" /\ pc' = [pc EXCEPT ![p] = "raw"]
  BY DEF WriteRoothash, Step, Running
<1>2. /\ job[p] \in Jobs /\ job[p].out \in Outputs /\ MemoryOf(p)
      /\ f \in [Files -> Contents]
  BY <1>1, RunningTypes
<1>3. /\ Art(p, "roothash") \in Files /\ "roothash" \in ImageKinds
      /\ job[p].root \in Trees /\ job[p].root \in Contents
  BY <1>1, <1>2, ArtifactNames
     DEF ImageKinds, Contents, MemoryOf, Running, Sealing, BeforeRoot, BeforeClean
<1>4. OneFileStep(p, Art(p, "roothash"), job[p].root, "raw", job[p])
  BY <1>1, <1>2, <1>3, SetsAssumption
     DEF OneFileStep, Steps, Sealing, WriteRoothash, TypeInv, TypeOK
<1>5. pc'[p] = "raw" /\ job'[p] = job[p]
  BY <1>4, OneFileChanges
<1>6. OnlyArtifact("roothash", job[p].root, f, g)
  BY <1>3, <1>4, ArtifactChanges
<1> HIDE DEF f, g
<1>7. MemoryOf(p)'
  <2>1. job[p].base => g[Art(p, "initrd.base")] \in Initrds
    <3>1. g[Art(p, "initrd.base")] = f[Art(p, "initrd.base")]
      BY <1>2, <1>6, ArtifactNames DEF Art, OnlyArtifact, ImageKinds
    <3> QED
      BY <1>1, <1>2, <3>1 DEF MemoryOf, Running, BeforeRoot, BeforeInitrd, f
  <2>2. Art(p, "initrd.base")' = Art(p, "initrd.base")
    BY <1>5 DEF Art
  <2>3. g[Squashfs] = job[p].root /\ g[Verity] = job[p].root
    BY <1>1, <1>2, <1>6 DEF MemoryOf, Running, OnlyArtifact, f
  <2> QED
    BY <1>1, <1>2, <1>5, <2>1, <2>2, <2>3 DEF MemoryOf, Running, BeforeClean,
         Sealing, BeforeRoot, BeforeInitrd, DiskSteps, g
<1>8. ASSUME CleanOf(p)
      PROVE  CleanOf(p)'
  <2>1. f[Manifest] = Absent /\ Agrees(job[p], f)
    BY <1>1, <1>8 DEF CleanOf, Sealing, f
  <2>2. Agrees(job[p], g)
    BY <1>6, <2>1 DEF Agrees, ImageKinds, OnlyArtifact
  <2> QED
    BY <1>5, <1>6, <2>1, <2>2 DEF CleanOf, OnlyArtifact, g
<1> QED
  BY <1>4, <1>7, <1>8, OneFileKeeps

LEMMA AssembleGptKeeps ==
  ASSUME TypeInv, NEW p \in Procs, AssembleGpt(p)
  PROVE  TypeInv' /\ \A q \in Procs : CleanOf(q) => CleanOf(q)'
<1> DEFINE f == file[job[p].out]
           g == file'[job[p].out]
           raw == [data |-> f[Squashfs], hashes |-> f[Verity]]
<1>1. Running(p) /\ pc[p] = "raw" /\ pc' = [pc EXCEPT ![p] = "initrd"]
  BY DEF AssembleGpt, Step, Running
<1>2. /\ job[p] \in Jobs /\ job[p].out \in Outputs /\ MemoryOf(p)
      /\ f \in [Files -> Contents]
  BY <1>1, RunningTypes, SMTT(60)
<1>3. /\ Art(p, "raw") \in Files /\ "raw" \in ImageKinds
      /\ job[p].root \in Trees /\ raw = RawOf(job[p].root) /\ raw \in Contents
  BY <1>1, <1>2, ArtifactNames
     DEF ImageKinds, Contents, RawImages, RawOf, MemoryOf, Running, Sealing, BeforeRoot, BeforeClean
<1>4. OneFileStep(p, Art(p, "raw"), raw, "initrd", job[p])
  BY <1>1, <1>2, <1>3, SetsAssumption
     DEF OneFileStep, Steps, Sealing, AssembleGpt, TypeInv, TypeOK
<1>5. pc'[p] = "initrd" /\ job'[p] = job[p]
  BY <1>4, OneFileChanges
<1>6. OnlyArtifact("raw", raw, f, g)
  BY <1>3, <1>4, ArtifactChanges
<1> HIDE DEF f, g, raw
<1>7. MemoryOf(p)'
  <2>1. job[p].base => g[Art(p, "initrd.base")] \in Initrds
    <3>1. g[Art(p, "initrd.base")] = f[Art(p, "initrd.base")]
      BY <1>2, <1>6, ArtifactNames DEF Art, OnlyArtifact, ImageKinds
    <3> QED
      BY <1>1, <1>2, <3>1 DEF MemoryOf, Running, BeforeRoot, BeforeInitrd, f
  <2>2. Art(p, "initrd.base")' = Art(p, "initrd.base")
    BY <1>5 DEF Art
  <2> QED
    BY <1>1, <1>2, <1>5, <2>1, <2>2 DEF MemoryOf, Running, BeforeClean,
         Sealing, BeforeRoot, BeforeInitrd, DiskSteps, g
<1>8. ASSUME CleanOf(p)
      PROVE  CleanOf(p)'
  <2>1. f[Manifest] = Absent /\ Agrees(job[p], f)
    BY <1>1, <1>8 DEF CleanOf, Sealing, f
  <2>2. Agrees(job[p], g)
    BY <1>3, <1>6, <2>1, TreeAssumption DEF Agrees, ImageKinds, OnlyArtifact
  <2> QED
    BY <1>5, <1>6, <2>1, <2>2 DEF CleanOf, OnlyArtifact, g
<1> QED
  BY <1>4, <1>7, <1>8, OneFileKeeps

LEMMA BuildInitrdKeeps ==
  ASSUME TypeInv, NEW p \in Procs, BuildInitrd(p)
  PROVE  TypeInv' /\ \A q \in Procs : CleanOf(q) => CleanOf(q)'
<1> DEFINE f == file[job[p].out]
           g == file'[job[p].out]
           base == f[Art(p, "initrd.base")]
<1>1. PICK step \in {"disk", "manifest"} : pc' = [pc EXCEPT ![p] = step]
  BY DEF BuildInitrd, Step
<1>2. Running(p) /\ pc[p] = "initrd" /\ step \in Steps
  BY DEF BuildInitrd, Step, Running, Steps, Sealing
<1>3. /\ job[p] \in Jobs /\ job[p].out \in Outputs /\ MemoryOf(p)
      /\ f \in [Files -> Contents]
  BY <1>2, RunningTypes
<1>4. /\ Art(p, "initrd") \in Files /\ Art(p, "initrd.base") \in Files
      /\ Art(p, "initrd") # Art(p, "initrd.base")
      /\ "initrd" \in ImageKinds /\ Absent \in Contents /\ Torn \in Contents
  BY <1>3, ArtifactNames DEF ImageKinds, Contents, Art
<1>5. job[p].base => base \in Initrds /\ base \in Contents
  BY <1>2, <1>3 DEF MemoryOf, Running, BeforeRoot, BeforeInitrd, Contents
<1>6. /\ rootfs' \in [WorkDirs -> Trees \cup {Absent}]
      /\ started' = started /\ faults' \in 0 .. MaxFaults
  BY SetsAssumption, SMTT(60) DEF BuildInitrd, Fault, TypeInv, TypeOK
<1>7. PICK k \in Ramdisks :
        /\ job' = [job EXCEPT ![p].initrd = k]
        /\ \/ k = Unavailable /\ (file' = file \/ Write(p, Art(p, "initrd"), Torn))
           \/ /\ k = base /\ job[p].base
              /\ file' = [file EXCEPT ![job[p].out][Art(p, "initrd")] = base,
                                      ![job[p].out][Art(p, "initrd.base")] = Absent]
  BY <1>5 DEF BuildInitrd, Ramdisks
<1> DEFINE j == [job[p] EXCEPT !.initrd = k]
<1>8. /\ j \in Jobs /\ job' = [job EXCEPT ![p] = j]
      /\ j.out = job[p].out /\ j.cfg = job[p].cfg /\ j.initrd = k
      /\ j.root = job[p].root /\ j.kernel = job[p].kernel
      /\ j.todo = job[p].todo /\ j.disks = job[p].disks
  BY <1>3, <1>7, SMTT(60) DEF Jobs
<1>9. /\ file' \in [Outputs -> [Files -> Contents]]
      /\ \A o \in Outputs : o # job[p].out => file'[o] = file[o]
      /\ \A fn \in Files : fn \notin {Art(p, "initrd"), Art(p, "initrd.base")} => g[fn] = f[fn]
      /\ IF k = Unavailable THEN g[Art(p, "initrd")] \in {Torn, f[Art(p, "initrd")]}
                            ELSE g[Art(p, "initrd")] = k
  <2>1. CASE k = Unavailable /\ file' = file
    BY <2>1 DEF TypeInv, TypeOK
  <2>2. CASE k = Unavailable /\ Write(p, Art(p, "initrd"), Torn)
    BY <1>3, <1>4, <2>2, WriteIsLocal, SMTT(60) DEF TypeInv
  <2>3. CASE /\ k = base /\ job[p].base
             /\ file' = [file EXCEPT ![job[p].out][Art(p, "initrd")] = base,
                                     ![job[p].out][Art(p, "initrd.base")] = Absent]
    <3>1. file' = [file EXCEPT ![job[p].out] =
                     [f EXCEPT ![Art(p, "initrd")] = base, ![Art(p, "initrd.base")] = Absent]]
      BY <1>3, <2>3 DEF TypeInv, TypeOK
    <3>2. [f EXCEPT ![Art(p, "initrd")] = base, ![Art(p, "initrd.base")] = Absent]
            \in [Files -> Contents]
      BY <1>3, <1>4, <1>5, <2>3
    <3>3. base # Unavailable
      BY <1>5, <2>3, SentinelAssumption
    <3> QED
      BY <1>3, <1>4, <2>3, <3>1, <3>2, <3>3, SMTT(60) DEF TypeInv, TypeOK
  <2> QED
    BY <1>7, <2>1, <2>2, <2>3
<1> HIDE DEF f, g, base, j
<1>10. pc'[p] = step /\ job'[p] = j
  BY <1>1, <1>8 DEF TypeInv, TypeOK
<1>11. MemoryOf(p)'
  BY <1>2, <1>3, <1>8, <1>10 DEF MemoryOf, Running, BeforeClean, Sealing, BeforeRoot,
       BeforeInitrd, DiskSteps
<1>12. TypeInv' /\ \A q \in Procs \ {p} : CleanOf(q) => CleanOf(q)'
  <2>1. started' \in 0 .. MaxCommands
    BY <1>6 DEF TypeInv, TypeOK
  <2> QED
    BY <1>1, <1>2, <1>6, <1>8, <1>9, <1>11, <2>1, CommandMoves
<1>13. ASSUME CleanOf(p)
       PROVE  CleanOf(p)'
  <2>1. f[Manifest] = Absent /\ Agrees(job[p], f)
    BY <1>2, <1>13 DEF CleanOf, Sealing, f
  <2>2. job[p].initrd = Absent
    BY <1>2, <1>3 DEF MemoryOf, Running, BeforeInitrd, BeforeRoot
  <2>3. \A i \in Images : AsRecorded(g[<<"initrd", i>>], k)
    <3>1. \A i \in Images : f[<<"initrd", i>>] = Absent
      BY <2>1, <2>2, SentinelAssumption DEF Agrees, AsRecorded
    <3>2. \A i \in Images : <<"initrd", i>> \in Files
                             /\ <<"initrd", i>> # Art(p, "initrd.base")
      BY DEF Files, ImageKinds, Art
    <3> QED
      BY <1>9, <3>1, <3>2 DEF AsRecorded
  <2>4. /\ \A kind \in {"vmlinuz", "roothash", "raw"}, i \in Images :
             g[<<kind, i>>] = f[<<kind, i>>]
        /\ \A kind \in DiskKinds, d \in Disks : g[<<kind, d>>] = f[<<kind, d>>]
        /\ g[Manifest] = f[Manifest]
    <3>1. \A kind \in {"vmlinuz", "roothash", "raw"}, i \in Images :
            /\ <<kind, i>> \in Files
            /\ <<kind, i>> \notin {Art(p, "initrd"), Art(p, "initrd.base")}
      BY DEF Files, ImageKinds, Art
    <3>2. \A kind \in DiskKinds, d \in Disks :
            /\ <<kind, d>> \in Files
            /\ <<kind, d>> \notin {Art(p, "initrd"), Art(p, "initrd.base")}
      BY DEF Files, DiskKinds, Art
    <3>3. Manifest \in Files /\ Manifest \notin {Art(p, "initrd"), Art(p, "initrd.base")}
      BY DEF Files, Manifest, Art
    <3> QED
      BY <1>9, <3>1, <3>2, <3>3
  <2>5. Agrees(j, g)
    BY <1>8, <2>1, <2>3, <2>4 DEF Agrees
  <2> QED
    BY <1>8, <1>10, <2>1, <2>4, <2>5 DEF CleanOf, g
<1> QED
  BY <1>12, <1>13

(* SkipDisk and DisksDone, which change nothing but the memory.            *)
LEMMA NoDiskKeeps ==
  ASSUME TypeInv, NEW p \in Procs, SkipDisk(p) \/ DisksDone(p)
  PROVE  TypeInv' /\ \A q \in Procs : CleanOf(q) => CleanOf(q)'
<1>1. Running(p) /\ pc[p] = "disk"
  BY DEF SkipDisk, DisksDone, Step, Running
<1>2. PICK step \in {"disk", "manifest"} : pc' = [pc EXCEPT ![p] = step]
  BY DEF SkipDisk, DisksDone, Step
<1>3. job[p] \in Jobs /\ job[p].out \in Outputs /\ MemoryOf(p)
  BY <1>1, RunningTypes
<1>4. PICK todo \in SUBSET job[p].todo : job' = [job EXCEPT ![p] = [job[p] EXCEPT !.todo = todo]]
  <2>1. CASE SkipDisk(p)
    <3>1. PICK d \in job[p].todo : job' = [job EXCEPT ![p].todo = @ \ {d}]
      BY <2>1 DEF SkipDisk
    <3> QED
      BY <3>1
  <2>2. CASE DisksDone(p)
    <3>1. [job[p] EXCEPT !.todo = job[p].todo] = job[p]
      BY <1>3 DEF Jobs
    <3>2. job' = [job EXCEPT ![p] = [job[p] EXCEPT !.todo = job[p].todo]]
      BY <2>2, <3>1 DEF DisksDone, TypeInv, TypeOK
    <3> QED
      BY <3>2
  <2> QED
    BY <2>1, <2>2
<1> DEFINE j == [job[p] EXCEPT !.todo = todo]
<1>5. /\ j \in Jobs /\ job' = [job EXCEPT ![p] = j]
      /\ j.out = job[p].out /\ j.root = job[p].root /\ j.kernel = job[p].kernel
      /\ j.initrd = job[p].initrd /\ j.todo = todo /\ j.disks = job[p].disks
  BY <1>3, <1>4 DEF Jobs
<1>6. /\ file' = file /\ started' = started /\ faults' \in 0 .. MaxFaults
      /\ rootfs' \in [WorkDirs -> Trees \cup {Absent}]
  BY DEF SkipDisk, DisksDone, TypeInv, TypeOK
<1> HIDE DEF j
<1>7. OneFileStep(p, Squashfs, Absent, step, j)
  BY <1>1, <1>2, <1>5, <1>6 DEF OneFileStep, Steps, Sealing, Files, Contents
<1>8. pc'[p] = step /\ job'[p] = j
  BY <1>7, OneFileChanges
<1>9. MemoryOf(p)'
  BY <1>1, <1>3, <1>5, <1>8, SMTT(60) DEF MemoryOf, Running, BeforeClean, Sealing, BeforeRoot,
       BeforeInitrd, DiskSteps
<1>10. CleanOf(p) => CleanOf(p)'
  BY <1>1, <1>5, <1>6, <1>8 DEF CleanOf, Sealing, Agrees
<1> QED
  BY <1>7, <1>9, <1>10, OneFileKeeps

LEMMA CreateDiskKeeps ==
  ASSUME TypeInv, NEW p \in Procs, CreateDisk(p)
  PROVE  TypeInv' /\ \A q \in Procs : CleanOf(q) => CleanOf(q)'
<1> DEFINE f == file[job[p].out]
           g == file'[job[p].out]
<1>1. Running(p) /\ pc[p] = "disk" /\ pc' = [pc EXCEPT ![p] = "disk.roothash"]
  BY DEF CreateDisk, Step, Running
<1>2. /\ job[p] \in Jobs /\ job[p].out \in Outputs /\ MemoryOf(p)
      /\ f \in [Files -> Contents]
  BY <1>1, RunningTypes
<1>3. PICK d \in job[p].todo, v \in Versions :
        /\ Write(p, <<"img", d>>, v)
        /\ job' = [job EXCEPT ![p].todo = @ \ {d}, ![p].cur = d, ![p].disks[d] = v]
  BY DEF CreateDisk
<1>4. d \in Disks /\ "img" \in DiskKinds /\ <<"img", d>> \in Files /\ v \in Contents
  BY <1>2 DEF Jobs, DiskKinds, Files, Contents
<1> DEFINE disks == [job[p].disks EXCEPT ![d] = v]
           j == [job[p] EXCEPT !.todo = job[p].todo \ {d}, !.cur = d, !.disks = disks]
<1>5. /\ j \in Jobs /\ job' = [job EXCEPT ![p] = j]
      /\ j.out = job[p].out /\ j.root = job[p].root /\ j.kernel = job[p].kernel
      /\ j.initrd = job[p].initrd /\ j.todo = job[p].todo \ {d} /\ j.cur = d
      /\ j.disks = disks
  <2>1. disks \in DiskSets
    BY <1>2, <1>4 DEF DiskSets, Jobs
  <2>2. job' = [job EXCEPT ![p] = j]
    BY <1>2, <1>3 DEF TypeInv, TypeOK, Jobs
  <2> QED
    BY <1>2, <1>4, <2>1, <2>2 DEF Jobs
<1>6. disks[d] = v /\ \A e \in Disks : e # d => disks[e] = job[p].disks[e]
  BY <1>2, <1>4 DEF Jobs, DiskSets
<1> HIDE DEF f, g, disks, j
<1>7. OneFileStep(p, <<"img", d>>, v, "disk.roothash", j)
  BY <1>1, <1>3, <1>4, <1>5, SetsAssumption
     DEF OneFileStep, Steps, Sealing, CreateDisk, TypeInv, TypeOK
<1>8. pc'[p] = "disk.roothash" /\ job'[p] = j
  BY <1>7, OneFileChanges
<1>9. OnlyDisk("img", d, v, f, g)
  BY <1>4, <1>7, DiskFileChanges DEF f, g
<1>10. MemoryOf(p)'
  <2>1. \A e \in j.todo : j.disks[e] = Absent
    BY <1>1, <1>2, <1>5, <1>6 DEF MemoryOf, Running, Jobs
  <2> QED
    BY <1>1, <1>2, <1>4, <1>5, <1>8, <2>1 DEF MemoryOf, Running, BeforeClean, Sealing,
         BeforeRoot, BeforeInitrd, DiskSteps
<1>11. ASSUME CleanOf(p)
       PROVE  CleanOf(p)'
  <2>1. f[Manifest] = Absent /\ Agrees(job[p], f)
    BY <1>1, <1>11 DEF CleanOf, Sealing, f
  <2>2. job[p].disks[d] = Absent
    BY <1>1, <1>2 DEF MemoryOf, Running
  <2>3. ASSUME NEW k \in DiskKinds, NEW e \in Disks
        PROVE  g[<<k, e>>] \in {Absent, j.disks[e]}
    <3>1. f[<<k, e>>] \in {Absent, job[p].disks[e]}
      BY <2>1 DEF Agrees
    <3>2. CASE e # d
      BY <1>5, <1>6, <1>9, <3>1, <3>2 DEF OnlyDisk
    <3>3. CASE e = d
      <4>1. g[<<k, e>>] \in {f[<<k, e>>], v}
        BY <1>9, <3>3 DEF OnlyDisk
      <4> QED
        BY <1>5, <1>6, <2>2, <3>1, <3>3, <4>1
    <3> QED
      BY <3>2, <3>3
  <2>4. Agrees(j, g)
    BY <1>5, <1>9, <2>1, <2>3, SMTT(60) DEF Agrees, OnlyDisk, ImageKinds
  <2> QED
    BY <1>5, <1>8, <1>9, <2>1, <2>4 DEF CleanOf, OnlyDisk, g
<1> QED
  BY <1>7, <1>10, <1>11, OneFileKeeps

(* WriteDiskRoothash and WriteDiskHashoffset.                              *)
LEMMA WriteDiskKeeps ==
  ASSUME TypeInv, NEW p \in Procs, WriteDiskRoothash(p) \/ WriteDiskHashoffset(p)
  PROVE  TypeInv' /\ \A q \in Procs : CleanOf(q) => CleanOf(q)'
<1> DEFINE f == file[job[p].out]
           g == file'[job[p].out]
           d == job[p].cur
           c == job[p].disks[d]
<1>1. PICK kind \in {"disk.roothash", "disk.hashoffset"},
           step \in {"disk.hashoffset", "disk"} :
        Step(p, kind, step) /\ Write(p, <<kind, d>>, c)
  BY DEF WriteDiskRoothash, WriteDiskHashoffset
<1>2. Running(p) /\ pc[p] = kind /\ pc' = [pc EXCEPT ![p] = step]
  BY <1>1 DEF Step, Running
<1>3. /\ job[p] \in Jobs /\ job[p].out \in Outputs /\ MemoryOf(p)
      /\ f \in [Files -> Contents]
  BY <1>2, RunningTypes
<1>4. d \in Disks /\ kind \in DiskKinds /\ <<kind, d>> \in Files /\ c \in Contents
  <2>1. d \in Disks
    BY <1>2, <1>3 DEF MemoryOf, Running
  <2>2. c \in Versions \cup {Absent}
    BY <1>3, <2>1 DEF Jobs, DiskSets
  <2> QED
    BY <2>1, <2>2 DEF DiskKinds, Files, Contents
<1>5. /\ rootfs' \in [WorkDirs -> Trees \cup {Absent}]
      /\ job' = job /\ started' = started /\ faults' \in 0 .. MaxFaults
  BY DEF WriteDiskRoothash, WriteDiskHashoffset, TypeInv, TypeOK
<1>6. job' = [job EXCEPT ![p] = job[p]]
  BY <1>5 DEF TypeInv, TypeOK
<1> HIDE DEF f, g, c
<1>7. OneFileStep(p, <<kind, d>>, c, step, job[p])
  BY <1>1, <1>2, <1>3, <1>4, <1>5, <1>6 DEF OneFileStep, Steps, Sealing
<1>8. pc'[p] = step /\ job'[p] = job[p]
  BY <1>7, OneFileChanges
<1>9. OnlyDisk(kind, d, c, f, g)
  BY <1>4, <1>7, DiskFileChanges DEF f, g
<1>10. MemoryOf(p)'
  BY <1>2, <1>3, <1>4, <1>8 DEF MemoryOf, Running, BeforeClean, Sealing, BeforeRoot,
       BeforeInitrd, DiskSteps
<1>11. ASSUME CleanOf(p)
       PROVE  CleanOf(p)'
  <2>1. f[Manifest] = Absent /\ Agrees(job[p], f)
    BY <1>2, <1>11 DEF CleanOf, Sealing, f
  <2>2. Agrees(job[p], g)
    BY <1>4, <1>9, <2>1 DEF Agrees, OnlyDisk, ImageKinds, c
  <2> QED
    BY <1>8, <1>9, <2>1, <2>2 DEF CleanOf, OnlyDisk, g
<1> QED
  BY <1>7, <1>10, <1>11, OneFileKeeps

LEMMA WriteManifestKeeps ==
  ASSUME TypeInv, NEW p \in Procs, WriteManifest(p)
  PROVE  TypeInv' /\ \A q \in Procs : CleanOf(q) => CleanOf(q)'
<1> DEFINE m == BuildManifest(job[p])
<1>1. Running(p) /\ pc[p] = "manifest" /\ pc' = [pc EXCEPT ![p] = "done"]
  BY DEF WriteManifest, Step, Running
<1>2. job[p] \in Jobs /\ job[p].out \in Outputs /\ MemoryOf(p) /\ job[p].cfg \in ConfigType
  BY <1>1, RunningTypes
<1>3. /\ job[p].root \in Trees /\ job[p].kernel \in Kernels /\ job[p].initrd \in Ramdisks
      /\ job[p].disks \in DiskSets
  BY <1>1, <1>2 DEF MemoryOf, Running, Sealing, BeforeRoot, BeforeClean, DiskSteps, Jobs
<1>4. Digest(job[p].cfg, job[p].kernel, job[p].initrd, Cmdline(job[p].root, job[p].disks))
        \in Digests
  <2>1. Cmdline(job[p].root, job[p].disks) \in Cmdlines
    BY <1>3 DEF Cmdline, Cmdlines
  <2> QED
    BY <1>3, <2>1 DEF Digest, Digests, Measured
<1>5. m \in Contents /\ Manifest \in Files
  BY <1>3, <1>4 DEF BuildManifest, Manifests, Contents, Files
<1>6. OneFileStep(p, Manifest, m, "done", job[p])
  BY <1>1, <1>2, <1>5, SetsAssumption
     DEF OneFileStep, Steps, WriteManifest, TypeInv, TypeOK
<1>7. pc'[p] = "done" /\ job'[p] = job[p]
  BY <1>6, OneFileChanges
<1>8. MemoryOf(p)'
  BY <1>1, <1>2, <1>7 DEF MemoryOf, Running, BeforeClean, Sealing, BeforeRoot,
       BeforeInitrd, DiskSteps
<1>9. CleanOf(p)'
  BY <1>7 DEF CleanOf, Sealing
<1> QED
  BY <1>6, <1>8, <1>9, OneFileKeeps

(* A command that ends, in success or not, gives up its memory.            *)
LEMMA EndKeeps ==
  ASSUME TypeInv, NEW p \in Procs, Running(p),
         pc' = [pc EXCEPT ![p] = "idle"], job' = [job EXCEPT ![p] = Absent],
         rootfs' \in [WorkDirs -> Trees \cup {Absent}],
         file' \in [Outputs -> [Files -> Contents]],
         started' = started, faults' \in 0 .. MaxFaults,
         \A o \in Outputs : o # job[p].out => file'[o] = file[o]
  PROVE  TypeInv' /\ \A q \in Procs : CleanOf(q) => CleanOf(q)'
<1>1. /\ pc'[p] = "idle"
      /\ \A q \in Procs \ {p} : pc'[q] = pc[q] /\ job'[q] = job[q]
  BY DEF TypeInv, TypeOK
<1>2. TypeOK'
  BY <1>1 DEF TypeInv, TypeOK
<1>3. OwnOutputs'
  BY <1>1 DEF TypeInv, OwnOutputs, Running
<1>4. MemoryOf(p)' /\ CleanOf(p)'
  BY <1>1 DEF MemoryOf, CleanOf, Running, Sealing
<1>5. \A q \in Procs \ {p} : MemoryOf(q)' /\ (CleanOf(q) => CleanOf(q)')
  BY <1>1, OthersKeep
<1> QED
  BY <1>2, <1>3, <1>4, <1>5 DEF TypeInv, MemoryFollowsSteps

LEMMA FinishKeeps ==
  ASSUME TypeInv, NEW p \in Procs, Finish(p) \/ Bail(p)
  PROVE  TypeInv' /\ \A q \in Procs : CleanOf(q) => CleanOf(q)'
<1>1. Running(p) /\ pc' = [pc EXCEPT ![p] = "idle"] /\ job' = [job EXCEPT ![p] = Absent]
  BY DEF Finish, Bail, Step, End, Running
<1>2. rootfs' \in [WorkDirs -> Trees \cup {Absent}]
  BY DEF Finish, Bail, TypeInv, TypeOK
<1>3. file' = file /\ started' = started /\ faults' \in 0 .. MaxFaults
  BY DEF Finish, Bail, End, TypeInv, TypeOK
<1> QED
  BY <1>1, <1>2, <1>3, EndKeeps DEF TypeInv, TypeOK

(* What an abort may do to the files.                                      *)
LEMMA AbortedFiles ==
  ASSUME TypeInv, NEW p \in Procs, Abort(p)
  PROVE  LET f == file[job[p].out]
             g == file'[job[p].out]
         IN  /\ file' \in [Outputs -> [Files -> Contents]]
             /\ \A o \in Outputs : o # job[p].out => file'[o] = file[o]
             /\ pc[p] \notin Sealing => \A fn \in Files : g[fn] \in {Absent, f[fn]}
             /\ pc[p] \in Sealing => \A fn \in Files : g[fn] \in {Torn, f[fn]}
<1> DEFINE f == file[job[p].out]
<1>1. Running(p) /\ job[p].out \in Outputs /\ f \in [Files -> Contents]
  BY RunningTypes DEF Abort
<1>2. CASE pc[p] = "clean"
  <2>1. PICK gone \in SUBSET {fn \in Cleaned : f[fn] # Absent} :
          file' = [file EXCEPT ![job[p].out] =
                     [fn \in Files |-> IF fn \in gone THEN Absent ELSE f[fn]]]
    BY <1>1, <1>2 DEF Abort
  <2>2. [fn \in Files |-> IF fn \in gone THEN Absent ELSE f[fn]] \in [Files -> Contents]
    BY <1>1 DEF Contents
  <2> QED
    BY <1>1, <1>2, <2>1, <2>2 DEF TypeInv, TypeOK, Sealing
<1>3. CASE pc[p] # "clean"
  <2>1. PICK torn \in SUBSET Torable(p) :
          file' = [file EXCEPT ![job[p].out] =
                     [fn \in Files |-> IF fn \in torn THEN Torn ELSE f[fn]]]
    BY <1>1, <1>3 DEF Abort
  <2>2. [fn \in Files |-> IF fn \in torn THEN Torn ELSE f[fn]] \in [Files -> Contents]
    BY <1>1 DEF Contents
  <2>3. pc[p] \notin Sealing => torn = {}
    BY DEF Torable, Sealing
  <2> QED
    BY <1>1, <2>1, <2>2, <2>3 DEF TypeInv, TypeOK
<1> QED
  BY <1>2, <1>3

LEMMA AbortKeeps ==
  ASSUME TypeInv, NEW p \in Procs, Abort(p)
  PROVE  TypeInv' /\ \A q \in Procs : CleanOf(q) => CleanOf(q)'
<1> DEFINE tree == rootfs[job[p].dir]
<1>1. /\ Running(p) /\ pc' = [pc EXCEPT ![p] = "idle"] /\ job' = [job EXCEPT ![p] = Absent]
      /\ started' = started /\ faults' \in 0 .. MaxFaults
  BY SetsAssumption DEF Abort, End, Fault, TypeInv, TypeOK
<1>2. job[p].dir \in WorkDirs /\ tree \in Trees \cup {Absent}
  BY <1>1, RunningTypes
<1>3. Leftovers(p) \subseteq Trees \cup {Absent}
  <2> DEFINE old == IF tree = Absent THEN {} ELSE tree.initrds
  <2>1. tree # Absent => \A gone : [tree EXCEPT !.initrds = @ \ gone] \in Trees
    BY <1>2 DEF Trees
  <2>2. EmptyTree \in Trees
    BY DEF EmptyTree, Trees
  <2>3. ASSUME NEW g \in Gens, NEW new \in InitrdSets[g], NEW some \in SUBSET new
        PROVE  [gen |-> g, whole |-> FALSE, hardened |-> FALSE,
                initrds |-> Over(old, some)] \in Trees
    <3>1. old \in SUBSET Initrds /\ some \in SUBSET Initrds
      BY <1>2, BootFacts DEF Trees
    <3>2. Over(old, some) \subseteq Initrds
      BY <3>1, BootFacts
    <3> QED
      BY <3>2 DEF Trees
  <2> QED
    BY <1>2, <2>1, <2>2, <2>3 DEF Leftovers
<1>4. rootfs' \in [WorkDirs -> Trees \cup {Absent}]
  BY <1>2, <1>3 DEF Abort, TypeInv, TypeOK
<1>5. /\ file' \in [Outputs -> [Files -> Contents]]
      /\ \A o \in Outputs : o # job[p].out => file'[o] = file[o]
  BY AbortedFiles
<1> QED
  BY <1>1, <1>4, <1>5, EndKeeps
-----------------------------------------------------------------------------
LEMMA StartsKeep ==
  ASSUME TypeInv, NEW p \in Procs, StartBuild(p) \/ StartSeal(p) \/ StartExtract(p)
  PROVE  TypeInv' /\ \A q \in Procs : CleanOf(q) => CleanOf(q)'
<1>1. CASE StartBuild(p)
  <2>1. PICK c \in Configs, o \in Outputs,
             step \in {"wipe"} \cup (IF AllowSkip THEN {"reuse"} ELSE {}) :
          Start(p, step, NewJob("build", c, o, WorkDir(c.image, o), step = "reuse"))
    BY <1>1 DEF StartBuild
  <2>2. WorkDir(c.image, o) \in WorkDirs /\ step \in BeforeClean /\ "build" \in Commands
        /\ (step = "reuse") \in BOOLEAN
    BY <1>1, SetsAssumption DEF WorkDir, WorkDirs, ConfigType, BeforeClean, StartBuild
  <2> QED
    BY <2>1, <2>2, StartKeeps
<1>2. CASE StartSeal(p)
  BY <1>2, StartKeeps DEF StartSeal, BeforeClean
<1>3. CASE StartExtract(p)
  <2>1. <<"extract", ExtractDir>> \in WorkDirs /\ "wipe" \in BeforeClean
    BY DEF WorkDirs, BeforeClean
  <2> QED
    BY <1>3, <2>1, StartKeeps DEF StartExtract
<1> QED
  BY <1>1, <1>2, <1>3

LEMMA ProceedKeeps ==
  ASSUME TypeInv, NEW p \in Procs, Proceed(p)
  PROVE  /\ TypeInv'
         /\ \A q \in Procs \ {p} : CleanOf(q) => CleanOf(q)'
         /\ job[p].cmd # "seal" => (CleanOf(p) => CleanOf(p)')
<1>1. CASE ReuseRootfs(p) \/ WipeRootfs(p) \/ ExtractRootfs(p) \/ ApplyConfig(p)
  BY <1>1, RootfsSteps
<1>2. CASE CleanOutput(p)
  BY <1>2, CleanOutputKeeps
<1>3. CASE ExtractKernel(p) \/ ExtractBaseInitrd(p)
  BY <1>3, ExtractKernelKeeps, ExtractBaseInitrdKeeps
<1>4. CASE CreateSquashfs(p) \/ CreateVerity(p) \/ WriteRoothash(p) \/ AssembleGpt(p)
  BY <1>4, CreateSquashfsKeeps, CreateVerityKeeps, WriteRoothashKeeps, AssembleGptKeeps
<1>5. CASE BuildInitrd(p)
  BY <1>5, BuildInitrdKeeps
<1>6. CASE SkipDisk(p) \/ DisksDone(p)
  BY <1>6, NoDiskKeeps
<1>7. CASE CreateDisk(p)
  BY <1>7, CreateDiskKeeps
<1>8. CASE WriteDiskRoothash(p) \/ WriteDiskHashoffset(p)
  BY <1>8, WriteDiskKeeps, SMTT(60)
<1>9. CASE WriteManifest(p)
  BY <1>9, WriteManifestKeeps
<1>10. CASE Finish(p) \/ Bail(p)
  BY <1>10, FinishKeeps
<1> QED
  BY <1>1, <1>2, <1>3, <1>4, <1>5, <1>6, <1>7, <1>8, <1>9, <1>10 DEF Proceed

(* Each step is that of a command that runs.                               *)
LEMMA MovingRuns ==
  ASSUME NEW p \in Procs, Proceed(p) \/ Abort(p)
  PROVE  Running(p)
BY DEF Proceed, ReuseRootfs, WipeRootfs, ExtractRootfs, ApplyConfig, CleanOutput,
       ExtractKernel, ExtractBaseInitrd, CreateSquashfs, CreateVerity, WriteRoothash,
       AssembleGpt, BuildInitrd, SkipDisk, CreateDisk, WriteDiskRoothash,
       WriteDiskHashoffset, DisksDone, WriteManifest, Finish, Bail, Abort, Step, Running

LEMMA InitHolds == Init => TypeInv /\ SealingStartsClean
<1> SUFFICES ASSUME Init
             PROVE  TypeInv /\ SealingStartsClean
  OBVIOUS
<1>1. TypeOK
  BY SetsAssumption DEF Init, TypeOK, Contents
<1>2. OwnOutputs /\ MemoryFollowsSteps /\ SealingStartsClean
  BY DEF Init, OwnOutputs, MemoryFollowsSteps, MemoryOf, SealingStartsClean, CleanOf,
         Running, Sealing
<1> QED
  BY <1>1, <1>2 DEF TypeInv

LEMMA NextKeeps ==
  ASSUME TypeInv, [Next]_vars
  PROVE  TypeInv' /\ ("seal" \notin Commands /\ SealingStartsClean => SealingStartsClean')
<1>1. CASE UNCHANGED vars
  <2>1. TypeInv'
    BY <1>1, ZenonT(60)
    DEF vars, TypeInv, TypeOK, OwnOutputs, MemoryFollowsSteps, MemoryOf, Running, Art
  <2>2. SealingStartsClean => SealingStartsClean'
    BY <1>1 DEF vars, SealingStartsClean, CleanOf, Agrees
  <2> QED
    BY <2>1, <2>2
<1>2. CASE Next
  <2>1. PICK p \in Procs : \/ StartBuild(p) \/ StartSeal(p) \/ StartExtract(p)
                           \/ Proceed(p)
                           \/ Abort(p)
    BY <1>2 DEF Next
  <2>2. CASE StartBuild(p) \/ StartSeal(p) \/ StartExtract(p) \/ Abort(p)
    <3>1. TypeInv' /\ \A q \in Procs : CleanOf(q) => CleanOf(q)'
      BY <2>2, StartsKeep, AbortKeeps
    <3> QED
      BY <3>1 DEF SealingStartsClean
  <2>3. CASE Proceed(p)
    <3>1. job[p].cmd \in Commands
      BY <2>3, MovingRuns, RunningTypes DEF Jobs
    <3>2. /\ TypeInv'
          /\ \A q \in Procs \ {p} : CleanOf(q) => CleanOf(q)'
          /\ job[p].cmd # "seal" => (CleanOf(p) => CleanOf(p)')
      BY <2>3, ProceedKeeps
    <3> QED
      BY <3>1, <3>2 DEF SealingStartsClean
  <2> QED
    BY <2>1, <2>2, <2>3
<1> QED
  BY <1>1, <1>2

(* The variables keep their types: in any number of commands, crashes and  *)
(* retries, each step finds the files and the memory it needs.             *)
THEOREM TypeCorrect == Spec => []TypeOK
<1>1. Init => TypeInv
  BY InitHolds
<1>2. TypeInv /\ [Next]_vars => TypeInv'
  BY NextKeeps
<1>3. TypeInv => TypeOK
  BY DEF TypeInv
<1> QED
  BY <1>1, <1>2, <1>3, PTL DEF Spec

(* The inductive invariant, where nobody seals into an output directory    *)
(* without the clean-up of cmd_build.                                      *)
THEOREM BuildInvariantHolds ==
  ASSUME "seal" \notin Commands
  PROVE  Spec => [](TypeOK /\ BuildInvariant)
<1> DEFINE IInv == TypeInv /\ SealingStartsClean
<1>1. Init => IInv
  BY InitHolds
<1>2. IInv /\ [Next]_vars => IInv'
  BY NextKeeps
<1>3. IInv => TypeOK /\ BuildInvariant
  BY DEF TypeInv, BuildInvariant
<1> HIDE DEF IInv
<1> QED
  BY <1>1, <1>2, <1>3, PTL DEF Spec
-----------------------------------------------------------------------------
(* What a step of p does to the files of its output directory.             *)
LEMMA ElsewhereUntouched ==
  ASSUME TypeInv, NEW p \in Procs, Proceed(p) \/ Abort(p)
  PROVE  \A o \in Outputs : o # job[p].out => file'[o] = file[o]
<1>1. CASE UNCHANGED file
  BY <1>1
<1>2. ASSUME NEW c, file' = [file EXCEPT ![job[p].out] = c]
      PROVE  \A o \in Outputs : o # job[p].out => file'[o] = file[o]
  BY <1>2 DEF TypeInv, TypeOK
<1>3. CASE Abort(p)
  BY <1>3, AbortedFiles
<1>4. CASE BuildInitrd(p)
  BY <1>4 DEF BuildInitrd, Write, TypeInv, TypeOK
<1>5. CASE CleanOutput(p)
  BY <1>5, <1>2 DEF CleanOutput
<1>6. CASE ExtractKernel(p) \/ ExtractBaseInitrd(p)
  BY <1>6, SMTT(60) DEF ExtractKernel, ExtractBaseInitrd, Write, TypeInv, TypeOK
<1>7. CASE \/ CreateSquashfs(p) \/ CreateVerity(p) \/ WriteRoothash(p) \/ AssembleGpt(p)
           \/ CreateDisk(p) \/ WriteDiskRoothash(p) \/ WriteDiskHashoffset(p)
           \/ WriteManifest(p)
  BY <1>7 DEF CreateSquashfs, CreateVerity, WriteRoothash, AssembleGpt, CreateDisk,
       WriteDiskRoothash, WriteDiskHashoffset, WriteManifest, Write, TypeInv, TypeOK
<1>8. CASE \/ ReuseRootfs(p) \/ WipeRootfs(p) \/ ExtractRootfs(p) \/ ApplyConfig(p)
           \/ SkipDisk(p) \/ DisksDone(p) \/ Finish(p) \/ Bail(p)
  BY <1>8, <1>1, SMTT(60) DEF ReuseRootfs, WipeRootfs, ExtractRootfs, ApplyConfig, SkipDisk,
       DisksDone, Finish, Bail
<1> QED
  BY <1>3, <1>4, <1>5, <1>6, <1>7, <1>8 DEF Proceed

(* Before it seals and when it is done, a command only deletes files.      *)
LEMMA OnlyDeletes ==
  ASSUME TypeInv, NEW p \in Procs, Proceed(p) \/ Abort(p), pc[p] \notin Sealing
  PROVE  \A fn \in Files : file'[job[p].out][fn] \in {Absent, file[job[p].out][fn]}
<1>1. CASE Abort(p)
  BY <1>1, AbortedFiles
<1>2. CASE CleanOutput(p)
  <2>1. job[p].out \in Outputs
    BY <1>2, RunningTypes DEF CleanOutput, Step, Running
  <2> QED
    BY <1>2, <2>1 DEF CleanOutput, TypeInv, TypeOK
<1>3. CASE \/ ReuseRootfs(p) \/ WipeRootfs(p) \/ ExtractRootfs(p) \/ ApplyConfig(p)
           \/ Finish(p) \/ Bail(p)
  BY <1>3 DEF ReuseRootfs, WipeRootfs, ExtractRootfs, ApplyConfig, Finish, Bail
<1> QED
  BY <1>1, <1>2, <1>3 DEF Proceed, Step, Sealing, ExtractKernel, ExtractBaseInitrd,
       CreateSquashfs, CreateVerity, WriteRoothash, AssembleGpt, BuildInitrd, SkipDisk,
       CreateDisk, WriteDiskRoothash, WriteDiskHashoffset, DisksDone, WriteManifest

(* While it seals, a command leaves no manifest but its own last one.      *)
LEMMA SealsWithoutManifest ==
  ASSUME TypeInv, SealingStartsClean, "seal" \notin Commands,
         NEW p \in Procs, Proceed(p) \/ Abort(p), pc[p] \in Sealing
  PROVE  LET f == file[job[p].out]
             g == file'[job[p].out]
         IN  \/ g[Manifest] \in {Absent, Torn}
             \/ /\ g[Manifest] = BuildManifest(job[p])
                /\ \A fn \in Files : fn # Manifest => g[fn] = f[fn]
<1> DEFINE f == file[job[p].out]
           g == file'[job[p].out]
<1>1. Running(p) /\ Manifest \in Files
  BY DEF Running, Sealing, Files
<1>2. job[p] \in Jobs /\ job[p].out \in Outputs /\ f[Manifest] = Absent /\ MemoryOf(p)
  BY <1>1, RunningTypes DEF SealingStartsClean, CleanOf
<1>3. CASE Abort(p)
  BY <1>1, <1>2, <1>3, AbortedFiles
<1>4. CASE WriteManifest(p)
  <2>1. Write(p, Manifest, BuildManifest(job[p]))
    BY <1>4 DEF WriteManifest
  <2>2. file \in [Outputs -> [Files -> Contents]]
    BY DEF TypeInv, TypeOK
  <2> QED
    BY <1>1, <1>2, <2>1, <2>2 DEF Write
<1>5. CASE Bail(p)
  BY <1>2, <1>5 DEF Bail
<1>6. CASE Proceed(p) /\ pc'[p] \in Sealing /\ job'[p].out = job[p].out
  <2>1. CleanOf(p) /\ job[p].cmd # "seal"
    BY <1>2 DEF SealingStartsClean, Jobs
  <2>2. CleanOf(p)'
    BY <1>6, <2>1, ProceedKeeps
  <2> QED
    BY <1>6, <2>2 DEF CleanOf
<1>7. ASSUME Proceed(p), ~WriteManifest(p), ~Bail(p)
      PROVE  pc'[p] \in Sealing /\ job'[p].out = job[p].out
  <2>1. /\ pc \in [Procs -> Steps \cup {"idle"}]
        /\ job \in [Procs -> Jobs \cup {Absent}]
    BY DEF TypeInv, TypeOK
  <2>2. CASE \/ ExtractKernel(p) \/ ExtractBaseInitrd(p) \/ CreateSquashfs(p)
             \/ CreateVerity(p) \/ WriteRoothash(p) \/ AssembleGpt(p) \/ BuildInitrd(p)
    BY <1>2, <2>1, <2>2 DEF ExtractKernel, ExtractBaseInitrd, CreateSquashfs, CreateVerity,
         WriteRoothash, AssembleGpt, BuildInitrd, Step, Sealing, Jobs
  <2>3. CASE SkipDisk(p)
    BY <1>2, <2>1, <2>3 DEF SkipDisk, Step, Sealing, Jobs
  <2>4. CASE CreateDisk(p)
    <3>1. PICK d, v : job' = [job EXCEPT ![p].todo = @ \ {d}, ![p].cur = d, ![p].disks[d] = v]
      BY <2>4 DEF CreateDisk
    <3>2. pc'[p] \in Sealing
      BY <2>1, <2>4 DEF CreateDisk, Step, Sealing
    <3>3. job'[p].out = job[p].out
      BY <1>2, <2>1, <3>1 DEF Jobs
    <3> QED
      BY <3>2, <3>3
  <2>5. CASE DisksDone(p) \/ WriteDiskRoothash(p) \/ WriteDiskHashoffset(p)
    BY <1>2, <2>1, <2>5 DEF DisksDone, WriteDiskRoothash, WriteDiskHashoffset, Step, Sealing
  <2>6. ~ (\/ ReuseRootfs(p) \/ WipeRootfs(p) \/ ExtractRootfs(p) \/ ApplyConfig(p)
           \/ CleanOutput(p) \/ Finish(p))
    BY DEF ReuseRootfs, WipeRootfs, ExtractRootfs, ApplyConfig, CleanOutput, Finish, Step,
           Sealing
  <2> QED
    BY <1>7, <2>2, <2>3, <2>4, <2>5, <2>6 DEF Proceed
<1> QED
  BY <1>3, <1>4, <1>5, <1>6, <1>7

LEMMA StartsLeaveFiles ==
  ASSUME NEW p \in Procs, StartBuild(p) \/ StartSeal(p) \/ StartExtract(p)
  PROVE  file' = file
BY DEF StartBuild, StartSeal, StartExtract, Start

(* A build directory's manifest describes the files beside it: whatever    *)
(* crashed before, none of them is stale, torn or of another config        *)
(* (cmd_build cleans before it seals and writes the manifest last).        *)
THEOREM ManifestDescribes ==
  ASSUME "seal" \notin Commands
  PROVE  Spec => []ManifestDescribesFiles
<1> DEFINE IInv == TypeInv /\ SealingStartsClean /\ ManifestDescribesFiles
<1>1. Init => IInv
  <2>1. Init => ManifestDescribesFiles
    BY DEF Init, ManifestDescribesFiles, HasManifest, Files
  <2> QED
    BY <2>1, InitHolds
<1>2. IInv /\ [Next]_vars => IInv'
  <2> SUFFICES ASSUME TypeInv, SealingStartsClean, ManifestDescribesFiles, [Next]_vars
               PROVE  IInv'
    OBVIOUS
  <2>1. TypeInv' /\ SealingStartsClean'
    BY NextKeeps
  <2>2. ASSUME NEW o \in Outputs, HasManifest(o)'
        PROVE  Agrees(file'[o][Manifest], file'[o])
    <3>1. CASE file'[o] = file[o]
      BY <2>2, <3>1 DEF ManifestDescribesFiles, HasManifest
    <3>2. CASE file'[o] # file[o]
      <4>1. PICK p \in Procs : Proceed(p) \/ Abort(p)
        BY <3>2, StartsLeaveFiles DEF Next, vars
      <4>2. o = job[p].out
        BY <3>2, <4>1, ElsewhereUntouched
      <4> DEFINE f == file[o]
                 g == file'[o]
      <4>3. g[Manifest] \notin {Absent, Torn}
        BY <2>2 DEF HasManifest
      <4>4. CASE pc[p] \notin Sealing
        <5>1. \A fn \in Files : g[fn] \in {Absent, f[fn]}
          BY <4>1, <4>2, <4>4, OnlyDeletes
        <5>2. Manifest \in Files
          BY DEF Files
        <5>3. g[Manifest] = f[Manifest] /\ HasManifest(o)
          BY <4>3, <5>1, <5>2 DEF HasManifest
        <5>4. Agrees(f[Manifest], f)
          BY <5>3 DEF ManifestDescribesFiles
        <5> HIDE DEF f, g
        <5>5. /\ \A k \in ImageKinds, i \in Images : g[<<k, i>>] \in {Absent, f[<<k, i>>]}
              /\ \A k \in DiskKinds, d \in Disks : g[<<k, d>>] \in {Absent, f[<<k, d>>]}
          BY <5>1 DEF Files
        <5>6. Agrees(g[Manifest], g)
          BY <5>3, <5>4, <5>5, SMTT(60) DEF Agrees, AsRecorded, ImageKinds
        <5> QED
          BY <5>6 DEF g
      <4>5. CASE pc[p] \in Sealing
        <5>1. /\ g[Manifest] = BuildManifest(job[p])
              /\ \A fn \in Files : fn # Manifest => g[fn] = f[fn]
          BY <4>1, <4>2, <4>3, <4>5, SealsWithoutManifest
        <5>2. Agrees(job[p], f)
          BY <4>2, <4>5 DEF SealingStartsClean, CleanOf
        <5> HIDE DEF f, g
        <5>3. /\ \A k \in ImageKinds, i \in Images : g[<<k, i>>] = f[<<k, i>>]
              /\ \A k \in DiskKinds, d \in Disks : g[<<k, d>>] = f[<<k, d>>]
          BY <5>1 DEF Files, Manifest, ImageKinds, DiskKinds
        <5>4. Agrees(g[Manifest], g)
          BY <5>1, <5>2, <5>3, SMTT(60) DEF Agrees, ImageKinds, BuildManifest
        <5> QED
          BY <5>4 DEF g
      <4> QED
        BY <4>4, <4>5
    <3> QED
      BY <3>1, <3>2
  <2>3. ManifestDescribesFiles'
    BY <2>2 DEF ManifestDescribesFiles
  <2> QED
    BY <2>1, <2>3
<1>3. IInv => ManifestDescribesFiles
  OBVIOUS
<1> HIDE DEF IInv
<1> QED
  BY <1>1, <1>2, <1>3, PTL DEF Spec

(* While a manifest stands, nothing beside it is written: an artifact is   *)
(* replaced only after the manifest that vouched for it is deleted.        *)
THEOREM NothingRewritten ==
  ASSUME "seal" \notin Commands
  PROVE  Spec => NothingRewrittenUnderManifest
<1> DEFINE IInv == TypeInv /\ SealingStartsClean
           Kept == \A o \in Outputs : HasManifest(o) /\ file'[o][Manifest] = file[o][Manifest] =>
                     \A fn \in Recorded : file'[o][fn] \in {Absent, file[o][fn]}
<1>1. Init => IInv
  BY InitHolds
<1>2. IInv /\ [Next]_vars => IInv'
  BY NextKeeps
<1>3. IInv /\ [Next]_vars => [Kept]_vars
  <2> SUFFICES ASSUME TypeInv, SealingStartsClean, Next,
                      NEW o \in Outputs, HasManifest(o), NEW fn \in Recorded
               PROVE  file'[o][fn] \in {Absent, file[o][fn]}
    OBVIOUS
  <2>1. CASE file'[o] = file[o]
    BY <2>1
  <2>2. CASE file'[o] # file[o]
    <3>1. PICK p \in Procs : Proceed(p) \/ Abort(p)
      BY <2>2, StartsLeaveFiles DEF Next
    <3>2. o = job[p].out
      BY <2>2, <3>1, ElsewhereUntouched
    <3>3. pc[p] \notin Sealing
      BY <3>2 DEF SealingStartsClean, CleanOf, HasManifest
    <3>4. fn \in Files
      BY DEF Recorded, Files, ImageKinds
    <3> QED
      BY <3>1, <3>2, <3>3, <3>4, OnlyDeletes
  <2> QED
    BY <2>1, <2>2
<1> HIDE DEF IInv, Kept
<1>4. Spec => [][Kept]_vars
  BY <1>1, <1>2, <1>3, PTL DEF Spec
<1> QED
  BY <1>4 DEF NothingRewrittenUnderManifest, Kept
-----------------------------------------------------------------------------
(* The tree of a build, as long as no other command uses its work          *)
(* directory: nothing in the code sees to that in /dev/shm.                *)
OwnWorkDirs == \A p, q \in Procs :
                 p # q /\ Running(p) /\ Running(q) => job[p].dir # job[q].dir

Sealable(j, tree) ==
  /\ tree.whole /\ tree.hardened
  /\ j.base => Deleted(tree.initrds) = {}
  /\ j.kernel \in {tree.gen, Unavailable}

AfterVerity == {"roothash", "raw", "initrd", "done"} \cup DiskSteps

TreeOf(p) ==
  LET j == job[p]
      tree == rootfs[job[p].dir]
  IN
  Running(p) /\ j.cmd = "build" /\ ~j.skip =>
    /\ pc[p] # "reuse"
    /\ pc[p] = "extract" => tree = EmptyTree
    /\ pc[p] \in {"apply", "clean", "kernel"} => tree \in Trees /\ tree.whole
    /\ pc[p] \in {"apply", "clean", "kernel", "base"} => tree.initrds \in InitrdSets[tree.gen]
    /\ pc[p] \in {"clean", "kernel"} => tree.hardened
    /\ pc[p] \in {"base", "squashfs"} => tree \in Trees /\ Sealable(j, tree)
    /\ pc[p] = "verity" => Sealable(j, file[j.out][Squashfs])
    /\ pc[p] \in AfterVerity => Sealable(j, j.root)

BuildsKeepTrees == \A p \in Procs : TreeOf(p)

(* Each step is one command's.                                             *)
LEMMA OnlyOneMoves ==
  ASSUME TypeInv, NEW p \in Procs,
         \/ StartBuild(p) \/ StartSeal(p) \/ StartExtract(p)
         \/ Proceed(p) \/ Abort(p)
  PROVE  \A q \in Procs \ {p} : pc'[q] = pc[q] /\ job'[q] = job[q]
<1> USE DEF TypeInv, TypeOK, Step
<1>1. CASE StartBuild(p) \/ StartSeal(p) \/ StartExtract(p)
  BY <1>1, ZenonT(60) DEF StartBuild, StartSeal, StartExtract, Start
<1>2. CASE Bail(p) \/ Abort(p) \/ Finish(p)
  BY <1>2 DEF Bail, Abort, End, Finish
<1>3. CASE \/ ReuseRootfs(p) \/ WipeRootfs(p) \/ ExtractRootfs(p) \/ ApplyConfig(p)
           \/ CleanOutput(p) \/ CreateSquashfs(p) \/ WriteRoothash(p) \/ AssembleGpt(p)
           \/ WriteDiskRoothash(p) \/ WriteDiskHashoffset(p) \/ DisksDone(p)
           \/ WriteManifest(p)
  BY <1>3, SMTT(60) DEF ReuseRootfs, WipeRootfs, ExtractRootfs, ApplyConfig, CleanOutput,
       CreateSquashfs, WriteRoothash, AssembleGpt, WriteDiskRoothash, WriteDiskHashoffset,
       DisksDone, WriteManifest
<1>4. CASE \/ ExtractKernel(p) \/ ExtractBaseInitrd(p) \/ CreateVerity(p) \/ BuildInitrd(p)
           \/ SkipDisk(p)
  BY <1>4 DEF ExtractKernel, ExtractBaseInitrd, CreateVerity, BuildInitrd, SkipDisk
<1>5. CASE CreateDisk(p)
  BY <1>5, SMTT(60) DEF CreateDisk
<1> QED
  BY <1>1, <1>2, <1>3, <1>4, <1>5 DEF Proceed

LEMMA OtherTreesUntouched ==
  ASSUME TypeInv, NEW p \in Procs, Proceed(p) \/ Abort(p)
  PROVE  \A w \in WorkDirs : w # job[p].dir => rootfs'[w] = rootfs[w]
<1>1. CASE UNCHANGED rootfs
  BY <1>1
<1>2. ASSUME NEW t, rootfs' = [rootfs EXCEPT ![job[p].dir] = t]
      PROVE  \A w \in WorkDirs : w # job[p].dir => rootfs'[w] = rootfs[w]
  BY <1>2, SMTT(60) DEF TypeInv, TypeOK
<1>3. CASE WipeRootfs(p) \/ ApplyConfig(p) \/ Finish(p) \/ Abort(p)
  BY <1>1, <1>2, <1>3 DEF WipeRootfs, ApplyConfig, Finish, Abort
<1>4. CASE ExtractRootfs(p)
  BY <1>4 DEF ExtractRootfs, TypeInv, TypeOK
<1>5. CASE ExtractBaseInitrd(p)
  BY <1>5, SMTT(60) DEF ExtractBaseInitrd, TypeInv, TypeOK
<1>6. CASE \/ ReuseRootfs(p) \/ CleanOutput(p) \/ ExtractKernel(p) \/ CreateSquashfs(p)
           \/ CreateVerity(p) \/ WriteRoothash(p) \/ AssembleGpt(p) \/ BuildInitrd(p)
           \/ SkipDisk(p) \/ CreateDisk(p) \/ WriteDiskRoothash(p)
           \/ WriteDiskHashoffset(p) \/ DisksDone(p) \/ WriteManifest(p) \/ Bail(p)
  BY <1>1, <1>6 DEF ReuseRootfs, CleanOutput, ExtractKernel, CreateSquashfs, CreateVerity,
       WriteRoothash, AssembleGpt, BuildInitrd, SkipDisk, CreateDisk, WriteDiskRoothash,
       WriteDiskHashoffset, DisksDone, WriteManifest, Bail
<1> QED
  BY <1>3, <1>4, <1>5, <1>6 DEF Proceed

(* Others who write elsewhere keep what is known of a build's tree.        *)
LEMMA OtherBuildsKeepTrees ==
  ASSUME TypeInv, OwnWorkDirs, BuildsKeepTrees, NEW p \in Procs, Running(p),
         Proceed(p) \/ Abort(p), NEW q \in Procs \ {p},
         pc'[q] = pc[q], job'[q] = job[q]
  PROVE  TreeOf(q)'
<1>1. CASE ~Running(q)
  BY <1>1 DEF Running, TreeOf
<1>2. CASE Running(q)
  <2>1. /\ job[q].out \in Outputs /\ job[q].out # job[p].out
        /\ job[q].dir \in WorkDirs /\ job[q].dir # job[p].dir
    BY <1>2, RunningTypes DEF TypeInv, OwnOutputs, OwnWorkDirs
  <2>2. file'[job[q].out] = file[job[q].out] /\ rootfs'[job[q].dir] = rootfs[job[q].dir]
    BY <2>1, ElsewhereUntouched, OtherTreesUntouched
  <2> QED
    BY <2>2 DEF BuildsKeepTrees, TreeOf, Running
<1> QED
  BY <1>1, <1>2

(* The steps that obtain and harden the tree.                              *)
LEMMA RootfsStepsKeepTree ==
  ASSUME TypeInv, NEW p \in Procs, TreeOf(p),
         \/ ReuseRootfs(p) \/ WipeRootfs(p) \/ ExtractRootfs(p) \/ ApplyConfig(p)
         \/ CleanOutput(p)
  PROVE  TreeOf(p)'
<1>1. /\ Running(p) /\ pc[p] \in BeforeClean
      /\ job[p] \in Jobs /\ job[p].dir \in WorkDirs
      /\ rootfs \in [WorkDirs -> Trees \cup {Absent}]
  <2>1. Running(p) /\ pc[p] \in BeforeClean
    BY DEF ReuseRootfs, WipeRootfs, ExtractRootfs, ApplyConfig, CleanOutput, Step, Running,
           BeforeClean
  <2> QED
    BY <2>1, RunningTypes DEF TypeInv, TypeOK
<1>2. job' = job /\ pc \in [Procs -> Steps \cup {"idle"}]
  BY DEF ReuseRootfs, WipeRootfs, ExtractRootfs, ApplyConfig, CleanOutput, TypeInv, TypeOK
<1>3. Absent \notin Trees
  BY TreeAssumption
<1>4. CASE ReuseRootfs(p)
  BY <1>1, <1>2, <1>4 DEF TreeOf, ReuseRootfs, Step
<1>5. CASE WipeRootfs(p)
  <2>1. pc'[p] = "extract" /\ rootfs'[job[p].dir] = EmptyTree
    BY <1>1, <1>2, <1>5 DEF WipeRootfs, Step
  <2> QED
    BY <1>2, <2>1 DEF TreeOf, AfterVerity, DiskSteps
<1>6. CASE ExtractRootfs(p)
  <2> SUFFICES ASSUME job[p].cmd = "build", ~job[p].skip PROVE TreeOf(p)'
    BY <1>2, SMTT(60) DEF TreeOf
  <2>1. PICK g \in Gens : \E new \in InitrdSets[g] :
          rootfs' = [rootfs EXCEPT ![job[p].dir] =
                       [gen |-> g, whole |-> (@ = EmptyTree), hardened |-> FALSE,
                        initrds |-> Over(@.initrds, new)]]
    BY <1>6 DEF ExtractRootfs
  <2>2. pc[p] = "extract" /\ pc'[p] = "apply"
    BY <1>2, <1>6 DEF ExtractRootfs, Step
  <2>3. rootfs[job[p].dir] = EmptyTree
    BY <1>1, <2>2 DEF TreeOf
  <2>4. PICK new \in InitrdSets[g] :
          rootfs'[job[p].dir] = [gen |-> g, whole |-> TRUE, hardened |-> FALSE,
                                 initrds |-> Over(EmptyTree.initrds, new)]
    BY <1>1, <2>1, <2>3
  <2>5. Over(EmptyTree.initrds, new) = new
    BY DEF Over, EmptyTree
  <2>6. /\ rootfs'[job[p].dir] \in Trees /\ rootfs'[job[p].dir].whole
        /\ rootfs'[job[p].dir].initrds \in InitrdSets[rootfs'[job[p].dir].gen]
    BY <2>4, <2>5, BootFacts DEF Trees
  <2> QED
    BY <1>2, <2>2, <2>6 DEF TreeOf, AfterVerity, DiskSteps
<1>7. CASE ApplyConfig(p)
  <2> SUFFICES ASSUME job[p].cmd = "build", ~job[p].skip PROVE TreeOf(p)'
    BY <1>2 DEF TreeOf
  <2> DEFINE tree == rootfs[job[p].dir]
  <2>1. pc[p] = "apply" /\ pc'[p] = "clean"
    BY <1>2, <1>7 DEF ApplyConfig, Step
  <2>2. tree \in Trees /\ tree.whole /\ tree.initrds \in InitrdSets[tree.gen]
    BY <1>1, <2>1 DEF TreeOf
  <2>3. rootfs'[job[p].dir] = [tree EXCEPT !.hardened = TRUE]
    BY <1>1, <1>3, <1>7, <2>2 DEF ApplyConfig, Hardened
  <2>4. /\ rootfs'[job[p].dir] \in Trees
        /\ rootfs'[job[p].dir].whole /\ rootfs'[job[p].dir].hardened
        /\ rootfs'[job[p].dir].initrds \in InitrdSets[rootfs'[job[p].dir].gen]
    BY <2>2, <2>3 DEF Trees
  <2> QED
    BY <1>2, <2>1, <2>4 DEF TreeOf, AfterVerity, DiskSteps
<1>8. CASE CleanOutput(p)
  <2>1. pc[p] = "clean" /\ pc'[p] = "kernel" /\ rootfs' = rootfs
    BY <1>2, <1>8 DEF CleanOutput, Step
  <2> QED
    BY <1>1, <1>2, <2>1 DEF TreeOf, AfterVerity, DiskSteps
<1> QED
  BY <1>4, <1>5, <1>6, <1>7, <1>8

LEMMA ExtractKernelKeepsTree ==
  ASSUME TypeInv, NEW p \in Procs, TreeOf(p), ExtractKernel(p)
  PROVE  TreeOf(p)'
<1> DEFINE tree == rootfs[job[p].dir]
<1>1. /\ pc[p] = "kernel" /\ pc'[p] = "base" /\ rootfs' = rootfs
      /\ Running(p) /\ job[p] \in Jobs /\ MemoryOf(p)
  <2>1. pc[p] = "kernel" /\ pc'[p] = "base" /\ rootfs' = rootfs
    BY DEF ExtractKernel, Step, TypeInv, TypeOK
  <2> QED
    BY <2>1, RunningTypes DEF Running
<1>2. PICK k \in {tree.gen, Unavailable} : job' = [job EXCEPT ![p].kernel = k]
  BY DEF ExtractKernel
<1>3. job'[p] = [job[p] EXCEPT !.kernel = k]
  BY <1>2 DEF TypeInv, TypeOK
<1>4. /\ job'[p].cmd = job[p].cmd /\ job'[p].skip = job[p].skip
      /\ job'[p].dir = job[p].dir /\ job'[p].base = job[p].base
      /\ job'[p].kernel = k
  BY <1>1, <1>3 DEF Jobs
<1>5. ~job[p].base
  BY <1>1 DEF MemoryOf
<1> QED
  BY <1>1, <1>4, <1>5 DEF TreeOf, Sealable, AfterVerity, DiskSteps

LEMMA ExtractBaseInitrdKeepsTree ==
  ASSUME TypeInv, NEW p \in Procs, TreeOf(p), ExtractBaseInitrd(p)
  PROVE  TreeOf(p)'
<1> DEFINE tree == rootfs[job[p].dir]
<1>1. /\ pc[p] = "base" /\ pc'[p] = "squashfs" /\ Running(p)
      /\ job[p] \in Jobs /\ job[p].dir \in WorkDirs /\ MemoryOf(p)
      /\ rootfs \in [WorkDirs -> Trees \cup {Absent}]
  <2>1. pc[p] = "base" /\ pc'[p] = "squashfs"
    BY DEF ExtractBaseInitrd, Step, TypeInv, TypeOK
  <2> QED
    BY <2>1, RunningTypes DEF Running, TypeInv, TypeOK
<1>2. CASE job' = job /\ rootfs' = rootfs
  BY <1>1, <1>2, SMTT(60) DEF TreeOf, AfterVerity, DiskSteps
<1>3. CASE /\ rootfs' = [rootfs EXCEPT ![job[p].dir].initrds = @ \ Deleted(@)]
           /\ job' = [job EXCEPT ![p].base = TRUE]
  <2> SUFFICES ASSUME job[p].cmd = "build", ~job[p].skip PROVE TreeOf(p)'
    <3>1. job'[p].cmd = job[p].cmd /\ job'[p].skip = job[p].skip
      BY <1>1, <1>3 DEF TypeInv, TypeOK, Jobs
    <3> QED
      BY <3>1 DEF TreeOf
  <2>1. tree \in Trees /\ Sealable(job[p], tree)
    BY <1>1 DEF TreeOf
  <2>2. rootfs'[job[p].dir] = [tree EXCEPT !.initrds = @ \ Deleted(@)]
    BY <1>1, <1>3
  <2>3. /\ rootfs'[job[p].dir] \in Trees
        /\ rootfs'[job[p].dir].whole = tree.whole
        /\ rootfs'[job[p].dir].hardened = tree.hardened
        /\ rootfs'[job[p].dir].gen = tree.gen
        /\ Deleted(rootfs'[job[p].dir].initrds) = {}
    BY <2>1, <2>2 DEF Trees, Deleted
  <2>4. job'[p].dir = job[p].dir /\ job'[p].kernel = job[p].kernel
    BY <1>1, <1>3 DEF TypeInv, TypeOK, Jobs
  <2> QED
    BY <1>1, <2>1, <2>3, <2>4 DEF TreeOf, Sealable, AfterVerity, DiskSteps
<1> QED
  BY <1>2, <1>3 DEF ExtractBaseInitrd

(* The tree becomes the squashfs, and the squashfs the root hash.          *)
LEMMA SquashfsKeepsTree ==
  ASSUME TypeInv, NEW p \in Procs, TreeOf(p), CreateSquashfs(p) \/ CreateVerity(p)
  PROVE  TreeOf(p)'
<1>1. Running(p) /\ job[p] \in Jobs /\ job[p].out \in Outputs
  <2>1. Running(p)
    BY DEF CreateSquashfs, CreateVerity, Step, Running
  <2> QED
    BY <2>1, RunningTypes
<1>2. CASE CreateSquashfs(p)
  <2>1. /\ pc[p] = "squashfs" /\ pc'[p] = "verity" /\ job' = job
        /\ file'[job[p].out][Squashfs] = rootfs[job[p].dir]
    BY <1>1, <1>2, ArtifactNames, SMTT(60) DEF CreateSquashfs, Step, Write, TypeInv, TypeOK
  <2> QED
    BY <1>1, <2>1 DEF TreeOf, AfterVerity, DiskSteps
<1>3. CASE CreateVerity(p)
  <2> DEFINE data == file[job[p].out][Squashfs]
  <2>1. /\ pc[p] = "verity" /\ pc'[p] = "roothash"
        /\ job'[p] = [job[p] EXCEPT !.root = data]
    BY <1>3 DEF CreateVerity, Step, TypeInv, TypeOK
  <2>2. /\ job'[p].cmd = job[p].cmd /\ job'[p].skip = job[p].skip
        /\ job'[p].base = job[p].base /\ job'[p].kernel = job[p].kernel
        /\ job'[p].root = data
    BY <1>1, <2>1, SMTT(60) DEF Jobs
  <2> QED
    BY <1>1, <2>1, <2>2 DEF TreeOf, Sealable, AfterVerity, DiskSteps
<1> QED
  BY <1>2, <1>3

(* Behind them no step touches what a command remembers of its tree.       *)
LEMMA LaterStepsKeepTree ==
  ASSUME TypeInv, NEW p \in Procs, TreeOf(p),
         \/ WriteRoothash(p) \/ AssembleGpt(p) \/ BuildInitrd(p) \/ SkipDisk(p)
         \/ CreateDisk(p) \/ WriteDiskRoothash(p) \/ WriteDiskHashoffset(p)
         \/ DisksDone(p) \/ WriteManifest(p)
  PROVE  TreeOf(p)'
<1>1. pc[p] \in AfterVerity /\ pc'[p] \in AfterVerity
  BY DEF WriteRoothash, AssembleGpt, BuildInitrd, SkipDisk, CreateDisk, WriteDiskRoothash,
         WriteDiskHashoffset, DisksDone, WriteManifest, Step, AfterVerity, DiskSteps, TypeInv,
         TypeOK
<1>2. Running(p) /\ job[p] \in Jobs
  <2>1. Running(p)
    BY <1>1 DEF Running, AfterVerity, DiskSteps
  <2> QED
    BY <2>1, RunningTypes
<1>3. /\ job'[p].cmd = job[p].cmd /\ job'[p].skip = job[p].skip
      /\ job'[p].base = job[p].base /\ job'[p].kernel = job[p].kernel
      /\ job'[p].root = job[p].root
  <2>1. CASE UNCHANGED job
    BY <2>1
  <2>2. CASE BuildInitrd(p)
    BY <1>2, <2>2 DEF BuildInitrd, TypeInv, TypeOK, Jobs
  <2>3. CASE SkipDisk(p)
    BY <1>2, <2>3 DEF SkipDisk, TypeInv, TypeOK, Jobs
  <2>4. CASE CreateDisk(p)
    <3>1. PICK d, v : job' = [job EXCEPT ![p].todo = @ \ {d}, ![p].cur = d, ![p].disks[d] = v]
      BY <2>4 DEF CreateDisk
    <3> QED
      BY <1>2, <3>1, SMTT(60) DEF TypeInv, TypeOK, Jobs
  <2> QED
    BY <2>1, <2>2, <2>3, <2>4
    DEF WriteRoothash, AssembleGpt, WriteDiskRoothash, WriteDiskHashoffset, DisksDone,
        WriteManifest
<1> QED
  BY <1>1, <1>2, <1>3, SMTT(60) DEF TreeOf, Sealable, AfterVerity, DiskSteps

LEMMA OwnStepKeepsTree ==
  ASSUME TypeInv, NEW p \in Procs, TreeOf(p), Proceed(p) \/ Abort(p)
  PROVE  TreeOf(p)'
<1>1. CASE pc'[p] = "idle"
  BY <1>1, SMTT(60) DEF TreeOf, Running
<1>2. CASE Finish(p) \/ Bail(p) \/ Abort(p)
  BY <1>1, <1>2 DEF Finish, Bail, Abort, End, Step, TypeInv, TypeOK
<1> QED
  BY <1>2, RootfsStepsKeepTree, ExtractKernelKeepsTree, ExtractBaseInitrdKeepsTree,
     SquashfsKeepsTree, LaterStepsKeepTree DEF Proceed

(* A build that starts has no tree yet, unless it is told to reuse one.    *)
LEMMA StartsKeepTree ==
  ASSUME TypeInv, NEW p \in Procs, StartBuild(p) \/ StartSeal(p) \/ StartExtract(p)
  PROVE  TreeOf(p)'
<1>1. CASE StartBuild(p)
  <2>1. PICK c \in Configs, o \in Outputs, step \in {"wipe", "reuse"} :
          Start(p, step, NewJob("build", c, o, WorkDir(c.image, o), step = "reuse"))
    BY <1>1 DEF StartBuild
  <2>2. pc'[p] = step /\ job'[p].skip = (step = "reuse")
    BY <2>1 DEF Start, NewJob, TypeInv, TypeOK
  <2> QED
    BY <2>1, <2>2 DEF TreeOf, AfterVerity, DiskSteps
<1>2. CASE StartSeal(p) \/ StartExtract(p)
  <2>1. job'[p].cmd \in {"seal", "extract"}
    BY <1>2 DEF StartSeal, StartExtract, Start, NewJob, TypeInv, TypeOK
  <2> QED
    BY <2>1 DEF TreeOf
<1> QED
  BY <1>1, <1>2

LEMMA NextKeepsTrees ==
  ASSUME TypeInv, OwnWorkDirs, BuildsKeepTrees, [Next]_vars
  PROVE  BuildsKeepTrees'
<1>1. CASE UNCHANGED vars
  BY <1>1 DEF vars, BuildsKeepTrees, TreeOf, Running
<1>2. CASE Next
  <2>1. PICK p \in Procs : \/ StartBuild(p) \/ StartSeal(p) \/ StartExtract(p)
                           \/ Proceed(p)
                           \/ Abort(p)
    BY <1>2 DEF Next
  <2>2. ASSUME NEW q \in Procs \ {p}
        PROVE  pc'[q] = pc[q] /\ job'[q] = job[q]
    BY <2>1, OnlyOneMoves
  <2>3. CASE StartBuild(p) \/ StartSeal(p) \/ StartExtract(p)
    <3>1. rootfs' = rootfs /\ file' = file
      BY <2>3 DEF StartBuild, StartSeal, StartExtract, Start
    <3>2. ASSUME NEW q \in Procs \ {p} PROVE TreeOf(q)'
      BY <2>2, <3>1 DEF BuildsKeepTrees, TreeOf, Running
    <3> QED
      BY <2>3, <3>2, StartsKeepTree DEF BuildsKeepTrees
  <2>4. CASE Proceed(p) \/ Abort(p)
    <3>1. Running(p)
      BY <2>4, MovingRuns
    <3>2. ASSUME NEW q \in Procs \ {p} PROVE TreeOf(q)'
      BY <2>2, <2>4, <3>1, OtherBuildsKeepTrees
    <3>3. TreeOf(p)'
      BY <2>4, OwnStepKeepsTree DEF BuildsKeepTrees
    <3> QED
      BY <3>2, <3>3 DEF BuildsKeepTrees
  <2> QED
    BY <2>1, <2>3, <2>4
<1> QED
  BY <1>1, <1>2

(* The initrd of a build: shipped by the container build that the tree is  *)
(* from, whichever file names that build at the step.                      *)
InitrdOf(p) ==
  LET j    == job[p]
      base == file[j.out][Art(p, "initrd.base")]
  IN
  Running(p) /\ j.cmd = "build" /\ ~j.skip =>
    /\ j.base =>
         /\ pc[p] = "squashfs" => ShippedBy(rootfs[j.dir].gen, base)
         /\ pc[p] = "verity" => ShippedBy(file[j.out][Squashfs].gen, base)
         /\ pc[p] \in {"roothash", "raw", "initrd"} => ShippedBy(j.root.gen, base)
    /\ pc[p] \in DiskSteps \cup {"done"} /\ j.initrd # Unavailable =>
         ShippedBy(j.root.gen, j.initrd)
    /\ pc[p] = "done" => j.kernel \in Kernels

BuildsKeepInitrds == \A p \in Procs : InitrdOf(p)

LEMMA OtherBuildsKeepInitrds ==
  ASSUME TypeInv, OwnWorkDirs, BuildsKeepInitrds, NEW p \in Procs, Running(p),
         Proceed(p) \/ Abort(p), NEW q \in Procs \ {p},
         pc'[q] = pc[q], job'[q] = job[q]
  PROVE  InitrdOf(q)'
<1>1. CASE ~Running(q)
  BY <1>1 DEF Running, InitrdOf
<1>2. CASE Running(q)
  <2>1. /\ job[q].out \in Outputs /\ job[q].out # job[p].out
        /\ job[q].dir \in WorkDirs /\ job[q].dir # job[p].dir
    BY <1>2, RunningTypes DEF TypeInv, OwnOutputs, OwnWorkDirs
  <2>2. file'[job[q].out] = file[job[q].out] /\ rootfs'[job[q].dir] = rootfs[job[q].dir]
    BY <2>1, ElsewhereUntouched, OtherTreesUntouched
  <2>3. Art(q, "initrd.base")' = Art(q, "initrd.base")
    BY DEF Art
  <2>4. InitrdOf(q) /\ Running(q)' = Running(q)
    BY SMTT(60) DEF BuildsKeepInitrds, Running
  <2> QED
    BY <2>2, <2>3, <2>4 DEF InitrdOf
<1> QED
  BY <1>1, <1>2

(* Until the base initrd is copied nothing is claimed of it.               *)
LEMMA EarlyStepsKeepInitrd ==
  ASSUME TypeInv, NEW p \in Procs,
         \/ ReuseRootfs(p) \/ WipeRootfs(p) \/ ExtractRootfs(p) \/ ApplyConfig(p)
         \/ CleanOutput(p) \/ ExtractKernel(p)
  PROVE  InitrdOf(p)'
<1>1. CASE pc'[p] \in {"extract", "apply", "clean", "kernel", "base"}
  BY <1>1 DEF InitrdOf, DiskSteps
<1>2. CASE ExtractRootfs(p) /\ job[p].cmd = "extract"
  <2>1. job' = job
    BY <1>2 DEF ExtractRootfs
  <2> QED
    BY <1>2, <2>1 DEF InitrdOf
<1> QED
  BY <1>1, <1>2
  DEF ReuseRootfs, WipeRootfs, ExtractRootfs, ApplyConfig, CleanOutput, ExtractKernel, Step,
      TypeInv, TypeOK

LEMMA ExtractBaseInitrdKeepsInitrd ==
  ASSUME TypeInv, NEW p \in Procs, TreeOf(p), ExtractBaseInitrd(p)
  PROVE  InitrdOf(p)'
<1> DEFINE tree == rootfs[job[p].dir]
<1>1. /\ pc[p] = "base" /\ pc'[p] = "squashfs" /\ Running(p)
      /\ job[p] \in Jobs /\ job[p].dir \in WorkDirs /\ job[p].out \in Outputs /\ MemoryOf(p)
      /\ rootfs \in [WorkDirs -> Trees \cup {Absent}]
      /\ file \in [Outputs -> [Files -> Contents]]
  <2>1. pc[p] = "base" /\ pc'[p] = "squashfs"
    BY DEF ExtractBaseInitrd, Step, TypeInv, TypeOK
  <2> QED
    BY <2>1, RunningTypes DEF Running, TypeInv, TypeOK
<1>2. CASE job' = job
  <2>1. ~job[p].base
    BY <1>1 DEF MemoryOf
  <2> QED
    BY <1>1, <1>2, <2>1 DEF InitrdOf, DiskSteps
<1>3. CASE /\ HasInitrd(tree)
           /\ Write(p, Art(p, "initrd.base"), BaseInitrd(tree.initrds))
           /\ rootfs' = [rootfs EXCEPT ![job[p].dir].initrds = @ \ Deleted(@)]
           /\ job' = [job EXCEPT ![p].base = TRUE]
  <2>1. job'[p] = [job[p] EXCEPT !.base = TRUE]
    BY <1>1, <1>3 DEF TypeInv, TypeOK
  <2>2. /\ job'[p].cmd = job[p].cmd /\ job'[p].skip = job[p].skip
        /\ job'[p].dir = job[p].dir /\ job'[p].out = job[p].out
        /\ job'[p].cfg = job[p].cfg
    BY <1>1, <2>1 DEF Jobs
  <2> SUFFICES ASSUME job[p].cmd = "build", ~job[p].skip PROVE InitrdOf(p)'
    BY <2>2 DEF InitrdOf
  <2>3. tree \in Trees /\ tree.initrds \in InitrdSets[tree.gen]
    BY <1>1 DEF TreeOf
  <2>4. rootfs'[job[p].dir] = [tree EXCEPT !.initrds = @ \ Deleted(@)]
    BY <1>1, <1>3
  <2>5. rootfs'[job[p].dir].gen = tree.gen
    BY <2>3, <2>4 DEF Trees
  <2>6. Art(p, "initrd.base") \in Files
    BY <1>1, ArtifactNames DEF ImageKinds
  <2>7. file'[job[p].out][Art(p, "initrd.base")] = BaseInitrd(tree.initrds)
    BY <1>1, <1>3, <2>6 DEF Write
  <2>8. Art(p, "initrd.base")' = Art(p, "initrd.base")
    BY <2>2 DEF Art
  <2>9. Candidates(tree.initrds) # {}
    BY <1>3, <2>3, TreeAssumption DEF HasInitrd
  <2>10. ShippedBy(tree.gen, BaseInitrd(tree.initrds))
    BY <2>3, <2>9 DEF ShippedBy
  <2>11. ShippedBy(rootfs'[job'[p].dir].gen, file'[job'[p].out][Art(p, "initrd.base")'])
    BY <2>2, <2>5, <2>7, <2>8, <2>10
  <2> QED
    BY <1>1, <2>11 DEF InitrdOf, DiskSteps
<1> QED
  BY <1>2, <1>3 DEF ExtractBaseInitrd

(* Writing any other file leaves the base initrd where it is.              *)
LEMMA SealStepsKeepInitrd ==
  ASSUME TypeInv, NEW p \in Procs, InitrdOf(p),
         CreateSquashfs(p) \/ CreateVerity(p) \/ WriteRoothash(p) \/ AssembleGpt(p)
  PROVE  InitrdOf(p)'
<1> DEFINE base == Art(p, "initrd.base")
<1>1. /\ Running(p) /\ job[p] \in Jobs /\ job[p].out \in Outputs
      /\ base \in Files /\ Squashfs \in Files
      /\ file \in [Outputs -> [Files -> Contents]]
  <2>1. Running(p)
    BY DEF CreateSquashfs, CreateVerity, WriteRoothash, AssembleGpt, Step, Running
  <2>2. job[p] \in Jobs
    BY <2>1, RunningTypes
  <2> QED
    BY <2>1, <2>2, RunningTypes, ArtifactNames DEF ImageKinds, TypeInv, TypeOK
<1>2. \A kind \in ImageKinds \ {"initrd.base"} : Art(p, kind) # base
  BY DEF Art
<1>3. /\ Squashfs # base /\ Verity # base
      /\ Art(p, "roothash") # base /\ Art(p, "raw") # base
  BY DEF Art, Squashfs, Verity
<1>4. ASSUME NEW fn, NEW c, fn # base, Write(p, fn, c)
      PROVE  file'[job[p].out][base] = file[job[p].out][base]
  BY <1>1, <1>4 DEF Write
<1>5. file'[job[p].out][base] = file[job[p].out][base]
  <2> HIDE DEF base
  <2> QED
    BY <1>3, <1>4 DEF CreateSquashfs, CreateVerity, WriteRoothash, AssembleGpt
<1>6. CASE CreateSquashfs(p)
  <2>1. /\ pc[p] = "squashfs" /\ pc'[p] = "verity" /\ job' = job
        /\ file'[job[p].out][Squashfs] = rootfs[job[p].dir]
    BY <1>1, <1>6 DEF CreateSquashfs, Step, Write, TypeInv, TypeOK
  <2>2. Art(p, "initrd.base")' = base
    BY <2>1 DEF Art
  <2> QED
    BY <1>1, <1>5, <2>1, <2>2 DEF InitrdOf, DiskSteps
<1>7. CASE CreateVerity(p)
  <2> DEFINE data == file[job[p].out][Squashfs]
  <2>1. /\ pc[p] = "verity" /\ pc'[p] = "roothash"
        /\ job'[p] = [job[p] EXCEPT !.root = data]
    BY <1>7 DEF CreateVerity, Step, TypeInv, TypeOK
  <2>2. /\ job'[p].cmd = job[p].cmd /\ job'[p].skip = job[p].skip
        /\ job'[p].base = job[p].base /\ job'[p].out = job[p].out
        /\ job'[p].cfg = job[p].cfg /\ job'[p].root = data
    BY <1>1, <2>1 DEF Jobs
  <2>3. Art(p, "initrd.base")' = base
    BY <2>2 DEF Art
  <2> QED
    BY <1>1, <1>5, <2>1, <2>2, <2>3 DEF InitrdOf, DiskSteps
<1>8. CASE WriteRoothash(p) \/ AssembleGpt(p)
  <2>1. /\ pc[p] \in {"roothash", "raw"} /\ pc'[p] \in {"raw", "initrd"} /\ job' = job
    BY <1>8 DEF WriteRoothash, AssembleGpt, Step, TypeInv, TypeOK
  <2>2. Art(p, "initrd.base")' = base
    BY <2>1 DEF Art
  <2> QED
    BY <1>1, <1>5, <2>1, <2>2 DEF InitrdOf, DiskSteps
<1> QED
  BY <1>6, <1>7, <1>8

LEMMA BuildInitrdKeepsInitrd ==
  ASSUME TypeInv, NEW p \in Procs, InitrdOf(p), BuildInitrd(p)
  PROVE  InitrdOf(p)'
<1> DEFINE base == file[job[p].out][Art(p, "initrd.base")]
<1>1. /\ pc[p] = "initrd" /\ pc'[p] \in {"disk", "manifest"} /\ Running(p)
      /\ job[p] \in Jobs
  <2>1. pc[p] = "initrd" /\ pc'[p] \in {"disk", "manifest"}
    BY DEF BuildInitrd, Step, TypeInv, TypeOK
  <2> QED
    BY <2>1, RunningTypes DEF Running
<1>2. PICK k : /\ job' = [job EXCEPT ![p].initrd = k]
               /\ k = Unavailable \/ (k = base /\ job[p].base)
  BY DEF BuildInitrd
<1>3. job'[p] = [job[p] EXCEPT !.initrd = k]
  BY <1>2 DEF TypeInv, TypeOK
<1>4. /\ job'[p].cmd = job[p].cmd /\ job'[p].skip = job[p].skip
      /\ job'[p].root = job[p].root /\ job'[p].initrd = k
  BY <1>1, <1>3 DEF Jobs
<1> QED
  BY <1>1, <1>2, <1>4 DEF InitrdOf

LEMMA DiskStepsKeepInitrd ==
  ASSUME TypeInv, NEW p \in Procs, InitrdOf(p),
         \/ SkipDisk(p) \/ CreateDisk(p) \/ WriteDiskRoothash(p)
         \/ WriteDiskHashoffset(p) \/ DisksDone(p) \/ WriteManifest(p)
  PROVE  InitrdOf(p)'
<1>1. pc[p] \in DiskSteps /\ pc'[p] \in DiskSteps \cup {"done"}
  BY DEF SkipDisk, CreateDisk, WriteDiskRoothash, WriteDiskHashoffset, DisksDone,
         WriteManifest, Step, DiskSteps, TypeInv, TypeOK
<1>2. Running(p) /\ job[p] \in Jobs /\ MemoryOf(p)
  <2>1. Running(p)
    BY <1>1 DEF Running, DiskSteps
  <2> QED
    BY <2>1, RunningTypes
<1>3. /\ job'[p].cmd = job[p].cmd /\ job'[p].skip = job[p].skip
      /\ job'[p].root = job[p].root /\ job'[p].initrd = job[p].initrd
      /\ job'[p].kernel = job[p].kernel
  <2>1. CASE UNCHANGED job
    BY <2>1
  <2>2. CASE SkipDisk(p)
    BY <1>2, <2>2 DEF SkipDisk, TypeInv, TypeOK, Jobs
  <2>3. CASE CreateDisk(p)
    <3>1. PICK d, v : job' = [job EXCEPT ![p].todo = @ \ {d}, ![p].cur = d, ![p].disks[d] = v]
      BY <2>3 DEF CreateDisk
    <3> QED
      BY <1>2, <3>1, SMTT(60) DEF TypeInv, TypeOK, Jobs
  <2> QED
    BY <2>1, <2>2, <2>3 DEF WriteDiskRoothash, WriteDiskHashoffset, DisksDone, WriteManifest
<1>4. job[p].kernel \in Kernels
  BY <1>1, <1>2 DEF MemoryOf, DiskSteps, Sealing
<1> QED
  BY <1>1, <1>2, <1>3, <1>4 DEF InitrdOf, DiskSteps

LEMMA OwnStepKeepsInitrd ==
  ASSUME TypeInv, NEW p \in Procs, TreeOf(p), InitrdOf(p), Proceed(p) \/ Abort(p)
  PROVE  InitrdOf(p)'
<1>1. CASE pc'[p] = "idle"
  BY <1>1, SMTT(60) DEF InitrdOf, Running
<1>2. CASE Finish(p) \/ Bail(p) \/ Abort(p)
  BY <1>1, <1>2 DEF Finish, Bail, Abort, End, Step, TypeInv, TypeOK
<1> QED
  BY <1>2, EarlyStepsKeepInitrd, ExtractBaseInitrdKeepsInitrd, SealStepsKeepInitrd,
     BuildInitrdKeepsInitrd, DiskStepsKeepInitrd DEF Proceed

LEMMA NextKeepsInitrds ==
  ASSUME TypeInv, OwnWorkDirs, BuildsKeepTrees, BuildsKeepInitrds, [Next]_vars
  PROVE  BuildsKeepInitrds'
<1>1. CASE UNCHANGED vars
  BY <1>1 DEF vars, BuildsKeepInitrds, InitrdOf, Running, Art
<1>2. CASE Next
  <2>1. PICK p \in Procs : \/ StartBuild(p) \/ StartSeal(p) \/ StartExtract(p)
                           \/ Proceed(p)
                           \/ Abort(p)
    BY <1>2 DEF Next
  <2>2. \A q \in Procs \ {p} : pc'[q] = pc[q] /\ job'[q] = job[q]
    BY <2>1, OnlyOneMoves
  <2>3. CASE StartBuild(p) \/ StartSeal(p) \/ StartExtract(p)
    <3>1. /\ rootfs' = rootfs /\ file' = file
          /\ pc'[p] \in {"wipe", "reuse", "apply"}
      BY <2>3 DEF StartBuild, StartSeal, StartExtract, Start, TypeInv, TypeOK
    <3>2. InitrdOf(p)'
      BY <3>1 DEF InitrdOf, DiskSteps
    <3>3. ASSUME NEW q \in Procs \ {p} PROVE InitrdOf(q)'
      <4>1. Art(q, "initrd.base")' = Art(q, "initrd.base")
        BY <2>2 DEF Art
      <4>2. InitrdOf(q) /\ Running(q)' = Running(q)
        BY <2>2 DEF BuildsKeepInitrds, Running
      <4> QED
        BY <2>2, <3>1, <4>1, <4>2 DEF InitrdOf
    <3> QED
      BY <3>2, <3>3 DEF BuildsKeepInitrds
  <2>4. CASE Proceed(p) \/ Abort(p)
    <3>1. Running(p)
      BY <2>4, MovingRuns
    <3>2. ASSUME NEW q \in Procs \ {p} PROVE InitrdOf(q)'
      BY <2>2, <2>4, <3>1, OtherBuildsKeepInitrds
    <3>3. InitrdOf(p)'
      BY <2>4, OwnStepKeepsInitrd DEF BuildsKeepTrees, BuildsKeepInitrds
    <3> QED
      BY <3>2, <3>3 DEF BuildsKeepInitrds
  <2> QED
    BY <2>1, <2>3, <2>4
<1> QED
  BY <1>1, <1>2

(* If a container build pairs kernels and initrds, so does the choice of   *)
(* one kernel and one initrd, each the last of its kind by name.           *)
LEMMA LastOnesPair ==
  ASSUME NEW g \in Gens, NEW i, ShippedBy(g, i), Paired(g)
  PROVE  KernelRelease(g) = ReleaseOf(i)
<1>1. PICK some \in InitrdSets[g] : Candidates(some) # {} /\ i = BaseInitrd(some)
  BY DEF ShippedBy
<1>2. some \in SUBSET Initrds
  BY <1>1, BootFacts
<1>3. ReleaseOf(i) = LastByName({ReleaseOf(j) : j \in Candidates(some)})
  BY <1>1, <1>2, BootFacts
<1>4. {ReleaseOf(j) : j \in Candidates(some)} = KernelsOf[g]
  BY <1>1 DEF Paired
<1> QED
  BY <1>3, <1>4 DEF KernelRelease

(* What a build without --skip-container seals is one whole, hardened      *)
(* extraction, and its kernel and initrd are from the same one, and of one *)
(* release where its /boot pairs them: for any number of commands and      *)
(* crashes, as long as no two commands that run at the same time share a   *)
(* work directory.                                                         *)
THEOREM SealedTreeHolds ==
  Spec /\ []OwnWorkDirs => []SealedTreeIsOneExtraction
<1> DEFINE IInv == TypeInv /\ BuildsKeepTrees /\ BuildsKeepInitrds
<1>1. Init => IInv
  <2>1. Init => BuildsKeepTrees /\ BuildsKeepInitrds
    BY DEF Init, BuildsKeepTrees, TreeOf, BuildsKeepInitrds, InitrdOf, Running
  <2> QED
    BY <2>1, InitHolds
<1>2. IInv /\ OwnWorkDirs /\ [Next]_vars => IInv'
  BY NextKeeps, NextKeepsTrees, NextKeepsInitrds
<1>3. IInv => SealedTreeIsOneExtraction
  <2> SUFFICES ASSUME TypeInv, BuildsKeepTrees, BuildsKeepInitrds, NEW p \in Procs,
                      pc[p] = "done", job[p].cmd = "build", ~job[p].skip
               PROVE  /\ Sealable(job[p], job[p].root)
                      /\ job[p].initrd # Unavailable =>
                           /\ ShippedBy(job[p].root.gen, job[p].initrd)
                           /\ job[p].kernel # Unavailable /\ Paired(job[p].kernel) =>
                                KernelRelease(job[p].kernel) = ReleaseOf(job[p].initrd)
    BY DEF SealedTreeIsOneExtraction, Sealable
  <2>1. Running(p) /\ TreeOf(p) /\ InitrdOf(p)
    BY DEF BuildsKeepTrees, BuildsKeepInitrds, Running
  <2>2. Sealable(job[p], job[p].root)
    BY <2>1 DEF TreeOf, AfterVerity
  <2>3. job[p].initrd # Unavailable => ShippedBy(job[p].root.gen, job[p].initrd)
    BY <2>1 DEF InitrdOf
  <2>4. job[p].kernel \in {job[p].root.gen, Unavailable}
    BY <2>2 DEF Sealable
  <2>5. job[p].kernel # Unavailable => job[p].kernel \in Gens
    BY <2>1 DEF InitrdOf, Kernels
  <2> QED
    BY <2>2, <2>3, <2>4, <2>5, LastOnesPair
<1> HIDE DEF IInv
<1> QED
  BY <1>1, <1>2, <1>3, PTL DEF Spec
-----------------------------------------------------------------------------
(* That the output of a command that reports success verifies if and only  *)
(* if nothing foreign lies in it, and that a build leaves nothing foreign. *)

(* What a step of p writes is what a crash in it may tear; the step that   *)
(* makes the initrd also deletes the base initrd.                          *)
LEMMA WritesOnlyTorable ==
  ASSUME TypeInv, NEW p \in Procs, Proceed(p), pc[p] # "clean",
         NEW fn \in Files, fn \notin Torable(p), fn # Art(p, "initrd.base")
  PROVE  file'[job[p].out][fn] = file[job[p].out][fn]
<1> DEFINE f == file[job[p].out]
           g == file'[job[p].out]
<1>1. Running(p)
  BY MovingRuns
<1>2. /\ job[p].out \in Outputs /\ f \in [Files -> Contents]
      /\ file \in [Outputs -> [Files -> Contents]]
  BY <1>1, RunningTypes DEF TypeInv, TypeOK
<1>3. CASE file' = file
  BY <1>3
<1>4. ASSUME NEW other, NEW c, Write(p, other, c), other # fn
      PROVE  g[fn] = f[fn]
  BY <1>2, <1>4 DEF Write
<1>5. CASE ExtractKernel(p)
  <2>1. Torable(p) = {Art(p, "vmlinuz")}
    BY <1>5 DEF ExtractKernel, Step, Torable
  <2> QED
    BY <1>3, <1>4, <1>5, <2>1 DEF ExtractKernel
<1>6. CASE ExtractBaseInitrd(p)
  BY <1>3, <1>4, <1>6 DEF ExtractBaseInitrd
<1>7. CASE CreateSquashfs(p) \/ CreateVerity(p)
  <2>1. Torable(p) = {IF pc[p] = "squashfs" THEN Squashfs ELSE Verity}
    BY <1>7 DEF CreateSquashfs, CreateVerity, Step, Torable
  <2> QED
    BY <1>4, <1>7, <2>1 DEF CreateSquashfs, CreateVerity, Step
<1>8. CASE WriteRoothash(p) \/ AssembleGpt(p)
  <2>1. Torable(p) = {Art(p, IF pc[p] = "roothash" THEN "roothash" ELSE "raw")}
    BY <1>8, SMTT(60) DEF WriteRoothash, AssembleGpt, Step, Torable
  <2> QED
    BY <1>4, <1>8, <2>1 DEF WriteRoothash, AssembleGpt, Step
<1>9. CASE BuildInitrd(p)
  <2>1. Torable(p) = {Art(p, "initrd")}
    BY <1>9 DEF BuildInitrd, Step, Torable
  <2>2. fn # Art(p, "initrd")
    BY <2>1
  <2>3. CASE \E base : file' = [file EXCEPT ![job[p].out][Art(p, "initrd")] = base,
                                            ![job[p].out][Art(p, "initrd.base")] = Absent]
    BY <1>2, <2>2, <2>3
  <2> QED
    BY <1>3, <1>4, <1>9, <2>2, <2>3 DEF BuildInitrd
<1>10. CASE CreateDisk(p)
  <2>1. Torable(p) = {<<"img", d>> : d \in job[p].todo}
    BY <1>10 DEF CreateDisk, Step, Torable
  <2> QED
    BY <1>4, <1>10, <2>1 DEF CreateDisk
<1>11. CASE WriteDiskRoothash(p) \/ WriteDiskHashoffset(p)
  <2>1. Torable(p) = {<<pc[p], job[p].cur>>}
    BY <1>11 DEF WriteDiskRoothash, WriteDiskHashoffset, Step, Torable
  <2> QED
    BY <1>4, <1>11, <2>1 DEF WriteDiskRoothash, WriteDiskHashoffset, Step
<1>12. CASE WriteManifest(p)
  <2>1. Torable(p) = {Manifest}
    BY <1>12 DEF WriteManifest, Step, Torable
  <2> QED
    BY <1>4, <1>12, <2>1 DEF WriteManifest
<1>13. CASE \/ ReuseRootfs(p) \/ WipeRootfs(p) \/ ExtractRootfs(p) \/ ApplyConfig(p)
            \/ SkipDisk(p) \/ DisksDone(p) \/ Finish(p) \/ Bail(p)
  BY <1>3, <1>13 DEF ReuseRootfs, WipeRootfs, ExtractRootfs, ApplyConfig, SkipDisk, DisksDone,
       Finish, Bail
<1>14. ~CleanOutput(p)
  BY DEF CleanOutput, Step
<1> QED
  BY <1>5, <1>6, <1>7, <1>8, <1>9, <1>10, <1>11, <1>12, <1>13, <1>14 DEF Proceed

(* What a step that does not end the command keeps of its memory.          *)
LEMMA StepsKeepMemory ==
  ASSUME TypeInv, NEW p \in Procs, Proceed(p), pc'[p] # "idle"
  PROVE  LET j == job[p]
             k == job'[p]
         IN  /\ k.cmd = j.cmd /\ k.cfg = j.cfg /\ k.out = j.out /\ k.todo \subseteq j.todo
             /\ pc[p] # "kernel" => k.kernel = j.kernel
             /\ pc[p] # "verity" => k.root = j.root
             /\ pc[p] # "initrd" => k.initrd = j.initrd
             /\ pc[p] # "disk" => k.disks = j.disks /\ k.cur = j.cur
<1>1. Running(p)
  BY MovingRuns
<1>2. job[p] \in Jobs /\ job \in [Procs -> Jobs \cup {Absent}] /\ pc \in [Procs -> Steps \cup {"idle"}]
  BY <1>1, RunningTypes DEF TypeInv, TypeOK
<1>3. CASE job' = job
  BY <1>3
<1>4. CASE ExtractKernel(p)
  <2>1. pc[p] = "kernel" /\ \E x : job' = [job EXCEPT ![p] = [job[p] EXCEPT !.kernel = x]]
    BY <1>2, <1>4 DEF ExtractKernel, Step
  <2> QED
    BY <1>2, <2>1 DEF Jobs
<1>5. CASE ExtractBaseInitrd(p)
  <2>1. job' = job \/ \E x : job' = [job EXCEPT ![p] = [job[p] EXCEPT !.base = x]]
    BY <1>2, <1>5 DEF ExtractBaseInitrd, Step
  <2> QED
    BY <1>2, <1>3, <2>1 DEF Jobs
<1>6. CASE CreateVerity(p)
  <2>1. pc[p] = "verity" /\ \E x : job' = [job EXCEPT ![p] = [job[p] EXCEPT !.root = x]]
    BY <1>2, <1>6 DEF CreateVerity, Step
  <2> QED
    BY <1>2, <2>1 DEF Jobs
<1>7. CASE BuildInitrd(p)
  <2>1. pc[p] = "initrd" /\ \E x : job' = [job EXCEPT ![p] = [job[p] EXCEPT !.initrd = x]]
    BY <1>2, <1>7 DEF BuildInitrd, Step
  <2> QED
    BY <1>2, <2>1 DEF Jobs
<1>8. CASE SkipDisk(p)
  <2>1. pc[p] = "disk" /\ \E d : job' = [job EXCEPT ![p] = [job[p] EXCEPT !.todo = job[p].todo \ {d}]]
    BY <1>2, <1>8 DEF SkipDisk, Step
  <2> QED
    BY <1>2, <2>1 DEF Jobs
<1>9. CASE CreateDisk(p)
  <2>1. pc[p] = "disk"
    BY <1>9 DEF CreateDisk, Step
  <2>2. PICK d, v : job' = [job EXCEPT ![p].todo = @ \ {d}, ![p].cur = d, ![p].disks[d] = v]
    BY <1>9 DEF CreateDisk
  <2>3. job'[p] = [job[p] EXCEPT !.todo = @ \ {d}, !.cur = d, !.disks[d] = v]
    BY <1>2, <2>2, SMTT(60)
  <2> QED
    BY <1>2, <2>1, <2>3 DEF Jobs
<1>10. CASE \/ ReuseRootfs(p) \/ WipeRootfs(p) \/ ExtractRootfs(p) \/ ApplyConfig(p)
            \/ CleanOutput(p) \/ CreateSquashfs(p) \/ WriteRoothash(p) \/ AssembleGpt(p)
            \/ WriteDiskRoothash(p) \/ WriteDiskHashoffset(p) \/ DisksDone(p)
            \/ WriteManifest(p)
  BY <1>3, <1>10, SMTT(60) DEF ReuseRootfs, WipeRootfs, ExtractRootfs, ApplyConfig, CleanOutput,
       CreateSquashfs, WriteRoothash, AssembleGpt, WriteDiskRoothash, WriteDiskHashoffset,
       DisksDone, WriteManifest
<1>11. ~Finish(p) /\ ~Bail(p)
  BY <1>2 DEF Finish, Bail, Step, End
<1> QED
  BY <1>4, <1>5, <1>6, <1>7, <1>8, <1>9, <1>10, <1>11 DEF Proceed

(* In what order the steps of a build or seal come.                        *)
LEMMA StepOrder ==
  ASSUME TypeInv, NEW p \in Procs, Proceed(p), pc'[p] # "idle", job[p].cmd # "extract"
  PROVE  /\ pc[p] \in {"reuse", "wipe", "extract", "apply", "clean"} =>
              pc'[p] \in {"extract", "apply", "clean", "kernel"}
         /\ pc[p] = "kernel"   => pc'[p] = "base"     /\ ExtractKernel(p)
         /\ pc[p] = "base"     => pc'[p] = "squashfs"
         /\ pc[p] = "squashfs" => pc'[p] = "verity"
         /\ pc[p] = "verity"   => pc'[p] = "roothash"
         /\ pc[p] = "roothash" => pc'[p] = "raw"      /\ WriteRoothash(p)
         /\ pc[p] = "raw"      => pc'[p] = "initrd"   /\ AssembleGpt(p)
         /\ pc[p] = "initrd"   =>
              /\ pc'[p] = IF job[p].cmd = "build" THEN "disk" ELSE "manifest"
              /\ BuildInitrd(p)
         /\ pc[p] = "disk" => \/ pc'[p] \in {"disk", "manifest"} /\ job'[p].disks = job[p].disks
                              \/ pc'[p] = "disk.roothash" /\ CreateDisk(p)
         /\ pc[p] = "disk.roothash"   => pc'[p] = "disk.hashoffset" /\ WriteDiskRoothash(p)
         /\ pc[p] = "disk.hashoffset" => pc'[p] = "disk" /\ WriteDiskHashoffset(p)
         /\ pc[p] = "manifest" => pc'[p] = "done" /\ WriteManifest(p)
         /\ pc[p] # "done"
<1>1. Running(p)
  BY MovingRuns
<1>2. job[p] \in Jobs /\ job \in [Procs -> Jobs \cup {Absent}] /\ pc \in [Procs -> Steps \cup {"idle"}]
  BY <1>1, RunningTypes DEF TypeInv, TypeOK
<1>3. ~Finish(p) /\ ~Bail(p)
  BY <1>2 DEF Finish, Bail, Step, End
<1>4. CASE ReuseRootfs(p) \/ WipeRootfs(p) \/ ExtractRootfs(p) \/ ApplyConfig(p) \/ CleanOutput(p)
  BY <1>2, <1>4, SMTT(60) DEF ReuseRootfs, WipeRootfs, ExtractRootfs, ApplyConfig, CleanOutput, Step
<1>5. CASE ExtractKernel(p) \/ ExtractBaseInitrd(p) \/ CreateSquashfs(p) \/ CreateVerity(p)
  BY <1>2, <1>5, SMTT(60) DEF ExtractKernel, ExtractBaseInitrd, CreateSquashfs, CreateVerity, Step
<1>6. CASE WriteRoothash(p) \/ AssembleGpt(p) \/ BuildInitrd(p) \/ WriteManifest(p)
  BY <1>2, <1>6, SMTT(60) DEF WriteRoothash, AssembleGpt, BuildInitrd, WriteManifest, Step
<1>7. CASE SkipDisk(p) \/ DisksDone(p)
  <2>1. pc[p] = "disk" /\ pc'[p] \in {"disk", "manifest"}
    BY <1>2, <1>7 DEF SkipDisk, DisksDone, Step
  <2>2. job' = job \/ \E d : job' = [job EXCEPT ![p] = [job[p] EXCEPT !.todo = job[p].todo \ {d}]]
    BY <1>2, <1>7 DEF SkipDisk, DisksDone
  <2>3. job'[p].disks = job[p].disks
    BY <1>2, <2>2 DEF Jobs
  <2> QED
    BY <2>1, <2>3
<1>8. CASE CreateDisk(p)
  <2>1. pc[p] = "disk" /\ pc'[p] = "disk.roothash"
    BY <1>2, <1>8 DEF CreateDisk, Step
  <2> QED
    BY <1>8, <2>1
<1>9. CASE WriteDiskRoothash(p)
  <2>1. pc[p] = "disk.roothash" /\ pc'[p] = "disk.hashoffset"
    BY <1>2, <1>9 DEF WriteDiskRoothash, Step
  <2> QED
    BY <1>9, <2>1
<1>10. CASE WriteDiskHashoffset(p)
  <2>1. pc[p] = "disk.hashoffset" /\ pc'[p] = "disk"
    BY <1>2, <1>10 DEF WriteDiskHashoffset, Step
  <2> QED
    BY <1>10, <2>1
<1> QED
  BY <1>3, <1>4, <1>5, <1>6, <1>7, <1>8, <1>9, <1>10 DEF Proceed
AfterKernel   == (Sealing \ {"kernel"}) \cup {"done"}
AfterRoothash == {"raw", "initrd", "done"} \cup DiskSteps
AfterRaw      == AfterRoothash \ {"raw"}
AfterInitrd   == DiskSteps \cup {"done"}

(* What a build or seal remembers is what its files hold: whatever was in  *)
(* the directory before, its kernel, initrd, root hash, image and the two  *)
(* small files of each disk it recorded are those it wrote.                *)
FilesOf(p) ==
  LET j == job[p]
      f == file[j.out]
  IN
  Running(p) /\ j.cmd # "extract" =>
    /\ j.todo \subseteq j.cfg.disks
    /\ pc[p] \in AfterKernel /\ j.kernel # Unavailable => f[Art(p, "vmlinuz")] = j.kernel
    /\ pc[p] \in AfterRoothash => f[Art(p, "roothash")] = j.root
    /\ pc[p] \in AfterRaw => f[Art(p, "raw")] # Absent
    /\ pc[p] \in AfterInitrd /\ j.initrd # Unavailable => f[Art(p, "initrd")] = j.initrd
    /\ pc[p] \notin AfterInitrd => \A d \in Disks : j.disks[d] = Absent
    /\ \A d \in Disks :
         j.disks[d] # Absent =>
           /\ d \in j.cfg.disks
           /\ \/ pc[p] = "disk.roothash" /\ d = j.cur
              \/ f[<<"disk.roothash", d>>] = j.disks[d]
           /\ \/ pc[p] \in {"disk.roothash", "disk.hashoffset"} /\ d = j.cur
              \/ f[<<"disk.hashoffset", d>>] = j.disks[d]
    /\ pc[p] = "done" =>
         /\ f[Manifest] = BuildManifest(j)
         /\ j.root \in Trees /\ j.kernel \in Kernels /\ j.initrd \in Ramdisks

CommandsHaveFiles == \A p \in Procs : FilesOf(p)

(* Commands write only to their own output directory.                      *)
LEMMA OthersHaveFiles ==
  ASSUME TypeInv, CommandsHaveFiles, NEW p \in Procs, Running(p),
         Proceed(p) \/ Abort(p), NEW q \in Procs \ {p},
         pc'[q] = pc[q], job'[q] = job[q]
  PROVE  FilesOf(q)'
<1>1. CASE ~Running(q)
  BY <1>1 DEF Running, FilesOf
<1>2. CASE Running(q)
  <2>1. job[q].out \in Outputs /\ job[q].out # job[p].out
    BY <1>2, RunningTypes DEF TypeInv, OwnOutputs
  <2>2. file'[job[q].out] = file[job[q].out]
    BY <2>1, ElsewhereUntouched
  <2>3. \A kind : Art(q, kind)' = Art(q, kind)
    BY DEF Art
  <2>4. FilesOf(q) /\ Running(q)' = Running(q)
    BY DEF CommandsHaveFiles, Running
  <2> QED
    BY <2>2, <2>3, <2>4 DEF FilesOf
<1> QED
  BY <1>1, <1>2

(* Which of its files a step leaves alone.                                 *)
LEMMA StepsKeepFiles ==
  ASSUME TypeInv, NEW p \in Procs, Proceed(p), pc[p] # "clean"
  PROVE  LET f == file[job[p].out]
             g == file'[job[p].out]
         IN  /\ pc[p] # "kernel" => g[Art(p, "vmlinuz")] = f[Art(p, "vmlinuz")]
             /\ pc[p] # "roothash" => g[Art(p, "roothash")] = f[Art(p, "roothash")]
             /\ pc[p] # "raw" => g[Art(p, "raw")] = f[Art(p, "raw")]
             /\ pc[p] # "initrd" => g[Art(p, "initrd")] = f[Art(p, "initrd")]
             /\ \A kind \in {"disk.roothash", "disk.hashoffset"}, d \in Disks :
                  pc[p] # kind \/ d # job[p].cur => g[<<kind, d>>] = f[<<kind, d>>]
<1>1. Running(p) /\ job[p] \in Jobs
  BY MovingRuns, RunningTypes
<1>2. \A kind \in {"vmlinuz", "roothash", "raw", "initrd"} :
        /\ Art(p, kind) \in Files
        /\ Art(p, kind) # Art(p, "initrd.base")
  BY <1>1, ArtifactNames DEF ImageKinds, Art
<1>3. \A kind \in {"disk.roothash", "disk.hashoffset"}, d \in Disks :
        /\ <<kind, d>> \in Files
        /\ <<kind, d>> # Art(p, "initrd.base")
  BY <1>1, ArtifactNames DEF DiskKinds, Art
<1>4. ASSUME NEW kind \in {"vmlinuz", "roothash", "raw", "initrd"}, pc[p] # IF kind = "vmlinuz" THEN "kernel" ELSE kind
      PROVE  Art(p, kind) \notin Torable(p)
  BY <1>4 DEF Torable, Art, Squashfs, Verity, Manifest
<1>5. ASSUME NEW kind \in {"disk.roothash", "disk.hashoffset"}, NEW d \in Disks,
             pc[p] # kind \/ d # job[p].cur
      PROVE  <<kind, d>> \notin Torable(p)
  BY <1>5 DEF Torable, Art, Squashfs, Verity, Manifest
<1>6. \A fn \in Files : fn \notin Torable(p) /\ fn # Art(p, "initrd.base") =>
        file'[job[p].out][fn] = file[job[p].out][fn]
  BY WritesOnlyTorable
<1> QED
  BY <1>2, <1>3, <1>4, <1>5, <1>6

(* What each writing step leaves in the file it writes.                    *)
LEMMA WrittenFiles ==
  ASSUME TypeInv, NEW p \in Procs, Proceed(p), pc'[p] # "idle"
  PROVE  LET f == file[job[p].out]
             g == file'[job[p].out]
             k == job'[p]
         IN  /\ ExtractKernel(p) /\ k.kernel # Unavailable => g[Art(p, "vmlinuz")] = k.kernel
             /\ WriteRoothash(p) => g[Art(p, "roothash")] = job[p].root
             /\ AssembleGpt(p) => g[Art(p, "raw")] # Absent
             /\ BuildInitrd(p) /\ k.initrd # Unavailable => g[Art(p, "initrd")] = k.initrd
             /\ WriteDiskRoothash(p) =>
                  g[<<"disk.roothash", job[p].cur>>] = job[p].disks[job[p].cur]
             /\ WriteDiskHashoffset(p) =>
                  g[<<"disk.hashoffset", job[p].cur>>] = job[p].disks[job[p].cur]
             /\ WriteManifest(p) => g[Manifest] = BuildManifest(job[p])
<1> DEFINE f == file[job[p].out]
           g == file'[job[p].out]
<1>1. Running(p) /\ job[p] \in Jobs /\ MemoryOf(p)
  BY MovingRuns, RunningTypes
<1>2. /\ job[p].out \in Outputs /\ f \in [Files -> Contents]
      /\ file \in [Outputs -> [Files -> Contents]]
      /\ job \in [Procs -> Jobs \cup {Absent}]
  BY <1>1, RunningTypes DEF TypeInv, TypeOK
<1>3. /\ \A kind \in ImageKinds : Art(p, kind) \in Files
      /\ \A kind \in DiskKinds, d \in Disks : <<kind, d>> \in Files
      /\ Manifest \in Files
  BY <1>1, ArtifactNames
<1>4. ASSUME NEW fn \in Files, NEW c, Write(p, fn, c)
      PROVE  g[fn] = c
  BY <1>2, <1>4 DEF Write
<1>5. ASSUME ExtractKernel(p), job'[p].kernel # Unavailable
      PROVE  g[Art(p, "vmlinuz")] = job'[p].kernel
  <2>1. PICK x : /\ job' = [job EXCEPT ![p] = [job[p] EXCEPT !.kernel = x]]
                 /\ x = Unavailable \/ Write(p, Art(p, "vmlinuz"), x)
    BY <1>5 DEF ExtractKernel
  <2>2. job'[p].kernel = x
    BY <1>1, <1>2, <2>1 DEF Jobs
  <2> QED
    BY <1>3, <1>4, <1>5, <2>1, <2>2 DEF ImageKinds
<1>6. WriteRoothash(p) => g[Art(p, "roothash")] = job[p].root
  BY <1>3, <1>4 DEF WriteRoothash, ImageKinds
<1>7. ASSUME AssembleGpt(p)
      PROVE  g[Art(p, "raw")] # Absent
  <2> DEFINE raw == [data |-> f[Squashfs], hashes |-> f[Verity]]
  <2>1. pc[p] = "raw" /\ Write(p, Art(p, "raw"), raw)
    BY <1>7 DEF AssembleGpt, Step
  <2>2. raw \in RawImages
    BY <1>1, <2>1 DEF MemoryOf, RawImages, Sealing, BeforeRoot, BeforeClean
  <2>3. raw # Absent
    BY <2>2, RecordAssumption
  <2> HIDE DEF raw
  <2> QED
    BY <1>3, <1>4, <2>1, <2>3 DEF ImageKinds
<1>8. ASSUME BuildInitrd(p), job'[p].initrd # Unavailable
      PROVE  g[Art(p, "initrd")] = job'[p].initrd
  <2>1. PICK x : /\ job' = [job EXCEPT ![p] = [job[p] EXCEPT !.initrd = x]]
                 /\ \/ x = Unavailable
                    \/ file' = [file EXCEPT ![job[p].out][Art(p, "initrd")] = x,
                                            ![job[p].out][Art(p, "initrd.base")] = Absent]
    BY <1>8 DEF BuildInitrd
  <2>2. job'[p].initrd = x
    BY <1>1, <1>2, <2>1 DEF Jobs
  <2>3. Art(p, "initrd") # Art(p, "initrd.base")
    BY DEF Art
  <2> QED
    BY <1>2, <1>3, <1>8, <2>1, <2>2, <2>3 DEF ImageKinds
<1>9. ASSUME WriteDiskRoothash(p) \/ WriteDiskHashoffset(p)
      PROVE  g[<<pc[p], job[p].cur>>] = job[p].disks[job[p].cur]
  <2>1. /\ pc[p] \in {"disk.roothash", "disk.hashoffset"}
        /\ Write(p, <<pc[p], job[p].cur>>, job[p].disks[job[p].cur])
    BY <1>9 DEF WriteDiskRoothash, WriteDiskHashoffset, Step
  <2>2. job[p].cur \in Disks
    BY <1>1, <2>1 DEF MemoryOf
  <2> QED
    BY <1>3, <1>4, <2>1, <2>2 DEF DiskKinds
<1>10. WriteManifest(p) => g[Manifest] = BuildManifest(job[p])
  BY <1>3, <1>4 DEF WriteManifest
<1> QED
  BY <1>5, <1>6, <1>7, <1>8, <1>9, <1>10 DEF WriteDiskRoothash, WriteDiskHashoffset, Step
LEMMA OwnFiles ==
  ASSUME TypeInv, NEW p \in Procs, FilesOf(p), Proceed(p) \/ Abort(p)
  PROVE  FilesOf(p)'
<1>1. CASE pc'[p] = "idle"
  BY <1>1 DEF FilesOf, Running
<1>2. CASE Abort(p)
  BY <1>1, <1>2 DEF Abort, End, TypeInv, TypeOK
<1>3. CASE Proceed(p) /\ pc'[p] # "idle"
  <2> DEFINE j == job[p]
             k == job'[p]
             f == file[j.out]
             g == file'[j.out]
  <2>1. Running(p) /\ j \in Jobs /\ MemoryOf(p)
    BY <1>3, MovingRuns, RunningTypes
  <2>2. /\ k.cmd = j.cmd /\ k.cfg = j.cfg /\ k.out = j.out /\ k.todo \subseteq j.todo
        /\ pc[p] # "kernel" => k.kernel = j.kernel
        /\ pc[p] # "verity" => k.root = j.root
        /\ pc[p] # "initrd" => k.initrd = j.initrd
        /\ pc[p] # "disk" => k.disks = j.disks /\ k.cur = j.cur
    BY <1>3, StepsKeepMemory
  <2>3. CASE j.cmd = "extract"
    BY <2>2, <2>3, SMTT(60) DEF FilesOf
  <2>4. CASE j.cmd # "extract"
    <3> DEFINE name(kind) == Art(p, kind)
    <3>1. \A kind : Art(p, kind)' = name(kind)
      BY <2>2 DEF Art
    <3>2. /\ j.todo \subseteq j.cfg.disks
          /\ pc[p] \in AfterKernel /\ j.kernel # Unavailable => f[name("vmlinuz")] = j.kernel
          /\ pc[p] \in AfterRoothash => f[name("roothash")] = j.root
          /\ pc[p] \in AfterRaw => f[name("raw")] # Absent
          /\ pc[p] \in AfterInitrd /\ j.initrd # Unavailable => f[name("initrd")] = j.initrd
          /\ pc[p] \notin AfterInitrd => \A d \in Disks : j.disks[d] = Absent
          /\ \A d \in Disks :
               j.disks[d] # Absent =>
                 /\ d \in j.cfg.disks
                 /\ \/ pc[p] = "disk.roothash" /\ d = j.cur
                    \/ f[<<"disk.roothash", d>>] = j.disks[d]
                 /\ \/ pc[p] \in {"disk.roothash", "disk.hashoffset"} /\ d = j.cur
                    \/ f[<<"disk.hashoffset", d>>] = j.disks[d]
      BY <2>1, <2>4, SMTT(60) DEF FilesOf
    <3>3. SUFFICES
            /\ k.todo \subseteq j.cfg.disks
            /\ pc'[p] \in AfterKernel /\ k.kernel # Unavailable => g[name("vmlinuz")] = k.kernel
            /\ pc'[p] \in AfterRoothash => g[name("roothash")] = k.root
            /\ pc'[p] \in AfterRaw => g[name("raw")] # Absent
            /\ pc'[p] \in AfterInitrd /\ k.initrd # Unavailable => g[name("initrd")] = k.initrd
            /\ pc'[p] \notin AfterInitrd => \A d \in Disks : k.disks[d] = Absent
            /\ \A d \in Disks :
                 k.disks[d] # Absent =>
                   /\ d \in j.cfg.disks
                   /\ \/ pc'[p] = "disk.roothash" /\ d = k.cur
                      \/ g[<<"disk.roothash", d>>] = k.disks[d]
                   /\ \/ pc'[p] \in {"disk.roothash", "disk.hashoffset"} /\ d = k.cur
                      \/ g[<<"disk.hashoffset", d>>] = k.disks[d]
            /\ pc'[p] = "done" =>
                 /\ g[Manifest] = BuildManifest(k)
                 /\ k.root \in Trees /\ k.kernel \in Kernels /\ k.initrd \in Ramdisks
      BY <2>2, <3>1 DEF FilesOf
    <3>4. pc[p] # "clean" =>
            /\ pc[p] # "kernel" => g[name("vmlinuz")] = f[name("vmlinuz")]
            /\ pc[p] # "roothash" => g[name("roothash")] = f[name("roothash")]
            /\ pc[p] # "raw" => g[name("raw")] = f[name("raw")]
            /\ pc[p] # "initrd" => g[name("initrd")] = f[name("initrd")]
            /\ \A kind \in {"disk.roothash", "disk.hashoffset"}, d \in Disks :
                 pc[p] # kind \/ d # j.cur => g[<<kind, d>>] = f[<<kind, d>>]
      BY <1>3, StepsKeepFiles
    <3>5. /\ ExtractKernel(p) /\ k.kernel # Unavailable => g[name("vmlinuz")] = k.kernel
          /\ WriteRoothash(p) => g[name("roothash")] = j.root
          /\ AssembleGpt(p) => g[name("raw")] # Absent
          /\ BuildInitrd(p) /\ k.initrd # Unavailable => g[name("initrd")] = k.initrd
          /\ WriteDiskRoothash(p) => g[<<"disk.roothash", j.cur>>] = j.disks[j.cur]
          /\ WriteDiskHashoffset(p) => g[<<"disk.hashoffset", j.cur>>] = j.disks[j.cur]
          /\ WriteManifest(p) => g[Manifest] = BuildManifest(j)
      BY <1>3, WrittenFiles
    <3>6. /\ pc[p] \in BeforeClean => pc'[p] \in {"extract", "apply", "clean", "kernel"}
          /\ pc[p] = "kernel"   => pc'[p] = "base"     /\ ExtractKernel(p)
          /\ pc[p] = "base"     => pc'[p] = "squashfs"
          /\ pc[p] = "squashfs" => pc'[p] = "verity"
          /\ pc[p] = "verity"   => pc'[p] = "roothash"
          /\ pc[p] = "roothash" => pc'[p] = "raw"      /\ WriteRoothash(p)
          /\ pc[p] = "raw"      => pc'[p] = "initrd"   /\ AssembleGpt(p)
          /\ pc[p] = "initrd"   =>
               /\ pc'[p] = IF j.cmd = "build" THEN "disk" ELSE "manifest"
               /\ BuildInitrd(p)
          /\ pc[p] = "disk" => \/ pc'[p] \in {"disk", "manifest"} /\ k.disks = j.disks
                               \/ pc'[p] = "disk.roothash" /\ CreateDisk(p)
          /\ pc[p] = "disk.roothash"   => pc'[p] = "disk.hashoffset" /\ WriteDiskRoothash(p)
          /\ pc[p] = "disk.hashoffset" => pc'[p] = "disk" /\ WriteDiskHashoffset(p)
          /\ pc[p] = "manifest" => pc'[p] = "done" /\ WriteManifest(p)
          /\ pc[p] # "done"
      BY <1>3, <2>4, StepOrder DEF BeforeClean
    <3>7. pc[p] \in Steps
      BY <2>1 DEF TypeInv, TypeOK, Running
    <3>8. CASE pc[p] \in BeforeClean
      BY <2>2, <3>2, <3>6, <3>8 DEF BeforeClean, AfterKernel, AfterRoothash, AfterRaw,
           AfterInitrd, DiskSteps, Sealing
    <3> USE DEF AfterKernel, AfterRoothash, AfterRaw, AfterInitrd, DiskSteps, Sealing
    <3> HIDE DEF name, f, g, k, j
    <3>9. CASE pc[p] \in {"kernel", "base", "squashfs", "verity"}
      BY <2>2, <3>2, <3>4, <3>5, <3>6, <3>9, SMTT(60)
    <3>10. CASE pc[p] \in {"roothash", "raw"}
      BY <2>2, <3>2, <3>4, <3>5, <3>6, <3>10, SMTT(60)
    <3>11. CASE pc[p] = "initrd"
      BY <2>2, <3>2, <3>4, <3>5, <3>6, <3>11, SMTT(60)
    <3>12. CASE pc[p] = "disk" /\ pc'[p] \in {"disk", "manifest"} /\ k.disks = j.disks
      BY <2>2, <3>2, <3>4, <3>12, SMTT(60)
    <3>13. CASE pc[p] = "disk" /\ pc'[p] = "disk.roothash" /\ CreateDisk(p)
      <4>1. PICK d \in j.todo, v \in Versions : /\ k.cur = d
                                                /\ \A e \in Disks : e # d => k.disks[e] = j.disks[e]
        <5>1. PICK d \in j.todo, v \in Versions :
                job' = [job EXCEPT ![p].todo = @ \ {d}, ![p].cur = d, ![p].disks[d] = v]
          BY <3>13 DEF CreateDisk, j
        <5>2. k = [j EXCEPT !.todo = @ \ {d}, !.cur = d, !.disks[d] = v]
          BY <5>1 DEF TypeInv, TypeOK, j, k
        <5>3. k.cur = d /\ k.disks = [j.disks EXCEPT ![d] = v]
          BY <2>1, <5>2 DEF Jobs
        <5>4. j.disks \in DiskSets
          BY <2>1 DEF Jobs
        <5> QED
          BY <5>3, <5>4 DEF DiskSets
      <4>2. d \in j.cfg.disks
        BY <3>2
      <4> QED
        BY <2>2, <3>2, <3>4, <3>13, <4>1, <4>2, SMTT(60)
    <3>14. CASE pc[p] \in {"disk.roothash", "disk.hashoffset"}
      <4>1. j.cur \in Disks
        BY <2>1, <3>14 DEF MemoryOf, j
      <4> QED
        BY <2>2, <3>2, <3>4, <3>5, <3>6, <3>14, <4>1, SMTT(60)
    <3>15. CASE pc[p] = "manifest"
      <4>1. j.root \in Trees /\ j.kernel \in Kernels /\ j.initrd \in Ramdisks
        BY <2>1, <3>15 DEF MemoryOf, BeforeRoot, BeforeClean, j
      <4>2. BuildManifest(k) = BuildManifest(j)
        BY <2>2, <3>15 DEF BuildManifest
      <4> QED
        BY <2>2, <3>2, <3>4, <3>5, <3>6, <3>15, <4>1, <4>2, SMTT(60)
    <3> QED
      BY <3>6, <3>7, <3>8, <3>9, <3>10, <3>11, <3>12, <3>13, <3>14, <3>15 DEF Steps
  <2> QED
    BY <2>3, <2>4
<1> QED
  BY <1>1, <1>2, <1>3

LEMMA StartFiles ==
  ASSUME TypeInv, NEW p \in Procs, StartBuild(p) \/ StartSeal(p) \/ StartExtract(p)
  PROVE  FilesOf(p)' /\ pc'[p] \in {"wipe", "reuse", "apply"}
<1> DEFINE Begun(step) == /\ pc'[p] = step /\ job'[p].todo = job'[p].cfg.disks
                          /\ job'[p].disks = [d \in Disks |-> Absent]
<1>1. ASSUME NEW step, NEW cmd, NEW c, NEW o, NEW w, NEW skip,
             Start(p, step, NewJob(cmd, c, o, w, skip))
      PROVE  Begun(step)
  BY <1>1 DEF Start, NewJob, TypeInv, TypeOK
<1> HIDE DEF Begun
<1>2. \E step \in {"wipe", "reuse", "apply"} : Begun(step)
  <2>1. CASE StartBuild(p)
    <3>1. PICK c \in Configs, o \in Outputs, step \in {"wipe", "reuse"} :
            Start(p, step, NewJob("build", c, o, WorkDir(c.image, o), step = "reuse"))
      BY <2>1 DEF StartBuild
    <3>2. Begun(step)
      BY <1>1, <3>1
    <3> QED
      BY <3>2
  <2>2. CASE StartSeal(p) \/ StartExtract(p)
    BY <1>1, <2>2 DEF StartSeal, StartExtract
  <2> QED
    BY <2>1, <2>2
<1> QED
  BY <1>2 DEF Begun, FilesOf, AfterKernel, AfterRoothash, AfterRaw, AfterInitrd, DiskSteps,
       Sealing

LEMMA NextHasFiles ==
  ASSUME TypeInv, CommandsHaveFiles, [Next]_vars
  PROVE  CommandsHaveFiles'
<1>1. CASE UNCHANGED vars
  BY <1>1, ZenonT(60) DEF vars, CommandsHaveFiles, FilesOf, Running, Art
<1>2. CASE Next
  <2>1. PICK p \in Procs : \/ StartBuild(p) \/ StartSeal(p) \/ StartExtract(p)
                           \/ Proceed(p)
                           \/ Abort(p)
    BY <1>2 DEF Next
  <2>2. \A q \in Procs \ {p} : pc'[q] = pc[q] /\ job'[q] = job[q]
    BY <2>1, OnlyOneMoves
  <2>3. CASE StartBuild(p) \/ StartSeal(p) \/ StartExtract(p)
    <3>1. file' = file
      BY <2>3, StartsLeaveFiles
    <3>2. ASSUME NEW q \in Procs \ {p} PROVE FilesOf(q)'
      <4>1. \A kind : Art(q, kind)' = Art(q, kind)
        BY <2>2 DEF Art
      <4>2. FilesOf(q) /\ Running(q)' = Running(q)
        BY <2>2 DEF CommandsHaveFiles, Running
      <4> QED
        BY <2>2, <3>1, <4>1, <4>2 DEF FilesOf
    <3> QED
      BY <2>3, <3>2, StartFiles DEF CommandsHaveFiles
  <2>4. CASE Proceed(p) \/ Abort(p)
    <3>1. Running(p)
      BY <2>4, MovingRuns
    <3>2. ASSUME NEW q \in Procs \ {p} PROVE FilesOf(q)'
      BY <2>2, <2>4, <3>1, OthersHaveFiles, SMTT(60)
    <3> QED
      BY <2>4, <3>2, OwnFiles DEF CommandsHaveFiles
  <2> QED
    BY <2>1, <2>3, <2>4
<1> QED
  BY <1>1, <1>2
-----------------------------------------------------------------------------
(* A build, whatever seals run beside it, has cleaned its directory before *)
(* it seals, and when it is done its files are those it remembers.         *)
CleanBuild(p) ==
  Running(p) /\ job[p].cmd = "build" =>
    /\ CleanOf(p)
    /\ pc[p] = "done" => Agrees(job[p], file[job[p].out])

BuildsStayClean == \A p \in Procs : CleanBuild(p)

LEMMA OwnBuildClean ==
  ASSUME TypeInv, NEW p \in Procs, CleanBuild(p), Proceed(p)
  PROVE  CleanBuild(p)'
<1> SUFFICES ASSUME Running(p)', job'[p].cmd = "build"
             PROVE  CleanOf(p)' /\ (pc'[p] = "done" => Agrees(job'[p], file'[job'[p].out]))
  BY DEF CleanBuild
<1>1. Running(p) /\ pc'[p] # "idle"
  BY MovingRuns DEF Running
<1>2. job[p].cmd = "build" /\ job'[p].out = job[p].out
  BY <1>1, StepsKeepMemory
<1>3. CleanOf(p)
  BY <1>1, <1>2 DEF CleanBuild
<1>4. CleanOf(p)'
  BY <1>2, <1>3, ProceedKeeps
<1>5. ASSUME pc'[p] = "done"
      PROVE  Agrees(job'[p], file'[job'[p].out])
  <2> DEFINE f == file[job[p].out]
             g == file'[job[p].out]
  <2>1. pc[p] = "manifest" /\ WriteManifest(p)
    <3>1. job[p].cmd # "extract" /\ pc[p] \in Steps
      BY <1>1, <1>2 DEF TypeInv, TypeOK, Running
    <3> QED
      BY <1>1, <1>5, <3>1, StepOrder DEF Steps, BeforeClean, Sealing
  <2>2. Agrees(job[p], f) /\ job' = job
    BY <1>3, <2>1 DEF CleanOf, Sealing, WriteManifest
  <2>3. \A fn \in Files : fn # Manifest => g[fn] = f[fn]
    <3>1. job[p].out \in Outputs
      BY <1>1, RunningTypes
    <3>2. Write(p, Manifest, BuildManifest(job[p]))
      BY <2>1 DEF WriteManifest
    <3> QED
      BY <3>1, <3>2 DEF Write, TypeInv, TypeOK
  <2> HIDE DEF f, g
  <2>4. /\ \A k \in ImageKinds, i \in Images : g[<<k, i>>] = f[<<k, i>>]
        /\ \A k \in DiskKinds, d \in Disks : g[<<k, d>>] = f[<<k, d>>]
    BY <2>3 DEF Files, Manifest, ImageKinds, DiskKinds
  <2>5. Agrees(job[p], g)
    BY <2>2, <2>4, SMTT(60) DEF Agrees, ImageKinds
  <2> QED
    BY <1>2, <2>2, <2>5 DEF g
<1> QED
  BY <1>4, <1>5

LEMMA NextStaysClean ==
  ASSUME TypeInv, BuildsStayClean, [Next]_vars
  PROVE  BuildsStayClean'
<1>1. CASE UNCHANGED vars
  BY <1>1 DEF vars, BuildsStayClean, CleanBuild, CleanOf, Agrees, Running
<1>2. CASE Next
  <2>1. PICK p \in Procs : \/ StartBuild(p) \/ StartSeal(p) \/ StartExtract(p)
                           \/ Proceed(p)
                           \/ Abort(p)
    BY <1>2 DEF Next
  <2>2. ASSUME NEW q \in Procs \ {p}
        PROVE  CleanBuild(q)'
    <3> SUFFICES ASSUME Running(q)', job'[q].cmd = "build"
                 PROVE  CleanOf(q)' /\ (pc'[q] = "done" => Agrees(job'[q], file'[job'[q].out]))
      BY DEF CleanBuild
    <3>1. pc'[q] = pc[q] /\ job'[q] = job[q]
      BY <2>1, OnlyOneMoves
    <3>2. Running(q) /\ CleanBuild(q)
      BY <3>1 DEF Running, BuildsStayClean
    <3>3. CleanOf(q) /\ (pc[q] = "done" => Agrees(job[q], file[job[q].out]))
      BY <3>1, <3>2 DEF CleanBuild
    <3>4. CleanOf(q)'
      BY <2>1, <3>3, StartsKeep, ProceedKeeps, AbortKeeps
    <3>5. file'[job[q].out] = file[job[q].out]
      <4>1. CASE StartBuild(p) \/ StartSeal(p) \/ StartExtract(p)
        BY <4>1, StartsLeaveFiles
      <4>2. CASE Proceed(p) \/ Abort(p)
        <5>1. Running(p)
          BY <4>2, MovingRuns
        <5>2. job[q].out \in Outputs /\ job[q].out # job[p].out
          BY <3>2, <5>1, RunningTypes DEF TypeInv, OwnOutputs
        <5> QED
          BY <4>2, <5>2, ElsewhereUntouched
      <4> QED
        BY <2>1, <4>1, <4>2
    <3> QED
      BY <3>1, <3>3, <3>4, <3>5
  <2>3. CleanBuild(p)'
    <3>1. CASE StartBuild(p) \/ StartSeal(p) \/ StartExtract(p)
      BY <3>1, StartFiles DEF CleanBuild, CleanOf, Sealing
    <3>2. CASE Proceed(p)
      BY <3>2, OwnBuildClean DEF BuildsStayClean
    <3>3. CASE Abort(p)
      BY <3>3, SMTT(60) DEF Abort, End, CleanBuild, Running, TypeInv, TypeOK
    <3> QED
      BY <2>1, <3>1, <3>2, <3>3
  <2> QED
    BY <2>2, <2>3 DEF BuildsStayClean
<1> QED
  BY <1>1, <1>2
-----------------------------------------------------------------------------
(* What is known of a build or seal that is done, in the words of verify.  *)
LEMMA DoneFacts ==
  ASSUME TypeInv, CommandsHaveFiles, NEW p \in Procs,
         pc[p] = "done", job[p].cmd # "extract"
  PROVE  LET j == job[p]
             f == file[j.out]
             i == j.cfg.image
         IN
         /\ j.cfg \in ConfigType /\ j.disks \in DiskSets
         /\ f[<<"vmlinuz", i>>] \in Contents /\ f[<<"initrd", i>>] \in Contents
         /\ HasManifest(j.out) /\ f[Manifest] = BuildManifest(j)
         /\ j.root \in Trees /\ j.kernel \in Kernels /\ j.initrd \in Ramdisks
         /\ j.kernel # Unavailable => f[<<"vmlinuz", i>>] = j.kernel
         /\ j.initrd # Unavailable => f[<<"initrd", i>>] = j.initrd
         /\ f[<<"roothash", i>>] = j.root
         /\ f[<<"raw", i>>] # Absent
         /\ \A d \in RecordedDisks(j) :
              /\ d \in j.cfg.disks /\ j.disks[d] \in Versions
              /\ f[<<"disk.roothash", d>>] = j.disks[d]
              /\ f[<<"disk.hashoffset", d>>] = j.disks[d]
<1> DEFINE j == job[p]
           f == file[j.out]
           i == j.cfg.image
           m == BuildManifest(j)
<1>1. Running(p)
  BY DEF Running
<1>2. j \in Jobs /\ j.out \in Outputs /\ j.cfg \in ConfigType /\ f \in [Files -> Contents]
  BY <1>1, RunningTypes
<1>3. i \in Images /\ j.disks \in DiskSets
  BY <1>2 DEF ConfigType, Jobs
<1>4. f[<<"vmlinuz", i>>] \in Contents /\ f[<<"initrd", i>>] \in Contents
  BY <1>2, <1>3 DEF Files, ImageKinds
<1>5. /\ f[Manifest] = m
      /\ j.root \in Trees /\ j.kernel \in Kernels /\ j.initrd \in Ramdisks
      /\ j.kernel # Unavailable => f[<<"vmlinuz", i>>] = j.kernel
      /\ j.initrd # Unavailable => f[<<"initrd", i>>] = j.initrd
      /\ f[<<"roothash", i>>] = j.root
      /\ f[<<"raw", i>>] # Absent
      /\ \A d \in Disks : j.disks[d] # Absent =>
           /\ d \in j.cfg.disks
           /\ f[<<"disk.roothash", d>>] = j.disks[d]
           /\ f[<<"disk.hashoffset", d>>] = j.disks[d]
  <2>1. FilesOf(p)
    BY DEF CommandsHaveFiles
  <2>2. /\ "done" \in AfterKernel /\ "done" \in AfterRoothash
        /\ "done" \in AfterRaw /\ "done" \in AfterInitrd
    BY DEF AfterKernel, AfterRoothash, AfterRaw, AfterInitrd
  <2>3. \A kind : Art(p, kind) = <<kind, i>>
    BY DEF Art
  <2> HIDE DEF f, i, m
  <2>4. /\ j.kernel # Unavailable => f[Art(p, "vmlinuz")] = j.kernel
        /\ j.initrd # Unavailable => f[Art(p, "initrd")] = j.initrd
        /\ f[Art(p, "roothash")] = j.root
        /\ f[Art(p, "raw")] # Absent
    BY <1>1, <2>1, <2>2 DEF FilesOf, f
  <2>5. \A d \in Disks : j.disks[d] # Absent =>
           /\ d \in j.cfg.disks
           /\ f[<<"disk.roothash", d>>] = j.disks[d]
           /\ f[<<"disk.hashoffset", d>>] = j.disks[d]
    BY <1>1, <2>1 DEF FilesOf, f
  <2>6. f[Manifest] = m /\ j.root \in Trees /\ j.kernel \in Kernels /\ j.initrd \in Ramdisks
    BY <1>1, <2>1 DEF FilesOf, f, m
  <2> QED
    BY <2>3, <2>4, <2>5, <2>6
<1>6. m \in Manifests
  <2>1. Cmdline(j.root, j.disks) \in Cmdlines
    BY <1>3, <1>5 DEF Cmdline, Cmdlines
  <2>2. Digest(j.cfg, j.kernel, j.initrd, Cmdline(j.root, j.disks)) \in Digests
    BY <1>5, <2>1 DEF Digest, Digests, Measured
  <2> QED
    BY <1>3, <1>5, <2>2 DEF BuildManifest, Manifests
<1>7. HasManifest(j.out)
  BY <1>5, <1>6, RecordAssumption DEF HasManifest
<1>8. \A d \in RecordedDisks(j) : d \in Disks /\ j.disks[d] # Absent /\ j.disks[d] \in Versions
  BY <1>3 DEF RecordedDisks, DiskSets
<1> QED
  BY <1>2, <1>3, <1>4, <1>5, <1>7, <1>8

LEMMA DoneVerifies ==
  ASSUME TypeInv, CommandsHaveFiles, NEW p \in Procs,
         pc[p] = "done", job[p].cmd # "extract"
  PROVE  LET o == job[p].out
             c == job[p].cfg
             m == file[o][Manifest]
         IN  /\ VerifyPasses(o, c) <=> ~Foreign(o, c)
             /\ BootCmdPrints(o, c) /\ HashedDisks(o, c) \subseteq RecordedDisks(m) =>
                  BootCmdline(o, c) = RecordedCmdline(m)
<1> DEFINE o == job[p].out
           c == job[p].cfg
           j == job[p]
           f == file[o]
           i == c.image
           m == f[Manifest]
           kernel == f[<<"vmlinuz", i>>]
           initrd == f[<<"initrd", i>>]
<1>1. /\ c \in ConfigType /\ j.disks \in DiskSets
      /\ kernel \in Contents /\ initrd \in Contents
      /\ HasManifest(o) /\ m = BuildManifest(j)
      /\ j.root \in Trees /\ j.kernel \in Kernels /\ j.initrd \in Ramdisks
      /\ j.kernel # Unavailable => kernel = j.kernel
      /\ j.initrd # Unavailable => initrd = j.initrd
      /\ f[<<"roothash", i>>] = j.root
      /\ f[<<"raw", i>>] # Absent
  BY DoneFacts, SMTT(60)
<1>2. \A d \in RecordedDisks(j) :
        /\ d \in c.disks /\ j.disks[d] \in Versions
        /\ f[<<"disk.roothash", d>>] = j.disks[d]
        /\ f[<<"disk.hashoffset", d>>] = j.disks[d]
  BY DoneFacts
<1>3. /\ m.root = j.root /\ m.kernel = j.kernel /\ m.initrd = j.initrd
      /\ m.disks = j.disks
      /\ m.digest = Digest(c, j.kernel, j.initrd, Cmdline(j.root, j.disks))
  BY <1>1 DEF BuildManifest
<1>4. RecordedDisks(m) = RecordedDisks(j)
  BY <1>3 DEF RecordedDisks
<1>5. kernel # Unavailable /\ initrd # Unavailable
  BY <1>1, SentinelAssumption, TreeAssumption, RecordAssumption DEF Contents
<1>6. \A v \in Versions : v # Absent /\ v # Torn
  BY SentinelAssumption
<1>7. c.disks \subseteq Disks
  BY <1>1 DEF ConfigType
<1> HIDE DEF m, kernel, initrd, f, i, j, c, o
<1> DEFINE recorded == RecordedDisks(m)
<1>8. recorded \subseteq FoundDisks(o, c) /\ recorded \subseteq HashedDisks(o, c)
  BY <1>2, <1>4, <1>6 DEF FoundDisks, HashedDisks, Has, f
<1>9. \A d \in recorded : f[<<"disk.roothash", d>>] = m.disks[d] /\ f[<<"disk.hashoffset", d>>] = m.disks[d]
                           /\ m.disks[d] \in Versions
  BY <1>2, <1>3, <1>4
<1> HIDE DEF recorded
<1>10. HashedDisks(o, c) \subseteq recorded => BootCmdline(o, c) = RecordedCmdline(m)
  <2> SUFFICES ASSUME HashedDisks(o, c) = recorded
               PROVE  BootCmdline(o, c) = RecordedCmdline(m)
    BY <1>8
  <2> DEFINE Booted == [d \in HashedDisks(o, c) |->
                          <<f[<<"disk.roothash", d>>],
                            IF f[<<"disk.hashoffset", d>>] \in {Absent, Torn}
                              THEN Zero ELSE f[<<"disk.hashoffset", d>>]>>]
             Listed == [d \in recorded |-> <<m.disks[d], m.disks[d]>>]
  <2>1. Booted = Listed
    BY <1>6, <1>9
  <2>2. BootCmdline(o, c) = [root |-> f[<<"roothash", i>>], disks |-> Booted]
    BY DEF BootCmdline, f, i
  <2>3. RecordedCmdline(m) = [root |-> m.root, disks |-> Listed]
    BY DEF RecordedCmdline, recorded
  <2> QED
    BY <1>1, <1>3, <2>1, <2>2, <2>3, ZenonT(60)
<1> DEFINE bootable == kernel # Absent /\ initrd # Absent
           chain    == j.kernel # Unavailable /\ j.initrd # Unavailable
           strange  == FoundDisks(o, c) \ recorded
<1>11. j.kernel # Unavailable => j.kernel # Absent
  BY <1>1, SentinelAssumption DEF Kernels
<1>12. j.initrd # Unavailable => j.initrd # Absent
  BY <1>1, SentinelAssumption DEF Ramdisks
<1>13. c.ovmf /\ bootable /\ chain => (DigestMatches(o, c, m) <=> strange = {})
  <2> SUFFICES ASSUME c.ovmf, bootable, chain
               PROVE  DigestMatches(o, c, m) <=> strange = {}
    OBVIOUS
  <2> DEFINE line == Cmdline(j.root, j.disks)
             digest == [kernel |-> j.kernel, initrd |-> j.initrd, cmdline |-> line]
  <2>1. m.digest = digest
    BY <1>3 DEF Digest
  <2>2. line \in Cmdlines /\ line.root = m.root /\ line.disks = m.disks
    BY <1>1, <1>3 DEF Cmdline, Cmdlines
  <2> HIDE DEF line
  <2>3. digest \in Measured
    BY <1>1, <2>2 DEF Measured
  <2>4. m.digest # Unavailable /\ line # Unavailable
    BY <2>1, <2>2, <2>3, RecordAssumption
  <2>5. m.digest.kernel = kernel /\ m.digest.initrd = initrd /\ m.digest.cmdline = line
    BY <1>1, <2>1
  <2>6. DigestMatches(o, c, m) <=> RecordedCmdline(line) = MeasuredCmdline(o, c)
    BY <2>4, <2>5 DEF DigestMatches, kernel, initrd, f, i
  <2> DEFINE Listed == [d \in recorded |-> <<m.disks[d], m.disks[d]>>]
             Read   == [d \in FoundDisks(o, c) |->
                          <<f[<<"disk.roothash", d>>], f[<<"disk.hashoffset", d>>]>>]
  <2>7. RecordedCmdline(line) = [root |-> m.root, disks |-> Listed]
    BY <2>2 DEF RecordedCmdline, RecordedDisks, recorded
  <2>8. MeasuredCmdline(o, c) = [root |-> m.root, disks |-> Read]
    BY <1>1, <1>3 DEF MeasuredCmdline, f, i
  <2>9. Listed = Read <=> strange = {}
    <3>1. ASSUME strange = {} PROVE Listed = Read
      <4>1. FoundDisks(o, c) = recorded
        BY <1>8, <3>1
      <4> QED
        BY <1>9, <4>1
    <3>2. ASSUME Listed = Read PROVE strange = {}
      <4>1. DOMAIN Listed = recorded /\ DOMAIN Read = FoundDisks(o, c)
        OBVIOUS
      <4> HIDE DEF Listed, Read
      <4> QED
        BY <3>2, <4>1
    <3> QED
      BY <3>1, <3>2
  <2> HIDE DEF Listed, Read, strange
  <2>10. [root |-> m.root, disks |-> Listed] = [root |-> m.root, disks |-> Read] <=> Listed = Read
    OBVIOUS
  <2> QED
    BY <2>6, <2>7, <2>8, <2>9, <2>10
<1>14. ~c.ovmf => DigestMatches(o, c, m)
  BY <1>3 DEF DigestMatches, Digest
<1> DEFINE torn == \E d \in strange : f[<<"disk.hashoffset", d>>] = Torn
<1>15. (\A d \in FoundDisks(o, c) : f[<<"disk.hashoffset", d>>] # Torn) <=> ~torn
  BY <1>6, <1>9
<1>16. Foreign(o, c) <=>
         \/ j.kernel = Unavailable /\ kernel # Absent
         \/ j.initrd = Unavailable /\ initrd # Absent
         \/ bootable /\ ((c.ovmf /\ strange # {}) \/ torn)
  <2> DEFINE odd == \E d \in strange : c.ovmf \/ f[<<"disk.hashoffset", d>>] = Torn
  <2>1. odd <=> ((c.ovmf /\ strange # {}) \/ torn)
    OBVIOUS
  <2>2. Foreign(o, c) <=> \/ j.kernel = Unavailable /\ kernel # Absent
                          \/ j.initrd = Unavailable /\ initrd # Absent
                          \/ bootable /\ odd
    BY <1>3 DEF Foreign, Has, m, f, kernel, initrd, i, recorded
  <2> HIDE DEF odd, torn, strange
  <2> QED
    BY <2>1, <2>2
<1>17. \A d \in c.disks \cap NamedDisks :
         m.disks[d] # Absent => f[<<"disk.roothash", d>>] \in {Absent, m.disks[d]}
  BY <1>7, <1>9 DEF RecordedDisks, recorded
<1>18. f[<<"roothash", i>>] = m.root /\ f[<<"roothash", i>>] # Absent
  BY <1>1, <1>3, TreeAssumption
<1>19. VerifyPasses(o, c) <=>
         /\ kernel \in {Absent, j.kernel}
         /\ initrd \in {Absent, j.initrd}
         /\ bootable => ~torn /\ DigestMatches(o, c, m)
  <2>1. {"vmlinuz", "initrd", "roothash", "raw"} \subseteq ImageKinds
    BY DEF ImageKinds
  <2> DEFINE untorn == \A d \in FoundDisks(o, c) : f[<<"disk.hashoffset", d>>] # Torn
  <2>2. VerifyPasses(o, c) <=>
          /\ kernel \in {Absent, j.kernel}
          /\ initrd \in {Absent, j.initrd}
          /\ bootable => untorn /\ DigestMatches(o, c, m)
    BY <1>1, <1>3, <1>17, <1>18, <2>1 DEF VerifyPasses, m, f, kernel, initrd, i
  <2> HIDE DEF untorn, torn
  <2>3. untorn <=> ~torn
    BY <1>15 DEF untorn
  <2> QED
    BY <2>2, <2>3
<1> HIDE DEF torn, strange
<1>20. VerifyPasses(o, c) <=> ~Foreign(o, c)
  <2>1. CASE j.kernel = Unavailable /\ kernel # Absent
    BY <1>5, <1>16, <1>19, <2>1
  <2>2. CASE j.initrd = Unavailable /\ initrd # Absent
    BY <1>5, <1>16, <1>19, <2>2
  <2>3. CASE (j.kernel # Unavailable \/ kernel = Absent) /\ (j.initrd # Unavailable \/ initrd = Absent)
    <3>1. kernel \in {Absent, j.kernel} /\ initrd \in {Absent, j.initrd}
      BY <1>1, <2>3
    <3>2. bootable => chain
      BY <2>3
    <3> QED
      BY <1>13, <1>14, <1>16, <1>19, <2>3, <3>1, <3>2
  <2> QED
    BY <2>1, <2>2, <2>3
<1> QED
  BY <1>10, <1>20 DEF f, o, c, m, recorded

(* verify accepts the output of a build or seal that reports success if    *)
(* and only if nothing foreign lies in it, a build's manifest describes    *)
(* every file beside it, and boot-cmd prints the command line that was     *)
(* measured unless a foreign disk lies there (cmd_verify, cmd_boot_cmd):   *)
(* for any number of commands of every kind, over each other's output,     *)
(* with any crashes and failures.                                          *)
THEOREM SuccessfulCommandHolds == Spec => []SuccessfulCommandVerifies
<1> DEFINE IInv == TypeInv /\ CommandsHaveFiles /\ BuildsStayClean
<1>1. Init => IInv
  <2>1. Init => CommandsHaveFiles /\ BuildsStayClean
    BY DEF Init, CommandsHaveFiles, FilesOf, BuildsStayClean, CleanBuild, Running
  <2> QED
    BY <2>1, InitHolds
<1>2. IInv /\ [Next]_vars => IInv'
  <2>1. TypeInv /\ [Next]_vars => TypeInv'
    BY NextKeeps
  <2> QED
    BY <2>1, NextHasFiles, NextStaysClean
<1>3. IInv => SuccessfulCommandVerifies
  <2> SUFFICES ASSUME TypeInv, CommandsHaveFiles, BuildsStayClean, NEW p \in Procs,
                      pc[p] = "done", job[p].cmd # "extract"
               PROVE  LET o == job[p].out
                          c == job[p].cfg
                          m == file[o][Manifest]
                      IN  /\ VerifyPasses(o, c) <=> ~Foreign(o, c)
                          /\ job[p].cmd = "build" => Agrees(m, file[o])
                          /\ BootCmdPrints(o, c) /\ HashedDisks(o, c) \subseteq RecordedDisks(m) =>
                               BootCmdline(o, c) = RecordedCmdline(m)
    BY DEF SuccessfulCommandVerifies
  <2>1. ASSUME job[p].cmd = "build"
        PROVE  Agrees(file[job[p].out][Manifest], file[job[p].out])
    <3> DEFINE f == file[job[p].out]
               m == f[Manifest]
    <3>1. Agrees(job[p], f)
      BY <2>1 DEF BuildsStayClean, CleanBuild, Running
    <3>2. m = BuildManifest(job[p])
      BY DoneFacts
    <3>3. /\ m.root = job[p].root /\ m.kernel = job[p].kernel /\ m.initrd = job[p].initrd
          /\ m.disks = job[p].disks
      BY <3>2 DEF BuildManifest
    <3> HIDE DEF f, m
    <3>4. Agrees(m, f)
      BY <3>1, <3>3, SMTT(60) DEF Agrees
    <3> QED
      BY <3>4 DEF f, m
  <2> QED
    BY <2>1, DoneVerifies
<1> HIDE DEF IInv
<1> QED
  BY <1>1, <1>2, <1>3, PTL DEF Spec
=============================================================================
