---------------------------- MODULE BuildPipeline ----------------------------
(***************************************************************************)
(* The life of the files behind `cvmbuild build`, `seal` and `extract`:    *)
(* the work directory that holds the extracted rootfs, the output          *)
(* directory that holds the artifacts, and the commands that fill them one *)
(* file after the other, fail half way, crash, and are run again.          *)
(*                                                                         *)
(* What a file holds is abstracted to where it comes from.  A tree is the  *)
(* rootfs as squashfs reads it; its root hash is the tree itself (SHA-256  *)
(* is taken as injective); a kernel is named by the container build it was *)
(* taken from.  Absent is "no such file", Torn a file whose write was cut. *)
(***************************************************************************)
EXTENDS BootFiles

CONSTANTS
  Procs,        (* cvmbuild processes                                       *)
  Outputs,      (* output directories                                       *)
  Images,       (* the {id}_{version} that names the artifacts              *)
  Disks,        (* names of verity disks                                    *)
  NamedDisks,   (* the disks with a manifest field: "models" and "config"   *)
  Configs,      (* the cvm.toml files a command may be given                *)
  Versions,     (* contents of a verity disk's source directory             *)
  Commands,     (* the commands operators run                               *)
  AllowSkip,    (* whether --skip-container is used                         *)
  DevShm,       (* whether /dev/shm exists                                  *)
  ExtractDir,   (* work directory of `cvmbuild extract`                     *)
  Absent, Torn, Unavailable, Zero, NoGen,
  MaxCommands,  (* bound: commands started                                  *)
  MaxFaults     (* bound: crashes, failed steps and failed copies           *)

Sources == {"dir", "none", "missing"}

ConfigType == [image: Images, disks: SUBSET Disks,
               source: [Disks -> Sources], ovmf: BOOLEAN]

ASSUME SetsAssumption ==
  /\ NamedDisks \subseteq Disks
  /\ Configs \subseteq ConfigType
  /\ Commands \subseteq {"build", "seal", "extract"}
  /\ {AllowSkip, DevShm} \subseteq BOOLEAN
  /\ MaxCommands \in Nat /\ MaxFaults \in Nat

(* The sentinels are no content, and differ from each other.               *)
ASSUME SentinelAssumption ==
  /\ Absent # Torn /\ Absent # Unavailable /\ Torn # Unavailable
  /\ \A s \in {Absent, Torn, Unavailable} :
       s \notin Gens \cup Initrds \cup Versions \cup Disks \cup {Zero, NoGen}
  /\ NoGen \notin Gens
-----------------------------------------------------------------------------
(***************************************************************************)
(* Directories, trees and files.                                           *)
(***************************************************************************)
WorkDirs == {<<"shm", i>> : i \in Images} \cup {<<"work", o>> : o \in Outputs}
              \cup {<<"extract", ExtractDir>>}

(* /dev/shm/cvmbuild-{id}-{version} when /dev/shm exists, else output/work. *)
WorkDir(i, o) == IF DevShm THEN <<"shm", i>> ELSE <<"work", o>>

Trees == [gen: Gens \cup {NoGen}, whole: BOOLEAN, hardened: BOOLEAN,
          initrds: SUBSET Initrds]

ASSUME TreeAssumption == {Absent, Torn, Unavailable} \cap Trees = {}

EmptyTree == [gen |-> NoGen, whole |-> FALSE, hardened |-> FALSE, initrds |-> {}]

ImageKinds == {"vmlinuz", "initrd", "initrd.base", "roothash", "raw"}
DiskKinds  == {"img", "disk.roothash", "disk.hashoffset"}

Squashfs == <<"squashfs", "root">>
Verity   == <<"verity", "root">>
Manifest == <<"manifest", "json">>

Files == (ImageKinds \X Images) \cup (DiskKinds \X Disks)
           \cup {Squashfs, Verity, Manifest}

(* The files whose content the manifest records.                           *)
Recorded == (({"vmlinuz", "initrd", "roothash", "raw"}) \X Images)
              \cup (DiskKinds \X Disks)

(* Mutant of Cleaned: a list without the manifest.                         *)
CleanedButManifest == {fn \in Files : fn[1] \notin {"initrd.base", "manifest"}}

(* What cmd_build removes first: CVMBUILD_EXTS and manifest.json.  The     *)
(* base initrd ends in .initrd.base and is in neither.                     *)
Cleaned == {fn \in Files : fn[1] # "initrd.base"}

RawImages == [data: Trees, hashes: Trees]

(* build_boot_cmdline: the root hash, and per disk its hash and offset.    *)
Cmdline(root, disks) == [root |-> root, disks |-> disks]

(* compute_snp_measurements, compute_tdx_measurements: nothing without an  *)
(* OVMF file; without a kernel the command line is not measured.           *)
Digest(c, k, i, cmdline) ==
  IF c.ovmf
    THEN [kernel |-> k, initrd |-> i,
          cmdline |-> IF k = Unavailable THEN Unavailable ELSE cmdline]
    ELSE Unavailable

Kernels  == Gens \cup {Unavailable}
Ramdisks == Initrds \cup {Unavailable}
DiskSets == [Disks -> Versions \cup {Absent}]

Cmdlines == [root: Trees, disks: DiskSets]
Measured == [kernel: Kernels, initrd: Ramdisks, cmdline: Cmdlines \cup {Unavailable}]
Digests  == Measured \cup {Unavailable}
Manifests == [root: Trees, kernel: Kernels, initrd: Ramdisks, disks: DiskSets,
              digest: Digests]

ASSUME RecordAssumption ==
  /\ {Absent, Torn, Unavailable} \cap (RawImages \cup Manifests) = {}
  /\ Unavailable \notin Cmdlines \cup Measured

Contents == Gens \cup Initrds \cup Trees \cup RawImages \cup Versions \cup Manifests
              \cup {Absent, Torn}
-----------------------------------------------------------------------------
VARIABLES
  rootfs,   (* the extracted tree in each work directory                    *)
  file,     (* the files of each output directory                           *)
  pc,       (* the step each process is about to take                       *)
  job,      (* what each running process has in memory                      *)
  started,  (* commands started so far                                      *)
  faults    (* crashes and failures so far                                  *)

vars == <<rootfs, file, pc, job, started, faults>>

BeforeClean == {"reuse", "wipe", "extract", "apply", "clean"}
Sealing     == {"kernel", "base", "squashfs", "verity", "roothash", "raw", "initrd",
                "disk", "disk.roothash", "disk.hashoffset", "manifest"}
Steps       == BeforeClean \cup Sealing \cup {"done"}

(* A command's locals: its config, SealResult as far as it is known, the   *)
(* disks still to build, the one being built, and disk_results.            *)
Jobs == [cmd: Commands, cfg: Configs, out: Outputs, dir: WorkDirs, base: BOOLEAN,
         root: Trees \cup {Absent}, kernel: Kernels \cup {Absent},
         initrd: Ramdisks \cup {Absent}, disks: DiskSets,
         todo: SUBSET Disks, cur: Disks \cup {Absent}, skip: BOOLEAN]

NewJob(cmd, c, o, w, skip) ==
  [cmd |-> cmd, cfg |-> c, out |-> o, dir |-> w, skip |-> skip, base |-> FALSE, root |-> Absent,
   kernel |-> Absent, initrd |-> Absent, disks |-> [d \in Disks |-> Absent],
   todo |-> c.disks, cur |-> Absent]

TypeOK ==
  /\ rootfs \in [WorkDirs -> Trees \cup {Absent}]
  /\ file \in [Outputs -> [Files -> Contents]]
  /\ pc \in [Procs -> Steps \cup {"idle"}]
  /\ job \in [Procs -> Jobs \cup {Absent}]
  /\ \A p \in Procs : pc[p] # "idle" => job[p] \in Jobs
  /\ started \in 0 .. MaxCommands
  /\ faults \in 0 .. MaxFaults

Init ==
  /\ rootfs = [w \in WorkDirs |-> Absent]
  /\ file = [o \in Outputs |-> [fn \in Files |-> Absent]]
  /\ pc = [p \in Procs |-> "idle"]
  /\ job = [p \in Procs |-> Absent]
  /\ started = 0
  /\ faults = 0
-----------------------------------------------------------------------------
(***************************************************************************)
(* Starting a command.  Nothing locks the output directory: that two       *)
(* commands never share one is an assumption about the operator.  The work *)
(* directory in /dev/shm is shared by every build of the same image.       *)
(***************************************************************************)
Running(p) == pc[p] # "idle"

OutputFree(o) == \A q \in Procs : Running(q) => job[q].out # o

Start(p, step, j) ==
  /\ ~Running(p)
  /\ started < MaxCommands
  /\ OutputFree(j.out)
  /\ started' = started + 1
  /\ pc' = [pc EXCEPT ![p] = step]
  /\ job' = [job EXCEPT ![p] = j]
  /\ UNCHANGED <<rootfs, file, faults>>

StartBuild(p) ==
  /\ "build" \in Commands
  /\ \E c \in Configs, o \in Outputs, step \in {"wipe"} \cup (IF AllowSkip THEN {"reuse"} ELSE {}) :
       Start(p, step, NewJob("build", c, o, WorkDir(c.image, o), step = "reuse"))

StartSeal(p) ==
  /\ "seal" \in Commands
  /\ \E c \in Configs, o \in Outputs, w \in WorkDirs :
       /\ rootfs[w] # Absent
       /\ Start(p, "apply", NewJob("seal", c, o, w, FALSE))

StartExtract(p) ==
  /\ "extract" \in Commands
  /\ \E c \in Configs, o \in Outputs :
       Start(p, "wipe", NewJob("extract", c, o, <<"extract", ExtractDir>>, FALSE))

(* One step of p that leads to step "next".                                *)
Step(p, here, next) == pc[p] = here /\ pc' = [pc EXCEPT ![p] = next]

(* The name of an artifact of p's image, and p writing one of its files.   *)
Art(p, kind) == <<kind, job[p].cfg.image>>

Write(p, fn, c) == file' = [file EXCEPT ![job[p].out][fn] = c]

(* A fault uses up the bound on faults.                                    *)
Fault == faults < MaxFaults /\ faults' = faults + 1
-----------------------------------------------------------------------------
(***************************************************************************)
(* Obtaining and hardening the rootfs.                                     *)
(***************************************************************************)
(* --skip-container: any rootfs directory will do.                         *)
ReuseRootfs(p) ==
  /\ Step(p, "reuse", "apply")
  /\ rootfs[job[p].dir] # Absent
  /\ UNCHANGED <<rootfs, file, job, started, faults>>

(* Mutant of WipeRootfs: the new rootfs is extracted over the old one.     *)
KeepRootfs(p) ==
  /\ Step(p, "wipe", "extract")
  /\ rootfs' = [rootfs EXCEPT ![job[p].dir] = IF @ = Absent THEN EmptyTree ELSE @]
  /\ UNCHANGED <<file, job, started, faults>>

(* build_rootfs, pull_rootfs: the old rootfs is removed before docker runs. *)
WipeRootfs(p) ==
  /\ Step(p, "wipe", "extract")
  /\ rootfs' = [rootfs EXCEPT ![job[p].dir] = EmptyTree]
  /\ UNCHANGED <<file, job, started, faults>>

(* docker buildx, then tar into the directory; two extractions into the    *)
(* same directory leave a mixture.                                         *)
ExtractRootfs(p) ==
  /\ Step(p, "extract", IF job[p].cmd = "extract" THEN "done" ELSE "apply")
  /\ rootfs[job[p].dir] # Absent
  /\ \E g \in Gens : \E new \in InitrdSets[g] :
       rootfs' = [rootfs EXCEPT ![job[p].dir] =
                    [gen |-> g, whole |-> (@ = EmptyTree), hardened |-> FALSE,
                     initrds |-> Over(@.initrds, new)]]
  /\ UNCHANGED <<file, job, started, faults>>

(* RootfsBuilder::apply creates the directories it writes to, so it does   *)
(* not notice that the rootfs is gone.                                     *)
Hardened(tree) == IF tree = Absent THEN [EmptyTree EXCEPT !.hardened = TRUE]
                                   ELSE [tree EXCEPT !.hardened = TRUE]

ApplyConfig(p) ==
  /\ Step(p, "apply", IF job[p].cmd = "seal" THEN "kernel" ELSE "clean")
  /\ rootfs' = [rootfs EXCEPT ![job[p].dir] = Hardened(@)]
  /\ UNCHANGED <<file, job, started, faults>>

(* Mutant of CleanOutput: only files of the config's own image go.         *)
CleanOwnImage(p) ==
  /\ Step(p, "clean", "kernel")
  /\ file' = [file EXCEPT ![job[p].out] =
                [fn \in Files |-> IF fn \in Cleaned /\ fn[2] = job[p].cfg.image
                                   THEN Absent ELSE @[fn]]]
  /\ UNCHANGED <<rootfs, job, started, faults>>

CleanOutput(p) ==
  /\ Step(p, "clean", "kernel")
  /\ file' = [file EXCEPT ![job[p].out] =
                [fn \in Files |-> IF fn \in Cleaned THEN Absent ELSE @[fn]]]
  /\ UNCHANGED <<rootfs, job, started, faults>>
-----------------------------------------------------------------------------
(***************************************************************************)
(* ImageSealer::seal, one step per file it writes.                         *)
(***************************************************************************)
HasKernel(tree) == IF tree = Absent THEN FALSE ELSE tree.gen \in Bootable
HasInitrd(tree) == IF tree = Absent THEN FALSE ELSE Candidates(tree.initrds) # {}

(* Mutant of ExtractKernel: a failed copy is hashed like a good one.       *)
HashWhateverWasCopied(p) ==
  /\ Step(p, "kernel", "base")
  /\ HasKernel(rootfs[job[p].dir])
  /\ Fault
  /\ Write(p, Art(p, "vmlinuz"), Torn)
  /\ job' = [job EXCEPT ![p].kernel = Torn]
  /\ UNCHANGED <<rootfs, started>>

(* A rootfs without a kernel is no error, and neither is a failed copy,    *)
(* which may leave part of the file.                                       *)
ExtractKernel(p) ==
  LET tree == rootfs[job[p].dir] IN
  /\ Step(p, "kernel", "base")
  /\ \/ /\ HasKernel(tree)
        /\ Write(p, Art(p, "vmlinuz"), tree.gen)
        /\ job' = [job EXCEPT ![p].kernel = tree.gen]
        /\ UNCHANGED faults
     \/ /\ ~HasKernel(tree)
        /\ job' = [job EXCEPT ![p].kernel = Unavailable]
        /\ UNCHANGED <<file, faults>>
     \/ /\ HasKernel(tree)
        /\ Fault
        /\ Write(p, Art(p, "vmlinuz"), Torn)
        /\ job' = [job EXCEPT ![p].kernel = Unavailable]
  /\ UNCHANGED <<rootfs, started>>

(* Once one is copied out, initrd.img* is deleted from the rootfs.         *)
ExtractBaseInitrd(p) ==
  LET tree == rootfs[job[p].dir] IN
  /\ Step(p, "base", "squashfs")
  /\ \/ /\ HasInitrd(tree)
        /\ Write(p, Art(p, "initrd.base"), BaseInitrd(tree.initrds))
        /\ rootfs' = [rootfs EXCEPT ![job[p].dir].initrds = @ \ Deleted(@)]
        /\ job' = [job EXCEPT ![p].base = TRUE]
        /\ UNCHANGED faults
     \/ /\ ~HasInitrd(tree)
        /\ UNCHANGED <<rootfs, file, job, faults>>
     \/ /\ HasInitrd(tree)
        /\ Fault
        /\ Write(p, Art(p, "initrd.base"), Torn)
        /\ UNCHANGED <<rootfs, job>>
  /\ UNCHANGED started

CreateSquashfs(p) ==
  /\ Step(p, "squashfs", "verity")
  /\ rootfs[job[p].dir] # Absent
  /\ Write(p, Squashfs, rootfs[job[p].dir])
  /\ UNCHANGED <<rootfs, job, started, faults>>

CreateVerity(p) ==
  LET data == file[job[p].out][Squashfs] IN
  /\ Step(p, "verity", "roothash")
  /\ Write(p, Verity, data)
  /\ job' = [job EXCEPT ![p].root = data]
  /\ UNCHANGED <<rootfs, started, faults>>

WriteRoothash(p) ==
  /\ Step(p, "roothash", "raw")
  /\ Write(p, Art(p, "roothash"), job[p].root)
  /\ UNCHANGED <<rootfs, job, started, faults>>

AssembleGpt(p) ==
  /\ Step(p, "raw", "initrd")
  /\ Write(p, Art(p, "raw"), [data   |-> file[job[p].out][Squashfs],
                              hashes |-> file[job[p].out][Verity]])
  /\ UNCHANGED <<rootfs, job, started, faults>>

(* Mutant of BuildInitrd: an initrd that exists is not written again.      *)
KeepInitrd(p) ==
  LET base == file[job[p].out][Art(p, "initrd.base")] IN
  /\ Step(p, "initrd", IF job[p].cmd = "build" THEN "disk" ELSE "manifest")
  /\ IF job[p].base
       THEN /\ file' = [file EXCEPT ![job[p].out][Art(p, "initrd")] = IF @ = Absent THEN base ELSE @,
                                    ![job[p].out][Art(p, "initrd.base")] = Absent]
            /\ job' = [job EXCEPT ![p].initrd = base]
       ELSE job' = [job EXCEPT ![p].initrd = Unavailable] /\ UNCHANGED file
  /\ UNCHANGED <<rootfs, started, faults>>

(* The base initrd becomes the initrd; it is deleted only on success.      *)
BuildInitrd(p) ==
  LET base == file[job[p].out][Art(p, "initrd.base")] IN
  /\ Step(p, "initrd", IF job[p].cmd = "build" THEN "disk" ELSE "manifest")
  /\ \/ /\ job[p].base
        /\ file' = [file EXCEPT ![job[p].out][Art(p, "initrd")] = base,
                                ![job[p].out][Art(p, "initrd.base")] = Absent]
        /\ job' = [job EXCEPT ![p].initrd = base]
        /\ UNCHANGED faults
     \/ /\ ~job[p].base
        /\ job' = [job EXCEPT ![p].initrd = Unavailable]
        /\ UNCHANGED <<file, faults>>
     \/ /\ job[p].base
        /\ Fault
        /\ Write(p, Art(p, "initrd"), Torn)
        /\ job' = [job EXCEPT ![p].initrd = Unavailable]
  /\ UNCHANGED <<rootfs, started>>
-----------------------------------------------------------------------------
(***************************************************************************)
(* The verity disks and the manifest.                                      *)
(***************************************************************************)
(* A disk without a source is built elsewhere; it is passed over.          *)
SkipDisk(p) ==
  /\ Step(p, "disk", "disk")
  /\ \E d \in job[p].todo :
       /\ job[p].cfg.source[d] = "none"
       /\ job' = [job EXCEPT ![p].todo = @ \ {d}]
  /\ UNCHANGED <<rootfs, file, started, faults>>

(* create_verity_disk on what the source directory holds at the time.      *)
CreateDisk(p) ==
  /\ Step(p, "disk", "disk.roothash")
  /\ \E d \in job[p].todo, v \in Versions :
       /\ job[p].cfg.source[d] = "dir"
       /\ Write(p, <<"img", d>>, v)
       /\ job' = [job EXCEPT ![p].todo = @ \ {d}, ![p].cur = d, ![p].disks[d] = v]
  /\ UNCHANGED <<rootfs, started, faults>>

WriteDiskRoothash(p) ==
  /\ Step(p, "disk.roothash", "disk.hashoffset")
  /\ Write(p, <<"disk.roothash", job[p].cur>>, job[p].disks[job[p].cur])
  /\ UNCHANGED <<rootfs, job, started, faults>>

WriteDiskHashoffset(p) ==
  /\ Step(p, "disk.hashoffset", "disk")
  /\ Write(p, <<"disk.hashoffset", job[p].cur>>, job[p].disks[job[p].cur])
  /\ UNCHANGED <<rootfs, job, started, faults>>

DisksDone(p) ==
  /\ Step(p, "disk", "manifest")
  /\ job[p].todo = {}
  /\ UNCHANGED <<rootfs, file, job, started, faults>>

(* Mutant of BuildManifest: measured before the disks are built.           *)
MeasuredWithoutDisks(j) ==
  [root |-> j.root, kernel |-> j.kernel, initrd |-> j.initrd, disks |-> j.disks,
   digest |-> Digest(j.cfg, j.kernel, j.initrd,
                     Cmdline(j.root, [d \in Disks |-> Absent]))]

(* build_manifest: from the results in memory, never from the files.       *)
BuildManifest(j) ==
  [root |-> j.root, kernel |-> j.kernel, initrd |-> j.initrd, disks |-> j.disks,
   digest |-> Digest(j.cfg, j.kernel, j.initrd, Cmdline(j.root, j.disks))]

WriteManifest(p) ==
  /\ Step(p, "manifest", "done")
  /\ Write(p, Manifest, BuildManifest(job[p]))
  /\ UNCHANGED <<rootfs, job, started, faults>>

(* A successful build removes its work directory when it is in /dev/shm.   *)
Finish(p) ==
  /\ Step(p, "done", "idle")
  /\ job' = [job EXCEPT ![p] = Absent]
  /\ rootfs' = IF job[p].cmd = "build" /\ DevShm
                 THEN [rootfs EXCEPT ![job[p].dir] = Absent] ELSE rootfs
  /\ UNCHANGED <<file, started, faults>>
-----------------------------------------------------------------------------
(***************************************************************************)
(* Failing.  An error that a step meets whatever the machine does ends the *)
(* command there; a crash, a full disk or a failing tool may strike at any *)
(* step, and leaves behind what the step had done so far.                  *)
(***************************************************************************)
End(p) ==
  /\ pc' = [pc EXCEPT ![p] = "idle"]
  /\ job' = [job EXCEPT ![p] = Absent]
  /\ UNCHANGED started

(* Mutant of Bail: a source that is no directory is waited for.            *)
WaitForSource(p) ==
  /\ pc[p] \in {"reuse", "extract", "squashfs"} /\ rootfs[job[p].dir] = Absent
  /\ End(p)
  /\ UNCHANGED <<rootfs, file, faults>>

Bail(p) ==
  /\ \/ pc[p] \in {"reuse", "extract", "squashfs"} /\ rootfs[job[p].dir] = Absent
     \/ pc[p] = "disk" /\ \E d \in job[p].todo : job[p].cfg.source[d] = "missing"
  /\ End(p)
  /\ UNCHANGED <<rootfs, file, faults>>

(* The files that a step interrupted while it writes may leave torn.       *)
Torable(p) ==
  CASE pc[p] = "kernel"          -> {Art(p, "vmlinuz")}
    [] pc[p] = "base"            -> {Art(p, "initrd.base")}
    [] pc[p] = "squashfs"        -> {Squashfs}
    [] pc[p] = "verity"          -> {Verity}
    [] pc[p] = "roothash"        -> {Art(p, "roothash")}
    [] pc[p] = "raw"             -> {Art(p, "raw")}
    [] pc[p] = "initrd"          -> {Art(p, "initrd")}
    [] pc[p] = "disk"            -> {<<"img", d>> : d \in job[p].todo}
    [] pc[p] = "disk.roothash"   -> {<<"disk.roothash", job[p].cur>>}
    [] pc[p] = "disk.hashoffset" -> {<<"disk.hashoffset", job[p].cur>>}
    [] pc[p] = "manifest"        -> {Manifest}
    [] OTHER                     -> {}

(* The trees that a step interrupted may leave in the work directory.      *)
Leftovers(p) ==
  LET tree == rootfs[job[p].dir]
      old  == IF tree = Absent THEN {} ELSE tree.initrds
  IN
  CASE pc[p] = "wipe"    -> {tree, Absent, EmptyTree}
    [] pc[p] = "extract" ->
         {tree} \cup UNION {{[gen |-> g, whole |-> FALSE, hardened |-> FALSE,
                             initrds |-> Over(old, some)] :
                              some \in UNION {SUBSET new : new \in InitrdSets[g]}} :
                            g \in Gens}
    [] pc[p] = "base" /\ tree # Absent ->
         {[tree EXCEPT !.initrds = @ \ gone] : gone \in SUBSET Deleted(old)}
    [] OTHER             -> {tree}

Abort(p) ==
  /\ Running(p)
  /\ Fault
  /\ End(p)
  /\ IF pc[p] = "clean"
       THEN \E gone \in SUBSET {fn \in Cleaned : file[job[p].out][fn] # Absent} :
              file' = [file EXCEPT ![job[p].out] =
                         [fn \in Files |-> IF fn \in gone THEN Absent ELSE @[fn]]]
       ELSE \E torn \in SUBSET Torable(p) :
              file' = [file EXCEPT ![job[p].out] =
                         [fn \in Files |-> IF fn \in torn THEN Torn ELSE @[fn]]]
  /\ \E tree \in Leftovers(p) : rootfs' = [rootfs EXCEPT ![job[p].dir] = tree]

Proceed(p) ==
  \/ ReuseRootfs(p) \/ WipeRootfs(p) \/ ExtractRootfs(p) \/ ApplyConfig(p) \/ CleanOutput(p)
  \/ ExtractKernel(p) \/ ExtractBaseInitrd(p) \/ CreateSquashfs(p) \/ CreateVerity(p)
  \/ WriteRoothash(p) \/ AssembleGpt(p) \/ BuildInitrd(p)
  \/ SkipDisk(p) \/ CreateDisk(p) \/ WriteDiskRoothash(p) \/ WriteDiskHashoffset(p)
  \/ DisksDone(p) \/ WriteManifest(p) \/ Finish(p) \/ Bail(p)

Next ==
  \E p \in Procs :
    \/ StartBuild(p) \/ StartSeal(p) \/ StartExtract(p)
    \/ Proceed(p)
    \/ Abort(p)

Spec == Init /\ [][Next]_vars

(* A command is one thread that runs to its end or dies.                   *)
FairSpec == Spec /\ \A p \in Procs : WF_vars(Proceed(p))
-----------------------------------------------------------------------------
(***************************************************************************)
(* The commands that only read: measure, verify and boot-cmd.              *)
(***************************************************************************)
Has(o, fn) == file[o][fn] # Absent

(* The disks whose root hash and offset measure and verify find.           *)
FoundDisks(o, c) == {d \in c.disks : Has(o, <<"disk.roothash", d>>)
                                      /\ Has(o, <<"disk.hashoffset", d>>)}

(* The root hash, and per disk hash and offset, as measure reads them.     *)
MeasuredCmdline(o, c) ==
  [root  |-> file[o][<<"roothash", c.image>>],
   disks |-> [d \in FoundDisks(o, c) |->
                <<file[o][<<"disk.roothash", d>>], file[o][<<"disk.hashoffset", d>>]>>]]

(* boot-cmd asks for the root hash only; no readable offset means 0.       *)
HashedDisks(o, c) == {d \in c.disks : Has(o, <<"disk.roothash", d>>)}

BootCmdline(o, c) ==
  [root  |-> file[o][<<"roothash", c.image>>],
   disks |-> [d \in HashedDisks(o, c) |->
                <<file[o][<<"disk.roothash", d>>],
                  IF file[o][<<"disk.hashoffset", d>>] \in {Absent, Torn}
                    THEN Zero ELSE file[o][<<"disk.hashoffset", d>>]>>]]

(* The command line a manifest was computed for, in the same form.         *)
RecordedDisks(m) == {d \in Disks : m.disks[d] # Absent}

RecordedCmdline(m) ==
  [root  |-> m.root,
   disks |-> [d \in RecordedDisks(m) |-> <<m.disks[d], m.disks[d]>>]]

HasManifest(o) == file[o][Manifest] \notin {Absent, Torn}

(* boot-cmd's checks before it prints a command.                           *)
BootCmdPrints(o, c) ==
  /\ \A kind \in {"roothash", "vmlinuz", "initrd", "raw"} : Has(o, <<kind, c.image>>)
  /\ \A d \in c.disks : Has(o, <<"img", d>>)

(* What the digest of the files in o is compared with m's; see Digest.     *)
DigestMatches(o, c, m) ==
  IF c.ovmf
    THEN /\ m.digest # Unavailable
         /\ m.digest.kernel = file[o][<<"vmlinuz", c.image>>]
         /\ m.digest.initrd = file[o][<<"initrd", c.image>>]
         /\ m.digest.cmdline # Unavailable
         /\ RecordedCmdline(m.digest.cmdline) = MeasuredCmdline(o, c)
    ELSE m.digest = Unavailable

(* verify exits 0: every check is made only if its file is there.          *)
VerifyPasses(o, c) ==
  LET m == file[o][Manifest]
      f == [kind \in ImageKinds |-> file[o][<<kind, c.image>>]]
  IN
  /\ HasManifest(o)
  /\ f["vmlinuz"] \in {Absent, m.kernel}
  /\ f["initrd"] \in {Absent, m.initrd}
  /\ f["roothash"] \in {Absent, m.root}
  /\ \A d \in c.disks \cap NamedDisks :
       m.disks[d] # Absent => file[o][<<"disk.roothash", d>>] \in {Absent, m.disks[d]}
  /\ (f["raw"] # Absent /\ f["vmlinuz"] # Absent /\ f["initrd"] # Absent) =>
       /\ f["roothash"] # Absent
       /\ \A d \in FoundDisks(o, c) : file[o][<<"disk.hashoffset", d>>] # Torn
       /\ DigestMatches(o, c, m)
-----------------------------------------------------------------------------
(***************************************************************************)
(* Properties.                                                             *)
(***************************************************************************)
(* The image that squashfs and verity make of the tree with root hash r.   *)
RawOf(r) == [data |-> r, hashes |-> r]

(* A kernel or initrd is the one recorded; where none is, the rest of a    *)
(* copy that failed, which is reported as "no kernel" or "no initrd".      *)
AsRecorded(content, recorded) ==
  content \in {Absent, IF recorded = Unavailable THEN Torn ELSE recorded}

(* Every file that is there is the one that m, a manifest or a command's   *)
(* memory, names.                                                          *)
Agrees(m, f) ==
  /\ \A i \in Images :
       /\ AsRecorded(f[<<"vmlinuz", i>>], m.kernel)
       /\ AsRecorded(f[<<"initrd", i>>], m.initrd)
       /\ f[<<"roothash", i>>] \in {Absent, m.root}
       /\ \/ f[<<"raw", i>>] = Absent
          \/ m.root # Absent /\ f[<<"raw", i>>] = RawOf(m.root)
  /\ \A d \in Disks, kind \in DiskKinds : f[<<kind, d>>] \in {Absent, m.disks[d]}

(* The invariant by which ManifestDescribesFiles is proved: a sealing      *)
(* command has deleted the manifest, and each file it has not yet written  *)
(* is absent, each it has written holds what it remembers.                 *)
CleanOf(p) ==
  pc[p] \in Sealing => /\ file[job[p].out][Manifest] = Absent
                       /\ Agrees(job[p], file[job[p].out])

SealingStartsClean == \A p \in Procs : CleanOf(p)

(* Commands that run at the same time write to different directories.      *)
OwnOutputs == \A p, q \in Procs :
                p # q /\ Running(p) /\ Running(q) => job[p].out # job[q].out

BeforeRoot   == BeforeClean \cup {"kernel", "base", "squashfs", "verity"}
BeforeInitrd == BeforeRoot \cup {"roothash", "raw", "initrd"}
DiskSteps    == {"disk", "disk.roothash", "disk.hashoffset", "manifest"}

(* What the step a command has come to says of its memory and of the files *)
(* that a later step reads back.                                           *)
MemoryOf(p) ==
  LET j == job[p]
      f == file[job[p].out]
  IN
  Running(p) =>
    /\ pc[p] \in BeforeClean \cup {"kernel"} => j.kernel = Absent
    /\ pc[p] \in Sealing \ {"kernel"} => j.kernel \in Kernels
    /\ pc[p] \in BeforeRoot => j.root = Absent
    /\ pc[p] \in Sealing \ BeforeRoot => j.root \in Trees
    /\ pc[p] \in BeforeInitrd => j.initrd = Absent
    /\ pc[p] \in DiskSteps => j.initrd \in Ramdisks
    /\ \A d \in j.todo : j.disks[d] = Absent
    /\ pc[p] \in {"disk.roothash", "disk.hashoffset"} => j.cur \in Disks
    /\ pc[p] \in BeforeClean \cup {"kernel", "base"} => ~j.base
    /\ j.base /\ pc[p] \in BeforeInitrd => f[Art(p, "initrd.base")] \in Initrds
    /\ pc[p] = "verity" => f[Squashfs] \in Trees
    /\ pc[p] \in {"roothash", "raw"} => f[Squashfs] = j.root /\ f[Verity] = j.root

MemoryFollowsSteps == \A p \in Procs : MemoryOf(p)

(* The inductive invariant: whatever the interleaving of commands, each    *)
(* owns its directory, remembers what its steps did, and seals over files  *)
(* that only it has written since the directory was cleaned.               *)
BuildInvariant == OwnOutputs /\ MemoryFollowsSteps /\ SealingStartsClean

(* In an output directory that only builds write to, a manifest never lies *)
(* beside a file it does not describe: not one of an earlier build, of     *)
(* another image name or of a disk that left the config, whatever crashed  *)
(* before (cmd_build cleans the directory before it seals and writes the   *)
(* manifest last).                                                         *)
ManifestDescribesFiles ==
  \A o \in Outputs : HasManifest(o) => Agrees(file[o][Manifest], file[o])

(* While a manifest stands, the files beside it may be deleted but never   *)
(* written: cmd_build replaces an artifact only after it has deleted the   *)
(* manifest that vouched for the old one.                                  *)
NothingRewrittenUnderManifest ==
  [][\A o \in Outputs : HasManifest(o) /\ file'[o][Manifest] = file[o][Manifest] =>
       \A fn \in Recorded : file'[o][fn] \in {Absent, file[o][fn]}]_vars

(* Files beside the manifest that its command did not write, or failed to  *)
(* write: a kernel or initrd where the manifest has UNAVAILABLE, and with  *)
(* a whole boot chain a disk of the config that the manifest does not list *)
(* and that measure would (it stops at an offset that is no number).       *)
Foreign(o, c) ==
  LET m == file[o][Manifest] IN
  \/ m.kernel = Unavailable /\ Has(o, <<"vmlinuz", c.image>>)
  \/ m.initrd = Unavailable /\ Has(o, <<"initrd", c.image>>)
  \/ /\ Has(o, <<"vmlinuz", c.image>>) /\ Has(o, <<"initrd", c.image>>)
     /\ \E d \in FoundDisks(o, c) \ RecordedDisks(m) :
          c.ovmf \/ file[o][<<"disk.hashoffset", d>>] = Torn

(* verify accepts the output of a build or seal that reports success, with *)
(* the same config, if and only if nothing foreign lies in it.  A seal     *)
(* cleans nothing and records no disk, so that what it finds may be        *)
(* foreign; a build leaves no file that its manifest does not describe,    *)
(* and so nothing foreign but the torn rest of a copy that failed.  Where  *)
(* no disk but the recorded ones has a root hash, boot-cmd prints, if it   *)
(* prints a command, the command line that was measured.                   *)
SuccessfulCommandVerifies ==
  \A p \in Procs :
    LET o == job[p].out
        c == job[p].cfg
        m == file[o][Manifest]
    IN  pc[p] = "done" /\ job[p].cmd # "extract" =>
          /\ VerifyPasses(o, c) <=> ~Foreign(o, c)
          /\ job[p].cmd = "build" => Agrees(m, file[o])
          /\ BootCmdPrints(o, c) /\ HashedDisks(o, c) \subseteq RecordedDisks(m) =>
               BootCmdline(o, c) = RecordedCmdline(m)

(* i is what extract_base_initrd takes of a container build's initrds.     *)
ShippedBy(g, i) ==
  \E some \in InitrdSets[g] : Candidates(some) # {} /\ i = BaseInitrd(some)

(* Among them is one for each of its kernels, and no other.                *)
Paired(g) ==
  \A some \in InitrdSets[g] :
    Candidates(some) # {} => {ReleaseOf(i) : i \in Candidates(some)} = KernelsOf[g]

(* What a build without --skip-container seals is one whole extraction,    *)
(* hardened, without the initrd it copied out, and the kernel and the      *)
(* initrd beside it are from the same extraction, and of one release if    *)
(* its /boot has an initrd for each kernel, whatever builds, seals and     *)
(* crashes came before it in the same work directory.                      *)
SealedTreeIsOneExtraction ==
  \A p \in Procs :
    pc[p] = "done" /\ job[p].cmd = "build" /\ ~job[p].skip =>
      /\ job[p].root.whole /\ job[p].root.hardened
      /\ job[p].base => Deleted(job[p].root.initrds) = {}
      /\ job[p].kernel \in {job[p].root.gen, Unavailable}
      /\ job[p].initrd # Unavailable =>
           /\ ShippedBy(job[p].root.gen, job[p].initrd)
           /\ job[p].kernel # Unavailable /\ Paired(job[p].kernel) =>
                KernelRelease(job[p].kernel) = ReleaseOf(job[p].initrd)

(* Every command ends: no step waits for something that may never come.    *)
CommandsEnd == \A p \in Procs : Running(p) ~> ~Running(p)

(* The claim of the CLI's help for verify (main.rs) and of README.md: the  *)
(* hashes are re-derived from the artifacts, so an image that is there and *)
(* passes is the image the manifest describes.                             *)
VerifiedImageIsRecorded ==
  \A o \in Outputs, c \in Configs :
    VerifyPasses(o, c) /\ Has(o, <<"raw", c.image>>) =>
      file[o][<<"raw", c.image>>] = RawOf(file[o][Manifest].root)

(* The claim of build_boot_cmdline's doc (manifest.rs): boot-cmd prints    *)
(* the command line that the manifest's measurements are computed for.     *)
BootCmdlineIsMeasured ==
  \A o \in Outputs, c \in Configs :
    HasManifest(o) /\ OutputFree(o) /\ BootCmdPrints(o, c) =>
      BootCmdline(o, c) = RecordedCmdline(file[o][Manifest])
=============================================================================
