# Verification of cvmbuild

cvmbuild turns a container image into a sealed disk image for a confidential
virtual machine: it extracts the container's root filesystem, hardens it, packs
it into squashfs, computes the dm-verity tree over it, puts both into a GPT
image, builds verity disks for data, and records hashes and launch measurements
in `manifest.json`.  What the machine's hardware measures at boot must be what
the manifest says.  This directory models that program in TLA+, checks the
models with TLC and proves the main results with TLAPS.  Paths below are
relative to `src/crates/`.

## The system: inventory

| component | state it keeps | operations | talks to |
|---|---|---|---|
| `cvmbuild-cli` commands build, seal, extract | the output directory, the work directory (`/dev/shm/cvmbuild-{id}-{version}` or `output/work`) | `cmd_build`, `cmd_seal`, `cmd_extract` | all crates, through files and results in memory |
| `cvmbuild-cli` commands measure, verify, boot-cmd, diff | none: they read an output directory | `cmd_measure`, `cmd_verify`, `cmd_boot_cmd`, `cmd_diff` | files left by build and seal |
| `cvmbuild-cli` model download | the destination directory of each model | `download_models` | a remote host, through a child process |
| `cvmbuild-config` | none: the parsed `cvm.toml` | `Config::validate`, `resolve_checks` and the profiles | everything reads the config |
| `cvmbuild-oci` | `rootfs/`, `rootfs.tar`, `_pull/` in the work directory | `build_rootfs`, `pull_rootfs` | docker buildx, tar |
| `cvmbuild-rootfs` | the extracted tree | `RootfsBuilder::apply` (overlay, services, hardening, purge) | reads the config, writes the tree |
| `cvmbuild-squashfs` writer | metadata blocks, fragment table, inode numbers, hard-link and duplicate tables | `create_squashfs`, `MetadataWriter`, `FragmentTable` | reads the tree, writes `root.squashfs` |
| `cvmbuild-squashfs` reader | none | `SquashfsReader` | `cmd_diff` |
| `cvmbuild-image` | artifacts in the output directory | `ImageSealer::seal`, kernel and initrd selection, verity, GPT, ext4 disks, manifest | reads the tree, writes artifacts |
| `cvmbuild-measure` | the running launch digest, RTMRs, MRTD | `calc_launch_digest`, `calculate_mrtd`, RTMR event logs, Authenticode; the tool's `snp` and `tdx` commands | called by `build_manifest`; reads firmware, kernel, initrd, command line |

### What is hard here

* **Crashes and retries.** A build is a long chain of file writes without a
  transaction; nothing is locked and nothing is written atomically.  What a
  killed build leaves is the next build's starting point.
* **Several builds at once.** The work directory in `/dev/shm` is shared by all
  builds of the same image id and version, whatever their output directory.
* **Steps that fail softly.** A failed kernel or initrd copy, a missing disk
  file, an unreadable hash offset are turned into defaults.
* **Two derivations of the same value.** The command line that is measured is
  computed from results in memory by build and seal, from files by measure and
  verify, and with other defaults by boot-cmd.
* **Cursors into compressed streams.** Squashfs references are pairs of a block
  position and an offset that must be taken before, not after, a write that may
  flush a block.
* **Boundaries.** Block, fragment, metadata and hash-tree sizes; a sparse last
  block; partitions rounded to 2048 sectors.

PROJECT.json lists each hazard at its line, with the properties that watch it.

### What makes each component correct

* *build/seal/extract*: a manifest only lies beside the artifacts it describes;
  a successful build verifies; a sealed tree is one extraction; commands end.
* *verify, boot-cmd*: what verify accepts is what the manifest describes; the
  command line printed is the one measured.
* *model download*: a model that is taken as present is complete.
* *rootfs*: the tree after `apply` is what the overlay and the config ask for,
  applying it again succeeds again, removed shells stay removed.
* *squashfs*: every reference written leads the reader back to what was stored;
  an inode number is used by one inode; reading gives back the tree.
* *image*: partitions do not overlap, the hash tree covers every data block,
  one kernel is taken, and the kernel and the initrd belong together.
* *measure*: every component of the launch is folded into the digest in the
  order of the hardware.
* *config*: profiles are nested, include and exclude do what they say.

## Modules

| module | models | state |
|---|---|---|
| `BuildPipeline`, `BootFiles` | the life of the files through build, seal, extract, verify, boot-cmd; the choice of kernel and base initrd | checked, proved |
| `MetadataWriter`, `RefStore` | the metadata stream and the abstract store it implements | checked, proved (with the refinement) |
| `SquashfsImage` | the passes of the squashfs writer, composed with the reader | checked, proved (with what the reader finds) |
| `DirectoryTable` | headers and indexes of a large directory | checked, proved |
| `Accounts`, `RootfsApply`, `Firewall` | `RootfsBuilder::apply` on extracted and reused trees | checked; the accounts, and what an apply leaves in the tree, proved |
| `VerityDisk` | hash tree, GPT image and verity disks, up to the guest's read | checked, proved |
| `ModelDownload`, `ModelDisk` | `download_models`, and with `VerityDisk` the disk that a build makes of the models | checked, proved |
| `SnpLaunch`, `MeasuredGuest` | the SEV, SNP and SVSM launch digest, and the abstract launch it implements | checked, proved (digests are of their inputs; the refinement) |
| `TdxRegisters`, `Measurements` | the TDX registers; the callers of both in the manifest, the tool and the library | checked, proved (SNP digests of a manifest, MRTD, the types) |

`BuildPipeline` EXTENDS `BootFiles`; `RootfsApply` EXTENDS `Accounts` and
`Firewall`; `ModelDisk` composes `VerityDisk` and `ModelDownload`; `Measurements`
composes `SnpLaunch` and `TdxRegisters`.  `RefStore` and `MeasuredGuest` are
abstract specifications, reached by INSTANCE.  `MC...` modules give the constants
their values, `...Proofs` modules hold the theorems.

What is left is small: the structural checks of the config, which are predicates
on one file and keep no state, and proofs of what is now model-checked only (see
the end).  A new question is better asked by widening a run than by adding one.

Modules that are proved about hold no recursive operator: recursion is a recursive
function there, whose equation is shown for each number by induction.  The
induction is a lemma about sets (`Induction`: a set with 0 and with every member's
successor has all numbers), which follows from the least element of what is left.

## BuildPipeline and BootFiles

`BuildPipeline.tla` has one process per running command.  A process has a step
counter `pc`, and `job`, the local variables of `cmd_build`, `cmd_seal` or
`cmd_extract`.  `rootfs` is the tree in each work directory, `file` the content
of each file in each output directory.  The actions follow the code step by
step; each writes one file, so that a crash can come between any two writes.
`BootFiles.tla` has the functions of `kernel.rs` that choose among the files of a
tree's `/boot`.

| code | definitions |
|---|---|
| `cmd_build` up to the rootfs, `--skip-container` | `StartBuild`, `ReuseRootfs` |
| `OciExtractor::build_rootfs`, `pull_rootfs` | `WipeRootfs`, `ExtractRootfs` |
| `RootfsBuilder::apply` (as one step) | `ApplyConfig` |
| the loop over `CVMBUILD_EXTS` | `CleanOutput` |
| `ImageSealer::seal` | `ExtractKernel`, `ExtractBaseInitrd`, `CreateSquashfs`, `CreateVerity`, `WriteRoothash`, `AssembleGpt`, `BuildInitrd` |
| `extract_kernel`, `extract_base_initrd`, `find_single_glob`, `glob_match` | `KernelRelease`, `BaseInitrd`, `LastByName`, `GlobMatch`, `Deleted` of `BootFiles` |
| the loop over `verity_disks` | `SkipDisk`, `CreateDisk`, `WriteDiskRoothash`, `WriteDiskHashoffset`, `DisksDone`, `Bail` |
| `build_manifest`, `write_manifest` | `WriteManifest` |
| removal of the `/dev/shm` directory | `Finish` |
| a crash, a full disk, a failing tool | `Abort` |

**Abstraction.** A file holds the origin of its bytes.  A tree records the
container build it comes from, whether it was extracted whole into an empty
directory, whether it was hardened, and which base initrds are still in it.  Root
hash and tree are identified, because SHA-256 is taken as injective, and so are
a verity disk's root hash, hash offset and image with the version of its source.
`Torn` is a file whose write was cut.  The SNP and TDX measurements share one
`digest` here (they are `Measurements`), and one flag says whether the config
names a firmware file.

**Kernel and initrd.** A file name is what a pattern has before its star, a
release, and what the pattern has behind it; the order of releases as text is a
constant.  Three things in the code are worth knowing and are in the model:

* `glob_match` looks for a star only at the ends of a pattern.  `initramfs-*.img`
  and `initramfs-linux*.img` are tried but match nothing, so a base initrd of
  Fedora or Arch is passed over.
* Of several kernels the last by name is taken, which is 6.9 and not 6.10; the
  comment calls it the highest version.  The initrd is chosen the same way, so
  that the two belong together all the same.
* After it has copied one initrd, `seal` deletes all of `initrd.img*`.  A seal
  that is interrupted among these deletions may leave an older one, which the
  next seal of the tree then takes.

**Environment.** Two commands never use one output directory at the same time
(`OutputFree`): the code takes no lock, so this is an assumption about the
operator.  Two builds of one image do share the work directory in `/dev/shm`.

### Runs

| run | question | bounds |
|---|---|---|
| `build_seal_retry` | builds (also with `--skip-container`), extractions and seals in any order over uncleaned files: `TypeOK`, `SuccessfulCommandVerifies`, `SealedTreeIsOneExtraction`, and under fairness `CommandsEnd` | 3 commands in one directory with `/dev/shm`, 1 fault; a config with a disk that is built, the same image with the disk built elsewhere and no firmware, another image with the disk's source missing |
| `build_shared_tmp` | two simultaneous builds that share `/dev/shm`: `ManifestDescribesFiles`, `NothingRewrittenUnderManifest`, `SuccessfulCommandVerifies` | 2 commands in 2 directories, 1 fault, an image that is renamed and loses its disk |
| `verify_reads_roothash_file` | finding: `VerifiedImageIsRecorded` is violated | 3 commands, 2 faults |
| `boot_cmd_after_seal` | finding: `BootCmdlineIsMeasured` is violated | 3 commands, no fault |

*Why the bounds are enough.* A stale file needs one command to write it and a
second one not to replace it; the third command shows that the state after the
second is no worse than after the first.  Two container builds and several initrds
are what it takes to tell an old file from a new one; of a disk it is enough to be
there or not, as its three files come from one call, and that they agree with each
other and with the manifest in any number of versions is proved.  One
container build has kernels 6.9 and 6.10, with the initrds of both or with one
that the patterns do not find; the other has an initrd and no kernel.  One fault
cuts one command at any step, and the commands after it run over what it left.

*Deadlock* is not checked: a model in which every command has ended and no more
may be started has stopped for good, as the program has.

*Fairness.* `FairSpec` asks for weak fairness of `Proceed(p)`, the next step of
a command that is running: a command is a single thread that never waits for
another, so the operating system runs it on.  Crashes (`Abort`) and starting
commands are not fair.

*What a successful command leaves.* `SuccessfulCommandVerifies` says when `verify`
accepts it, in both directions: exactly if nothing `Foreign` lies in the output.  After
a build that is at most the torn rest of a kernel or initrd copy that failed.  A seal
cleans nothing, so it may be a kernel or initrd of an earlier command where the tree
has none and the manifest says UNAVAILABLE (`verify` then asks for them,
`main.rs:1435-1448`), or a disk of a build, which a seal never records and `verify`
measures again with the boot chain (`main.rs:1497-1504`); that second case is a seal
over a build's output, which `build_seal_retry` reaches.  The code reports success in
each of these cases; the property says what success is worth.

### Findings

* `verify` does not hash the image.  It compares the recorded root hash with the
  `.roothash` file, so an image that was not made for it is accepted.  The
  run finds the shortest way there: a seal over the files of an earlier one is killed inside `assemble_gpt`, and a
  torn `.raw` lies beside the older manifest.
* After `seal` over a build's output, the manifest measures a command line
  without disks; `boot-cmd` still finds the old disk files and adds them.

### Proofs

`BuildPipelineProofs.tla` proves, for any sets of processes, directories, images,
disks, configs and for any bounds:

* `TypeCorrect`: `Spec => []TypeOK`.
* `BuildInvariantHolds`: `Spec => [](TypeOK /\ BuildInvariant)`, if `seal` is not
  among the commands.  `seal` neither cleans nor removes the manifest, so with
  it the statement is false, and `boot_cmd_after_seal` shows what follows.
* `ManifestDescribes`: `Spec => []ManifestDescribesFiles`, from it.
* `NothingRewritten`: `Spec => NothingRewrittenUnderManifest`, from it.
* `SealedTreeHolds`: `SealedTreeIsOneExtraction` in every behaviour in which
  running commands have work directories of their own (`[]OwnWorkDirs`), `seal`
  included.

`ManifestDescribesFiles` is not inductive: that the manifest about to be written
describes the files depends on what every earlier step wrote.  `BuildInvariant`
adds `OwnOutputs` (no two commands in one directory), `MemoryFollowsSteps` (what
a command remembers at each step, and that the squashfs and verity files it
reads back are still those it wrote) and `SealingStartsClean` (a sealing command
has removed the manifest, and any artifact present is the one it remembers).
The proof has one lemma per action (`...Keeps`), and lemmas on changing one file
(`OneFileKeeps`, `ArtifactChanges`, `DiskFileChanges`) that the actions share.

For `SealedTreeHolds` the invariants are `TreeOf`, that the tree under a build's
work directory is the one it extracted, untouched up to the step where it is, and
`InitrdOf`, that the kernel and initrd it remembers are those of that tree.  The
step of interest is that the two are of one release: both are the last by name of
sets with the same releases (`LastOnesPair`).

`SuccessfulCommandHolds`, at the end of `BuildPipelineProofs.tla`, is
`Spec => []SuccessfulCommandVerifies`, for builds and seals over each other's output
in any number.  `CommandsHaveFiles` says which files are there at every step of a
command, with what the command remembers of them, or as an earlier one left them where
it wrote none; `BuildsStayClean` says of a build among seals what `BuildInvariant`
says where there is none, that a directory was cleaned before it was sealed.  A last
lemma goes through `cmd_verify` with the files so known and finds that it fails in the
cases of `Foreign` and in no other.

The assumptions are `SetsAssumption`, `SentinelAssumption`, `TreeAssumption`,
`RecordAssumption` (no digest or hash of a file is one of the words the manifest
uses where it has none), `BootAssumption` and `LastAssumption` (of some files one
is the last by name), which TLC evaluates in every run.

## MetadataWriter and RefStore

`MetadataWriter.tla` is the stream under the inode and directory tables.  The
variables are the fields of the writer (`buf`, `blocks`, `byteLen`) and of the
reader; a byte is its number in the stream, as neither side looks at bytes.

| code | actions |
|---|---|
| `position()` and then `write()`, as `add_file` and the others call them | `Write`, then `Copy` per turn of the loop |
| `flush_block_internal` | `Flush` in `Copy` and `Finish`; zstd may give any size up to the block's |
| `finish` | `Finish` |
| `MetadataReader`: new, `ensure_loaded`, `skip`, `read_exact` | `Open`, `Load`, `Skip`, `ReadExact`, `Close` |

`RefStore.tla` says what is promised: an item is put under a reference no other
item has, and the reference is answered with exactly that item.  `StoreSpec` is
the refinement (`kept <- refs`).

`metadata_store` checks it on blocks of two bytes and items of one, two and five:
shorter than a block, as long as one, and spanning three, begun at every offset;
eight bytes make four blocks.  It also checks `ReadsBack`, `NeverFails` and, with
weak fairness of the loops' turns (one thread, no waiting), `LoopsEnd`.

`MetadataWriterProofs.tla` proves all of these but the liveness, for any block
size, item sizes and number of bytes.  `TableInvariant` is inductive with
`TypeOK`: blocks lie gapless in the image and in the stream, a reference leads
into a block or to the buffer that will become one, and the reader stands at the
byte it wants or is sent to it.  `TableIsAStore` is the refinement theorem; that
no reference is given out twice follows from where the buffer ends.

## SquashfsImage

`SquashfsImage.tla` follows `create_squashfs` pass by pass over one tree, which the
scan may choose freely: `Scan`, `Number`, `Collect`, `WriteBlocks` / `AddFragment`
/ `WriteEmpty`, `WritingEnds`, then the recursion of `write_tables_dfs` as
`WriteFile`, `WriteSymlink`, `EnterDir`, `LeaveDir` over an explicit stack.  The
maps that the passes hand on (inode numbers, link maps, duplicates, file data) are
variables.  The reader (`ReadDir`, `ReadFile`) is operators over the finished
image, and `ReadsBackTree` composes the two: what the reader finds at the root and
at every entry of every directory is the node of that name, with the entries of a
directory and its parent, each entry's kind and the data of each file.
`LinksShareInode` and `ExportTableComplete` relate the numbering pass to the passes
that use it.

`squashfs_image` checks every tree of up to five nodes, with directories, symbolic
links, fragments of which two fill a block, files of two blocks (one of them
sparse), duplicates and one linked inode; metadata blocks hold two inodes,
headers two entries, and a difference of inode numbers overflows above one.  Five nodes allow a link and a
duplicate of it in different directories, and three tails, the third of which
flushes the fragment block.  `squashfs_sparse_tail` is the finding:

* A file that ends in a partial block of zeros cannot be read back by the
  crate's own reader, which counts the block as whole.  `SparseIsWhole` says
  which contents are not of this kind, which is checked of those that `squashfs_image`
  has (`ContentsAssumption`), and `ReadsBackTree` is proved for all of them.

The tree is not changed while it is read, compression may give any size, and
permissions, times and link targets, which are passed through, are left out.  So
are the extended directory index, which is `DirectoryTable`, and whole images
beyond these sizes.

`SquashfsImageProofs.tla` proves `TypeOK` (`ImageTypeCorrect`), `ExportTableComplete`
(`ExportIsComplete`) and `LinksShareInode` (`LinksShareTheirInode`) for any tree, any
contents and links, and any sizes of blocks, headers and compressed data.  The
inductive invariant `ImageInv` says what each pass leaves to the next:

* the tree is in depth-first order, without a gap between a directory and what is in
  it (`TreeOK`), which the scan keeps as it only leaves directories it is in (`PathOK`);
* names have equal numbers exactly if they are of one file of the host, and no
  number up to `next` is unused (`NumbersOK`);
* every file has data written, in the queue, or as a copy of one that has; a linked
  file's is found by `hlFirst` (`DataOK`).  So the lookup in `WriteFile` succeeds and
  `TypeOK` excludes the panic, whichever name of a link was a copy;
* stored blocks and fragments keep their limits (`BlocksOK`);
* while tables are written, the stack holds the directories the next node can be in,
  inodes and the export table's references determine each other, and every entry, in
  a list of children or in a written directory, has the reference of its node
  (`StackOK`, `InodesOK`, `LinksOK`, `KidsOK`, `DirsOK`).

The nodes that are `Finished` are those passed and not on the stack; they are all
once the root is left (`NothingLeft`).

`ReadsBackTree` (`ImageReadsBack`) is proved for contents that are `SparseIsWhole`,
the assumption that the finding makes necessary.  Its invariant `ReadInv` adds to
`ImageInv` what the reader needs:

* names of one file of the host have one content, and the file that a link or a
  copy takes its data from has the content of its own (`SourcesOK`);
* no two blocks of the data area lie at one place and the next is written behind
  them (`OutOK`), so a block that was found stays the one that is found;
* the place that a file was given has its bytes: blocks, each stored or of zeros,
  at the sums of the sizes before them, or a part of a fragment, be it in the image
  or still in the buffer (`FilesOK`, `HeldIn`), whatever is flushed later;
* each list of children has the finished nodes of its directory in the order of the
  scan, with their numbers, references and kinds (`KidsListed`), because the stack's
  directories lie in each other (`StackPaths`);
* an inode with a node's number has what the node has: a file's bytes, or a written
  directory that lists all its children (`NodesOK`).

The reader's side is in lemmas about its operators: `BlocksReadBack` and
`FragmentReadsBack` (`read_file` gives the bytes that are held) and
`GroupsReadBack` (`read_dir` gives the entries that `build_directory_data` was
given, however they fall under headers and however differences of numbers wrap).

## DirectoryTable

`DirectoryTable.tla` is `write_directory` for one directory: `AddEntry` puts an
entry under the current or a new header and may index it, `BuildEnds` and
`WriteChunk` write the buffer block by block and give the indexes their blocks.

`directory_index` checks, for directories of up to five entries begun at any
offset of a block of eight bytes, `EntriesFitTheirHeader`, `IndexLeadsToHeader`
and `IndexedOften`.  Five entries of up to six bytes fill four blocks, so that
several indexes occur, one in a block that has another.

`DirectoryTableProofs.tla` proves `EntriesFitTheirHeader` and the types for any
sizes and limits.  The inductive invariant adds that the headers partition the
entries and that the last header governs the last group.  It also proves
`IndexLeadsToHeader` (`IndexesLeadToHeaders`) and `IndexedOften` (`LookupsAreShort`).
For these `IndexInv` says where in the buffer the headers lie, that every index is
one of them, how far the first entry without an index may be from the last index,
and, once the buffer is written, that the indexes have the block in which their
header's first byte comes to lie, wherever in a block the directory began.

## Accounts, Firewall and RootfsApply

`RootfsApply.tla` is `RootfsBuilder::apply`.  The config determines a sequence of
operations (`Plan`: overlay, services, hashes, audit, removals, cleaning,
hardening), and each operation is one action on the tree.  `Accounts.tla`, which
it extends, is the account pass in the middle, one config entry at a time, with
what it holds in memory.  `Firewall.tla` has the catalog checks about the firewall
and `validate_nftables`.

| code | definitions |
|---|---|
| `apply_overlay` | `Overlay`, `CopyOverlay` |
| `apply_services` | `ApplyServices` (the plan), `WriteFile`, `Unlink`, `Symlink` |
| groups and users in `apply_services` | `AccountStep`: `ReadGroup`, `AddGroup`, `WriteGroup`, `WriteGshadow`, `ReadUsers`, `AddUser`, `WritePasswd`, `WriteShadow` |
| `verify_binary_hashes`, `audit_kernel_config`, `verify_zero_shell`, `validate_nftables` | `Pass`, or `Refused` and `Fail` |
| `remove_binaries`, `remove_directories`, `strip_suid_sgid`, `rewrite_shells_to_nologin` | `RemoveBinary`, `RemoveDir`, `StripSuid`, `NoLogin` |
| `resolve_checks`, profiles, firewall checks | `ResolveOk`, `ResolveChecks`, `Fails`, `Accepted` |

The tree maps paths to files, directories and links.  Links matter, because the code
follows them from the build host: a relative one stays in the image, but an absolute
one leads `exists`, `fs::read` and `fs::write` to a file of the host.  `End(p)` is what
the code finds at a path, `Takes(p)` whether it may write there, and `host` what lies
at the paths of the host that links lead to, changed by `HostWritten`.  A build may
fail at an operation, or crash between two or inside a write, which leaves the file
truncated; the next one may reuse the tree.

`rootfs_apply` runs three builds with eight configs over one tree with one crash:
`Served`; `Changed`, the same image later with other groups and masked units;
`Crowded`, with more groups and users than free ids; `Pinned`, which pins a binary
that is an absolute link and whose content is the host's, and overlays a resolver of
its own; and four that must fail (`Upgraded`, `OldKernel`, `Directory`, `Blocked`).
The image has a relative link at `/etc/resolv.conf`, absolute ones at a generated
file, at a binary to be removed and at one that is pinned, and a directory inside one
that is to be removed; the host has a file that can be overwritten, one that cannot,
and a device.  Ids 1 to 5 stand for the code's 100 to 990 with their different upper
ends, so that searches meet taken ids and run out.  Three builds suffice for a config,
another one on its tree, and the first again.  `CHECK_DEADLOCK` is off as the builds
are counted.

`firewall_exclusion` is a finding:

* `validate_nftables` looks for an exclusion `firewall_no_http_plain`, which the
  catalog does not know (its check is `firewall_no_http`); a config that opens
  port 80 and opts out by the catalog's name is refused at the end of `apply`,
  and one that uses the other name is refused before it.

### Proofs

`AccountsProofs.tla` proves, for any image, id ranges and configs,
`IdsStayDistinct`, `EntriesAreKept`, `UsersJoin` and the types.  `IdsDistinct`
alone is not inductive: the file is written from a buffer.  The invariant
(`PassInvariant`) adds that the buffer contains the file, that every id in it was
there when the pass read the file or lies above the next one to be given, and
that the groups seen so far have a line.

`RootfsApplyProofs.tla` proves that `RootfsApply` implements `Accounts`
(`ApplyImplementsAccounts`): whatever the plan, a failure or a crash does to the
pass is one of its steps or none.  With it the three results hold of whole
builds.  It needs one invariant of its own: outside a pass, its memory is empty.
The assumptions are `RangesAssumption`, `BaseAssumption` and `ConfigsAssumption`.

The same module proves what a successful apply leaves in the tree, for any image,
any configs, and any tree that earlier applies left, failed and crashed ones too:

* `ApplyTypeCorrect`: the types.
* `TreeStaysHardened`: `TreeIsHardened`.
* `VerifiedStaysSealed`: `VerifiedIsSealed`.
* `GeneratedStaysInPlace`: `GeneratedInPlace`.
* `ReuseStaysSuccessful`: `ReuseSucceeds`.

None of them is inductive: they speak of the end of a plan, which is as long as the
config makes it.  `ApplyInv` (`AppliesInvariant`) says at every step that what each
operation before the current one has done is still there (`Progress`, from `Done`).
That is so because of the order of the code: an operation has a phase, every plan
has its operations in the order of the phases (`PlanShapes`), and what an operation
did is not undone by one of a later phase (the `...Kept` lemmas; `Frame` and
`Changed` say which paths an operation can touch).  Inside a phase two operations
may write one path, as when a config masks a unit that it also generates; then the
last one counts, and `GeneratedInPlace` is about it.

An operation acts on what a link leads to, so the links must be known
(`TreeLinks`): relative ones are the image's, and the others are where the image or
a plan has them.  `LinksAssumption` keeps the image from leading two things to one
place: a relative link leads to no other link, is not where the build makes a link and
does not lead there; two writes do not end at one path; and what the last stage writes
is, through links or not, none of the binaries.  Any written path may be a link, to
the image or to the host.  `HostAssumption`, `TreeAssumption`, `ListsAssumption`,
`BoundsAssumption` and `NoneAssumption` say what the constants are.

What the properties leave out is what the code does not do:

* `VerifiedIsSealed` says nothing of a pinned path that is an absolute link: there the
  code hashes a file of the host, and the image may have another or none.  It also
  leaves out a binary that the config itself removes, and the files that `apply` writes
  after the hashes are checked (`LateFiles`): a config that pins one of these pins what
  an earlier apply left.
* `GeneratedInPlace` says nothing of a written path that is an absolute link of the
  image (the host's file was written), and nothing of `/etc/resolv.conf` if the config
  overlays it: the comment at `services.rs:110-116` says that the overlay then counts,
  and the code, which copies the overlay first, overwrites it.
* `TreeIsHardened` says of a listed binary that the code cannot see it from the host.
  An absolute link whose target the host lacks is taken for missing and kept.  A
  removed directory is gone with all that is in it and in the directories inside it,
  but for what the last stage writes there again.

`ReuseSucceeds` does not hold of every config.  One that pins a binary and removes it
passes on the extracted tree and fails at the hash on the one it left; one that pins
what only another config's overlay brings passes on a reused tree and fails on a fresh
one.  `Repeatable(c)`, which the property has as its condition, says what a config needs:
each path that a hash check or the kernel audit looks at is either copied there by `c`
itself, always with one content (`Brings`), or the image's and untouched by every
operation of `c` (`Leaves`); every path it writes can be written, whichever links the
image and the plans have (`CanWrite`); a directory of the image that is in the way of a
link or of a removal is there for good (`StaysDirectory`), so that `c` fails on every
tree or on none; and `c` does not remove `etc` as a whole, so that the rules the last
check reads are the ones `c` generates.  A config that is not `Repeatable` is not known
to fail.  `MCRootfsApply.tla` asserts `Repeatable` of every config of the run
(`ReuseAssumption`) but `Pinned`, whose pinned file is the host's, and `Blocked`, which
never succeeds.

`ReuseInv` (`ReuseInvariant`) is the argument.  What an operation has shown by not
failing (`Shown`) is a fact about the config, or about files of the image that the
config does not touch, so every later operation of the config, whole or truncated by
a crash, keeps it (`ShownKept`), and a fresh extraction establishes it again
(`ShownFresh`).  A check that passed once thus passes again, provided the files it
reads are in place by then: what the overlay copied stays until binaries are removed
(`CopiesStay`), which is after the checks that read it, and the rules of the firewall
are those of the config (`RulesThere`, from `GeneratedInPlace`'s invariant).  A link
can be made because the step before it unlinked the old one (`LinkReady`).

### Limits

* A crash inside the write of an account file truncates it, and the next build on
  the tree goes on from the empty file.  `EntriesKept` excepts that step.
* What an earlier config generated and this one does not is never removed, such as the
  link that enables a unit: no property says otherwise.
* The search for a free id may run out, and the code then gives a fixed one without
  looking.  `IdsDistinct` is about builds in which it did not (`ranOut`).  A user
  without a declared group gets its user id as group id, free or not.
* Directories are real ones, in the tree and among those that are removed, and a
  relative link leads to no other link.
* File modes other than set-id bits, ownership, and creating directories are left
  out; so are the contents of the generated files other than which config they
  are of.

## VerityDisk, ModelDownload and ModelDisk

`VerityDisk.tla` goes from a filesystem to the block that the booted guest reads.
It has both layouts: squashfs and tree as partitions of a GPT image, and an ext4
image with the tree appended.

| code | definitions |
|---|---|
| `compute_verity_tree`, `create_verity_impl` | `HashData`, `HashLevel`, `WriteTree` |
| `assemble_gpt` | `Part1Start` to `TotalSectors`, `AssembleGpt`, `WriteGpt` |
| `create_ext4`, `create_verity_disk` | `MakeFilesystem`, `Truncate`, `AppendTree`, over the file an earlier build left |
| a build that dies | `Crash`, also with part of the tree appended |
| `verity-activate.py`, `extract_squashfs_partition` | `DataBlocks`, `HashStart`, `Partition` |
| the kernel's dm-verity (external) | `Levels`, `LevelStart`, `Expected`, `ReadBlock` |
| a device whose units go bad (external) | `GoBad` |

`ModelDownload.tla` is `download_models`, which a build runs first and
`cvmbuild download-models` on its own: two loops, over the models of the config
and over the files of a repository.

| code | definitions |
|---|---|
| the start, with a dangling `models_dir` removed | `StartDownload` |
| `has_real_files`, "already exists" | `HasRealFiles`, `AlreadyExists` |
| dangling links removed, the directory made, `--no-download`, the list of files | `BeginModel` |
| one file: not wanted; kept, linked or copied | `Skip`; `Place`, `CopyEnds` |
| the ends of the loops | `ModelDone`, `DownloadDone` |
| an error of the hub or of a copy, a crash | `GiveUp` |

`ModelDisk.tla` composes the two: `Start` begins a command, `Download` is a step
of it, `MakeModelDisk` seals what lies in the directory, `StopBuild` ends the
build before it does so, and `MakeRoot` and `OtherStep` are `VerityDisk`'s own.
The hub, its cache and what `glob_match` makes of the patterns are a choice of the
files that are wanted.

`verity_disk` (specification `ModelSpec`) has blocks of two units and digests of
one, hence two hashes to a block, and root filesystems of 1 to 11 units: up to six
blocks, trees of no, one, two or three levels, full and not full, last blocks
whole and short.  A second build of any size replaces the first, and one unit of
the sealed image may go bad, as zero, as garbage or as another unit of it.
`EveryBlockReads` says that the guest reads what was sealed, `SealedOrRefused`
that it never reads anything else, and `PartitionsApart` that the partitions and
both tables fit.  Two builds are enough as a build looks at nothing of the file
but what the last one left.

A disk is made of two models, one with a file in a subdirectory, of which four
sets of files may be wanted; three commands run one after another, the first may
leave a directory in any state that an interruption can, the second and third
meet it.  `SealedModelsComplete` says that a sealed disk holds every wanted file,
whole, and no other.  Sizes of a models disk are 1, 5 and 11 units (one block, a
tree of two levels, three), units go bad only on the disk of the first download,
and nothing is downloaded after that: the hash tree does not depend on how the
files came about.  Deadlock is not checked: the last image, sealed, is the end.

A digest is taken as injective, and a unit of a block is its smallest part that
may go bad.  GUIDs and CRCs are left out, the salt is the empty one the build uses, and what mke2fs
writes is not looked into: it is assumed to write every block of the filesystem and
nothing behind.

### Limits of the download

* A download that stops after its first file is taken as complete by every later
  one, which asks only whether something real is there.  `half` records these
  models and `SealedModelsComplete` excepts them; for all others it holds.
* A subdirectory counts as something real, also an empty one.
* A model whose patterns change in the config is not fetched again.  In the model
  the patterns stay.
* Two repositories whose names end alike would share a directory, and the second
  would never be fetched.  `DownloadAssumption` leaves such configs out.

### Proofs

`ModelDiskProofs.tla` proves of the seal, for any block, digest, sector and image
sizes that fit each other (`LayoutAssumption`), the types (`TypesHold`) and
`PartitionsAreApart`.  `VerityInv` adds to the types that file, levels and tree are
sequences of whole blocks and that the image is `GptImage` until a unit goes bad;
the rest is arithmetic on aligned sectors: a partition read back from the image is
what was put there, as it neither meets the other one nor a table.  Both are proved
of `VerityDisk` and hold of the composition because it implements it
(`ModelDiskIsVerityDisk`): a step of a download is none of `VerityDisk`.

It also proves, for filesystems of any size and trees of any height, that the guest
reads every block (`EveryBlockIsRead`) and never anything but what was sealed, if
any units of the image go bad (`ReadsAreSealedOrRefused`).  `Tower` is the
levels of the tree over a filesystem; `TreeInv` says that the loop has climbed to
one of them (`Climbed`) and has laid out those below, the highest first (`LaidOut`).
Where the guest looks for a level (`LevelStart`) is computed from the number of
blocks alone, so it is shown that the division by powers of the digests per block,
rounded up, counts the blocks of each level of the tower.  A read that is accepted
goes down from the root hash: each level's block has the digest that the block
above it has of it, and is therefore, digests being injective, the one of the tower.

Of the downloads it proves `SealedModelsAreComplete` and
`PresentModelsAreComplete`, for any models, files and numbers of downloads
(`DownloadAssumption`, `SizesAssumption`).  The invariant follows the loops: the
models passed are complete or given up (`Passed`), of the current one the files
passed are as wanted and the others not there (`Partial`), and anything that
counts as present is complete, being fetched, or given up (`PresentIsComplete`).

## SnpLaunch, TdxRegisters and Measurements

`SnpLaunch.tla` is `calc_launch_digest` in its four modes (SEV, SEV-ES, SEV-SNP,
SVSM) and for its three hypervisors.  One launch runs at a time; each metadata
section and each CPU is a step.

| code | definitions |
|---|---|
| the footer table and SEV metadata of a firmware file | `Entry`, `InTable`, `Value`, `Sections`, `HashTableSupported` |
| `Gctx::update_page` and its callers | `PageInfo`, `FilePages`, `Unhashed`, `Bytes` |
| `SevHashes` | `Hashes`, `HashOffset` |
| `snp_update_section`, `snp_update_kernel_hashes`, the SVSM's | `SectionPages`, `SectionFails`, `FoldSection`, `FoldLateCpuid` |
| `vmsa.rs` | `Eip`, `Rdx`, `SevFeatures`, `SaveArea`, `SaveCpu` |
| the `calc_..._launch_digest` functions and their errors | `Load`, `StartCpus`, `Measured`, `Refuse` |

`TdxRegisters.tla` has `calculate_mrtd`, `calc_rtmr0` to `calc_rtmr3` and
`pe_authenticode_hash` as operators.  `Measurements.tla` runs both: a manifest
(`compute_snp_measurements` and `compute_tdx_measurements`, which put a text
where a value cannot be computed and go on), the tool's commands (which stop), or
calls of the library.  Each file is read where the code reads it (`ReadFile`), and
another process may replace or remove one at any time (`Replace`).

`MeasuredGuest.tla` says what a digest promises: the pages of the guest's initial
memory, each once and in its turn, then one state per CPU, or no digest.
`LaunchMeasuresGuest` is the refinement: the layout is computed from the firmware's
metadata, independently of the order in which the code walks it; the log is the part
of the digest before the save areas.  The refinement needs firmware whose sections
lie apart, with one page for secrets and one for CPUID (`SectionsApart`), and callers
whose hash is the firmware's (`SeedsAreHashes`).  The code takes both for granted: it
folds one page for a secrets or CPUID section whatever its size, and of two sections
at one address it would fold both.  Likewise `MrtdIsLoadedImage` needs TDVF sections
that lie apart (`TdvfApart`).  `SameRegisterSameInput` needs kernels laid out as PE
files are (`KernelsLaidOut`): `pe_authenticode_hash` looks for data behind the sections
at the number of bytes it has hashed, which is their end only if they follow the
headers and each other (`LaidOut`); certificates are a multiple of 8 bytes; and two
files that agree before the checksum have checksum and certificate entry at the same
place (`FieldsFollow`), since the code computes both from the header's units before
them.  `GuestAssumption` asserts all four of the run's firmware, kernels and requests.

`launch_measurement` also checks:

* `DigestIsOfInputs`: equal digests mean equal inputs, equal inputs equal digests.
* `OneKernelPerMap`: the digests of one manifest, one per CPU model, bind the same
  kernel, initrd and command line though a file be replaced meanwhile.
* `ManifestBindsOrSays`: the digests of a manifest are of the kernel and initrd on the
  disk, and once MRTD is computed RTMR1 and RTMR2 say REQUIRES_KERNEL or
  REQUIRES_INITRD exactly if the file is not there.
* `MrtdIsLoadedImage`: MRTD adds every page once and extends every measured chunk
  with the bytes that are loaded there.
* `SameRegisterSameInput`: RTMRs are equal exactly if what they measure is, where
  a signature of the kernel is not part of it.

Two commands run in a row (manifests with and without each firmware, both tool
commands, or two calls of the library with options varied one or two at a time),
on seven firmware files with and without the tables they need and five kernels, one of
the kernel or initrd perhaps missing from the start, with one file replaced under them.  One replacement
is enough for a command to see two versions of a file; a third version would differ from the second as the second
does from the first.  Deadlock is checked: only `AllDone`, with no command left,
repeats itself.

**Abstraction and limits.** Hashes are injective: a digest is the sequence of what
was folded in.  Of a save area there is what tells two apart.  A hash of the
firmware that a caller brings is taken to be of that firmware.  Sections are whole
pages, and files that make the readers panic are left out.  The model shows some
things that are easily taken otherwise:

* An SVSM launch does not hash the kernel.
* A manifest whose kernel cannot be read has SNP digests without a kernel, and if no
  TDX firmware is configured no text says so.  With TDX firmware the text of RTMR1
  does: this is what `ManifestBindsOrSays` relies on.
* The tool's default list of CPU signatures (`bin/main.rs:61`) has 0xA10F11 for
  Genoa, while the manifest uses 0xA10F10 (`manifest.rs:194`).  The model has a list
  for each (`CpuLists`), in the run with this difference, so that a digest of the tool
  is compared with one of the manifest as a digest of another input.
* Firmware of fewer than 50 bytes makes `tdvf.rs` panic and a footer entry of length 0
  keeps it in its loop.  A footer is a sequence of entries here, so neither is an input.

### Proofs

`MeasurementsProofs.tla` proves, for any firmware, CPU models, files and commands,
`OneKernel` (`OneKernelPerMap`, however often the files are replaced),
`ManifestsBindOrSay` (`ManifestBindsOrSays`), `DigestsAreOfInputs` (`DigestIsOfInputs`),
`MeasurementsTypeCorrect` (`TypeOK`), `LaunchesMeasureGuests`, the refinement
(`LaunchMeasuresGuest`, under `SectionsApart` and `SeedsAreHashes`), and
`MrtdsAreLoadedImages` (`MrtdIsLoadedImage`, under `TdvfApart`) and
`RegistersTellInputs` (`SameRegisterSameInput`, under `KernelsLaidOut`).

*One kernel.* What is to be shown of a launch of a CPU model is that its digest has
exactly the page with the hashes of its options.  `CpuLaunch` says it at every step:
while sections are folded, the hashes are in the digest exactly if a section for
them came before (`HashesBefore`); the check before the CPUs refuses a kernel
without such a section.  `KernelInv` carries that through a command: the launches
stand in one stretch of the plan (`CpusTogether`), no file is read between them, so
as long as one is to come every digest binds what was read (`MemBinds`), and when
none is left, they are still equal.  Reading the kernel again for RTMR1, possibly
another one, comes after.

*Manifests.* `ManifestOK` adds, while nobody has touched the files: a file that is
read is the one on disk, and kernel and initrd are read before the first launch
(`ReadFirst`), hence each digest binds the files on disk, or none where there is no
kernel; and RTMR1 and RTMR2 are computed, still to come, or given up with a text for
MRTD (`RtmrsToCome`, `MrtdSays`), and are the texts exactly if their file is missing
(`RtmrsSay`).

*Digests.* `LaunchInv` says that a launch's digest is what its request gives after as
many steps as it has taken: the firmware's pages (`Loaded`), then one `Piece` for
each section, the late CPUID page and each CPU, joined one after another (`Folded`,
the last of a `Chain`).  So a digest is a function of what decides the pieces
(`Alike`).  Conversely a finished digest has a shape (`Shape`), pages before
CPUs, from which the inputs can be read off: the firmware is in the first pages, the
page with the hashes is the only one of its content, the number of CPUs is what
follows the pages, and a save area tells the CPU model and the features.

`DigestIsOfInputs` is about launches whose firmware is a file with content, hashed by
the caller if at all (`OwnFirmware`): with a hash of something else, the digest is
of that.  Where equal inputs are to give equal digests, it asks for the same SVSM,
room for its variables and hypervisor, as these also decide pages.

*Refinement.* Where `LaunchInv` says what pieces the digest is made of, `Placed` says
where their pages are: after `m` steps each page is there once (`Once`), it is a page
of the firmware or of a section walked so far, and the turns of the pages do not
fall (`PlacedOn` adds a piece, `AllPlaced` finds every page of the layout after the
last one).  This is where the sections have to lie apart: two pieces have no page in
common (`PiecesApart`), but for the CPUID section of EC2, whose turn in the first walk
adds nothing (`PiecesPlace`).  `GuestInv` carries it on through the CPUs: the save areas
are as many as the steps among the CPUs, and what is before them stays the whole
layout (`LogOfSave`).  Then each step of a launch is a step of the guest: `Load` begins,
a section or a late CPUID page is a `Place` (of no page, for EC2's CPUID section in
the first walk), a CPU a `Save`, and an error a `GiveUp`; everything else stutters.

*MRTD.* MRTD is one sequence joined from a block per page, so first comes what a
join of disjoint blocks is (`FlattenBlocks`): its elements are those of the blocks,
each once, in the blocks' order.  The block of a page begins with adding it
(`BlocksAdded`), hence every chunk comes after its page (`RegionIs`, `MrtdIs`).  That
the chunks are those the sections load is arithmetic: chunk `c` of page `p` is
chunk `(p - 1) * ChunksPerPage + c` of its section, and every chunk of a section is
one of those (`ChunkAt`, `ChunkOfPages`).  `RegistersOK` says that an MRTD was computed
from the firmware that was read for it, though the file be another by now.

*Registers tell inputs.* `RtmrsOK` says what each recorded RTMR was computed from.
The rest is about two kernels.  Where the sections adjoin, the end of the i-th is what
was hashed before it and its own size (`HashedIs`), so the parts that are hashed
concatenate to three stretches of the file and the padding (`SectionsSlice`,
`HashParts`), which is the unsigned file without the two fields (`HashIsUnsigned`,
`TakenOut`).  Hence both have the same headers up to the checksum, whichever of hash
and unsigned file is equal (`HeadersAreLeft`), the fields are at the same place
(`SameFields`), and what is left is equal exactly if the files are (`TakenOutTells`).

The assumptions are `FirmwareAssumption`, `RequestAssumption`, `FilesAssumption`,
`TdvfAssumption`, `CpusAssumption` (no CPU model is named like a register) and
`SessionsAssumption` (a manifest has a command line).

## Not modelled

* Deserialisation of `cvm.toml` and the checks of `cvmbuild-config` other than
  those about the firewall: predicates on one file, without state.  The models
  rely on some of them: that names of verity disks, users and groups are unique
  is why these are sets.
* `cmd_diff`, `cmd_validate`, `cmd_checks`, printing and logging: pure output.
* Ownership (`chown_back_if_sudo`), docker's and QEMU's command lines.
* Compression, hashing and ELF/PE parsing as functions on bytes; of squashfs, the
  superblock, the id table and how the lookup tables are cut into blocks.

Seven hazards in PROJECT.json have no property of their own; each has a note that says
why.  In six the code does what it should not, or what a comment denies, and the
property next to it leaves the case out in so many words:

* ids given out when the search runs out (`services.rs:155`);
* an account file truncated by a crash (`services.rs:181`);
* absolute links that lead a check, a write (`lib.rs:84`) or a removal (`lib.rs:212`)
  to the build host;
* the overlaid resolver (`services.rs:117`);
* a model half downloaded that is taken as present (`main.rs:658`).

The seventh, malformed firmware (`tdvf.rs:73`), is outside the model's inputs.

## Model-checked only

`CommandsEnd` and `LoopsEnd` are liveness properties, which TLAPS cannot prove.
