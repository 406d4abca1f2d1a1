----------------------------- MODULE VerityDisk -----------------------------
(***************************************************************************)
(* A sealed filesystem and the hash tree that protects it, from the loops  *)
(* of verity.rs to the block that the booted guest reads.  There are two   *)
(* layouts: the root filesystem and its tree are two partitions of a GPT   *)
(* image, the tree behind a superblock (gpt.rs); the tree of a verity disk *)
(* is appended to its ext4 image, without superblock, and the guest learns *)
(* from the kernel command line where it begins (ext4.rs, services.rs).    *)
(*                                                                         *)
(* What finds its way through the tree at run time, the dm-verity of the   *)
(* kernel, is not in the repository; it is modelled from the parameters    *)
(* the code gives it and from the format verity.rs says it implements.     *)
(*                                                                         *)
(* A file is a sequence of units.  A digest is a unit (or several), known  *)
(* by the block it is the digest of; no two blocks have the same one.      *)
(***************************************************************************)
EXTENDS Naturals, SequencesExt

CONSTANTS
  BlockSize,      \* 4096, in units
  DigestSize,     \* 32
  SectorSize,     \* 512
  AlignSectors,   \* 2048: partitions begin at multiples of it
  HeadSectors,    \* 34: the protective MBR and the primary GPT
  BackupSectors,  \* 33: the backup GPT
  MaxSize,        \* bound: units of a filesystem
  MaxBuilds,      \* bound: builds in a behaviour
  MaxFaults       \* bound: units of the sealed image that go bad

(* A block holds whole digests, two at least, and the GPT lies before the  *)
(* first aligned sector.                                                   *)
ASSUME LayoutAssumption ==
  /\ {BlockSize, DigestSize, SectorSize, AlignSectors} \subseteq Nat \ {0}
  /\ BlockSize % DigestSize = 0 /\ DigestSize < BlockSize
  /\ (SectorSize * AlignSectors) % BlockSize = 0
  /\ HeadSectors \in 0..AlignSectors /\ BackupSectors \in Nat
  /\ {MaxSize, MaxBuilds, MaxFaults} \subseteq Nat

HashesPerBlock == BlockSize \div DigestSize

(* The data blocks under a hash block of level n - 1.                      *)
Power[n \in Nat] == IF n = 0 THEN 1 ELSE HashesPerBlock * Power[n - 1]

(* Units: of a filesystem, of a digest, of a superblock, zero, gone bad.   *)
Data(build, i)    == [build |-> build, unit |-> i]
DigestUnit(b, i)  == [of |-> b, part |-> i]
Superblock(n)     == [dataBlocks |-> n]
Zero              == [zero |-> 0]
Bad               == [bad |-> 0]

Zeros(n)      == [i \in 1..n |-> Zero]
DivCeil(n, d) == (n + d - 1) \div d
AlignUp(n, d) == DivCeil(n, d) * d

(* s with zeros up to a whole number of blocks, and block b of it.         *)
PadToBlocks(s) == s \o Zeros(AlignUp(Len(s), BlockSize) - Len(s))
Block(s, b)    == SubSeq(s, b * BlockSize + 1, (b + 1) * BlockSize)
Blocks(s)      == DivCeil(Len(s), BlockSize)

(* verity_hash, and the digests of all blocks of s.                        *)
Digest(block) == [i \in 1..DigestSize |-> DigestUnit(block, i)]
Hashes(s) ==
  LET padded == PadToBlocks(s) IN
  [i \in 1..(Blocks(s) * DigestSize) |->
     DigestUnit(Block(padded, (i - 1) \div DigestSize), ((i - 1) % DigestSize) + 1)]

VARIABLES
  kind,     \* "root": squashfs in a GPT image, "disk": a verity disk
  file,     \* the filesystem: root.squashfs, or the disk's output file
  size,     \* its size
  current,  \* current_hashes
  levels,   \* level_hashes one behind the other, the highest level first
  tree,     \* the file of the hash tree
  image,    \* the GPT image
  params,   \* what the command line tells the guest
  phase,    \* where the build is
  sealed,   \* the filesystem the build made
  builds, faults  \* counted for the bounds

vars == <<kind, file, size, current, levels, tree, image, params, phase,
          sealed, builds, faults>>

Phases == {"idle", "truncate", "hash data", "hash levels", "place", "sealed"}
NoParams == [root |-> <<>>, hashoffset |-> 0]

Init ==
  /\ kind \in {"root", "disk"}
  /\ file = <<>> /\ size = 0
  /\ current = <<>> /\ levels = <<>> /\ tree = <<>> /\ image = <<>>
  /\ params = NoParams
  /\ phase = "idle"
  /\ sealed = <<>>
  /\ builds = 0 /\ faults = 0

NewFilesystem(n) == [i \in 1..n |-> Data(builds, i)]

(* Mutant of MakeFilesystem: a disk that is there is not made again.       *)
KeepOldDisk(n) ==
  LET bytes == IF kind = "disk" THEN AlignUp(n, BlockSize) ELSE n IN
  /\ phase \in {"idle", "sealed"} /\ builds < MaxBuilds
  /\ builds' = builds + 1
  /\ size' = bytes
  /\ sealed' = NewFilesystem(bytes)
  /\ file' = IF kind = "disk" /\ Len(file) >= bytes THEN file ELSE sealed'
  /\ phase' = IF kind = "disk" THEN "truncate" ELSE "hash data"
  /\ params' = NoParams /\ faults' = 0
  /\ UNCHANGED <<kind, current, levels, tree, image>>

(* A filesystem of n units: squashfs writes the file anew; mke2fs is given *)
(* whole blocks and leaves what an existing file has behind them.          *)
MakeFilesystem(n) ==
  LET bytes == IF kind = "disk" THEN AlignUp(n, BlockSize) ELSE n IN
  /\ phase \in {"idle", "sealed"} /\ builds < MaxBuilds
  /\ builds' = builds + 1
  /\ size' = bytes
  /\ sealed' = NewFilesystem(bytes)
  /\ file' = IF kind = "disk"
             THEN sealed' \o SubSeq(file, bytes + 1, Len(file))
             ELSE sealed'
  /\ phase' = IF kind = "disk" THEN "truncate" ELSE "hash data"
  /\ params' = NoParams /\ faults' = 0
  /\ UNCHANGED <<kind, current, levels, tree, image>>

(* Mutant of Truncate: the old file's end is left.                         *)
LeaveLength ==
  /\ phase = "truncate"
  /\ phase' = "hash data"
  /\ UNCHANGED <<kind, file, size, current, levels, tree, image, params,
                 sealed, builds, faults>>

Truncate ==
  /\ phase = "truncate"
  /\ file' = SubSeq(file, 1, size)
  /\ phase' = "hash data"
  /\ UNCHANGED <<kind, size, current, levels, tree, image, params, sealed,
                 builds, faults>>

(* The first loop of compute_verity_tree.                                  *)
HashData ==
  /\ phase = "hash data"
  /\ current' = Hashes(file)
  /\ levels' = PadToBlocks(current')
  /\ phase' = "hash levels"
  /\ UNCHANGED <<kind, file, size, tree, image, params, sealed, builds,
                 faults>>

(* A turn of its second loop; the root hash itself is not a level.         *)
HashLevel ==
  /\ phase = "hash levels" /\ Len(current) > DigestSize
  /\ current' = Hashes(current)
  /\ levels' = IF Len(current') > DigestSize
               THEN PadToBlocks(current') \o levels ELSE levels
  /\ UNCHANGED <<kind, file, size, tree, image, params, phase, sealed,
                 builds, faults>>

(* create_verity_impl writes the tree.                                     *)
WriteTree ==
  /\ phase = "hash levels" /\ Len(current) <= DigestSize
  /\ tree' = (IF kind = "root" THEN PadToBlocks(<<Superblock(Blocks(file))>>)
              ELSE <<>>) \o levels
  /\ phase' = "place"
  /\ UNCHANGED <<kind, file, size, current, levels, image, params, sealed,
                 builds, faults>>

(* Mutant of AppendTree: the offset is the file's length when all is done. *)
OffsetAfterAppend ==
  /\ phase = "place" /\ kind = "disk"
  /\ file' = file \o tree
  /\ params' = [root |-> current, hashoffset |-> Len(file')]
  /\ phase' = "sealed"
  /\ UNCHANGED <<kind, size, current, levels, tree, image, sealed, builds,
                 faults>>

AppendTree ==
  /\ phase = "place" /\ kind = "disk"
  /\ file' = file \o tree
  /\ params' = [root |-> current, hashoffset |-> size]
  /\ phase' = "sealed"
  /\ UNCHANGED <<kind, size, current, levels, tree, image, sealed, builds,
                 faults>>

(* assemble_gpt's arithmetic, in sectors.                                  *)
Sectors(s)  == AlignUp(Len(s), SectorSize * AlignSectors) \div SectorSize
Part1Start  == AlignSectors
Part1End    == Part1Start + Sectors(file) - 1
Part2Start  == AlignUp(Part1End + 1, AlignSectors)
Part2End    == Part2Start + Sectors(tree) - 1

(* Mutant of TotalSectors: no room is left for the backup GPT.             *)
PartitionsOnly == Part2End + 1

TotalSectors == Part2End + 1 + BackupSectors

(* s written into the disk at an offset.                                   *)
Put(disk, offset, s) ==
  [i \in 1..Len(disk) |-> IF i \in offset+1..offset+Len(s)
                          THEN s[i - offset] ELSE disk[i]]

(* The partition table is written over what is there, at both ends.        *)
WriteGpt(disk) ==
  [i \in 1..Len(disk) |->
     IF \/ i <= HeadSectors * SectorSize
        \/ i > Len(disk) - BackupSectors * SectorSize
     THEN Bad ELSE disk[i]]

AssembleGpt ==
  /\ phase = "place" /\ kind = "root"
  /\ image' = WriteGpt(Put(Put(Zeros(TotalSectors * SectorSize),
                               Part1Start * SectorSize, file),
                           Part2Start * SectorSize, tree))
  /\ params' = [root |-> current, hashoffset |-> 0]
  /\ phase' = "sealed"
  /\ UNCHANGED <<kind, file, size, current, levels, tree, sealed, builds,
                 faults>>

(* The build dies; an append may have got any part of the way.             *)
Crash ==
  /\ phase \notin {"idle", "sealed"}
  /\ \/ UNCHANGED file
     \/ /\ phase = "place" /\ kind = "disk"
        /\ \E n \in 1..Len(tree) : file' = file \o SubSeq(tree, 1, n)
  /\ phase' = "idle"
  /\ UNCHANGED <<kind, size, current, levels, tree, image, params, sealed,
                 builds, faults>>

(* A unit of the image goes bad on its way to the guest: it reads as zero, *)
(* as garbage or as another unit of the image.                             *)
Spoilt(s, i, u) == [s EXCEPT ![i] = u]
GoBad ==
  /\ phase = "sealed" /\ faults < MaxFaults
  /\ faults' = faults + 1
  /\ LET dev == IF kind = "disk" THEN file ELSE image IN
     \E i \in DOMAIN dev, u \in {Zero, Bad} \cup ToSet(dev) :
       /\ u # dev[i]
       /\ IF kind = "disk"
          THEN file' = Spoilt(file, i, u) /\ UNCHANGED image
          ELSE image' = Spoilt(image, i, u) /\ UNCHANGED file
  /\ UNCHANGED <<kind, size, current, levels, tree, params, phase, sealed,
                 builds>>

DiskStep ==
  \/ Truncate \/ HashData \/ HashLevel \/ WriteTree \/ AppendTree
  \/ AssembleGpt \/ Crash \/ GoBad

Next == (\E n \in 1..MaxSize : MakeFilesystem(n)) \/ DiskStep

Spec == Init /\ [][Next]_vars

-----------------------------------------------------------------------------
(* The guest.                                                              *)

(* A partition, as extract_squashfs_partition and the kernel read it.      *)
Partition(first, last) ==
  SubSeq(image, first * SectorSize + 1, (last + 1) * SectorSize)

DataDevice == IF kind = "disk" THEN file ELSE Partition(Part1Start, Part1End)
HashDevice == IF kind = "disk" THEN file ELSE Partition(Part2Start, Part2End)

(* How many blocks are protected and where, in blocks, the tree begins:    *)
(* from the command line or from the superblock.                           *)
DataBlocks ==
  IF kind = "disk" THEN params.hashoffset \div BlockSize
  ELSE IF DOMAIN HashDevice[1] = {"dataBlocks"} THEN HashDevice[1].dataBlocks
  ELSE 0
HashStart == IF kind = "disk" THEN params.hashoffset \div BlockSize ELSE 1

(* dm-verity: as many levels as it takes until one block holds the hashes, *)
(* laid out from the highest to the lowest.                                *)
Levels == Min({l \in 0..DataBlocks : DataBlocks <= Power[l]})
LevelBlocks(l) == DivCeil(DataBlocks, Power[l + 1])
LevelStart ==
  LET start[l \in 0..Levels-1] ==
        IF l = Levels - 1 THEN HashStart ELSE start[l + 1] + LevelBlocks(l + 1)
  IN  start

Refused == <<>>

(* The digest that the block on the way to data block b has at level l     *)
(* (level 0 being data), taken from a block verified in the same way.      *)
Expected(b) ==
  LET digest[l \in 0..Levels] ==
        IF l = Levels THEN params.root
        ELSE LET hashes == Block(HashDevice, LevelStart[l] + b \div Power[l + 1])
                 slot   == (b \div Power[l]) % HashesPerBlock
             IN  IF Digest(hashes) = digest[l + 1]
                 THEN SubSeq(hashes, slot * DigestSize + 1,
                             (slot + 1) * DigestSize)
                 ELSE Refused
  IN  digest[0]

(* What the guest gets when it reads block b.                              *)
ReadBlock(b) ==
  LET block == Block(DataDevice, b) IN
  IF b < DataBlocks /\ Digest(block) = Expected(b) THEN block ELSE Refused

-----------------------------------------------------------------------------

SealedBlock(b) == Block(PadToBlocks(sealed), b)

TypeOK ==
  /\ kind \in {"root", "disk"}
  /\ phase \in Phases
  /\ size = Len(sealed)
  /\ Len(current) % DigestSize = 0
  /\ Len(levels) % BlockSize = 0 /\ Len(tree) % BlockSize = 0
  /\ params.hashoffset \in 0..size
  /\ builds \in 0..MaxBuilds /\ faults \in 0..MaxFaults

(* The guest can read every block of the filesystem that the build made,   *)
(* whatever its size and whatever file an earlier or a stopped build left: *)
(* builder, layout, command line and dm-verity agree on where each digest  *)
(* lies.                                                                   *)
EveryBlockReads ==
  (phase = "sealed" /\ faults = 0) =>
    \A b \in 0..(Blocks(sealed) - 1) : ReadBlock(b) = SealedBlock(b)

(* A read of the guest never returns anything but the block that was       *)
(* sealed, although units of the image, of the data, the tree or the       *)
(* superblock, have gone bad: the tree covers every block to its end.      *)
SealedOrRefused ==
  phase = "sealed" =>
    \A b \in 0..(Blocks(sealed) - 1) :
      ReadBlock(b) \in {SealedBlock(b), Refused}

(* The partitions are aligned and share no sector, and each reads back as  *)
(* its file with zeros behind, after both partition tables were written    *)
(* over the image: extract_squashfs_partition finds the squashfs there.    *)
PartitionsApart ==
  (phase = "sealed" /\ kind = "root" /\ faults = 0) =>
    /\ Part1Start % AlignSectors = 0 /\ Part2Start % AlignSectors = 0
    /\ Part1End < Part2Start
    /\ DataDevice = file \o Zeros(Len(DataDevice) - Len(file))
    /\ HashDevice = tree \o Zeros(Len(HashDevice) - Len(tree))

=============================================================================
