------------------------------ MODULE ModelDisk ------------------------------
(***************************************************************************)
(* A build with a verity disk whose source is disks/models: cmd_build      *)
(* downloads the models, then create_verity_disk seals what is there.      *)
(* VerityDisk's root filesystems have no part in this.                     *)
(***************************************************************************)
EXTENDS VerityDisk, ModelDownload

CONSTANT DiskSizes  \* bound: sizes of the filesystem of a models disk

ASSUME SizesAssumption == DiskSizes \subseteq 1 .. MaxSize

VARIABLE contents  \* the files on the disk that was made last

modelDiskVars == <<vars, downloadVars, contents>>

(* Nothing is downloaded where there is no such disk.                      *)
ModelInit ==
  /\ Init /\ DownloadInit
  /\ kind = "root" => wanted = Files /\ ~link /\ dirs = {}
  /\ contents = [f \in Files |-> "missing"]

(* Between commands, and before a build makes its filesystem.              *)
NoBuild == phase \in {"idle", "sealed"}

Start ==
  /\ kind = "disk" /\ NoBuild
  /\ faults = 0  \* bound: a disk that went bad is read, not made again
  /\ \/ \E off \in BOOLEAN : StartDownload("build", off)
     \/ StartDownload("download-models", FALSE)
  /\ UNCHANGED <<vars, contents>>

Download == DownloadStep /\ UNCHANGED <<vars, contents>>

(* A filesystem of some size with the files that are there.                *)
MakeModelDisk ==
  /\ kind = "disk" /\ state = "ready"
  /\ \E n \in DiskSizes : MakeFilesystem(n)
  /\ contents' = entry
  /\ Ended
  /\ UNCHANGED <<wanted, disksVars, half, downloads>>

(* The build ends otherwise before it makes the disk.                      *)
StopBuild ==
  /\ state = "ready" /\ Ended
  /\ UNCHANGED <<vars, contents, wanted, disksVars, half, downloads>>

MakeRoot ==
  /\ kind = "root"
  /\ \E n \in 1 .. MaxSize : MakeFilesystem(n)
  /\ UNCHANGED <<downloadVars, contents>>

(* bound: of the model disks only one of the first download goes bad.      *)
OtherStep ==
  /\ DiskStep /\ state = "idle"
  /\ faults' > faults => downloads <= 1
  /\ UNCHANGED <<downloadVars, contents>>

ModelNext == Start \/ Download \/ MakeModelDisk \/ StopBuild \/ MakeRoot \/ OtherStep

ModelSpec == ModelInit /\ [][ModelNext]_modelDiskVars
-----------------------------------------------------------------------------
ModelTypeOK == TypeOK /\ DownloadTypeOK /\ contents \in [Files -> {"missing", "dangling", "torn", "whole"}]

(* A models disk that was sealed holds every file that the config asks for,*)
(* whole, and no other, however many downloads were refused, failed or     *)
(* stopped before; except for a model of which a download gave up with     *)
(* something in place, which every later one takes as present.             *)
SealedModelsComplete ==
  (kind = "disk" /\ phase = "sealed") =>
    \A m \in Models \ half : \A f \in FilesOf(m) :
      contents[f] = IF f \in wanted THEN "whole" ELSE "missing"
=============================================================================
