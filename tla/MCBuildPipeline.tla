--------------------------- MODULE MCBuildPipeline ---------------------------
(***************************************************************************)
(* Constants for model-checking BuildPipeline: cvm.toml files that rename  *)
(* the image, add and drop verity disks, and take a disk's source away.    *)
(***************************************************************************)
EXTENDS BuildPipeline, TLC

CONSTANTS imgA, imgB, models, g1, g2, deb9, deb10, fed10

(* g1 has two kernels, of which 6.9 is the last by name, and the initrds   *)
(* of a Debian, or one with a name that Fedora gives it; g2 has no kernel. *)
TheirReleases   == {"6.9", "6.10"}
AsText          == ("6.10" :> 1) @@ ("6.9" :> 2)
TheirKernels    == (g1 :> {"6.9", "6.10"}) @@ (g2 :> {})
TheirInitrdSets == (g1 :> {{deb9, deb10}, {fed10}}) @@ (g2 :> {{deb10}})
TheirNames ==
  (deb9 :> [before |-> "initrd.img-", release |-> "6.9", after |-> ""]) @@
  (deb10 :> [before |-> "initrd.img-", release |-> "6.10", after |-> ""]) @@
  (fed10 :> [before |-> "initramfs-", release |-> "6.10", after |-> ".img"])

(* [[verity_disks]] models with a source.                                  *)
OneDisk(i, s) == [image |-> i, disks |-> {models}, ovmf |-> TRUE,
                  source |-> [d \in Disks |-> s]]

NoDisk(i, ovmf) == [image |-> i, disks |-> {}, ovmf |-> ovmf,
                    source |-> [d \in Disks |-> "none"]]

(* A rename that also drops the disk.                                      *)
RenameConfigs == {OneDisk(imgA, "dir"), NoDisk(imgB, TRUE)}

OneConfig      == {OneDisk(imgA, "dir")}

(* A disk that is built, the same image without measurement and with the   *)
(* disk built elsewhere, and another image with the disk's source gone.    *)
SealConfigs    == {OneDisk(imgA, "dir"), [OneDisk(imgA, "none") EXCEPT !.ovmf = FALSE],
                   OneDisk(imgB, "missing")}
=============================================================================
