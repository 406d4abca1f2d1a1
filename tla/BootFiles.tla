------------------------------ MODULE BootFiles ------------------------------
(***************************************************************************)
(* kernel.rs: which of the files in a rootfs's /boot become the kernel and *)
(* the base initrd.  A file name is what a pattern has before and behind   *)
(* its star, and a release in between.                                     *)
(***************************************************************************)
EXTENDS Naturals

CONSTANTS
  Gens,       (* container builds, by the tree they extract to              *)
  Initrds,    (* base initrds that container builds produce                 *)
  Releases,   (* kernel releases                                            *)
  TextOrder,  (* their order as text: 6.10 comes before 6.9                 *)
  KernelsOf,  (* the releases of a container build's /boot/vmlinuz-*        *)
  InitrdSets, (* the sets of base initrds that its /boot may hold           *)
  NameOf      (* the file name of a base initrd                             *)

FileNames == [before: {"initrd.img-", "initramfs-", "initramfs-linux"},
              release: Releases, after: {"", ".img"}]

ASSUME BootAssumption ==
  /\ TextOrder \in [Releases -> Nat]
  /\ \A r, q \in Releases : TextOrder[r] = TextOrder[q] => r = q
  /\ KernelsOf \in [Gens -> SUBSET Releases]
  /\ InitrdSets \in [Gens -> SUBSET SUBSET Initrds]
  /\ NameOf \in [Initrds -> FileNames]

(* Of some files one is the last.                                          *)
ASSUME LastAssumption ==
  \A some \in (SUBSET Releases) \ {{}} :
    \E r \in some : \A q \in some : TextOrder[q] <= TextOrder[r]

(* find_single_glob's choice among files that differ in their release.     *)
LastByName(some) == CHOOSE r \in some : \A q \in some : TextOrder[q] <= TextOrder[r]

(* extract_kernel, with vmlinuz-*.                                         *)
Bootable         == {g \in Gens : KernelsOf[g] # {}}
KernelRelease(g) == LastByName(KernelsOf[g])

(* glob_match knows a star at either end of a pattern; with one inside, a  *)
(* pattern matches no name but itself.                                     *)
GlobMatch(pattern, name) ==
  \/ pattern.after = ""  /\ name.before = pattern.before
  \/ pattern.before = "" /\ name.after = pattern.after

Patterns == <<[before |-> "initrd.img-",     after |-> ""],
              [before |-> "initramfs-",      after |-> ".img"],
              [before |-> "initramfs-linux", after |-> ".img"]>>

Matches(some, k) == {i \in some : GlobMatch(Patterns[k], NameOf[i])}

(* extract_base_initrd: the first pattern with a match decides.            *)
Candidates(some) ==
  UNION {Matches(some, k) : k \in {n \in 1 .. 3 : \A m \in 1 .. n - 1 : Matches(some, m) = {}}}
ReleaseOf(i) == NameOf[i].release
BaseInitrd(some) ==
  CHOOSE i \in Candidates(some) :
    ReleaseOf(i) = LastByName({ReleaseOf(j) : j \in Candidates(some)})

(* What seal deletes then: every initrd.img*, of whatever release.         *)
Deleted(some) == {i \in some : NameOf[i].before = "initrd.img-"}

(* Extracted over a directory, files replace those of the same name.       *)
Over(old, new) == new \cup {i \in old : \A j \in new : NameOf[j] # NameOf[i]}
=============================================================================
