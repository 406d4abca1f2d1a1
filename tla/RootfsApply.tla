---------------------------- MODULE RootfsApply ----------------------------
(***************************************************************************)
(* RootfsBuilder::apply of cvmbuild-rootfs: what a build does to the       *)
(* extracted root filesystem before it is sealed.  The config decides a    *)
(* sequence of operations (Plan), most of them one write of one file; the  *)
(* account pass in the middle is module Accounts, the last check is module *)
(* Firewall.                                                               *)
(*                                                                         *)
(* A build may stop at any operation, between or inside the writes, and    *)
(* the next build may reuse the tree it leaves (--skip-container), with    *)
(* the same or another config.  Symbolic links matter because the code     *)
(* follows them from the build host: an absolute link, which the image     *)
(* resolves in its own root, leads the code to the host's file, to read    *)
(* and to write.                                                           *)
(***************************************************************************)
EXTENDS Accounts, Firewall, SequencesExt

CONSTANTS
  Torn,         \* the content of a file whose write did not finish
  BaseTree,     \* the extracted tree: a function from paths to nodes
  HostTree,     \* what is at the paths of the build host that links lead to
  HostWritable, \* those of them that a build may create or overwrite
  Inside,       \* the directories in directories: pairs of outer and inner
  GoodKernels,  \* kernel configs that have every required option
  MaxApplies,   \* bound: builds in a behaviour
  MaxFaults     \* bound: crashes in a behaviour

(* A path is a directory and a name in it.  A node is missing, a file with *)
(* its content and set-id bits, a directory, or a link.  A relative link   *)
(* is to a path of the image; one that leads out of it or into a directory *)
(* that is not there is like an absolute one to a path the host lacks.     *)
Missing    == [kind |-> "missing"]
File(data) == [kind |-> "file", data |-> data, suid |-> FALSE]
Link(to)   == [kind |-> "link", to |-> to, abs |-> TRUE]
DevNull    == <<"/dev", "null">>

Node(x) ==
  \/ x = Missing
  \/ x.kind = "file" /\ DOMAIN x = {"kind", "data", "suid"} /\ x.suid \in BOOLEAN
  \/ x.kind = "link" /\ DOMAIN x = {"kind", "to", "abs"} /\ x.abs \in BOOLEAN
  \/ x.kind = "dir"

ASSUME TreeAssumption ==
  \A p \in DOMAIN BaseTree :
    /\ Node(BaseTree[p])
    /\ (BaseTree[p].kind = "link" /\ ~BaseTree[p].abs) => BaseTree[p].to \in DOMAIN BaseTree

(* The host has links of its own, but what matters is where they end; a    *)
(* device such as /dev/null takes what is written and keeps nothing.       *)
HostPaths == DOMAIN HostTree
HostNode(x) ==
  \/ x = Missing
  \/ x.kind = "file" /\ DOMAIN x = {"kind", "data", "suid"}
  \/ x.kind \in {"dir", "device"}

ASSUME HostAssumption ==
  /\ \A h \in HostPaths : HostNode(HostTree[h])
  /\ HostWritable \subseteq HostPaths
  /\ \A h \in HostWritable : HostTree[h].kind # "dir"

ASSUME BoundsAssumption == {MaxApplies, MaxFaults} \subseteq Nat
ASSUME NoneAssumption   == None \notin Configs

(* What a config lists, in order.                                          *)
Lists(s) == s \in Seq(Range(s))

ASSUME ListsAssumption ==
  \A c \in Configs :
    /\ Lists(c.overlay) /\ Lists(c.disks) /\ Lists(c.units) /\ Lists(c.mounts)
    /\ Lists(c.verify) /\ Lists(c.remove) /\ Lists(c.removeDirs)
    /\ \A o \in Range(c.overlay) : o.suid \in BOOLEAN

UnitFile(unit)      == <<"etc/systemd/system", unit>>
Wants(target, unit) == <<target, unit>>
Nftables            == <<"etc", "nftables.conf">>
BootConfig          == <<"boot", "config">>
Service(name)       == name \o ".service"

(* The files that are written after the tree was checked.                  *)
SysctlHardening == <<"etc/sysctl.d", "99-cvm-hardening.conf">>
SysctlLock      == <<"etc/sysctl.d", "99-lock-modules.conf">>
Journald        == <<"etc/systemd/journald.conf.d", "cvm.conf">>
TeeModules      == <<"etc/modules-load.d", "cvmbuild-tee.conf">>
HardeningFiles  == {SysctlHardening, SysctlLock, Journald, TeeModules}

ResolvConf == <<"etc", "resolv.conf">>

(* The directories of enable_unit's targets.                               *)
LocalFs       == "etc/systemd/system/local-fs.target.wants"
MultiUser     == "etc/systemd/system/multi-user.target.wants"
NetworkOnline == "etc/systemd/system/network-online.target.wants"

SearchPaths == <<"bin", "usr/bin", "usr/sbin", "sbin", "usr/local/bin">>
Shells == {"bash", "sh", "dash", "csh", "tcsh", "zsh", "fish", "ksh", "rbash",
           "busybox"}

-----------------------------------------------------------------------------
(* The plan of a config.                                                   *)

WriteOp(path, data) == <<[op |-> "write", path |-> path, data |-> data]>>

(* Mutant of LinkOp: the old link is not removed.                          *)
LinkOnly(path, to) == <<[op |-> "symlink", path |-> path, to |-> to]>>

(* A link is removed, whatever it is, and made again.                      *)
LinkOp(path, to) == <<[op |-> "unlink", path |-> path],
                      [op |-> "symlink", path |-> path, to |-> to]>>

Enable(unit, target)       == LinkOp(Wants(target, unit), UnitFile(unit))
EnableSystem(unit, target) == LinkOp(Wants(target, unit),
                                     <<"usr/lib/systemd/system", unit>>)
Mask(unit)                 == LinkOp(UnitFile(unit), DevNull)

(* A unit the build generates, and enables.                                *)
Install(unit, data, target) ==
  WriteOp(UnitFile(unit), data) \o Enable(unit, target)

ForEach(s, Ops(_)) == FlattenSeq([i \in 1..Len(s) |-> Ops(s[i])])
When(b, ops)       == IF b THEN ops ELSE <<>>
Check(op)          == <<[op |-> op]>>

Overlay(c) ==
  [i \in 1..Len(c.overlay) |->
     [op |-> "copy", path |-> c.overlay[i].path, data |-> c.overlay[i].data,
      suid |-> c.overlay[i].suid]]

MaskedUnits == <<"proc-sys-fs-binfmt_misc.automount",
                 "proc-sys-fs-binfmt_misc.mount", "systemd-binfmt.service",
                 "e2scrub_reap.service", "serial-getty@ttyS0.service">>

ApplyServices(c) ==
  LET VerityUnit(d) == Install(Service("verity-" \o d), d, LocalFs)
      UserUnit(u)   == Install(Service(u.name), u.name, MultiUser)
      MountUnit(m)  == Install(m \o ".mount", m, MultiUser)
  IN
     When(c.lock, Install("lock-modules.service", "lock", MultiUser))
  \o When(c.disks # <<>>,
          WriteOp(<<"usr/local/lib/cvmbuild", "verity-activate.py">>, c.disks))
  \o ForEach(c.disks, VerityUnit)
  \o When(c.verity, LinkOp(<<"etc/systemd/system-generators",
                             "systemd-veritysetup-generator">>, DevNull))
  \o ForEach(c.units, UserUnit)
  \o ForEach(c.mounts, MountUnit)
  \o WriteOp(<<"etc", "fstab">>, "fstab")
  \o WriteOp(Nftables, NftablesConf(c))
  \o WriteOp(<<"etc/systemd/network", "80-dhcp.network">>, "dhcp")
  \o WriteOp(ResolvConf, "public dns")
  \o WriteOp(Journald, "runtime limits")
  \o WriteOp(<<"etc/sysctl.d", "99-cvm.conf">>, "sysctl")
  \o Check("accounts")
  \o ForEach(MaskedUnits, Mask)
  \o EnableSystem("systemd-networkd.service", MultiUser)
  \o EnableSystem("systemd-networkd-wait-online.service",
                  NetworkOnline)
  \o When(NftablesOn(c),
          EnableSystem("nftables.service", MultiUser)
          \o WriteOp(<<"etc/systemd/system/nftables.service.d",
                     "after-modules.conf">>, "after")
          \o WriteOp(<<"etc/modules-load.d", "nftables.conf">>, "modules"))
  \o When(c.disks # <<>>,
          WriteOp(<<"etc/udev/rules.d", "99-z-cvmbuild-verity.rules">>,
                  c.disks))

VerifyBinaryHashes(c) ==
  [i \in 1..Len(c.verify) |->
     [op |-> "verify", path |-> c.verify[i].path, data |-> c.verify[i].data]]

(* A listed binary is removed from every search path.                      *)
RemoveBinaries(c) ==
  LET In(binary) == [i \in 1..Len(SearchPaths) |->
                       [op |-> "remove", path |-> <<SearchPaths[i], binary>>]]
  IN  ForEach(c.remove, In)

RemoveDirectories(c) ==
  [i \in 1..Len(c.removeDirs) |->
     [op |-> "remove-dir", path |-> <<c.removeDirs[i], ".">>]]

ApplyHardening(c) ==
     WriteOp(SysctlHardening, "hardening")
  \o When(c.lock, WriteOp(SysctlLock, "lock"))
  \o WriteOp(Journald, "volatile")
  \o Check("validate-nftables")

(* Mutants of Plan: the hashes are checked before the overlay is copied,   *)
(* and the overlay is copied when the tree is clean.                       *)
VerifiedFirst(c) ==
     VerifyBinaryHashes(c) \o Overlay(c) \o ApplyServices(c) \o Check("audit")
  \o RemoveBinaries(c) \o RemoveDirectories(c) \o Check("zero-shell")
  \o Check("strip-suid") \o Check("shells")
  \o WriteOp(TeeModules, "tee")
  \o ApplyHardening(c)

OverlayLast(c) ==
     ApplyServices(c) \o VerifyBinaryHashes(c) \o Check("audit")
  \o RemoveBinaries(c) \o RemoveDirectories(c) \o Check("zero-shell")
  \o Check("strip-suid") \o Check("shells") \o Overlay(c)
  \o WriteOp(TeeModules, "tee")
  \o ApplyHardening(c)

(* RootfsBuilder::apply.                                                   *)
Plan(c) ==
     Overlay(c) \o ApplyServices(c) \o VerifyBinaryHashes(c) \o Check("audit")
  \o RemoveBinaries(c) \o RemoveDirectories(c) \o Check("zero-shell")
  \o Check("strip-suid") \o Check("shells")
  \o WriteOp(TeeModules, "tee")
  \o ApplyHardening(c)

Plans == [c \in Configs |-> Plan(c)]

(* The paths that operations of some kinds name.                           *)
PathsOf(kinds) ==
  {o.path : o \in {o \in UNION {Range(Plans[c]) : c \in Configs} : o.op \in kinds}}

Paths ==
  DOMAIN BaseTree \cup {BootConfig} \cup
    PathsOf({"copy", "write", "unlink", "symlink", "verify", "remove", "remove-dir"})
ExtractedTree ==
  [p \in Paths |-> IF p \in DOMAIN BaseTree THEN BaseTree[p] ELSE Missing]

BaseIs(p, kind) == p \in DOMAIN BaseTree /\ BaseTree[p].kind = kind
BaseLink(p, abs) == BaseIs(p, "link") /\ BaseTree[p].abs = abs

(* Where a write to p ends in the image as it was extracted.               *)
BaseEnd(p) == IF BaseLink(p, FALSE) THEN BaseTree[p].to ELSE p

(* A relative link of the image leads to no other link, is not where the   *)
(* build makes one and does not lead there, nor to where a write at another *)
(* path ends.  What the last stage writes, in the image or through absolute *)
(* links on the host, is none of the binaries.                             *)
ASSUME LinksAssumption ==
  /\ \A p \in DOMAIN BaseTree : BaseLink(p, FALSE) =>
       /\ ~BaseIs(BaseEnd(p), "link")
       /\ {p, BaseEnd(p)} \cap PathsOf({"symlink"}) = {}
       /\ \A q \in PathsOf({"write"}) : p # q => BaseEnd(p) # BaseEnd(q)
  /\ \A p \in Paths, q \in HardeningFiles : p[1] \in Range(SearchPaths) =>
       /\ BaseEnd(p) # BaseEnd(q)
       /\ BaseLink(p, TRUE) /\ BaseLink(q, TRUE) => BaseTree[p].to # BaseTree[q].to

-----------------------------------------------------------------------------

VARIABLES
  tree,     \* the root filesystem, but for the account files
  host,     \* the paths of the build host that links lead to
  status,   \* "idle", "running", "applied" or "failed"
  at,       \* the next operation of the plan
  applied,  \* the config whose apply was the last one to succeed, if no
            \* other config has been started since
  applies, faults  \* counted for the bounds

vars == <<accountVars, tree, host, status, at, applied, applies, faults>>

Init ==
  /\ AccountsInit
  /\ tree = ExtractedTree /\ host = HostTree
  /\ status = "idle" /\ at = 1
  /\ applied = None
  /\ applies = 0 /\ faults = 0

(* The file of the tree that a write or a read of p ends at, unless that   *)
(* is one of the host.                                                     *)
Target(p) == IF tree[p].kind = "link" THEN tree[p].to ELSE p
OnHost(p) == tree[p].kind = "link" /\ tree[p].abs

(* What the code finds at p.                                               *)
End(p) == IF ~OnHost(p) THEN tree[Target(p)]
          ELSE IF tree[p].to \in HostPaths THEN host[tree[p].to] ELSE Missing

(* Path::exists.                                                           *)
Exists(p) == End(p) # Missing

(* fs::write gives an existing file a new content, and leaves its mode.    *)
Written(p, data) ==
  IF OnHost(p) THEN tree
  ELSE [tree EXCEPT ![Target(p)] =
          IF @.kind = "file" THEN [@ EXCEPT !.data = data] ELSE File(data)]

HostWritten(p, data) ==
  IF ~OnHost(p) THEN host
  ELSE [host EXCEPT ![tree[p].to] = IF @.kind = "device" THEN @ ELSE File(data)]

(* Opening p for writing succeeds: it is no directory, and no file or      *)
(* place of the host that the build has no right to.                       *)
Takes(p) == IF OnHost(p) THEN tree[p].to \in HostWritable
            ELSE tree[Target(p)].kind # "dir"

Op == Plans[cfg][at]
At(op) == status = "running" /\ at <= Len(Plans[cfg]) /\ Op.op = op
Advance == at' = at + 1 /\ UNCHANGED <<status, applied, applies, faults>>

(* A build that has got as far as applying its config.                     *)
StartApply(c, fresh) ==
  /\ status # "running"
  /\ applies < MaxApplies
  /\ Accepted(c)
  /\ fresh \/ applies > 0
  /\ Begin(c, fresh)
  /\ tree' = IF fresh THEN ExtractedTree ELSE tree
  /\ status' = "running" /\ at' = 1
  /\ applied' = IF applied = c THEN c ELSE None
  /\ applies' = applies + 1
  /\ UNCHANGED <<host, faults>>

(* Mutant of WriteFile: a file that is there is left as it is.             *)
WriteMissing ==
  /\ At("write") /\ Takes(Op.path)
  /\ tree' = IF tree[Op.path] # Missing THEN tree ELSE Written(Op.path, Op.data)
  /\ Advance /\ UNCHANGED <<accountVars, host>>

(* write_rootfs_file, through a link if there is one.                      *)
WriteFile ==
  /\ At("write") /\ Takes(Op.path)
  /\ tree' = Written(Op.path, Op.data)
  /\ host' = HostWritten(Op.path, Op.data)
  /\ Advance /\ UNCHANGED accountVars

(* fs::copy also copies the permission bits of the source.                 *)
CopyOverlay ==
  /\ At("copy") /\ Takes(Op.path)
  /\ tree' = IF OnHost(Op.path) THEN tree
             ELSE [tree EXCEPT ![Target(Op.path)] =
                     [File(Op.data) EXCEPT !.suid = Op.suid]]
  /\ host' = HostWritten(Op.path, Op.data)
  /\ Advance /\ UNCHANGED accountVars

Unlink ==
  /\ At("unlink")
  /\ tree' = [tree EXCEPT ![Op.path] =
                IF @.kind = "dir" THEN @ ELSE Missing]
  /\ Advance /\ UNCHANGED <<accountVars, host>>

Symlink ==
  /\ At("symlink") /\ tree[Op.path] = Missing
  /\ tree' = [tree EXCEPT ![Op.path] = Link(Op.to)]
  /\ Advance /\ UNCHANGED <<accountVars, host>>

(* One step of the account pass.                                           *)
Account ==
  /\ At("accounts")
  /\ AccountStep
  /\ IF step' = "done" THEN Advance
     ELSE UNCHANGED <<status, at, applied, applies, faults>>
  /\ UNCHANGED <<tree, host>>

(* The checks that change nothing.  What they read is at the end of a link *)
(* if there is one.                                                        *)
Reads(p, data) == End(p).kind = "file" /\ End(p).data = data
HashMatches == Reads(Op.path, Op.data)
KernelAudited == \/ tree[BootConfig] = Missing
                 \/ \E config \in GoodKernels : Reads(BootConfig, config)
NoShellSurvives ==
  \A b \in Shells \cap Range(cfg.remove), d \in Range(SearchPaths) : ~Exists(<<d, b>>)
RulesValid == \/ ~Exists(Nftables)
              \/ /\ End(Nftables).kind = "file" /\ End(Nftables).data # Torn
                 /\ ValidateNftables(End(Nftables).data, cfg)

Pass ==
  /\ \/ At("verify") /\ HashMatches
     \/ At("audit") /\ KernelAudited
     \/ At("zero-shell") /\ NoShellSurvives
     \/ At("validate-nftables") /\ RulesValid
  /\ Advance /\ UNCHANGED <<accountVars, tree, host>>

RemoveBinary ==
  /\ At("remove")
  /\ IF Exists(Op.path)
     THEN /\ tree[Op.path].kind # "dir"
          /\ tree' = [tree EXCEPT ![Op.path] = Missing]
     ELSE UNCHANGED tree
  /\ Advance /\ UNCHANGED <<accountVars, host>>

(* p is in the directory, or in one inside it.                             *)
Below(dir, p) == p[1] = dir \/ <<dir, p[1]>> \in Inside

(* remove_dir_all, which follows no link.                                  *)
RemoveDir ==
  /\ At("remove-dir")
  /\ tree' = [p \in Paths |-> IF Below(Op.path[1], p) THEN Missing ELSE tree[p]]
  /\ Advance /\ UNCHANGED <<accountVars, host>>

StripSuid ==
  /\ At("strip-suid")
  /\ tree' = [p \in Paths |->
                IF tree[p].kind = "file" THEN [tree[p] EXCEPT !.suid = FALSE] ELSE tree[p]]
  /\ Advance /\ UNCHANGED <<accountVars, host>>

NoLogin ==
  /\ At("shells")
  /\ RewriteShells
  /\ Advance /\ UNCHANGED <<tree, host>>

(* The operation the code gives up at.                                     *)
Refused ==
  \/ (At("write") \/ At("copy")) /\ ~Takes(Op.path)
  \/ At("verify") /\ ~HashMatches
  \/ At("audit") /\ ~KernelAudited
  \/ At("zero-shell") /\ ~NoShellSurvives
  \/ At("validate-nftables") /\ ~RulesValid
  \/ At("symlink") /\ tree[Op.path] # Missing
  \/ At("remove") /\ Exists(Op.path) /\ tree[Op.path].kind = "dir"

Fail ==
  /\ Refused
  /\ status' = "failed"
  /\ Stop
  /\ UNCHANGED <<tree, host, at, applied, applies, faults>>

Finish ==
  /\ status = "running" /\ at > Len(Plans[cfg])
  /\ status' = "applied"
  /\ applied' = cfg
  /\ UNCHANGED <<accountVars, tree, host, at, applies, faults>>

(* The process is killed or the host goes down: between two operations, or *)
(* inside a write, which leaves the file truncated.                        *)
Crash ==
  /\ status = "running" /\ faults < MaxFaults
  /\ \/ Stop /\ UNCHANGED <<tree, host>>
     \/ Tear /\ UNCHANGED <<tree, host>>
     \/ /\ At("write") \/ At("copy")
        /\ Takes(Op.path)
        /\ tree' = Written(Op.path, Torn)
        /\ host' = HostWritten(Op.path, Torn)
        /\ Stop
  /\ status' = "idle" /\ at' = 1
  /\ faults' = faults + 1
  /\ UNCHANGED <<applied, applies>>

Next ==
  \/ \E c \in Configs, fresh \in BOOLEAN : StartApply(c, fresh)
  \/ CopyOverlay \/ WriteFile \/ Unlink \/ Symlink \/ Account
  \/ Pass \/ RemoveBinary \/ RemoveDir \/ StripSuid \/ NoLogin
  \/ Fail \/ Finish \/ Crash

Spec == Init /\ [][Next]_vars

-----------------------------------------------------------------------------

TypeOK ==
  /\ AccountsTypeOK
  /\ DOMAIN tree = Paths /\ \A p \in Paths : Node(tree[p])
  /\ DOMAIN host = HostPaths /\ \A h \in HostPaths : HostNode(host[h])
  /\ status \in {"idle", "running", "applied", "failed"}
  /\ at \in 1..(Len(Plans[cfg]) + 1)
  /\ applied \in Configs \cup {None}
  /\ applies \in 0..MaxApplies /\ faults \in 0..MaxFaults

(* What a config has removed.                                              *)
GoneDir(c, p) == \E dir \in Range(c.removeDirs) : Below(dir, p)
Removed(p) ==
  \/ GoneDir(cfg, p)
  \/ p[1] \in Range(SearchPaths) /\ p[2] \in Range(cfg.remove)

(* The last thing the plan of c puts at a path.                            *)
Puts(c, p) == {i \in 1..Len(Plans[c]) :
                 /\ Plans[c][i].op \in {"write", "symlink"}
                 /\ Plans[c][i].path = p}
LastPut(c, p) == LET i == CHOOSE i \in Puts(c, p) :
                            \A j \in Puts(c, p) : j <= i
                 IN  Plans[c][i]

(* The config brings a resolver file of its own, as the comment at         *)
(* services.rs:110-116 advises.                                            *)
OwnResolver(c) == \E o \in Range(c.overlay) : o.path = ResolvConf

(* An apply that succeeds leaves every file and link it generates with the *)
(* content this config gives it, whatever earlier applies left, truncated, *)
(* masked or half made, in a tree that is reused.  Two kinds of path are   *)
(* left out: where the image has an absolute link, which the write followed *)
(* to the host, and a resolver that the config overlays, which the code    *)
(* replaces although it says that it does not.                             *)
GeneratedInPlace ==
  status = "applied" =>
    \A p \in Paths :
      (/\ Puts(cfg, p) # {} /\ ~Removed(p) /\ ~Removed(Target(p))
       /\ ~(p = ResolvConf /\ OwnResolver(cfg))) =>
        LET o == LastPut(cfg, p) IN
        IF o.op = "symlink" THEN tree[p].kind = "link" /\ tree[p].to = o.to
        ELSE IF OnHost(p) THEN BaseLink(p, TRUE)
        ELSE tree[Target(p)].kind = "file" /\ tree[Target(p)].data = o.data

(* What an operation may change.                                           *)
Touches(o, p) ==
  \/ o.op \in {"copy", "write", "unlink", "symlink", "remove"} /\ o.path = p
  \/ o.op = "remove-dir" /\ Below(o.path[1], p)
  \/ o.op \in {"copy", "write"} /\ BaseEnd(o.path) = p

(* No operation of c touches what a check of p looks at, and none of any   *)
(* config makes a link there.                                              *)
Leaves(c, p) ==
  /\ \A o \in Range(Plans[c]), q \in {p, BaseEnd(p)} : ~Touches(o, q)
  /\ p \notin PathsOf({"symlink"})

Copies(c, p) == {o \in Range(Plans[c]) : o.op = "copy" /\ o.path = p}
Brings(c, p) ==
  /\ Copies(c, p) # {}
  /\ \A o, q \in Copies(c, p) : o.data = q.data
  /\ \A o \in Range(Plans[c]) :
       Touches(o, p) => o \in Copies(c, p) \/ o.op \in {"remove", "remove-dir"}
  /\ ~BaseIs(p, "link") /\ p \notin PathsOf({"symlink"})

StaysDirectory(p) ==
  /\ BaseIs(p, "dir")
  /\ \A o \in UNION {Range(Plans[c]) : c \in Configs} :
       Touches(o, p) => o.op \in {"unlink", "symlink", "remove"}

CanWrite(p) ==
  /\ ~BaseIs(BaseEnd(p), "dir")
  /\ BaseLink(p, TRUE) => BaseTree[p].to \in HostWritable
  /\ \A o \in UNION {Range(Plans[c]) : c \in Configs} :
       o.op = "symlink" /\ o.path = p => o.to \in HostWritable

(* When it can be expected of a config that it can be applied again: what  *)
(* its checks look at is what it copies there itself, or the image's,      *)
(* which it leaves alone, where it writes there is nothing in the way, and *)
(* a directory in the way of a link or of a removal stays in the way.      *)
Repeatable(c) ==
  /\ \A o \in Range(Plans[c]) :
       /\ o.op = "verify" =>
            \/ Brings(c, o.path)
            \/ /\ Leaves(c, o.path)
               /\ BaseIs(BaseEnd(o.path), "file") /\ BaseTree[BaseEnd(o.path)].data = o.data
       /\ o.op \in {"write", "copy"} => CanWrite(o.path)
       /\ o.op \in {"symlink", "remove"} /\ BaseIs(o.path, "dir") => StaysDirectory(o.path)
  /\ \/ Brings(c, BootConfig)
     \/ /\ Leaves(c, BootConfig)
        /\ \/ BootConfig \notin DOMAIN BaseTree
           \/ BaseIs(BootConfig, "file") /\ BaseTree[BootConfig].data \in GoodKernels
  /\ ~GoneDir(c, Nftables) /\ ~BaseIs(Nftables, "link")

(* An apply that has succeeded succeeds again on the tree it left, however *)
(* often applies of the same config crash in between: the links it made,   *)
(* the accounts it added and the binaries it removed are no obstacle.      *)
ReuseSucceeds == status = "failed" /\ Repeatable(cfg) => applied # cfg

(* The files that are written after the check, through a link or not.      *)
LateFiles == HardeningFiles \cup {BaseEnd(p) : p \in HardeningFiles}

(* A binary whose hash the config pins is sealed with that content: nothing *)
(* replaces it between the check and the end of the apply, unless the      *)
(* config has it removed.  Where the path is an absolute link it is not a  *)
(* file of the image that was checked, and nothing is said.                *)
VerifiedIsSealed ==
  status = "applied" =>
    \A i \in 1..Len(cfg.verify) :
      LET p == cfg.verify[i].path IN
      (~OnHost(p) /\ Target(p) \notin LateFiles /\ ~Removed(p) /\ ~Removed(Target(p))) =>
        tree[Target(p)].kind = "file" /\ tree[Target(p)].data = cfg.verify[i].data

(* When apply succeeds no file has a set-id bit, no user a login shell, no *)
(* listed binary is left that the code can see from the host, and nothing  *)
(* is left in a listed directory but what the last stage writes, although  *)
(* the overlay or an earlier apply may have brought them.                  *)
TreeIsHardened ==
  status = "applied" =>
    /\ \A p \in Paths :
         tree[p].kind = "file" => ~tree[p].suid
    /\ \A e \in passwd : ~e.login
    /\ \A b \in Range(cfg.remove), d \in Range(SearchPaths) : ~Exists(<<d, b>>)
    /\ \A p \in Paths : GoneDir(cfg, p) => tree[p] = Missing \/ p \in LateFiles

(* The backstop at the end of apply refuses no firewall the author opted   *)
(* in to.  The comment at lib.rs:493-502 says that images which need an    *)
(* opening "opt out via the matching catalog check name in                 *)
(* [assert].exclude"; the name for port 80 is not one of the catalog.      *)
OptOutBuilds ==
  (status = "failed" /\ Op.op = "validate-nftables") => ~OptedOut(cfg)

=============================================================================
