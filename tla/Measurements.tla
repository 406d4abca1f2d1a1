---------------------------- MODULE Measurements ----------------------------
(***************************************************************************)
(* The callers of the measurement code: build_manifest, which puts a text  *)
(* where a value cannot be computed and goes on, the cvmbuild-measure      *)
(* tool, which stops, and users of the library.  The files they read, some *)
(* of them twice, may be replaced while they run.                          *)
(***************************************************************************)
EXTENDS SnpLaunch, TdxRegisters

CONSTANTS
  Kernel,      (* kernel files, by name                                      *)
  DsdtValid,   (* the CvmDsdt.aml files that validate_cvm_dsdt accepts       *)
  Disks,       (* contents of the files when a command starts that reads any *)
  NewContents, (* what a file may be replaced with                          *)
  Cpus,        (* CPU models with their signatures                          *)
  CpuLists,    (* which of them "manifest" and "snp tool" measure, in order *)
  Configs,     (* a [manifest] and kernel command line; None for "library"   *)
  Sessions,    (* bound: the commands run one after another: "manifest",     *)
               (* "snp tool", "tdx tool" and "library", each with its config *)
  MaxChanges   (* bound: files replaced                                      *)

FileNames == {"kernel", "initrd", "snp ovmf", "tdx ovmf", "dsdt"}
Registers == {"MRTD", "RTMR0", "RTMR1", "RTMR2", "RTMR3"}
CpuNames  == {Cpus[k].name : k \in DOMAIN Cpus}
Texts     == {"REQUIRES_OVMF_PATH", "NOT_TDVF_FIRMWARE", "REQUIRES_CvmDsdt.aml",
              "REQUIRES_KERNEL", "REQUIRES_INITRD", "ERROR"}

FileContents == UNION ({{d[f] : f \in FileNames} : d \in Disks} \cup {NewContents[f] : f \in FileNames})

ASSUME FilesAssumption ==
  /\ Disks \subseteq [FileNames -> FileContents] /\ None \notin FileContents
  /\ \A d \in Disks : {d["snp ovmf"], d["tdx ovmf"]} \subseteq DOMAIN Firmware \cup {Absent}
  /\ \A d \in Disks : d["kernel"] \in DOMAIN Kernel \cup {Absent}
  /\ NewContents["kernel"] \subseteq DOMAIN Kernel \cup {Absent}
  /\ NewContents["snp ovmf"] \cup NewContents["tdx ovmf"] \subseteq DOMAIN Firmware \cup {Absent}

(* What parse_tdvf_sections makes of a firmware's TDVF metadata, if any.   *)
ASSUME TdvfAssumption ==
  \A f \in DOMAIN Firmware :
    LET t == Firmware[f].tdvf IN
    t = Absent \/ (t \in Seq(ToSet(t)) /\ \A s \in ToSet(t) : {s.at, s.pages} \subseteq Nat)

ASSUME CpusAssumption ==
  /\ Cpus \in Seq(ToSet(Cpus)) /\ CpuLists \in [{"manifest", "snp tool"} -> Seq(DOMAIN Cpus)]
  /\ CpuNames \cap (Registers \cup {"LAUNCH_DIGEST"}) = {}

CommandNames == {"manifest", "snp tool", "tdx tool", "library"}

ASSUME SessionsAssumption ==
  /\ None \notin CommandNames /\ MaxChanges \in Nat
  /\ \A s \in Sessions :
       /\ s \in Seq(CommandNames \X Configs)
       /\ \A c \in ToSet(s) : c[1] = "manifest" => c[2].cmdline # None

VARIABLES
  disk,       \* the files, Absent when they cannot be read
  cmd,        \* the running command, None between commands
  config,     \* its configuration
  plan,       \* what it still has to do
  mem,        \* the files it has read
  out,        \* the map of names and values that it computes
  registers,  \* the TDX values computed, with what they were computed from
  todo,       \* the commands still to be run
  changes

callerVars == <<disk, cmd, config, plan, mem, out, registers, todo, changes>>
vars == <<launchVars, callerVars>>

(* A value of the map is a digest or a text.                               *)
Text(t)   == [text |-> t]
Digest(d) == [digest |-> d]
IsText(v) == "text" \in DOMAIN v

TypeOK ==
  /\ stage \in Stages /\ at \in Nat
  /\ \A i \in DOMAIN ld : ld[i].gpa \in Int
  /\ DOMAIN disk = FileNames /\ DOMAIN mem = FileNames
  /\ cmd = None \/ \E s \in Sessions : <<cmd, config>> \in ToSet(s)
  /\ DOMAIN out \subseteq CpuNames \cup Registers \cup {"LAUNCH_DIGEST"}
  /\ \A n \in DOMAIN out : IsText(out[n]) => out[n].text \in Texts
  /\ changes \in 0 .. MaxChanges
  /\ stage # "idle" => cmd # None

Init ==
  /\ LaunchInit
  /\ disk = [f \in FileNames |-> Absent]
  /\ cmd = None /\ config = None /\ plan = <<>>
  /\ mem = [f \in FileNames |-> Absent] /\ out = <<>>
  /\ registers = {} /\ todo \in Sessions /\ changes = 0
-----------------------------------------------------------------------------
(***************************************************************************)
(* What a command does, in order.  compute_snp_measurements and            *)
(* compute_tdx_measurements each read the kernel and the initrd.           *)
(***************************************************************************)
Read(f)    == <<"read", f>>
Measure(m) == <<"measure", m>>

SnpPlan(list) == <<Read("kernel"), Read("initrd")>> \o [i \in DOMAIN list |-> <<"cpu", list[i]>>]

PlanOf(command, c) ==
  CASE command = "manifest" ->
         (IF c.snpOvmf THEN SnpPlan(CpuLists[command]) ELSE <<<<"no ovmf", "LAUNCH_DIGEST">>>>)
           \o (IF c.tdxOvmf
                 THEN <<Read("tdx ovmf"), Measure("MRTD"), Read("dsdt"), Measure("RTMR0"),
                        Read("kernel"), Measure("RTMR1"), Read("initrd"), Measure("RTMR2"),
                        Measure("RTMR3")>>
                 ELSE <<<<"no ovmf", "MRTD">>>>)
    [] command = "snp tool" -> SnpPlan(CpuLists[command])
    [] command = "tdx tool" ->
         <<Read("tdx ovmf"), Read("kernel"), Read("initrd"), Read("dsdt"), Measure("MRTD"),
           Measure("RTMR0"), Measure("RTMR1"), Measure("RTMR2"), Measure("RTMR3")>>
    [] command = "library" -> <<<<"launch", 0>>>>

Start ==
  /\ cmd = None /\ todo # <<>>
  /\ cmd' = Head(todo)[1] /\ config' = Head(todo)[2] /\ todo' = Tail(todo)
  /\ plan' = PlanOf(Head(todo)[1], Head(todo)[2])
  /\ IF Head(todo)[1] = "library" THEN UNCHANGED disk ELSE disk' \in Disks
  /\ UNCHANGED <<launchVars, mem, out, registers, changes>>

(* The tool stops at the first error, without output.                      *)
Strict == cmd # "manifest"

Now(step) == plan # <<>> /\ Head(plan) = step /\ stage = "idle"

Stop ==
  /\ Strict
  /\ plan' = <<>> /\ out' = <<>>
  /\ UNCHANGED <<disk, cmd, config, mem, registers, todo, changes>>

(* The rest of the plan is done with one value more in the map.            *)
Put(name, v, rest) ==
  /\ out' = [n \in DOMAIN out \cup {name} |-> IF n = name THEN v ELSE out[n]]
  /\ plan' = rest
  /\ UNCHANGED <<disk, cmd, config, mem, todo, changes>>

NoOvmf(name) ==
  /\ Now(<<"no ovmf", name>>)
  /\ Put(name, Text("REQUIRES_OVMF_PATH"), Tail(plan))
  /\ UNCHANGED <<launchVars, registers>>

ReadFile(f) ==
  /\ Now(Read(f))
  /\ \/ /\ Strict => disk[f] # Absent
        /\ mem' = [mem EXCEPT ![f] = disk[f]]
        /\ plan' = Tail(plan)
        /\ UNCHANGED <<disk, cmd, config, out, registers, todo, changes>>
     \/ disk[f] = Absent /\ Stop
  /\ UNCHANGED launchVars

Finish ==
  /\ cmd # None /\ plan = <<>>
  /\ cmd' = None /\ config' = None
  /\ mem' = [f \in FileNames |-> Absent] /\ out' = <<>>
  /\ UNCHANGED <<launchVars, disk, plan, registers, todo, changes>>
-----------------------------------------------------------------------------
(***************************************************************************)
(* A launch per CPU model; Ovmf::load reads the firmware each time.        *)
(***************************************************************************)
OrNone(content) == IF content = Absent THEN None ELSE content

(* Mutant of CpuRequest: a kernel that cannot be read is an empty one.     *)
RequestOrEmpty(k) ==
  [mode |-> "snp", vmm |-> "QEMU", vcpus |-> 1, sig |-> Cpus[k].sig, ovmf |-> disk["snp ovmf"],
   kernel |-> IF mem["kernel"] = Absent THEN Empty ELSE mem["kernel"],
   initrd |-> OrNone(mem["initrd"]), append |-> config.cmdline,
   features |-> config.features, seed |-> None, svsm |-> None, varsPages |-> 0]

(* Mutant of CpuRequest: the kernel is read for each CPU.                  *)
RequestRereads(k) ==
  [mode |-> "snp", vmm |-> "QEMU", vcpus |-> 1, sig |-> Cpus[k].sig, ovmf |-> disk["snp ovmf"],
   kernel |-> OrNone(disk["kernel"]), initrd |-> OrNone(mem["initrd"]),
   append |-> IF disk["kernel"] = Absent THEN None ELSE config.cmdline,
   features |-> config.features, seed |-> None, svsm |-> None, varsPages |-> 0]

CpuRequest(k) ==
  [mode |-> "snp", vmm |-> "QEMU", vcpus |-> 1, sig |-> Cpus[k].sig, ovmf |-> disk["snp ovmf"],
   kernel |-> OrNone(mem["kernel"]), initrd |-> OrNone(mem["initrd"]),
   append |-> IF mem["kernel"] = Absent THEN None ELSE config.cmdline,
   features |-> config.features, seed |-> None, svsm |-> None, varsPages |-> 0]

StartCpu(k) ==
  /\ Now(<<"cpu", k>>) /\ disk["snp ovmf"] # Absent
  /\ Begin(CpuRequest(k))
  /\ UNCHANGED callerVars

NoFirmware(k) ==
  /\ Now(<<"cpu", k>>) /\ disk["snp ovmf"] = Absent
  /\ Stop \/ (~Strict /\ Put(Cpus[k].name, Text("ERROR"), Tail(plan)) /\ UNCHANGED registers)
  /\ UNCHANGED launchVars

StartLibrary ==
  /\ Now(<<"launch", 0>>)
  /\ \E r \in Requests : Begin(r)
  /\ UNCHANGED callerVars

LaunchStep == Launching /\ UNCHANGED callerVars

(* calc_launch_digest returns to its caller.                               *)
CpuDone(k) ==
  /\ plan # <<>> /\ Head(plan) = <<"cpu", k>>
  /\ Return
  /\ UNCHANGED registers
  /\ IF stage = "measured" THEN Put(Cpus[k].name, Digest(ld), Tail(plan))
     ELSE Stop \/ (~Strict /\ Put(Cpus[k].name, Text("ERROR"), Tail(plan)))

LibraryDone ==
  /\ plan # <<>> /\ Head(plan) = <<"launch", 0>>
  /\ Return
  /\ plan' = <<>>
  /\ UNCHANGED <<disk, cmd, config, mem, out, registers, todo, changes>>
-----------------------------------------------------------------------------
(***************************************************************************)
(* The TDX registers.  Without firmware, or one without TDVF metadata, no  *)
(* register follows MRTD.                                                  *)
(***************************************************************************)
Needs(m) ==
  CASE m = "MRTD"  -> {"tdx ovmf"}
    [] m = "RTMR0" -> {"tdx ovmf", "dsdt"}
    [] m = "RTMR1" -> {"kernel"}
    [] m = "RTMR2" -> {"initrd"}
    [] m = "RTMR3" -> {}

Compute(m) ==
  CASE m = "MRTD"  -> Mrtd(Firmware[mem["tdx ovmf"]])
    [] m = "RTMR0" -> Rtmr0(Firmware[mem["tdx ovmf"]], mem["dsdt"], mem["dsdt"] \in DsdtValid)
    [] m = "RTMR1" -> Rtmr1(Kernel[mem["kernel"]])
    [] m = "RTMR2" -> Rtmr2(config.cmdline, mem["initrd"])
    [] m = "RTMR3" -> Rtmr3

(* Mutant of Unread: every register asks for the firmware.                 *)
UnreadFirmware(m) == "REQUIRES_OVMF"

Unread(m) ==
  CASE m = "MRTD"  -> "ERROR"
    [] m = "RTMR0" -> "REQUIRES_CvmDsdt.aml"
    [] m = "RTMR1" -> "REQUIRES_KERNEL"
    [] m = "RTMR2" -> "REQUIRES_INITRD"

MeasureTdx(m) ==
  LET missing == \E f \in Needs(m) : mem[f] = Absent
      v       == IF missing THEN Error ELSE Compute(m)
      text    == IF missing THEN Unread(m) ELSE IF m = "MRTD" THEN "NOT_TDVF_FIRMWARE" ELSE "ERROR"
  IN
  /\ Now(Measure(m))
  /\ UNCHANGED launchVars
  /\ \/ /\ v # Error
        /\ Put(m, Digest(v), Tail(plan))
        /\ registers' = registers \cup {[name |-> m, digest |-> v, cmdline |-> config.cmdline,
                                         read |-> [f \in Needs(m) |-> mem[f]]]}
     \/ /\ v = Error
        /\ Stop \/ (~Strict /\ Put(m, Text(text), IF m = "MRTD" THEN <<>> ELSE Tail(plan))
                            /\ UNCHANGED registers)
-----------------------------------------------------------------------------
(* Another process replaces or removes a file under a command; between two *)
(* commands Start takes any contents.                                      *)
Replace(f) ==
  /\ changes < MaxChanges /\ cmd \notin {None, "library"}
  /\ changes' = changes + 1
  /\ \E new \in NewContents[f] \ {disk[f]} : disk' = [disk EXCEPT ![f] = new]
  /\ UNCHANGED <<launchVars, cmd, config, plan, mem, out, registers, todo>>

Proceed ==
  \/ NoOvmf("LAUNCH_DIGEST") \/ NoOvmf("MRTD")
  \/ \E f \in FileNames : ReadFile(f)
  \/ \E k \in DOMAIN Cpus : StartCpu(k) \/ NoFirmware(k) \/ CpuDone(k)
  \/ StartLibrary \/ LibraryDone
  \/ LaunchStep
  \/ \E m \in Registers : MeasureTdx(m)
  \/ Finish

(* No command is left; anywhere else there is always a next step.          *)
AllDone == cmd = None /\ todo = <<>> /\ UNCHANGED vars

Next ==
  \/ Start
  \/ Proceed
  \/ \E f \in FileNames : Replace(f)
  \/ AllDone

Spec == Init /\ [][Next]_vars
-----------------------------------------------------------------------------
(***************************************************************************)
(* Properties.                                                             *)
(***************************************************************************)
(* The hashes of kernel, initrd and command line that a digest binds: those*)
(* of the page that has them.                                              *)
HashesIn(d) == {p.contents.hashes : p \in {q \in ToSet(d) :
                  q.type = "normal" /\ "hashes" \in DOMAIN q.contents}}

SnpDigests == {out[n].digest : n \in {m \in DOMAIN out : m \in CpuNames /\ ~IsText(out[m])}}

(* The digests that a manifest or the tool lists, one per CPU model, are   *)
(* all for the same kernel, initrd and command line, although the files    *)
(* may change while they are computed: they are read once, before the loop.*)
OneKernelPerMap == \A d, e \in SnpDigests : HashesIn(d) = HashesIn(e)

(* What a launch digest of the files on the disk has to bind; without a    *)
(* kernel the page of the hashes stays empty.                              *)
HashesOfDisk ==
  IF disk["kernel"] = Absent THEN {}
  ELSE {[kernel  |-> disk["kernel"],
         initrd  |-> IF disk["initrd"] = Absent THEN Empty ELSE disk["initrd"],
         cmdline |-> config.cmdline]}

(* A manifest, if nobody touched the files, has digests of the kernel and  *)
(* the initrd that are there.  compute_snp_measurements goes on without one*)
(* that it cannot read and says nothing; then compute_tdx_measurements     *)
(* does, and only then, if it gets beyond MRTD: without TDX firmware       *)
(* nothing says which digests bind no kernel.                              *)
ManifestBindsOrSays ==
  cmd = "manifest" /\ plan = <<>> /\ changes = 0 =>
    /\ \A d \in SnpDigests : HashesIn(d) = HashesOfDisk
    /\ "MRTD" \in DOMAIN out
    /\ ~IsText(out["MRTD"]) =>
         /\ {"RTMR1", "RTMR2"} \subseteq DOMAIN out
         /\ out["RTMR1"] = Text("REQUIRES_KERNEL") <=> disk["kernel"] = Absent
         /\ out["RTMR2"] = Text("REQUIRES_INITRD") <=> disk["initrd"] = Absent

(* MRTD: each page of the firmware's sections is added, and each measured  *)
(* chunk of them extended with the bytes that are loaded there, after its  *)
(* page was added, and nothing twice.                                      *)
MrtdIsLoadedImage ==
  \A r \in registers : r.name = "MRTD" =>
    LET fw     == Firmware[r.read["tdx ovmf"]]
        added  == {i \in DOMAIN r.digest : r.digest[i].op = "MEM.PAGE.ADD"}
        chunks == DOMAIN r.digest \ added
        Address(x) == x.page * ChunksPerPage + x.chunk - 1
    IN
    /\ IsInjective(r.digest)
    /\ {r.digest[i].page : i \in added} = AddedPages(fw)
    /\ {<<Address(r.digest[i]), r.digest[i].data>> : i \in chunks} = LoadedChunks(fw)
    /\ \A i \in chunks : \E j \in added : j < i /\ r.digest[j].page = r.digest[i].page

(* For which firmware: no two sections are loaded to the same page, which  *)
(* calculate_mrtd takes for granted.                                       *)
TdvfApart ==
  \A f \in DOMAIN Firmware : Tdvf(Firmware[f]) # Error =>
    LET t == Tdvf(Firmware[f]) IN
    \A i, j \in DOMAIN t : i # j =>
      t[i].at + t[i].pages <= t[j].at \/ t[j].at + t[j].pages <= t[i].at

(* Two RTMRs are equal exactly if what they measure is: RTMR1 the kernel   *)
(* but for its signature, RTMR2 command line and initrd, RTMR0 the         *)
(* configuration volume and the DSDT.                                      *)
SameMeasured(a, b) ==
  CASE a.name = "RTMR0" -> /\ Cfv(Firmware[a.read["tdx ovmf"]]) = Cfv(Firmware[b.read["tdx ovmf"]])
                           /\ a.read["dsdt"] = b.read["dsdt"]
    [] a.name = "RTMR1" -> Unsigned(Kernel[a.read["kernel"]]) = Unsigned(Kernel[b.read["kernel"]])
    [] a.name = "RTMR2" -> a.cmdline = b.cmdline /\ a.read["initrd"] = b.read["initrd"]

SameRegisterSameInput ==
  \A a, b \in registers :
    a.name = b.name /\ a.name \in {"RTMR0", "RTMR1", "RTMR2"} =>
      (a.digest = b.digest <=> SameMeasured(a, b))

(* For which kernels: those that are PE files are laid out as PE files are.*)
KernelsLaidOut ==
  \A k \in DOMAIN Kernel : Kernel[k].valid =>
    /\ LaidOut(Kernel[k])
    /\ \A l \in DOMAIN Kernel : Kernel[l].valid => FieldsFollow(Kernel[k], Kernel[l])
=============================================================================
