------------------------------ MODULE SnpLaunch ------------------------------
(***************************************************************************)
(* The launch digest of an SEV, SEV-ES, SEV-SNP or SVSM guest, folded page *)
(* by page from the firmware file, the hashes of kernel, initrd and        *)
(* command line, and the save areas of the virtual CPUs (snp/guest.rs).    *)
(*                                                                         *)
(* SHA-256 and SHA-384 are taken as injective: a digest is the sequence of *)
(* what was folded into it.  Addresses and sizes are in pages.             *)
(***************************************************************************)
EXTENDS Integers, SequencesExt

CONSTANTS
  None,      (* an option that is not given                                 *)
  Zeros,     (* the contents of a page that is not hashed                   *)
  Empty,     (* an empty initrd or command line                             *)
  FourGB,    (* where firmware ends, in pages                               *)
  PageSize,  (* bytes of a page                                             *)
  VmsaGpa,   (* the address that every save area is folded in with          *)
  Firmware,  (* firmware and SVSM files, by name                            *)
  Requests   (* LaunchDigestOptions that callers of the library use         *)

Modes == {"sev", "sev-es", "snp", "snp:svsm"}
Vmms  == {"QEMU", "ec2", "gce"}
SectionTypes == {"sec mem", "secrets", "cpuid", "caa", "kernel hashes"}

(* A section of another type is an error of from_bytes.                    *)
ASSUME FirmwareAssumption ==
  /\ {FourGB, VmsaGpa} \subseteq Nat
  /\ \A f \in DOMAIN Firmware :
       /\ Firmware[f].pages \in Nat
       /\ Firmware[f].parses =>
            /\ Firmware[f].items \in Seq([type : SectionTypes, gpa : Nat, pages : Nat])
            /\ Firmware[f].room \in 0 .. Len(Firmware[f].items)

(* A caller brings the hash of a firmware's pages, or none.                *)
ASSUME RequestAssumption ==
  \A r \in Requests :
    /\ r.mode \in Modes /\ r.vmm \in Vmms
    /\ r.ovmf \in DOMAIN Firmware /\ r.svsm \in DOMAIN Firmware \cup {None}
    /\ {r.vcpus, r.varsPages} \subseteq Nat
    /\ r.seed = None \/ (r.seed \in Seq(ToSet(r.seed)) /\ \A p \in ToSet(r.seed) : p.gpa \in Nat)

VARIABLES
  req,    \* the options of the running launch
  ld,     \* its digest so far
  stage,  \* where it is
  at,     \* the next section or CPU
  done    \* the launches that were measured, with their digests

launchVars == <<req, ld, stage, at, done>>

Stages == {"idle", "load", "sections", "late cpuid", "cpus", "measured", "refused"}
-----------------------------------------------------------------------------
(***************************************************************************)
(* The firmware file.  Its footer table is a sequence of entries, walked   *)
(* from the end of the file; of two with one GUID the last one walked, the *)
(* first in the file, stays in the map.                                    *)
(***************************************************************************)
Entry(f, guid) == SelectInSeq(Firmware[f].footer, LAMBDA e : e.guid = guid)
InTable(f, guid) == Entry(f, guid) # 0
Value(f, guid) == Firmware[f].footer[Entry(f, guid)].value

(* The items that the header's size has room for.                          *)
Sections ==
  [f \in DOMAIN Firmware |->
     IF InTable(f, "metadata") THEN SubSeq(Firmware[f].items, 1, Firmware[f].room) ELSE <<>>]

HasSection(f, type) == \E s \in ToSet(Sections[f]) : s.type = type

HashTableSupported(f) == InTable(f, "hash table") /\ Value(f, "hash table") # 0
-----------------------------------------------------------------------------
(***************************************************************************)
(* PAGE_INFO, by the page types of Gctx.                                   *)
(***************************************************************************)
PageInfo(type, gpa, contents) == [type |-> type, gpa |-> gpa, contents |-> contents]

FilePages(f, end) ==
  [i \in 1 .. Firmware[f].pages |-> PageInfo("normal", end - Firmware[f].pages + i - 1,
                                   [file |-> f, page |-> i])]

Unhashed(type, gpa, pages) == [i \in 1 .. pages |-> PageInfo(type, gpa + i - 1, Zeros)]

(* SEV and SEV-ES hash bytes, without an address.                          *)
Bytes(type, contents) == PageInfo(type, 0, contents)

(* calc_snp_ovmf_hash, which may be given instead of folding the file.     *)
OvmfHash(f) == FilePages(f, FourGB)

(* Mutant of Hashes: without an initrd the command line is passed over.    *)
HashesByInitrd(r) ==
  [kernel |-> r.kernel, initrd |-> IF r.initrd = None THEN Empty ELSE r.initrd,
   cmdline |-> IF r.append = None \/ r.initrd = None THEN Empty ELSE r.append]

(* SevHashes: no initrd hashes like an empty one, and so does no command   *)
(* line.                                                                   *)
Hashes(r) ==
  [kernel |-> r.kernel, initrd |-> IF r.initrd = None THEN Empty ELSE r.initrd,
   cmdline |-> IF r.append = None THEN Empty ELSE r.append]

(* The SVSM's sections are folded as if no kernel were given.              *)
HashesKernel(r) == r.kernel # None /\ r.mode # "snp:svsm"

(* construct_page: the table at the offset in its page that the footer     *)
(* table gives for it.                                                     *)
HashOffset(r) == Value(r.ovmf, "hash table") % PageSize

LaunchFile(r) == IF r.mode = "snp:svsm" THEN r.svsm ELSE r.ovmf

(* Mutant of SectionPages: EC2's CPUID page is folded in its place, too.   *)
CpuidInPlace(r, s) ==
  CASE s.type = "sec mem" -> Unhashed(IF r.vmm = "gce" THEN "unmeasured" ELSE "zero",
                                      s.gpa, s.pages)
    [] s.type \in {"secrets", "cpuid"} -> Unhashed(s.type, s.gpa, 1)
    [] OTHER -> Unhashed("zero", s.gpa, s.pages)

(* snp_update_section; EC2's CPUID page comes later.                       *)
SectionPages(r, s) ==
  CASE s.type = "sec mem" -> Unhashed(IF r.vmm = "gce" THEN "unmeasured" ELSE "zero",
                                      s.gpa, s.pages)
    [] s.type = "secrets" -> Unhashed("secrets", s.gpa, 1)
    [] s.type = "cpuid"   -> IF r.vmm = "ec2" THEN <<>> ELSE Unhashed("cpuid", s.gpa, 1)
    [] s.type = "kernel hashes" /\ HashesKernel(r) ->
         <<PageInfo("normal", s.gpa, [hashes |-> Hashes(r),
                                      offset |-> HashOffset(r)])>>
    [] OTHER -> Unhashed("zero", s.gpa, s.pages)

SectionFails(r, s) ==
  /\ s.type = "kernel hashes" /\ HashesKernel(r)
  /\ ~InTable(r.ovmf, "hash table") \/ s.pages # 1
-----------------------------------------------------------------------------
(***************************************************************************)
(* The virtual CPUs' save areas.                                           *)
(***************************************************************************)
(* Addresses as <<page, byte>>; the first is 16 bytes below FourGB.        *)
BspEip == <<FourGB, -16>>

Rdx(r) == CASE r.vmm = "QEMU" -> r.sig [] r.vmm = "ec2" -> 0 [] r.vmm = "gce" -> 1536

SevFeatures(r) ==
  CASE r.mode = "snp" -> r.features [] r.mode = "sev-es" -> 0 [] r.mode = "snp:svsm" -> 1

ResetGuid(r) == IF r.mode = "snp:svsm" THEN "svsm info" ELSE "reset block"

SvsmEnd(r) == FourGB - Firmware[r.ovmf].pages - r.varsPages

(* The first CPU starts at BSP_EIP, the others at the firmware's reset     *)
(* address unless that is 0; under an SVSM all start at its entry point.   *)
Eip(r, cpu) ==
  LET reset == Value(LaunchFile(r), ResetGuid(r)) IN
  IF r.mode = "snp:svsm" THEN <<SvsmEnd(r) - Firmware[r.svsm].pages, reset>>
  ELSE IF cpu = 1 \/ reset = 0 THEN BspEip ELSE <<0, reset>>

SaveArea(r, cpu) ==
  PageInfo("vmsa", IF r.mode = "sev-es" THEN 0 ELSE VmsaGpa,
           [svsm |-> r.mode = "snp:svsm", vmm |-> r.vmm, eip |-> Eip(r, cpu),
            features |-> SevFeatures(r), rdx |-> Rdx(r)])

CpusOf(r) == IF r.mode = "sev" THEN 0 ELSE r.vcpus
-----------------------------------------------------------------------------
(***************************************************************************)
(* A launch, one step per section and per CPU.                             *)
(***************************************************************************)
LaunchInit ==
  /\ req = None /\ ld = <<>> /\ stage = "idle" /\ at = 0
  /\ done = {}

Begin(r) ==
  /\ stage = "idle"
  /\ req' = r /\ ld' = <<>> /\ stage' = "load" /\ at' = 0
  /\ UNCHANGED done

LoadFails(r) ==
  \/ ~Firmware[r.ovmf].parses
  \/ r.mode = "snp:svsm" /\ r.vmm # "QEMU"
  \/ r.mode = "snp:svsm" /\ r.svsm = None
  \/ r.mode = "snp:svsm" /\ r.svsm # None /\ ~(Firmware[r.svsm].parses /\ InTable(r.svsm, "svsm info"))
  \/ r.mode \in {"sev", "sev-es"} /\ r.kernel # None /\ ~HashTableSupported(r.ovmf)

(* What the files alone make; a caller's own hash may stand for it.        *)
OwnPages(r) ==
  CASE r.mode = "snp:svsm" -> FilePages(r.ovmf, FourGB) \o FilePages(r.svsm, SvsmEnd(r))
    [] r.mode = "snp" -> FilePages(r.ovmf, FourGB)
    [] OTHER -> <<Bytes("data", [file |-> r.ovmf])>>
                  \o (IF r.kernel = None THEN <<>> ELSE <<Bytes("table", Hashes(r))>>)

Loaded(r) == IF r.mode = "snp" /\ r.seed # None THEN r.seed ELSE OwnPages(r)

Load ==
  /\ stage = "load" /\ ~LoadFails(req)
  /\ ld' = Loaded(req)
  /\ stage' = "sections" /\ at' = 1
  /\ UNCHANGED <<req, done>>

(* SEV and SEV-ES have no use for the sections.                            *)
LaunchSections(r) ==
  IF r.mode \in {"sev", "sev-es"} THEN <<>> ELSE Sections[LaunchFile(r)]

FoldSection ==
  /\ stage = "sections" /\ at <= Len(LaunchSections(req))
  /\ ~SectionFails(req, LaunchSections(req)[at])
  /\ ld' = ld \o SectionPages(req, LaunchSections(req)[at])
  /\ at' = at + 1
  /\ UNCHANGED <<req, stage, done>>

FoldsLateCpuid(r) == r.mode = "snp" /\ r.vmm = "ec2"

(* The second loop, over the CPUID sections only.                          *)
SectionsEnd ==
  /\ stage = "sections" /\ at > Len(LaunchSections(req)) /\ FoldsLateCpuid(req)
  /\ stage' = "late cpuid" /\ at' = 1
  /\ UNCHANGED <<req, ld, done>>

FoldLateCpuid ==
  /\ stage = "late cpuid" /\ at <= Len(LaunchSections(req))
  /\ LET s == LaunchSections(req)[at] IN
     ld' = IF s.type = "cpuid" THEN ld \o Unhashed("cpuid", s.gpa, 1) ELSE ld
  /\ at' = at + 1
  /\ UNCHANGED <<req, stage, done>>

PagesEnd ==
  /\ stage \in {"sections", "late cpuid"}
  /\ stage = "late cpuid" <=> FoldsLateCpuid(req)
  /\ at > Len(LaunchSections(req))

(* Kernel hashes that no section takes, or no address for the CPUs.        *)
CpusFail(r) ==
  \/ r.mode = "snp" /\ r.kernel # None /\ ~HasSection(r.ovmf, "kernel hashes")
  \/ r.mode # "sev" /\ ~InTable(LaunchFile(r), ResetGuid(r))

StartCpus ==
  /\ PagesEnd /\ ~CpusFail(req)
  /\ stage' = "cpus" /\ at' = 1
  /\ UNCHANGED <<req, ld, done>>

SaveCpu ==
  /\ stage = "cpus" /\ at <= CpusOf(req)
  /\ ld' = Append(ld, SaveArea(req, at))
  /\ at' = at + 1
  /\ UNCHANGED <<req, stage, done>>

Measured ==
  /\ stage = "cpus" /\ at > CpusOf(req)
  /\ stage' = "measured"
  /\ done' = done \cup {[req |-> req, ld |-> ld]}
  /\ UNCHANGED <<req, ld, at>>

Refuse ==
  /\ \/ stage = "load" /\ LoadFails(req)
     \/ /\ stage = "sections" /\ at <= Len(LaunchSections(req))
        /\ SectionFails(req, LaunchSections(req)[at])
     \/ PagesEnd /\ CpusFail(req)
  /\ stage' = "refused"
  /\ UNCHANGED <<req, ld, at, done>>

Launching ==
  Load \/ FoldSection \/ SectionsEnd \/ FoldLateCpuid \/ StartCpus \/ SaveCpu \/ Measured \/ Refuse

(* The caller has its answer.                                              *)
Return ==
  /\ stage \in {"measured", "refused"}
  /\ req' = None /\ ld' = <<>> /\ stage' = "idle" /\ at' = 0
  /\ UNCHANGED done

LaunchNext == (\E r \in Requests : Begin(r)) \/ Launching \/ Return

LaunchSpec == LaunchInit /\ [][LaunchNext]_launchVars
-----------------------------------------------------------------------------
(***************************************************************************)
(* Properties.                                                             *)
(***************************************************************************)
(* The pages that section i puts into the guest's memory.                  *)
GuestPages(r, s) ==
  LET type == CASE s.type \in {"secrets", "cpuid"} -> s.type
                [] s.type = "sec mem" /\ r.vmm = "gce" -> "unmeasured"
                [] s.type = "kernel hashes" /\ HashesKernel(r) -> "normal"
                [] OTHER -> "zero"
      contents == IF type = "normal" THEN [hashes |-> Hashes(r), offset |-> HashOffset(r)]
                                     ELSE Zeros
  IN {PageInfo(type, s.gpa + k, contents) : k \in 0 .. s.pages - 1}

(* The firmware first, then the sections in the order of the metadata, but *)
(* EC2's CPUID pages behind all others.                                    *)
Layout(r) ==
  LET sections == LaunchSections(r)
      late     == Len(sections) + 1
      turn(i)  == IF FoldsLateCpuid(r) /\ sections[i].type = "cpuid" THEN late ELSE i
      first    == ToSet(OwnPages(r))
      pages    == UNION {GuestPages(r, sections[i]) : i \in DOMAIN sections}
  IN [p \in first \cup pages |->
        IF p \in first THEN 0
        ELSE turn(CHOOSE i \in DOMAIN sections : p \in GuestPages(r, sections[i]))]

Running == stage \notin {"idle", "load"}

(* The save areas of a digest; the pages are what is before them.          *)
Saves(d) == {i \in DOMAIN d : d[i].type = "vmsa"}

Guest == INSTANCE MeasuredGuest WITH
  layout <- IF Running /\ ~LoadFails(req) THEN Layout(req) ELSE <<>>,
  cpus   <- IF Running THEN CpusOf(req) ELSE 0,
  log    <- IF Running THEN SubSeq(ld, 1, Len(ld) - Cardinality(Saves(ld))) ELSE <<>>,
  saved  <- IF Running THEN Cardinality(Saves(ld)) ELSE 0,
  state  <- CASE stage = "load" -> "idle"
              [] stage \in {"idle", "measured", "refused"} -> stage
              [] OTHER -> "measuring"

(* Every page of the firmware and of its sections is folded in once and in *)
(* its turn, on every hypervisor and in every mode, then each CPU's save   *)
(* area; a launch that cannot do so gives no digest (snp_calc_, svsm_calc_,*)
(* seves_calc_ and sev_calc_launch_digest).                                *)
LaunchMeasuresGuest == Guest!Spec

(* For which firmware: sections do not overlap and secrets and CPUID take  *)
(* one page each, which the code takes for granted.                        *)
SectionsApart ==
  \A f \in DOMAIN Firmware : Firmware[f].parses =>
    \A i \in DOMAIN Sections[f] :
      /\ Sections[f][i].type \in {"secrets", "cpuid"} => Sections[f][i].pages = 1
      /\ \A j \in DOMAIN Sections[f] : i # j =>
           \/ Sections[f][i].gpa + Sections[f][i].pages <= Sections[f][j].gpa
           \/ Sections[f][j].gpa + Sections[f][j].pages <= Sections[f][i].gpa

(* For which callers: a hash they bring is the firmware's.                 *)
SeedsAreHashes == \A r \in Requests : r.seed \in {None, OvmfHash(r.ovmf)}

Given(option) == IF option = None THEN Empty ELSE option

(* What a digest is to stand for; the SVSM's says nothing of the kernel,   *)
(* QEMU's tells CPU models apart.  A hash of the firmware that the caller  *)
(* computed before stands for the firmware.                                *)
LaunchInputs(r) ==
  LET kernel == HashesKernel(r)
      saved  == CpusOf(r) > 0
  IN <<r.mode, r.ovmf,
       IF kernel THEN <<r.kernel, Given(r.initrd), Given(r.append)>> ELSE <<>>,
       CpusOf(r), IF saved THEN r.vmm ELSE None,
       IF saved /\ r.vmm = "QEMU" THEN r.sig ELSE 0,
       IF saved /\ r.mode = "snp" THEN r.features ELSE 0>>

(* The firmware is no empty file, and the caller brings its hash or none.  *)
OwnFirmware(r) ==
  Firmware[r.ovmf].pages # 0 /\ r.seed \in {None, OvmfHash(r.ovmf)}

(* Launches with the same digest have the same firmware, kernel, initrd,   *)
(* command line (none of the last two is like an empty one), number of     *)
(* CPUs, CPU model and features, and the same inputs, with the same SVSM   *)
(* and room for variables, give the same digest, whether the caller brings *)
(* calc_snp_ovmf_hash of the firmware or not.                              *)
DigestIsOfInputs ==
  \A a, b \in {d \in done : OwnFirmware(d.req)} :
    /\ (a.ld = b.ld /\ a.req.mode = b.req.mode) => LaunchInputs(a.req) = LaunchInputs(b.req)
    /\ (LaunchInputs(a.req) = LaunchInputs(b.req) /\ a.req.svsm = b.req.svsm
          /\ a.req.varsPages = b.req.varsPages /\ a.req.vmm = b.req.vmm) => a.ld = b.ld
=============================================================================
