--------------------------- MODULE MCMeasurements ---------------------------
(***************************************************************************)
(* Constants for model-checking Measurements: firmware with and without    *)
(* the tables and sections that SNP, SVSM and TDX ask for, kernels that    *)
(* differ in a signature, a section and trailing data, and the options of  *)
(* the library one or two at a time.                                       *)
(***************************************************************************)
EXTENDS Measurements, TLC

Item(type, gpa, pages) == [type |-> type, gpa |-> gpa, pages |-> pages]
Guided(guid, value)    == [guid |-> guid, value |-> value]

(* A firmware entry that is listed twice: the one nearer the file's start  *)
(* counts.                                                                 *)
Footer == <<Guided("reset block", 5), Guided("metadata", 0), Guided("tdx metadata", 0),
            Guided("hash table", 64), Guided("reset block", 9)>>

Items == <<Item("sec mem", 1, 2), Item("cpuid", 3, 1), Item("secrets", 4, 1),
           Item("kernel hashes", 5, 1), Item("sec mem", 7, 1)>>

TdvfSection(type, at1, pages, data, extend, aligned) ==
  [type |-> type, at |-> at1, pages |-> pages, data |-> data, extend |-> extend,
   aligned |-> aligned]

Tdvf1 == <<TdvfSection("bfv", 10, 2, <<"a", "b", "c">>, TRUE, TRUE),
           TdvfSection("cfv", 12, 1, <<"v", "w">>, FALSE, TRUE),
           TdvfSection("temp mem", 14, 1, <<>>, FALSE, TRUE)>>

(* Firmware for everything; with other bytes; without a section for the    *)
(* hashes, without reset block or TDX; with a section of half a page; that *)
(* cannot be parsed.                                                       *)
FullFirmware == [pages |-> 2, parses |-> TRUE, footer |-> Footer, items |-> Items, room |-> 5,
                 tdvf |-> Tdvf1]
SomeFirmware ==
  [full      |-> FullFirmware,
   other     |-> [FullFirmware EXCEPT !.tdvf[1].data = <<"a", "b", "d">>, !.tdvf[2].data = <<"x">>],
   no_hashes |-> [FullFirmware EXCEPT !.room = 3],
   no_tables |-> [FullFirmware EXCEPT !.footer = <<Guided("metadata", 0)>>, !.room = 3],
   half_page |-> [FullFirmware EXCEPT !.items[4].pages = 2, !.tdvf[3].aligned = FALSE],
   broken    |-> [FullFirmware EXCEPT !.parses = FALSE, !.tdvf = Absent],
   svsm      |-> [FullFirmware EXCEPT !.pages = 1,
                    !.footer = <<Guided("svsm info", 7), Guided("metadata", 0)>>,
                    !.items = <<Item("caa", 1, 1), Item("cpuid", 2, 1), Item("kernel hashes", 3, 1)>>,
                    !.room = 3]]

(* Kernels: two header units around checksum and certificate entry, two    *)
(* sections, a trailing unit, an odd size; signed: filled up, certificates *)
(* behind; another section, another trailing unit, not a PE file.          *)
Pe(units, certSize) ==
  [units |-> units, valid |-> TRUE, checksum |-> 1, certEntry |-> 3, headers |-> 4,
   sections |-> {[offset |-> 5, size |-> 1], [offset |-> 4, size |-> 1], [offset |-> 9, size |-> 0]},
   certSize |-> certSize]
SomeKernels ==
  [k1     |-> Pe(<<"h", "sum", "h", "none", "t", "d", "x">>, 0),
   signed |-> Pe(<<"h", "sum2", "h", "cert at", "t", "d", "x", ZeroUnit, "c", "c">>, 2),
   k2     |-> Pe(<<"h", "sum", "h", "none", "t", "e", "x">>, 0),
   k3     |-> Pe(<<"h", "sum", "h", "none", "t", "d", "y">>, 0),
   elf    |-> [Pe(<<"e", "l", "f", "x">>, 0) EXCEPT !.valid = FALSE]]

DiskOf(k, i, snp, tdx, d) ==
  ("kernel" :> k) @@ ("initrd" :> i) @@ ("snp ovmf" :> snp) @@ ("tdx ovmf" :> tdx) @@ ("dsdt" :> d)

(* With everything; without a kernel; without an initrd and with a kernel  *)
(* and a DSDT that the registers do not take; with firmware that neither   *)
(* half takes.                                                             *)
SomeDisks == {DiskOf("k1", "i1", "full", "full", "d1"),
              DiskOf(Absent, "i1", "full", "full", "d1"),
              DiskOf("elf", Absent, "other", "other", "bad"),
              DiskOf("k1", "i1", "no_hashes", "half_page", "d1")}

SomeContents ==
  ("kernel" :> {"signed", "k2", "k3", Absent}) @@ ("initrd" :> {"i2", Absent})
    @@ ("snp ovmf" :> {"other", Absent}) @@ ("tdx ovmf" :> {"other", "broken", Absent})
    @@ ("dsdt" :> {"d2", Absent})

(* The tool's default signature of the last model is another one.          *)
SomeCpus == <<[name |-> "SNP_EPYC-v4", sig |-> 1], [name |-> "SNP_EPYC-Genoa", sig |-> 2],
              [name |-> "SNP_EPYC-Genoa", sig |-> 3]>>
SomeLists == ("manifest" :> <<1, 2>>) @@ ("snp tool" :> <<1, 3>>)

Config(snp, tdx, c) == [snpOvmf |-> snp, tdxOvmf |-> tdx, cmdline |-> c, features |-> 1]
TheirConfigs == {None, Config(TRUE, TRUE, "c1"), Config(FALSE, TRUE, "c2"), Config(TRUE, FALSE, "c1")}
FileCommands ==
  {<<"manifest", Config(TRUE, TRUE, "c1")>>, <<"manifest", Config(FALSE, TRUE, "c2")>>,
   <<"manifest", Config(TRUE, FALSE, "c1")>>, <<"snp tool", Config(TRUE, TRUE, "c1")>>,
   <<"tdx tool", Config(TRUE, TRUE, "c1")>>}
SomeSessions == {<<<<"library", None>>, <<"library", None>>>>} \cup (FileCommands \X FileCommands)

(* The options of a launch, varied a few at a time.                        *)
Base == [mode |-> "snp", vmm |-> "QEMU", vcpus |-> 2, sig |-> 1, ovmf |-> "full", kernel |-> "k1",
         initrd |-> "i1", append |-> "c1", features |-> 1, seed |-> None, svsm |-> None,
         varsPages |-> 1]
Kind(mode, vmm) ==
  [Base EXCEPT !.mode = mode, !.vmm = vmm, !.svsm = IF mode = "snp:svsm" THEN "svsm" ELSE None]
Varied(r) ==
  {r}
   \cup {[r EXCEPT !.kernel = k] : k \in {None, "k2"}}
   \cup {[r EXCEPT !.initrd = i, !.append = a] : i \in {None, Empty}, a \in {None, "c2"}}
   \cup {[r EXCEPT !.sig = 2], [r EXCEPT !.vcpus = 1], [r EXCEPT !.features = 33]}
   \cup {[r EXCEPT !.ovmf = f] : f \in {"other", "no_tables", "half_page"}}
   \cup {[r EXCEPT !.ovmf = "no_hashes", !.kernel = k] : k \in {None, "k1", "k2"}}
SomeRequests ==
  UNION {Varied(Kind(m, "QEMU")) : m \in Modes}
   \cup {Kind(m, v) : m \in Modes, v \in {"ec2", "gce"}}
   \cup {[Kind("snp", v) EXCEPT !.seed = OvmfHash("full")] : v \in Vmms}
   \cup {[Kind("snp", "ec2") EXCEPT !.kernel = None], [Kind("snp", "ec2") EXCEPT !.ovmf = "other"]}
   \cup {[Kind("snp:svsm", "QEMU") EXCEPT !.svsm = f] : f \in {None, "full", "broken"}}
   \cup {[Kind("sev-es", "QEMU") EXCEPT !.ovmf = "broken"]}

(* What the proofs need of firmware, kernels and callers holds of these.   *)
ASSUME GuestAssumption == SectionsApart /\ SeedsAreHashes /\ TdvfApart /\ KernelsLaidOut
=============================================================================
