---------------------------- MODULE TdxRegisters ----------------------------
(***************************************************************************)
(* What Intel TDX measures of a guest: MRTD, the firmware as it is loaded, *)
(* page by page and chunk by chunk (tdx/tdvf.rs, tdx/mrtd.rs), and the     *)
(* registers RTMR0 to RTMR3, extended by one event after the other         *)
(* (tdx/rtmr.rs), among them the kernel's Authenticode hash                *)
(* (tdx/authenticode.rs).                                                  *)
(*                                                                         *)
(* A digest is the sequence of what went into it; Error is an Err.         *)
(***************************************************************************)
EXTENDS Integers, SequencesExt

CONSTANTS
  Absent,        (* no such file, table or section                          *)
  Error,         (* an Err                                                  *)
  ZeroUnit,      (* a unit of zeros                                         *)
  ChunksPerPage, (* 16                                                      *)
  PadTo          (* a PE file is hashed as if padded to 8 bytes             *)

ASSUME UnitsAssumption == {ChunksPerPage, PadTo} \subseteq Nat \ {0}
-----------------------------------------------------------------------------
(* parse_tdvf_sections: the footer table is walked from the end of the     *)
(* file up to the first entry for the TDX metadata.  A footer is a         *)
(* sequence of entries here: firmware too short to have one, which makes   *)
(* the code panic, and an entry of length 0, at which its walk never ends, *)
(* are no inputs of the model.                                             *)
Tdvf(fw) ==
  IF (\E i \in DOMAIN fw.footer : fw.footer[i].guid = "tdx metadata") /\ fw.tdvf # Absent
    THEN fw.tdvf ELSE Error

PageAdd(page) == [op |-> "MEM.PAGE.ADD", page |-> page, chunk |-> 0, data |-> ZeroUnit]
Extend(page, chunk, data) == [op |-> "MR.EXTEND", page |-> page, chunk |-> chunk, data |-> data]

(* Mutant of ChunkOf: the chunk is taken from the page's own beginning.    *)
ChunkOfPage(s, page, chunk) == IF chunk <= Len(s.data) THEN s.data[chunk] ELSE ZeroUnit

(* What write_region reads for a chunk: zeros behind the section's data.   *)
ChunkOf(s, page, chunk) ==
  LET k == (page - 1) * ChunksPerPage + chunk IN
  IF k <= Len(s.data) THEN s.data[k] ELSE ZeroUnit

(* write_region: each page is added and, if the section says so, extended. *)
Region(s) ==
  FlattenSeq([p \in 1 .. s.pages |->
    <<PageAdd(s.at + p - 1)>> \o
      (IF s.extend THEN [c \in 1 .. ChunksPerPage |-> Extend(s.at + p - 1, c, ChunkOf(s, p, c))]
                   ELSE <<>>)])

(* calculate_mrtd; a size that is not a number of pages is an error.       *)
Mrtd(fw) ==
  LET sections == Tdvf(fw) IN
  IF sections = Error THEN Error
  ELSE IF \E i \in DOMAIN sections : ~sections[i].aligned THEN Error
  ELSE FlattenSeq([i \in DOMAIN sections |-> Region(sections[i])])

(* find_cfv: the first section of its type.                                *)
Cfv(fw) ==
  LET sections == Tdvf(fw) IN
  IF sections = Error THEN Error
  ELSE LET i == SelectInSeq(sections, LAMBDA s : s.type = "cfv") IN
       IF i = 0 THEN Error ELSE sections[i].data
-----------------------------------------------------------------------------
(* A kernel is a PE file of units: the checksum and the certificate entry  *)
(* are units of its headers, offsets count from 0.                         *)
Part(pe, first, last) == SubSeq(pe.units, first + 1, last)

(* Units that are missing to a multiple of PadTo.                          *)
Padding(n) == (PadTo - (n % PadTo)) % PadTo

RawSections(pe) ==
  SetToSortSeq({s \in pe.sections : s.size > 0}, LAMBDA a, b : a.offset < b.offset)

(* sum_of_bytes_hashed: the headers and the sections, with gaps or without.*)
BytesHashed(pe) ==
  LET raw == RawSections(pe)
      sum[i \in 0 .. Len(raw)] == IF i = 0 THEN pe.headers ELSE sum[i - 1] + raw[i].size
  IN  sum[Len(raw)]

(* Mutant of AuthenticodeHash: the certificate table is hashed, too.       *)
HashWithCertificates(pe) ==
  IF ~pe.valid THEN Error
  ELSE Part(pe, 0, pe.checksum) \o Part(pe, pe.checksum + 1, pe.certEntry)
         \o Part(pe, pe.certEntry + 1, Len(pe.units))

(* pe_authenticode_hash: the headers but for two fields, the sections in   *)
(* the order of the file, what is left before the certificates, padding.   *)
(* Extra data is looked for at the number of bytes hashed so far, which is *)
(* where it is if the sections follow the headers and each other.          *)
AuthenticodeHash(pe) ==
  IF ~pe.valid THEN Error
  ELSE LET raw    == RawSections(pe)
           hashed == BytesHashed(pe)
           pad    == Padding(Len(pe.units))
       IN  Part(pe, 0, pe.checksum)
             \o Part(pe, pe.checksum + 1, pe.certEntry)
             \o Part(pe, pe.certEntry + 1, pe.headers)
             \o FlattenSeq([i \in DOMAIN raw |-> Part(pe, raw[i].offset, raw[i].offset + raw[i].size)])
             \o Part(pe, hashed, Len(pe.units) - pe.certSize)
             \o [i \in 1 .. pad |-> ZeroUnit]
-----------------------------------------------------------------------------
(* Events: what is hashed, under a name that stands for the constant bytes.*)
Event(name, data) == [name |-> name, data |-> data]
Fixed(name) == Event(name, <<>>)

(* calc_rtmr0, for a file that validate_cvm_dsdt takes for valid or not.   *)
Rtmr0(fw, dsdt, valid) ==
  IF ~valid \/ Cfv(fw) = Error THEN Error
  ELSE <<Event("cfv", Cfv(fw)), Fixed("BootMenu"), Fixed("BootOrder"),
         Fixed("SecureBoot"), Fixed("PK"), Fixed("KEK"), Fixed("db"), Fixed("dbx"),
         Fixed("separator"), Event("dsdt", <<dsdt>>)>>

(* calc_rtmr1.                                                             *)
Rtmr1(kernel) ==
  IF AuthenticodeHash(kernel) = Error THEN Error
  ELSE <<Event("authenticode", AuthenticodeHash(kernel)), Fixed("Calling EFI Application"),
         Fixed("separator"), Fixed("Exit Boot Services Invocation"),
         Fixed("Exit Boot Services Returned")>>

(* calc_rtmr2: the command line behind "initrd=initrd ", then the initrd.  *)
Rtmr2(cmdline, initrd) == <<Event("cmdline", <<cmdline>>), Event("initrd", <<initrd>>)>>

Rtmr3 == <<>>
-----------------------------------------------------------------------------
(* The memory that the sections describe: the chunks that are measured, by *)
(* their address, each page counted in chunks.                             *)
LoadedChunks(fw) ==
  LET sections == Tdvf(fw) IN
  UNION {{<<sections[i].at * ChunksPerPage + k - 1,
            IF k <= Len(sections[i].data) THEN sections[i].data[k] ELSE ZeroUnit>> :
            k \in 1 .. sections[i].pages * ChunksPerPage} :
         i \in {j \in DOMAIN sections : sections[j].extend}}

AddedPages(fw) ==
  LET sections == Tdvf(fw) IN
  UNION {sections[i].at .. sections[i].at + sections[i].pages - 1 : i \in DOMAIN sections}

(* A PE file as linkers lay it out and pe_authenticode_hash takes for      *)
(* granted: both fields in the headers, sections that follow the headers   *)
(* and each other, certificates that are a multiple of PadTo, at the end.  *)
End(s) == s.offset + s.size

LaidOut(pe) ==
  LET raw == RawSections(pe)
      end == Len(pe.units) - pe.certSize
  IN
  /\ pe.units \in Seq(ToSet(pe.units)) /\ raw \in Seq(ToSet(raw))
  /\ {pe.checksum, pe.certEntry, pe.headers, pe.certSize} \subseteq Nat
  /\ pe.checksum < pe.certEntry /\ pe.certEntry < pe.headers
  /\ \A i \in DOMAIN raw :
       /\ {raw[i].offset, raw[i].size} \subseteq Nat
       /\ raw[i].offset = IF i = 1 THEN pe.headers ELSE End(raw[i - 1])
  /\ BytesHashed(pe) <= end
  /\ Padding(Len(pe.units)) = Padding(end)

(* Where the fields are is read from the headers, from units before both.  *)
FieldsFollow(pe, other) ==
  (\A i \in 1 .. pe.checksum : i \in DOMAIN other.units /\ other.units[i] = pe.units[i]) =>
    other.checksum = pe.checksum /\ other.certEntry = pe.certEntry

(* A PE file with what a signature changes taken out of it.                *)
Unsigned(pe) ==
  LET bytes == Part(pe, 0, Len(pe.units) - pe.certSize)
      full  == bytes \o [i \in 1 .. Padding(Len(bytes)) |-> ZeroUnit]
  IN  [full EXCEPT ![pe.checksum + 1] = ZeroUnit, ![pe.certEntry + 1] = ZeroUnit]
=============================================================================
