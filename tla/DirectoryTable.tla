--------------------------- MODULE DirectoryTable ---------------------------
(***************************************************************************)
(* DirectoryTable::write_directory: the entries of one directory are put   *)
(* under headers, some headers are indexed, and all of it is written to a  *)
(* MetadataWriter block by block.                                          *)
(*                                                                         *)
(* The writer's blocks are counted from the one the directory begins in,   *)
(* which stands for where they are; MetadataWriter.tla is about that.      *)
(***************************************************************************)
EXTENDS Integers, Sequences

CONSTANTS
  BlockSize,   (* METADATA_BLOCK_SIZE                                       *)
  HeaderSize,  (* size of a DirHeader                                       *)
  EntrySizes,  (* sizes of entries with their names                         *)
  InodeBlocks, (* blocks of the inode table that entries lead to            *)
  Numbers,     (* inode numbers                                             *)
  GroupMax,    (* entries under one header (256)                            *)
  DeltaMax,    (* i16::MAX                                                  *)
  MaxEntries   (* bound: entries of the directory                           *)

ASSUME SizesAssumption ==
  /\ {BlockSize, HeaderSize, GroupMax, DeltaMax, MaxEntries} \subseteq Nat \ {0}
  /\ EntrySizes \subseteq Nat \ {0} /\ InodeBlocks \subseteq Nat /\ Numbers \subseteq Nat
  /\ \A e \in EntrySizes : HeaderSize + e <= BlockSize

VARIABLES
  phase,    (* "build", "write", "done"                                     *)
  startOff, (* where in a block the directory begins                        *)
  len,      (* dir_buf.len()                                                *)
  headers,  (* the headers in dir_buf                                       *)
  entries,  (* the entries in dir_buf                                       *)
  raw,      (* raw_indexes: positions in dir_buf                            *)
  written,  (* bytes of dir_buf given to the writer                         *)
  final     (* final_indexes: the positions with their blocks               *)

vars == <<phase, startOff, len, headers, entries, raw, written, final>>

Header == [at: Nat, block: InodeBlocks, base: Numbers, first: 1 .. MaxEntries]
Entry  == [at: Nat, size: EntrySizes, block: InodeBlocks, number: Numbers]

TypeOK ==
  /\ phase \in {"build", "write", "done"}
  /\ startOff \in 0 .. BlockSize - 1
  /\ len \in Nat /\ written \in 0 .. len
  /\ headers \in Seq(Header) /\ entries \in Seq(Entry)
  /\ raw \in Seq(Nat)
  /\ final \in Seq([index: Nat, block: Nat])

Init ==
  /\ phase = "build"
  /\ startOff \in 0 .. BlockSize - 1
  /\ len = 0 /\ headers = <<>> /\ entries = <<>> /\ raw = <<>>
  /\ written = 0 /\ final = <<>>

Current == headers[Len(headers)]

(* entry_count, of the entries under the current header.                   *)
GroupSize == Len(entries) - Current.first + 1

(* The directory's growth since the last index, with one entry more.       *)
Distance(size) == len + size - (IF raw = <<>> THEN 0 ELSE raw[Len(raw)])

(* Mutant of NeedsHeader: the bound is compared with one too few.          *)
NeedsHeaderLate(size, block, number) ==
  headers # <<>> => \/ GroupSize > GroupMax
                    \/ block # Current.block
                    \/ Distance(size) > BlockSize
                    \/ number - Current.base \notin -DeltaMax - 1 .. DeltaMax

(* need_new_group; the first entry needs a header anyway.                  *)
NeedsHeader(size, block, number) ==
  headers # <<>> => \/ GroupSize >= GroupMax
                    \/ block # Current.block
                    \/ Distance(size) > BlockSize
                    \/ number - Current.base \notin -DeltaMax - 1 .. DeltaMax

(* Mutant of NeedsIndex: it is the size so far that counts.                *)
NeedsIndexLate(size) == headers # <<>> /\ Distance(0) > BlockSize

(* A new header is indexed if the directory has grown by a block since the *)
(* last one that was.                                                      *)
NeedsIndex(size) == headers # <<>> /\ Distance(size) > BlockSize

(* One child in build_directory_data.                                      *)
AddEntry(size, block, number) ==
  LET new == NeedsHeader(size, block, number)
      at  == IF new THEN len + HeaderSize ELSE len
  IN
  /\ phase = "build" /\ Len(entries) < MaxEntries
  /\ raw' = IF new /\ NeedsIndex(size) THEN Append(raw, len) ELSE raw
  /\ headers' = IF new THEN Append(headers, [at |-> len, block |-> block, base |-> number,
                                             first |-> Len(entries) + 1])
                ELSE headers
  /\ entries' = Append(entries, [at |-> at, size |-> size, block |-> block,
                                 number |-> number])
  /\ len' = at + size
  /\ UNCHANGED <<phase, startOff, written, final>>

(* Without an index everything is written in one go.                       *)
BuildEnds ==
  /\ phase = "build"
  /\ IF raw = <<>> THEN phase' = "done" /\ written' = len
                   ELSE phase' = "write" /\ UNCHANGED written
  /\ UNCHANGED <<startOff, len, headers, entries, raw, final>>

(* position().0: the block that the next byte goes to.                     *)
BlockNow == (startOff + written) \div BlockSize

(* Mutant of Boundary: as if the directory began with a block.             *)
BoundaryFromStart == (written \div BlockSize + 1) * BlockSize

(* The end of that block, in dir_buf.                                      *)
Boundary == (BlockNow + 1) * BlockSize - startOff

(* Mutant of ChunkEnd: a whole block, even at the end.                     *)
WholeChunk == Boundary

ChunkEnd == IF Boundary < len THEN Boundary ELSE len

(* One turn of the loop: the indexes that fall in the current block get    *)
(* it, and what fits in it is written.                                     *)
WriteChunk ==
  LET here == {k \in 1 .. Len(raw) : k > Len(final) /\ raw[k] < Boundary}
      n    == Len(final)
  IN
  /\ phase = "write"
  /\ \E m \in n .. Len(raw) :
       /\ here = n + 1 .. m
       /\ final' = final \o [k \in 1 .. m - n |-> [index |-> raw[n + k], block |-> BlockNow]]
  /\ written' = ChunkEnd
  /\ phase' = IF ChunkEnd >= len THEN "done" ELSE "write"
  /\ UNCHANGED <<startOff, len, headers, entries, raw>>

Returned == phase = "done" /\ UNCHANGED vars

Next ==
  \/ \E size \in EntrySizes, block \in InodeBlocks, number \in Numbers :
       AddEntry(size, block, number)
  \/ BuildEnds \/ WriteChunk \/ Returned

Spec == Init /\ [][Next]_vars
-----------------------------------------------------------------------------
(* The header an entry stands under.                                       *)
IsOver(h, e) == headers[h].first <= e /\ (h = Len(headers) \/ headers[h + 1].first > e)

(* An entry is read with its header's block and a 16-bit difference to its *)
(* number, and a header counts 256 entries at most.                        *)
EntriesFitTheirHeader ==
  \A h \in 1 .. Len(headers), e \in 1 .. Len(entries) :
    IsOver(h, e) =>
      /\ entries[e].block = headers[h].block
      /\ entries[e].number - headers[h].base \in -DeltaMax - 1 .. DeltaMax
      /\ e - headers[h].first < GroupMax

(* Every index in the directory's inode leads to a header, in the block    *)
(* that was said, and none is missing.                                     *)
IndexLeadsToHeader ==
  phase = "done" =>
    /\ Len(final) = Len(raw)
    /\ \A k \in 1 .. Len(final) : \E h \in 1 .. Len(headers) :
         /\ headers[h].at = final[k].index
         /\ (startOff + headers[h].at) \div BlockSize = final[k].block

(* From an index, or the start, on, every entry up to the next index ends  *)
(* within a block's size, or a header more: that is what a lookup scans.   *)
IndexedOften ==
  \A e \in 1 .. Len(entries) :
    \E i \in {0} \cup {raw[k] : k \in 1 .. Len(raw)} :
      /\ i < entries[e].at
      /\ entries[e].at + entries[e].size - i <= BlockSize + HeaderSize
=============================================================================
