--------------------------- MODULE MetadataWriter ---------------------------
(***************************************************************************)
(* The metadata stream of a squashfs image (inode table, directory table): *)
(* MetadataWriter cuts what its callers write into blocks and compresses   *)
(* each, and MetadataReader follows a reference back into them.            *)
(*                                                                         *)
(* A byte is the number it has in the stream; a run of bytes is [first,    *)
(* count], the bytes first+1 .. first+count.                               *)
(***************************************************************************)
EXTENDS Naturals, Sequences

CONSTANTS
  BlockSize,  (* METADATA_BLOCK_SIZE                                        *)
  Sizes,      (* lengths of what callers write: an inode, a directory       *)
  MaxBytes    (* bound: bytes written                                       *)

(* A reference has its low 16 bits for the offset in a block.              *)
RefScale == 65536

ASSUME SizesAssumption ==
  /\ BlockSize \in Nat \ {0} /\ BlockSize <= RefScale
  /\ Sizes \subseteq Nat \ {0}
  /\ MaxBytes \in Nat

VARIABLES
  written,   (* bytes copied into the writer so far                         *)
  buf,       (* buf.len(): the last of them, not yet in a block             *)
  blocks,    (* the compressed blocks, each with its offset in the table    *)
  byteLen,   (* blocks_byte_len                                             *)
  todo,      (* bytes of the current write() still to copy                  *)
  refs,      (* the references that callers took, with what they then wrote *)
  phase,     (* "write", then "idle" and "read" in turn, or "failed"        *)
  reader,    (* the MetadataReader                                          *)
  got,       (* what read_exact has filled in so far                        *)
  answer     (* the last item read                                          *)

wvars == <<written, buf, blocks, byteLen, todo, refs>>
vars == <<wvars, phase, reader, got, answer>>

Least(a, b) == IF a < b THEN a ELSE b

(* The u16 before each block.                                              *)
Header == 2

(* Mutant of MakeRef: the shift is missing.                                *)
RefUnshifted(block, off) == block + off

(* make_inode_ref, and what read_inode takes a reference apart into.       *)
MakeRef(block, off) == block * RefScale + off
RefBlock(r)  == r \div RefScale
RefOffset(r) == r % RefScale

Block == [at: Nat, first: Nat, count: 1 .. BlockSize, stored: 1 .. BlockSize]
Item  == [ref: Nat, from: Nat, size: Sizes]

(* block_pos, block_data and offset; skip and want count down the bytes to *)
(* skip and to read.                                                       *)
Reader == [item: Item, pos: Nat, first: Nat, count: Nat, off: Nat, skip: Nat, want: Nat]

TypeOK ==
  /\ written \in Nat /\ byteLen \in Nat /\ todo \in Nat
  /\ buf \in 0 .. BlockSize - 1
  /\ blocks \in Seq(Block)
  /\ refs \subseteq Item
  /\ phase \in {"write", "idle", "read", "failed"}
  /\ phase = "read" => reader \in Reader
  /\ got \in Seq(Nat)
  /\ answer \in Seq(Nat)

Init ==
  /\ written = 0 /\ buf = 0 /\ blocks = <<>> /\ byteLen = 0 /\ todo = 0
  /\ refs = {}
  /\ phase = "write"
  /\ reader = "none" /\ got = <<>> /\ answer = <<>>
-----------------------------------------------------------------------------
(* Mutant of Write: the reference is taken as if a block were full.        *)
WriteThenPosition(n) ==
  /\ phase = "write" /\ todo = 0
  /\ written + n <= MaxBytes
  /\ refs' = refs \cup
       {[ref |-> MakeRef(byteLen, (buf + n) % BlockSize), from |-> written, size |-> n]}
  /\ todo' = n
  /\ UNCHANGED <<written, buf, blocks, byteLen, phase, reader, got, answer>>

(* add_file, add_dir, add_symlink and write_directory take position() and  *)
(* then write().                                                           *)
Write(n) ==
  /\ phase = "write" /\ todo = 0
  /\ written + n <= MaxBytes
  /\ refs' = refs \cup {[ref |-> MakeRef(byteLen, buf), from |-> written, size |-> n]}
  /\ todo' = n
  /\ UNCHANGED <<written, buf, blocks, byteLen, phase, reader, got, answer>>

(* Where the next block will start in the image, after the table's start.  *)
EndOfBlocks == IF blocks = <<>> THEN 0
               ELSE blocks[Len(blocks)].at + Header + blocks[Len(blocks)].stored

AddBlock(first, n, stored) ==
  blocks' = Append(blocks, [at |-> EndOfBlocks, first |-> first, count |-> n,
                            stored |-> stored])

(* flush_block_internal of n bytes: zstd may make them any size, but one   *)
(* that is not smaller is not used.                                        *)
Flush(first, n) ==
  \E stored \in 1 .. n :
    AddBlock(first, n, stored) /\ byteLen' = byteLen + Header + stored

(* Mutant of Copy: a block is only flushed when the next byte comes.       *)
CopyLazily ==
  LET n == Least(BlockSize - buf, todo) IN
  /\ phase = "write" /\ todo > 0
  /\ written' = written + n
  /\ todo' = todo - n
  /\ IF buf + n = BlockSize /\ todo > n
       THEN buf' = 0 /\ Flush(written + n - BlockSize, BlockSize)
       ELSE buf' = buf + n /\ UNCHANGED <<blocks, byteLen>>
  /\ UNCHANGED <<refs, phase, reader, got, answer>>

(* One turn of write()'s loop; a full block is flushed at once.            *)
Copy ==
  LET n == Least(BlockSize - buf, todo) IN
  /\ phase = "write" /\ todo > 0
  /\ written' = written + n
  /\ todo' = todo - n
  /\ IF buf + n = BlockSize
       THEN buf' = 0 /\ Flush(written + n - BlockSize, BlockSize)
       ELSE buf' = buf + n /\ UNCHANGED <<blocks, byteLen>>
  /\ UNCHANGED <<refs, phase, reader, got, answer>>

(* Mutant of Finish: the rest is not flushed.                              *)
FinishUnflushed ==
  /\ phase = "write" /\ todo = 0
  /\ phase' = "idle"
  /\ buf' = 0 /\ byteLen' = 0
  /\ UNCHANGED <<written, blocks, todo, refs, reader, got, answer>>

(* finish(): flush the rest and write the blocks to the image.  From then  *)
(* on blocks is the table in the image.                                    *)
Finish ==
  /\ phase = "write" /\ todo = 0
  /\ phase' = "idle"
  /\ IF buf = 0 THEN UNCHANGED blocks
     ELSE \E stored \in 1 .. buf : AddBlock(written - buf, buf, stored)
  /\ buf' = 0 /\ byteLen' = 0
  /\ UNCHANGED <<written, todo, refs, reader, got, answer>>
-----------------------------------------------------------------------------
(* read_inode, read_dir: a reader at the block, to skip to the offset.     *)
Open(item) ==
  /\ phase = "idle"
  /\ phase' = "read"
  /\ reader' = [item |-> item, pos |-> RefBlock(item.ref), first |-> 0, count |-> 0,
                off |-> 0, skip |-> RefOffset(item.ref), want |-> item.size]
  /\ got' = <<>>
  /\ UNCHANGED <<wvars, answer>>

(* skip() and read_exact() go on while something is left.                  *)
Reading == phase = "read" /\ reader.skip + reader.want > 0

BlocksAt(pos) == {k \in 1 .. Len(blocks) : blocks[k].at = pos}

(* Mutant of Load: off by one at the end of a block.                       *)
LoadPastTheEnd ==
  /\ Reading /\ reader.off > reader.count
  /\ \E k \in BlocksAt(reader.pos) :
       reader' = [reader EXCEPT !.pos = @ + Header + blocks[k].stored,
                                !.first = blocks[k].first, !.count = blocks[k].count,
                                !.off = 0]
  /\ UNCHANGED <<wvars, phase, got, answer>>

(* ensure_loaded at the end of a block: the next block is read where the   *)
(* last one ended.  Where no block starts, what is read is no block.       *)
Load ==
  /\ Reading /\ reader.off >= reader.count
  /\ IF BlocksAt(reader.pos) = {}
       THEN phase' = "failed" /\ UNCHANGED reader
       ELSE /\ \E k \in BlocksAt(reader.pos) :
                 reader' = [reader EXCEPT !.pos = @ + Header + blocks[k].stored,
                                          !.first = blocks[k].first,
                                          !.count = blocks[k].count, !.off = 0]
            /\ UNCHANGED phase
  /\ UNCHANGED <<wvars, got, answer>>

Skip ==
  LET n == Least(reader.skip, reader.count - reader.off) IN
  /\ Reading /\ reader.off < reader.count
  /\ reader.skip > 0
  /\ reader' = [reader EXCEPT !.off = @ + n, !.skip = @ - n]
  /\ UNCHANGED <<wvars, phase, got, answer>>

(* n bytes of the current block, from its offset on.                       *)
Run(n) == [i \in 1 .. n |-> reader.first + reader.off + i]

(* One turn of read_exact()'s loop.                                        *)
ReadExact ==
  LET n == Least(reader.want, reader.count - reader.off) IN
  /\ Reading /\ reader.off < reader.count
  /\ reader.skip = 0
  /\ reader' = [reader EXCEPT !.off = @ + n, !.want = @ - n]
  /\ got' = got \o Run(n)
  /\ UNCHANGED <<wvars, phase, answer>>

Close ==
  /\ phase = "read" /\ ~Reading
  /\ phase' = "idle"
  /\ answer' = got
  /\ UNCHANGED <<wvars, reader, got>>

Next ==
  \/ \E n \in Sizes : Write(n)
  \/ Copy \/ Finish
  \/ \E item \in refs : Open(item)
  \/ Load \/ Skip \/ ReadExact \/ Close

Spec == Init /\ [][Next]_vars

(* write() and read_exact() are loops of one thread, which runs on.        *)
FairSpec == Spec /\ WF_vars(Copy \/ Load \/ Skip \/ ReadExact \/ Close)
-----------------------------------------------------------------------------
(* The inductive invariant.  The blocks lie one after the other, in the    *)
(* image as in the stream, and only the last may be short.                 *)
EndOfBytes == IF blocks = <<>> THEN 0
              ELSE blocks[Len(blocks)].first + blocks[Len(blocks)].count

BlocksInOrder ==
  /\ phase = "write" => byteLen = EndOfBlocks
  /\ EndOfBytes + buf = written
  /\ \A k \in 1 .. Len(blocks) :
       /\ (phase = "write" \/ k < Len(blocks)) => blocks[k].count = BlockSize
       /\ blocks[k].at < EndOfBlocks
  /\ \A j, k \in 1 .. Len(blocks) : j < k => blocks[j].at < blocks[k].at
  /\ \A k \in 1 .. Len(blocks) - 1 :
       /\ blocks[k + 1].at = blocks[k].at + Header + blocks[k].stored
       /\ blocks[k + 1].first = blocks[k].first + blocks[k].count
  /\ phase # "write" => todo = 0 /\ buf = 0

(* Block k holds byte from+1, at offset off.                               *)
StartsIn(k, block, off, from) ==
  /\ blocks[k].at = block
  /\ blocks[k].first + off = from
  /\ off < blocks[k].count

(* A reference leads into a block or, as long as that is not full, to the  *)
(* buffer that will become one.                                            *)
Leads(item) ==
  /\ item.from + item.size <= written + todo
  /\ RefOffset(item.ref) < BlockSize
  /\ \/ \E k \in 1 .. Len(blocks) :
            StartsIn(k, RefBlock(item.ref), RefOffset(item.ref), item.from)
     \/ /\ phase = "write"
        /\ RefBlock(item.ref) = byteLen
        /\ EndOfBytes + RefOffset(item.ref) = item.from

(* The reader has loaded block k and stands at the byte it wants next; or  *)
(* it has loaded none and is sent to the item's first byte.                *)
Loaded(k) ==
  /\ reader.first = blocks[k].first /\ reader.count = blocks[k].count
  /\ reader.pos = blocks[k].at + Header + blocks[k].stored
  /\ reader.first + reader.off + reader.skip = reader.item.from + Len(got)

ReaderOnTrack ==
  phase = "read" =>
    /\ reader.item \in refs
    /\ reader.off <= reader.count
    /\ Len(got) + reader.want = reader.item.size
    /\ reader.skip > 0 => got = <<>>
    /\ \/ \E k \in 1 .. Len(blocks) : Loaded(k)
       \/ /\ reader.count = 0 /\ got = <<>>
          /\ \E k \in 1 .. Len(blocks) :
               StartsIn(k, reader.pos, reader.skip, reader.item.from)

TableInvariant ==
  /\ BlocksInOrder
  /\ \A item \in refs : Leads(item)
  /\ ReaderOnTrack

(* What is read back from a reference is, byte for byte, what was written  *)
(* after the reference was taken (position() then write()), wherever the   *)
(* blocks were cut and whatever they were compressed to.                   *)
ReadsBack ==
  phase = "read" => \A i \in 1 .. Len(got) : got[i] = reader.item.from + i

(* A reference always leads to the start of a block, and an item never     *)
(* runs over the last block: the reader never fails.                       *)
NeverFails == phase # "failed"

(* Every write and every read comes to its end.                            *)
LoopsEnd == /\ todo > 0 ~> todo = 0
            /\ phase = "read" ~> phase = "idle"

(* The table is a store: each item gets a reference of its own, and is     *)
(* what the reference is answered with.                                    *)
Store == INSTANCE RefStore WITH kept <- refs
StoreSpec == Store!Spec
=============================================================================
