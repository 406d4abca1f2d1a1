------------------------ MODULE MetadataWriterProofs ------------------------
(***************************************************************************)
(* Proofs about MetadataWriter for every block size, every choice of       *)
(* lengths and every outcome of the compression.                           *)
(***************************************************************************)
EXTENDS MetadataWriter, TLAPS

Inv == TypeOK /\ TableInvariant

(* A reference is taken apart into what it was made from.                  *)
LEMMA RefParts ==
  ASSUME NEW b \in Nat, NEW o \in Nat, o < RefScale
  PROVE  /\ MakeRef(b, o) \in Nat
         /\ RefBlock(MakeRef(b, o)) = b
         /\ RefOffset(MakeRef(b, o)) = o
BY SMT DEF MakeRef, RefBlock, RefOffset, RefScale

LEMMA RefPartsTypes ==
  ASSUME NEW r \in Nat
  PROVE  RefBlock(r) \in Nat /\ RefOffset(r) \in Nat
BY SMT DEF RefBlock, RefOffset, RefScale

LEMMA ItemTyped ==
  ASSUME NEW i \in Item
  PROVE  i.ref \in Nat /\ i.from \in Nat /\ i.size \in Nat /\ 0 < i.size
<1>1. i.ref \in Nat /\ i.from \in Nat /\ i.size \in Sizes
  BY DEF Item
<1>2. ASSUME NEW s \in Sizes PROVE s \in Nat /\ 0 < s
  <2>1. s \in Nat /\ s # 0
    BY SizesAssumption
  <2> QED BY <2>1
<1> QED BY <1>1, <1>2

LEMMA InitHolds == Init => Inv
BY SizesAssumption DEF Init, Inv, TypeOK, TableInvariant, BlocksInOrder, ReaderOnTrack,
   EndOfBlocks, EndOfBytes, Block, Item

(* Taking a reference and starting to write: the reference leads to the    *)
(* buffer, at its end.                                                     *)
LEMMA WriteKeeps ==
  ASSUME Inv, NEW n \in Sizes, Write(n)
  PROVE  Inv'
<1>1. buf \in Nat /\ buf < RefScale /\ byteLen \in Nat /\ written \in Nat /\ n \in Nat
  BY SizesAssumption DEF Inv, TypeOK, RefScale
<1> DEFINE item == [ref |-> MakeRef(byteLen, buf), from |-> written, size |-> n]
<1>2. /\ item \in Item
      /\ RefBlock(item.ref) = byteLen /\ RefOffset(item.ref) = buf
  BY <1>1, RefParts DEF Item
<1>3. TypeOK'
  BY <1>1, <1>2 DEF Inv, TypeOK, Write
<1>4. BlocksInOrder'
  BY DEF Inv, TypeOK, TableInvariant, BlocksInOrder, Write, EndOfBlocks, EndOfBytes
<1>5. ASSUME NEW i \in refs' PROVE Leads(i)'
  <2>1. CASE i \in refs
    <3>1. Leads(i) /\ i \in Item
      BY <2>1 DEF Inv, TypeOK, TableInvariant
    <3>2. i.from \in Nat /\ i.size \in Nat /\ i.from + i.size <= written /\ todo = 0
      <4>1. todo = 0 /\ i.from + i.size <= written + todo
        BY <3>1 DEF Leads, Write
      <4>2. i.from \in Nat /\ i.size \in Nat
        BY <3>1, ItemTyped
      <4> QED BY <1>1, <4>1, <4>2
    <3>3. i.from + i.size <= written + n
      BY <1>1, <3>2
    <3> QED BY <3>1, <3>3 DEF Leads, Write, StartsIn, EndOfBytes
  <2>2. CASE i = item
    <3>1. EndOfBytes + buf = written
      BY DEF Inv, TableInvariant, BlocksInOrder
    <3>2. RefOffset(i.ref) < BlockSize
      BY <1>2, <2>2, SizesAssumption DEF Inv, TypeOK
    <3> QED BY <1>1, <1>2, <2>2, <3>1, <3>2 DEF Leads, Write, EndOfBytes
  <2> QED BY <2>1, <2>2 DEF Write
<1>6. ReaderOnTrack'
  BY DEF ReaderOnTrack, Write
<1> QED BY <1>3, <1>4, <1>5, <1>6 DEF Inv, TableInvariant

(* What the blocks' fields are.                                            *)
LEMMA BlocksTyped ==
  ASSUME TypeOK
  PROVE  /\ Len(blocks) \in Nat /\ EndOfBytes \in Nat /\ EndOfBlocks \in Nat
         /\ \A k \in 1 .. Len(blocks) :
              /\ blocks[k].at \in Nat /\ blocks[k].first \in Nat
              /\ blocks[k].count \in Nat /\ 0 < blocks[k].count
              /\ blocks[k].stored \in Nat /\ 0 < blocks[k].stored
<1>1. blocks \in Seq(Block) /\ Len(blocks) \in Nat /\ BlockSize \in Nat /\ Header \in Nat
  BY SizesAssumption DEF TypeOK, Header
<1>2. ASSUME NEW k \in 1 .. Len(blocks)
      PROVE  /\ blocks[k].at \in Nat /\ blocks[k].first \in Nat
             /\ blocks[k].count \in Nat /\ 0 < blocks[k].count
             /\ blocks[k].stored \in Nat /\ 0 < blocks[k].stored
  <2>1. blocks[k] \in Block
    BY <1>1
  <2> QED BY <1>1, <2>1, SMTT(60) DEF Block
<1>3. CASE blocks = <<>>
  BY <1>1, <1>2, <1>3 DEF EndOfBytes, EndOfBlocks
<1>4. CASE blocks # <<>>
  <2>1. Len(blocks) \in 1 .. Len(blocks)
    BY <1>1, <1>4
  <2> QED BY <1>1, <1>2, <1>4, <2>1, SMTT(60) DEF EndOfBytes, EndOfBlocks
<1> QED BY <1>1, <1>2, <1>3, <1>4

(* What AddBlock does to the list of blocks.                               *)
LEMMA AddBlockAppends ==
  ASSUME TypeOK, BlocksInOrder, NEW n \in 1 .. BlockSize, NEW stored \in 1 .. n,
         AddBlock(EndOfBytes, n, stored)
  PROVE  /\ blocks' \in Seq(Block)
         /\ Len(blocks') = Len(blocks) + 1
         /\ \A k \in 1 .. Len(blocks) : blocks'[k] = blocks[k]
         /\ blocks'[Len(blocks')].at = EndOfBlocks
         /\ blocks'[Len(blocks')].first = EndOfBytes
         /\ blocks'[Len(blocks')].count = n
         /\ EndOfBlocks' = EndOfBlocks + Header + stored
         /\ EndOfBlocks' \in Nat /\ EndOfBlocks < EndOfBlocks'
         /\ EndOfBytes' = EndOfBytes + n
<1>1. EndOfBytes \in Nat /\ EndOfBlocks \in Nat /\ Header \in Nat
      /\ Header > 0 /\ n \in Nat
  BY BlocksTyped, SizesAssumption DEF BlocksInOrder, Header
<1>2. blocks' = Append(blocks, [at |-> EndOfBlocks, first |-> EndOfBytes, count |-> n,
                                stored |-> stored])
  BY DEF AddBlock
<1> DEFINE b == [at |-> EndOfBlocks, first |-> EndOfBytes, count |-> n, stored |-> stored]
<1>3. b \in Block /\ stored \in Nat /\ stored > 0
  <2>1. stored \in 1 .. BlockSize /\ n \in 1 .. BlockSize /\ stored > 0 /\ stored \in Nat
    BY SizesAssumption
  <2> QED BY <1>1, <2>1 DEF Block
<1>4. blocks' = Append(blocks, b) /\ blocks \in Seq(Block)
  BY <1>1, <1>2 DEF TypeOK
<1> HIDE DEF b
<1>5. /\ blocks' \in Seq(Block) /\ Len(blocks') = Len(blocks) + 1 /\ blocks' # <<>>
      /\ \A k \in 1 .. Len(blocks) : blocks'[k] = blocks[k]
      /\ blocks'[Len(blocks')] = b
  BY <1>3, <1>4
<1>6. EndOfBytes' = b.first + b.count /\ EndOfBlocks' = b.at + Header + b.stored
  BY <1>5 DEF EndOfBytes, EndOfBlocks, Header
<1> QED BY <1>1, <1>2, <1>3, <1>5, <1>6 DEF b

(* The blocks stay in order when one is appended to full ones.             *)
LEMMA AddBlockKeepsOrder ==
  ASSUME TypeOK, BlocksInOrder, phase = "write", NEW n \in 1 .. BlockSize,
         NEW stored \in 1 .. n, AddBlock(EndOfBytes, n, stored)
  PROVE  /\ \A k \in 1 .. Len(blocks') :
              /\ (n = BlockSize \/ k < Len(blocks')) => blocks'[k].count = BlockSize
              /\ blocks'[k].at < EndOfBlocks'
         /\ \A j, k \in 1 .. Len(blocks') : j < k => blocks'[j].at < blocks'[k].at
         /\ \A k \in 1 .. Len(blocks') - 1 :
              /\ blocks'[k + 1].at = blocks'[k].at + Header + blocks'[k].stored
              /\ blocks'[k + 1].first = blocks'[k].first + blocks'[k].count
<1> DEFINE L == Len(blocks)
<1>1. L \in Nat /\ EndOfBlocks \in Nat /\ blocks \in Seq(Block)
  BY BlocksTyped DEF TypeOK
<1>2. /\ Len(blocks') = L + 1 /\ \A k \in 1 .. L : blocks'[k] = blocks[k]
      /\ blocks'[L + 1].at = EndOfBlocks /\ blocks'[L + 1].first = EndOfBytes
      /\ blocks'[L + 1].count = n
      /\ EndOfBlocks' \in Nat /\ EndOfBlocks < EndOfBlocks'
  BY AddBlockAppends
<1>3. \A k \in 1 .. L : blocks[k].count = BlockSize /\ blocks[k].at < EndOfBlocks
                          /\ blocks[k].at \in Nat
  BY BlocksTyped DEF BlocksInOrder
<1>4. \A k \in 1 .. L + 1 : k = L + 1 \/ k \in 1 .. L
  BY <1>1
<1>5. ASSUME NEW k \in 1 .. Len(blocks')
      PROVE  /\ (n = BlockSize \/ k < Len(blocks')) => blocks'[k].count = BlockSize
             /\ blocks'[k].at < EndOfBlocks'
  BY <1>1, <1>2, <1>3, <1>4, SMTT(60)
<1>6. ASSUME NEW j \in 1 .. Len(blocks'), NEW k \in 1 .. Len(blocks'), j < k
      PROVE  blocks'[j].at < blocks'[k].at
  <2>1. j \in 1 .. L
    BY <1>1, <1>2, <1>6
  <2>2. CASE k \in 1 .. L
    BY <1>2, <1>6, <2>1, <2>2 DEF BlocksInOrder
  <2>3. CASE k = L + 1
    BY <1>2, <1>3, <2>1, <2>3
  <2> QED BY <1>2, <1>4, <2>2, <2>3
<1>7. ASSUME NEW k \in 1 .. Len(blocks') - 1
      PROVE  /\ blocks'[k + 1].at = blocks'[k].at + Header + blocks'[k].stored
             /\ blocks'[k + 1].first = blocks'[k].first + blocks'[k].count
  <2>1. k \in 1 .. L
    BY <1>1, <1>2
  <2>2. CASE k < L
    <3>1. k \in 1 .. L - 1 /\ k + 1 \in 1 .. L
      BY <1>1, <2>1, <2>2
    <3> QED BY <1>2, <2>1, <3>1 DEF BlocksInOrder
  <2>3. CASE k = L
    <3>1. blocks # <<>>
      BY <1>1, <2>1, <2>3
    <3> QED BY <1>2, <2>1, <2>3, <3>1 DEF BlocksInOrder, EndOfBlocks, EndOfBytes
  <2> QED BY <1>1, <2>1, <2>2, <2>3
<1> QED BY <1>5, <1>6, <1>7

(* A reference into the blocks keeps leading there when one is appended;   *)
(* one into the buffer then leads to the block made of the buffer.         *)
LEMMA AddBlockKeepsLeads ==
  ASSUME TypeOK, BlocksInOrder, phase = "write", NEW n \in 1 .. BlockSize,
         NEW stored \in 1 .. n, AddBlock(EndOfBytes, n, stored), NEW item \in Item, Leads(item),
         item.from < EndOfBytes + n
  PROVE  \E k \in 1 .. Len(blocks') :
           StartsIn(k, RefBlock(item.ref), RefOffset(item.ref), item.from)'
<1> DEFINE L == Len(blocks)
<1>1. L \in Nat /\ EndOfBytes \in Nat
  BY BlocksTyped
<1>2. /\ Len(blocks') = L + 1 /\ \A k \in 1 .. L : blocks'[k] = blocks[k]
      /\ blocks'[L + 1].at = EndOfBlocks /\ blocks'[L + 1].first = EndOfBytes
      /\ blocks'[L + 1].count = n
  BY AddBlockAppends
<1>3. CASE \E k \in 1 .. L : StartsIn(k, RefBlock(item.ref), RefOffset(item.ref), item.from)
  <2>1. PICK k \in 1 .. L : StartsIn(k, RefBlock(item.ref), RefOffset(item.ref), item.from)
    BY <1>3
  <2>2. k \in 1 .. Len(blocks') /\ blocks'[k] = blocks[k]
    BY <1>1, <1>2
  <2> QED BY <2>1, <2>2 DEF StartsIn
<1>4. CASE RefBlock(item.ref) = EndOfBlocks /\ EndOfBytes + RefOffset(item.ref) = item.from
  <2>1. RefOffset(item.ref) \in Nat
    BY RefPartsTypes DEF Item
  <2>2. RefOffset(item.ref) < n
    BY <1>1, <1>4, <2>1
  <2>3. L + 1 \in 1 .. Len(blocks')
    BY <1>1, <1>2
  <2>4. /\ blocks'[L + 1].at = RefBlock(item.ref)
        /\ blocks'[L + 1].first + RefOffset(item.ref) = item.from
        /\ RefOffset(item.ref) < blocks'[L + 1].count
    BY <1>2, <1>4, <2>2
  <2>5. PICK k \in 1 .. Len(blocks') : k = L + 1
    BY <2>3
  <2>6. StartsIn(k, RefBlock(item.ref), RefOffset(item.ref), item.from)'
    BY <2>4, <2>5 DEF StartsIn
  <2> QED BY <2>6
<1> QED BY <1>3, <1>4 DEF Leads, BlocksInOrder

LEMMA LeastBounds ==
  ASSUME NEW a \in Nat, NEW b \in Nat
  PROVE  /\ Least(a, b) \in Nat /\ Least(a, b) <= a /\ Least(a, b) <= b
         /\ Least(a, b) = a \/ Least(a, b) = b
BY DEF Least

(* One turn of the loop moves bytes from todo to the writer.               *)
LEMMA CopyKeeps ==
  ASSUME Inv, Copy
  PROVE  Inv'
<1> DEFINE n == Least(BlockSize - buf, todo)
<1>1. /\ BlockSize \in Nat /\ BlockSize > 0 /\ buf \in Nat /\ buf < BlockSize
      /\ todo \in Nat /\ todo > 0 /\ written \in Nat /\ byteLen \in Nat
      /\ EndOfBytes \in Nat /\ EndOfBytes + buf = written /\ phase = "write"
  BY SizesAssumption, BlocksTyped, SMTT(60) DEF Inv, TypeOK, TableInvariant, BlocksInOrder, Copy
<1>2. n \in Nat /\ 0 < n /\ n <= todo /\ buf + n <= BlockSize
  <2>1. BlockSize - buf \in Nat /\ BlockSize - buf > 0
    BY <1>1
  <2>2. n \in Nat /\ n <= BlockSize - buf /\ n <= todo /\ (n = BlockSize - buf \/ n = todo)
    BY <1>1, <2>1, LeastBounds
  <2> QED BY <1>1, <2>1, <2>2
<1>3. /\ written' = written + n /\ todo' = todo - n
      /\ IF buf + n = BlockSize
           THEN buf' = 0 /\ Flush(written + n - BlockSize, BlockSize)
           ELSE buf' = buf + n /\ UNCHANGED <<blocks, byteLen>>
      /\ UNCHANGED <<refs, phase, reader, got, answer>>
  BY DEF Copy
<1> HIDE DEF n
<1>4. written' + todo' = written + todo /\ written' \in Nat /\ todo' \in Nat
  BY <1>1, <1>2, <1>3
<1>5. ReaderOnTrack'
  BY <1>1, <1>3 DEF ReaderOnTrack
<1>6. CASE buf + n # BlockSize
  <2>1. buf' = buf + n /\ UNCHANGED <<blocks, byteLen>> /\ buf' \in 0 .. BlockSize - 1
    BY <1>1, <1>2, <1>3, <1>6
  <2>2. TypeOK'
    BY <1>3, <1>4, <2>1 DEF Inv, TypeOK
  <2>3. EndOfBytes' = EndOfBytes /\ EndOfBlocks' = EndOfBlocks
    BY <2>1 DEF EndOfBytes, EndOfBlocks
  <2>4. EndOfBytes' + buf' = written'
    BY <1>1, <1>2, <1>3, <2>1, <2>3
  <2>5. BlocksInOrder'
    BY <1>1, <1>3, <2>1, <2>3, <2>4 DEF Inv, TableInvariant, BlocksInOrder
  <2>6. ASSUME NEW i \in refs' PROVE Leads(i)'
    <3>1. Leads(i)
      BY <1>3 DEF Inv, TableInvariant
    <3> QED BY <1>3, <1>4, <2>1, <2>3, <3>1 DEF Leads, StartsIn
  <2> QED BY <1>5, <2>2, <2>5, <2>6 DEF Inv, TableInvariant
<1>7. CASE buf + n = BlockSize
  <2>1. buf' = 0 /\ written + n - BlockSize = EndOfBytes
    BY <1>1, <1>2, <1>3, <1>7
  <2>0. PICK stored \in 1 .. BlockSize :
          AddBlock(EndOfBytes, BlockSize, stored) /\ byteLen' = byteLen + Header + stored
    BY <1>1, <1>3, <1>7, <2>1 DEF Flush
  <2>2. /\ BlockSize \in 1 .. BlockSize /\ stored \in 1 .. BlockSize
        /\ AddBlock(EndOfBytes, BlockSize, stored)
    BY <1>1, <2>0
  <2>3. TypeOK /\ BlocksInOrder /\ byteLen = EndOfBlocks
    BY <1>1 DEF Inv, TableInvariant, BlocksInOrder
  <2>4. TypeOK'
    <3>1. byteLen' = EndOfBlocks' /\ EndOfBlocks' \in Nat /\ blocks' \in Seq(Block)
      BY <2>0, <2>2, <2>3, AddBlockAppends
    <3> QED BY <1>1, <1>3, <1>4, <2>1, <2>3, <3>1, SMTT(60) DEF TypeOK
  <2>5. EndOfBytes' + buf' = written' /\ byteLen' = EndOfBlocks'
    <3>1. byteLen' = EndOfBlocks' /\ EndOfBytes' = EndOfBytes + BlockSize
      BY <2>0, <2>2, <2>3, AddBlockAppends
    <3> QED BY <1>1, <1>2, <1>3, <1>7, <2>1, <3>1
  <2>6. BlocksInOrder'
    BY <1>1, <1>3, <2>2, <2>3, <2>5, AddBlockKeepsOrder DEF BlocksInOrder
  <2>7. ASSUME NEW i \in refs' PROVE Leads(i)'
    <3>1. Leads(i) /\ i \in Item /\ i \in refs
      BY <1>3 DEF Inv, TableInvariant, TypeOK
    <3>2. i.from + i.size <= written' + todo' /\ RefOffset(i.ref) < BlockSize
      BY <1>4, <3>1 DEF Leads
    <3>3. RefOffset(i.ref) \in Nat
      BY <3>1, RefPartsTypes DEF Item
    <3>4. CASE \E k \in 1 .. Len(blocks) : StartsIn(k, RefBlock(i.ref), RefOffset(i.ref), i.from)
      <4>1. PICK k \in 1 .. Len(blocks) : StartsIn(k, RefBlock(i.ref), RefOffset(i.ref), i.from)
        BY <3>4
      <4>2. k \in 1 .. Len(blocks') /\ blocks'[k] = blocks[k]
        BY <2>2, <2>3, AddBlockAppends, SMTT(60) DEF TypeOK
      <4> QED BY <3>2, <4>1, <4>2 DEF Leads, StartsIn
    <3>5. CASE RefBlock(i.ref) = byteLen /\ EndOfBytes + RefOffset(i.ref) = i.from
      <4>1. i.from < EndOfBytes + BlockSize
        BY <1>1, <3>2, <3>3, <3>5
      <4>2. \E k \in 1 .. Len(blocks') : StartsIn(k, RefBlock(i.ref), RefOffset(i.ref), i.from)'
        BY <1>1, <2>2, <2>3, <3>1, <4>1, AddBlockKeepsLeads
      <4> QED BY <3>2, <4>2 DEF Leads
    <3> QED BY <3>1, <3>4, <3>5 DEF Leads
  <2> QED BY <1>5, <2>4, <2>6, <2>7 DEF Inv, TableInvariant
<1> QED BY <1>6, <1>7

(* finish() makes the last block of what is left in the buffer.            *)
LEMMA FinishKeeps ==
  ASSUME Inv, Finish
  PROVE  Inv'
<1>1. /\ phase = "write" /\ todo = 0 /\ phase' = "idle" /\ buf' = 0
      /\ byteLen' = 0
      /\ IF buf = 0 THEN UNCHANGED blocks
         ELSE \E stored \in 1 .. buf : AddBlock(written - buf, buf, stored)
      /\ UNCHANGED <<written, todo, refs, reader, got, answer>>
  BY DEF Finish
<1>2. /\ BlockSize \in Nat /\ BlockSize > 0 /\ buf \in Nat /\ buf < BlockSize
      /\ written \in Nat /\ EndOfBytes \in Nat /\ EndOfBytes + buf = written
  BY SizesAssumption, BlocksTyped DEF Inv, TypeOK, TableInvariant, BlocksInOrder
<1>3. TypeOK /\ BlocksInOrder
  BY DEF Inv, TableInvariant
<1>4. ReaderOnTrack'
  BY <1>1 DEF ReaderOnTrack
<1>5. ASSUME NEW i \in refs'
      PROVE  /\ Leads(i) /\ i \in Item /\ i \in refs
             /\ i.from + i.size <= written' + todo' /\ RefOffset(i.ref) < BlockSize
             /\ i.from < written
             /\ i.from \in Nat /\ RefOffset(i.ref) \in Nat
  <2>1. Leads(i) /\ i \in Item /\ i \in refs
    BY <1>1 DEF Inv, TableInvariant, TypeOK
  <2>2. i.from + i.size <= written + todo /\ RefOffset(i.ref) < BlockSize
    BY <2>1 DEF Leads
  <2>3. i.from \in Nat /\ i.size \in Nat /\ 0 < i.size /\ RefOffset(i.ref) \in Nat
    BY <2>1, ItemTyped, RefPartsTypes
  <2> QED BY <1>1, <1>2, <2>1, <2>2, <2>3
<1>6. CASE buf = 0
  <2>1. UNCHANGED <<blocks, written, todo, buf>>
    BY <1>1, <1>6
  <2>2. TypeOK'
    BY <1>1, <2>1 DEF Inv, TypeOK
  <2>3. BlocksInOrder'
    BY <1>1, <1>3, <1>6, <2>1 DEF BlocksInOrder, EndOfBytes, EndOfBlocks
  <2>4. ASSUME NEW i \in refs' PROVE Leads(i)'
    <3>1. EndOfBytes + RefOffset(i.ref) # i.from
      BY <1>2, <1>5, <1>6
    <3>2. \E k \in 1 .. Len(blocks) : StartsIn(k, RefBlock(i.ref), RefOffset(i.ref), i.from)
      BY <1>5, <3>1 DEF Leads
    <3> QED BY <1>5, <2>1, <3>2 DEF Leads, StartsIn
  <2> QED BY <1>4, <2>2, <2>3, <2>4 DEF Inv, TableInvariant
<1>7. CASE buf # 0
  <2>1. written - buf = EndOfBytes /\ buf \in 1 .. BlockSize
    BY <1>2, <1>7
  <2>2. PICK stored \in 1 .. buf : AddBlock(EndOfBytes, buf, stored)
    BY <1>1, <1>7, <2>1
  <2>3. EndOfBytes' = EndOfBytes + buf
        /\ blocks' \in Seq(Block)
    BY <1>3, <2>1, <2>2, AddBlockAppends
  <2>4. TypeOK'
    BY <1>1, <1>2, <1>3, <2>3 DEF TypeOK
  <2>5. EndOfBytes' + buf' = written'
    BY <1>1, <1>2, <2>3
  <2>6. BlocksInOrder'
    <3>1. \A k \in 1 .. Len(blocks') :
            /\ k < Len(blocks') => blocks'[k].count = BlockSize
            /\ blocks'[k].at < EndOfBlocks'
      BY <1>1, <1>3, <2>1, <2>2, AddBlockKeepsOrder
    <3>2. /\ \A j, k \in 1 .. Len(blocks') : j < k => blocks'[j].at < blocks'[k].at
          /\ \A k \in 1 .. Len(blocks') - 1 :
              /\ blocks'[k + 1].at = blocks'[k].at + Header + blocks'[k].stored
              /\ blocks'[k + 1].first = blocks'[k].first + blocks'[k].count
      BY <1>1, <1>3, <2>1, <2>2, AddBlockKeepsOrder
    <3> QED BY <1>1, <2>3, <2>5, <3>1, <3>2 DEF BlocksInOrder
  <2>7. ASSUME NEW i \in refs' PROVE Leads(i)'
    <3>1. i.from < EndOfBytes + buf
      BY <1>2, <1>5
    <3>2. \E k \in 1 .. Len(blocks') : StartsIn(k, RefBlock(i.ref), RefOffset(i.ref), i.from)'
      BY <1>1, <1>3, <1>5, <2>1, <2>2, <3>1, AddBlockKeepsLeads
    <3> QED BY <1>5, <3>2 DEF Leads
  <2> QED BY <1>4, <2>4, <2>6, <2>7 DEF Inv, TableInvariant
<1> QED BY <1>6, <1>7

(* The actions of a reader leave the table alone.                          *)
LEMMA TableKept ==
  ASSUME Inv, UNCHANGED wvars, phase # "write", phase' # "write"
  PROVE  BlocksInOrder' /\ \A i \in refs' : Leads(i)'
<1>1. BlocksInOrder'
  BY DEF Inv, TableInvariant, BlocksInOrder, wvars, EndOfBytes, EndOfBlocks
<1>2. ASSUME NEW i \in refs' PROVE Leads(i)'
  <2>1. Leads(i)
    BY DEF Inv, TableInvariant, wvars
  <2> QED BY <2>1 DEF Leads, StartsIn, wvars
<1> QED BY <1>1, <1>2

LEMMA OpenKeeps ==
  ASSUME Inv, NEW item \in refs, Open(item)
  PROVE  Inv'
<1>1. phase = "idle" /\ phase' = "read" /\ UNCHANGED wvars /\ got' = <<>> /\ answer' = answer
  BY DEF Open
<1>2. reader' = [item |-> item, pos |-> RefBlock(item.ref), first |-> 0, count |-> 0,
                 off |-> 0, skip |-> RefOffset(item.ref), want |-> item.size]
  BY DEF Open
<1>3. item \in Item /\ item.size \in Nat /\ RefBlock(item.ref) \in Nat
      /\ RefOffset(item.ref) \in Nat
  BY ItemTyped, RefPartsTypes DEF Inv, TypeOK
<1>4. TypeOK'
  <2>1. reader' \in Reader
    BY <1>2, <1>3 DEF Reader
  <2> QED BY <1>1, <2>1 DEF Inv, TypeOK, wvars
<1>5. ReaderOnTrack'
  <2>1. PICK k \in 1 .. Len(blocks) :
          StartsIn(k, RefBlock(item.ref), RefOffset(item.ref), item.from)
    BY <1>1 DEF Inv, TableInvariant, Leads
  <2>2. StartsIn(k, reader.pos, reader.skip, reader.item.from)' /\ k \in 1 .. Len(blocks')
    BY <1>1, <1>2, <2>1 DEF StartsIn, wvars
  <2>3. reader'.count = 0 /\ reader'.off = 0 /\ Len(got') = 0 /\ reader'.item = item
        /\ reader'.want = item.size /\ item \in refs'
    BY <1>1, <1>2 DEF wvars
  <2> QED BY <1>1, <1>3, <2>2, <2>3 DEF ReaderOnTrack
<1> QED BY <1>1, <1>4, <1>5, TableKept DEF Inv, TableInvariant

LEMMA ReaderTyped ==
  ASSUME Inv, phase = "read"
  PROVE  /\ reader \in Reader /\ reader.item \in Item
         /\ reader.pos \in Nat /\ reader.first \in Nat /\ reader.count \in Nat
         /\ reader.off \in Nat /\ reader.skip \in Nat /\ reader.want \in Nat
         /\ reader.item.from \in Nat /\ reader.item.size \in Nat
         /\ reader.off <= reader.count
         /\ got \in Seq(Nat) /\ Len(got) \in Nat
         /\ Len(got) + reader.want = reader.item.size
<1>1. reader \in Reader
  BY DEF Inv, TypeOK
<1>2. /\ reader.item \in Item /\ reader.pos \in Nat /\ reader.first \in Nat
      /\ reader.count \in Nat
      /\ reader.off \in Nat /\ reader.skip \in Nat /\ reader.want \in Nat
  BY <1>1 DEF Reader
<1> QED BY <1>1, <1>2, ItemTyped, SMTT(60) DEF Inv, TypeOK, TableInvariant, ReaderOnTrack

(* The block the reader is sent to exists, and is the one that goes on     *)
(* where the last one ended.                                               *)
LEMMA BlockThere ==
  ASSUME Inv, Load
  PROVE  \E k \in 1 .. Len(blocks) :
           /\ BlocksAt(reader.pos) = {k}
           /\ blocks[k].first + reader.skip = reader.item.from + Len(got)
<1>1. phase = "read" /\ reader.skip + reader.want > 0 /\ reader.off >= reader.count
  BY DEF Load, Reading
<1>2. /\ reader.first \in Nat /\ reader.count \in Nat
      /\ reader.off \in Nat /\ reader.skip \in Nat /\ reader.want \in Nat
      /\ reader.item.from \in Nat /\ reader.item.size \in Nat
      /\ Len(got) \in Nat /\ Len(got) + reader.want = reader.item.size
      /\ reader.off = reader.count
  BY <1>1, ReaderTyped, SMTT(60)
<1>3. BlocksInOrder /\ TypeOK /\ ReaderOnTrack
  BY DEF Inv, TableInvariant
<1>4. ASSUME NEW k \in 1 .. Len(blocks), blocks[k].at = reader.pos
      PROVE  BlocksAt(reader.pos) = {k}
  <2>1. ASSUME NEW j \in 1 .. Len(blocks), j # k PROVE blocks[j].at # reader.pos
    <3>1. j \in Nat /\ k \in Nat /\ blocks[j].at \in Nat /\ blocks[k].at \in Nat
      BY <1>3, BlocksTyped
    <3>2. j < k \/ k < j
      BY <2>1, <3>1
    <3>3. blocks[j].at < blocks[k].at \/ blocks[k].at < blocks[j].at
      BY <1>3, <3>2 DEF BlocksInOrder
    <3> QED BY <1>4, <3>1, <3>3
  <2> QED BY <1>4, <2>1 DEF BlocksAt
<1>5. CASE \E k \in 1 .. Len(blocks) : Loaded(k)
  <2>1. PICK k \in 1 .. Len(blocks) : Loaded(k)
    BY <1>5
  <2>2. /\ reader.first = blocks[k].first /\ reader.count = blocks[k].count
        /\ reader.pos = blocks[k].at + Header + blocks[k].stored
        /\ reader.first + reader.off + reader.skip = reader.item.from + Len(got)
    BY <2>1 DEF Loaded
  <2>3. k # Len(blocks)
    <3>1. SUFFICES ASSUME k = Len(blocks) PROVE FALSE
      OBVIOUS
    <3>2. blocks # <<>> /\ written \in Nat
      BY <1>3, <3>1 DEF TypeOK
    <3>3. EndOfBytes = reader.first + reader.count
      BY <2>2, <3>1, <3>2 DEF EndOfBytes
    <3>4. EndOfBytes + buf = written /\ buf = 0 /\ todo = 0
      BY <1>1, <1>3 DEF BlocksInOrder
    <3>5. reader.item.from + reader.item.size <= written + todo
      BY <1>1, <1>3 DEF Inv, TableInvariant, ReaderOnTrack, Leads
    <3>6. reader.first + reader.count + reader.skip = reader.item.from + Len(got)
      BY <1>2, <2>2
    <3>7. reader.first + reader.count = written
          /\ reader.item.from + reader.item.size <= written
      BY <1>2, <3>2, <3>3, <3>4, <3>5
    <3>8. reader.item.from + Len(got) + reader.want <= written /\ written \in Nat
      BY <1>2, <3>2, <3>7, SMTT(60)
    <3>9. reader.skip + reader.want <= 0
      BY <1>2, <3>6, <3>7, <3>8, SMTT(60)
    <3> QED BY <1>1, <1>2, <3>9, SMTT(60)
  <2>4. k \in 1 .. Len(blocks) - 1 /\ k + 1 \in 1 .. Len(blocks) /\ k \in Nat
    BY <1>3, <2>3, BlocksTyped
  <2>5. /\ blocks[k + 1].at = reader.pos
        /\ blocks[k + 1].first = reader.first + reader.count
    BY <1>3, <2>2, <2>4 DEF BlocksInOrder
  <2>6. BlocksAt(reader.pos) = {k + 1}
    BY <1>4, <2>4, <2>5
  <2>7. blocks[k + 1].first + reader.skip = reader.item.from + Len(got)
    BY <1>2, <2>2, <2>5
  <2> QED BY <2>4, <2>6, <2>7
<1>6. CASE /\ reader.count = 0 /\ got = <<>>
           /\ \E k \in 1 .. Len(blocks) :
                StartsIn(k, reader.pos, reader.skip, reader.item.from)
  <2>1. PICK k \in 1 .. Len(blocks) : StartsIn(k, reader.pos, reader.skip, reader.item.from)
    BY <1>6
  <2>2. blocks[k].at = reader.pos /\ blocks[k].first + reader.skip = reader.item.from
    BY <2>1 DEF StartsIn
  <2>3. Len(got) = 0
    BY <1>6
  <2> QED BY <1>2, <1>4, <2>2, <2>3
<1> QED BY <1>1, <1>3, <1>5, <1>6 DEF ReaderOnTrack

(* Loading a block leaves the reader before the byte it wants next.        *)
LEMMA LoadKeeps ==
  ASSUME Inv, Load
  PROVE  Inv' /\ phase' = "read"
<1>1. PICK k \in 1 .. Len(blocks) :
        /\ BlocksAt(reader.pos) = {k}
        /\ blocks[k].first + reader.skip = reader.item.from + Len(got)
  BY BlockThere
<1>2. /\ phase = "read" /\ phase' = "read" /\ UNCHANGED wvars /\ got' = got /\ answer' = answer
      /\ reader' = [reader EXCEPT !.pos = @ + Header + blocks[k].stored,
                                  !.first = blocks[k].first, !.count = blocks[k].count,
                                  !.off = 0]
  BY <1>1 DEF Load, Reading
<1>3. blocks[k].at = reader.pos
  BY <1>1 DEF BlocksAt
<1>4. /\ blocks[k].first \in Nat /\ blocks[k].count \in Nat /\ blocks[k].stored \in Nat
      /\ Header \in Nat
  BY BlocksTyped DEF Inv, Header
<1>5. /\ reader \in Reader /\ reader.pos \in Nat
  BY <1>2, ReaderTyped
<1>6. /\ reader'.item = reader.item /\ reader'.pos = reader.pos + Header + blocks[k].stored
      /\ reader'.first = blocks[k].first /\ reader'.count = blocks[k].count
      /\ reader'.off = 0 /\ reader'.skip = reader.skip /\ reader'.want = reader.want
      /\ reader' \in Reader
  <2>1. reader.pos + Header + blocks[k].stored \in Nat
    BY <1>4, <1>5, SMTT(60)
  <2> DEFINE p == reader.pos + Header + blocks[k].stored
             f == blocks[k].first
             c == blocks[k].count
  <2>2. reader' = [reader EXCEPT !.pos = p, !.first = f, !.count = c, !.off = 0]
        /\ p \in Nat /\ f \in Nat /\ c \in Nat
    BY <1>2, <1>4, <2>1
  <2> HIDE DEF p, f, c
  <2>3. /\ reader' \in Reader /\ reader'.item = reader.item /\ reader'.skip = reader.skip
        /\ reader'.want = reader.want
        /\ reader'.pos = p /\ reader'.first = f /\ reader'.count = c /\ reader'.off = 0
    BY <1>5, <2>2 DEF Reader
  <2> QED BY <2>3 DEF p, f, c
<1>7. TypeOK'
  BY <1>2, <1>6 DEF Inv, TypeOK, wvars
<1>8. ReaderOnTrack'
  <2>1. /\ reader.item \in refs /\ Len(got) + reader.want = reader.item.size
        /\ reader.skip > 0 => got = <<>>
    BY <1>2 DEF Inv, TableInvariant, ReaderOnTrack
  <2>2. reader.skip \in Nat
    BY <1>2, ReaderTyped
  <2>3. reader'.first + reader'.off + reader'.skip = reader'.item.from + Len(got')
    BY <1>1, <1>2, <1>4, <1>6, <2>2
  <2>4. Loaded(k)'
    BY <1>2, <1>3, <1>6, <2>3 DEF Loaded, wvars
  <2>5. reader'.off <= reader'.count /\ k \in 1 .. Len(blocks')
    BY <1>2, <1>4, <1>6 DEF wvars
  <2> QED BY <1>2, <1>6, <2>1, <2>4, <2>5 DEF ReaderOnTrack, wvars
<1> QED BY <1>2, <1>7, <1>8, TableKept DEF Inv, TableInvariant

(* With bytes of a block left, a block is loaded.                          *)
LEMMA BlockLoaded ==
  ASSUME Inv, phase = "read", reader.off < reader.count
  PROVE  \E k \in 1 .. Len(blocks) : Loaded(k)
<1>1. reader.count # 0
  BY ReaderTyped
<1> QED BY <1>1 DEF Inv, TableInvariant, ReaderOnTrack

LEMMA SkipKeeps ==
  ASSUME Inv, Skip
  PROVE  Inv'
<1> DEFINE n == Least(reader.skip, reader.count - reader.off)
<1>1. /\ phase = "read" /\ phase' = "read" /\ UNCHANGED wvars /\ got' = got /\ answer' = answer
      /\ reader.off < reader.count /\ reader.skip > 0
      /\ reader' = [reader EXCEPT !.off = @ + n, !.skip = @ - n]
  BY DEF Skip, Reading
<1>2. /\ reader \in Reader /\ reader.count \in Nat /\ reader.off \in Nat
      /\ reader.skip \in Nat /\ reader.first \in Nat
  BY <1>1, ReaderTyped
<1>3. n \in Nat /\ n <= reader.skip /\ n <= reader.count - reader.off
  <2>1. reader.count - reader.off \in Nat
    BY <1>1, <1>2
  <2> QED BY <1>2, <2>1, LeastBounds
<1> HIDE DEF n
<1>4. /\ reader'.item = reader.item /\ reader'.pos = reader.pos
      /\ reader'.first = reader.first /\ reader'.count = reader.count
      /\ reader'.off = reader.off + n /\ reader'.skip = reader.skip - n
      /\ reader'.want = reader.want
      /\ reader' \in Reader
  <2>1. reader.off + n \in Nat /\ reader.skip - n \in Nat
    BY <1>2, <1>3
  <2> DEFINE o == reader.off + n
             s == reader.skip - n
  <2>2. reader' = [reader EXCEPT !.off = o, !.skip = s] /\ o \in Nat /\ s \in Nat
        /\ reader \in Reader
    BY <1>1, <1>2, <1>3, <2>1
  <2> HIDE DEF o, s
  <2>3. /\ reader' \in Reader /\ reader'.item = reader.item /\ reader'.pos = reader.pos
        /\ reader'.first = reader.first /\ reader'.count = reader.count
        /\ reader'.off = o /\ reader'.skip = s /\ reader'.want = reader.want
    BY <2>2 DEF Reader
  <2> QED BY <1>1, <2>3 DEF o, s
<1>5. TypeOK'
  BY <1>1, <1>4 DEF Inv, TypeOK, wvars
<1>6. ReaderOnTrack'
  <2>1. PICK k \in 1 .. Len(blocks) : Loaded(k)
    BY <1>1, BlockLoaded
  <2>2. /\ reader.item \in refs /\ Len(got) + reader.want = reader.item.size /\ got = <<>>
    BY <1>1 DEF Inv, TableInvariant, ReaderOnTrack
  <2>3. reader'.first + reader'.off + reader'.skip = reader.first + reader.off + reader.skip
        /\ reader'.off <= reader'.count
    BY <1>2, <1>3, <1>4, SMTT(60)
  <2>4. Loaded(k)' /\ k \in 1 .. Len(blocks')
    BY <1>1, <1>4, <2>1, <2>3 DEF Loaded, wvars
  <2> QED BY <1>1, <1>4, <2>2, <2>3, <2>4 DEF ReaderOnTrack, wvars
<1> QED BY <1>1, <1>5, <1>6, TableKept DEF Inv, TableInvariant

(* What a turn of read_exact() appends.                                    *)
LEMMA ReadExactAppends ==
  ASSUME Inv, ReadExact
  PROVE  \E n \in Nat :
           /\ n <= reader.want /\ n <= reader.count - reader.off
           /\ reader' = [reader EXCEPT !.off = @ + n, !.want = @ - n]
           /\ got' \in Seq(Nat) /\ Len(got') = Len(got) + n
           /\ \A i \in 1 .. Len(got) : got'[i] = got[i]
           /\ \A i \in 1 .. n : got'[Len(got) + i] = reader.first + reader.off + i
<1> DEFINE n == Least(reader.want, reader.count - reader.off)
<1>1. /\ phase = "read" /\ reader.off < reader.count
      /\ reader' = [reader EXCEPT !.off = @ + n, !.want = @ - n]
      /\ got' = got \o Run(n)
  BY DEF ReadExact, Reading
<1>2. /\ reader.count \in Nat /\ reader.off \in Nat /\ reader.want \in Nat
      /\ reader.first \in Nat /\ got \in Seq(Nat) /\ Len(got) \in Nat
  BY <1>1, ReaderTyped
<1>3. n \in Nat /\ n <= reader.want /\ n <= reader.count - reader.off
  <2>1. reader.count - reader.off \in Nat
    BY <1>1, <1>2
  <2> QED BY <1>2, <2>1, LeastBounds
<1> HIDE DEF n
<1>4. Run(n) \in Seq(Nat) /\ Len(Run(n)) = n
      /\ \A i \in 1 .. n : Run(n)[i] = reader.first + reader.off + i
  BY <1>2, <1>3, SMTT(60) DEF Run
<1> DEFINE r == Run(n)
<1> HIDE DEF r
<1>5. /\ got' \in Seq(Nat) /\ Len(got') = Len(got) + n
      /\ \A i \in 1 .. Len(got) : got'[i] = got[i]
      /\ \A i \in 1 .. n : got'[Len(got) + i] = r[i]
  <2>1. r \in Seq(Nat) /\ Len(r) = n /\ got' = got \o r
    BY <1>1, <1>4 DEF r
  <2>2. got' \in Seq(Nat) /\ Len(got') = Len(got) + n
    <3>1. got \in Seq(Nat)
      BY <1>2
    <3>2. got \o r \in Seq(Nat) /\ Len(got \o r) = Len(got) + Len(r)
      BY <2>1, <3>1
    <3> QED BY <2>1, <3>2
  <2>3. ASSUME NEW i \in 1 .. Len(got) PROVE got'[i] = got[i]
    BY <1>2, <1>3, <2>1
  <2>4. ASSUME NEW i \in 1 .. n PROVE got'[Len(got) + i] = r[i]
    BY <1>2, <1>3, <2>1, SMTT(60)
  <2> QED BY <2>2, <2>3, <2>4
<1>6. \A i \in 1 .. n : got'[Len(got) + i] = reader.first + reader.off + i
  BY <1>4, <1>5 DEF r
<1> QED BY <1>1, <1>3, <1>5, <1>6

LEMMA ReadExactKeeps ==
  ASSUME Inv, ReadExact
  PROVE  Inv'
<1>1. /\ phase = "read" /\ phase' = "read" /\ UNCHANGED wvars /\ answer' = answer
      /\ reader.off < reader.count /\ reader.skip = 0
  BY SMTT(60) DEF ReadExact, Reading
<1>2. PICK n \in Nat :
        /\ n <= reader.want /\ n <= reader.count - reader.off
        /\ reader' = [reader EXCEPT !.off = @ + n, !.want = @ - n]
        /\ got' \in Seq(Nat) /\ Len(got') = Len(got) + n
  BY ReadExactAppends
<1>3. /\ reader \in Reader /\ reader.count \in Nat /\ reader.off \in Nat
      /\ reader.want \in Nat /\ reader.first \in Nat /\ Len(got) \in Nat
      /\ reader.item.from \in Nat /\ reader.item.size \in Nat
  BY <1>1, ReaderTyped
<1>4. /\ reader'.item = reader.item /\ reader'.pos = reader.pos
      /\ reader'.first = reader.first /\ reader'.count = reader.count
      /\ reader'.off = reader.off + n /\ reader'.skip = 0
      /\ reader'.want = reader.want - n
      /\ reader' \in Reader
  <2>1. reader.off + n \in Nat /\ reader.want - n \in Nat
    BY <1>2, <1>3, SMTT(60)
  <2> DEFINE o == reader.off + n
             s == reader.want - n
  <2>2. reader' = [reader EXCEPT !.off = o, !.want = s] /\ o \in Nat /\ s \in Nat
        /\ reader \in Reader
    BY <1>1, <1>2, <1>3, <2>1
  <2> HIDE DEF o, s
  <2>3. /\ reader' \in Reader /\ reader'.item = reader.item /\ reader'.pos = reader.pos
        /\ reader'.first = reader.first /\ reader'.count = reader.count
        /\ reader'.off = o /\ reader'.want = s /\ reader'.skip = reader.skip
    BY <2>2 DEF Reader
  <2> QED BY <1>1, <2>3 DEF o, s
<1>5. TypeOK'
  BY <1>1, <1>2, <1>4 DEF Inv, TypeOK, wvars
<1>6. ReaderOnTrack'
  <2>1. PICK k \in 1 .. Len(blocks) : Loaded(k)
    BY <1>1, BlockLoaded
  <2>2. reader.item \in refs /\ Len(got) + reader.want = reader.item.size
    BY <1>1 DEF Inv, TableInvariant, ReaderOnTrack
  <2>3. reader.first + reader.off = reader.item.from + Len(got)
    <3>1. reader.first + reader.off + reader.skip = reader.item.from + Len(got)
      BY <2>1 DEF Loaded
    <3> QED BY <1>1, <1>3, <3>1
  <2>4. /\ reader'.first + reader'.off + reader'.skip = reader'.item.from + Len(got')
        /\ reader'.off <= reader'.count
        /\ Len(got') + reader'.want = reader'.item.size
    <3>1. reader.first + (reader.off + n) + 0 = reader.item.from + (Len(got) + n)
      <4> DEFINE a == reader.first
                 b == reader.off
                 c == reader.item.from
                 d == Len(got)
      <4>1. a \in Nat /\ b \in Nat /\ c \in Nat /\ d \in Nat /\ n \in Nat /\ a + b = c + d
        BY <1>3, <2>3
      <4> HIDE DEF a, b, c, d
      <4>2. a + (b + n) + 0 = c + (d + n)
        BY <4>1
      <4> QED BY <4>2 DEF a, b, c, d
    <3>2. reader.off + n <= reader.count
          /\ (Len(got) + n) + (reader.want - n) = reader.item.size
      BY <1>2, <1>3, <2>2, SMTT(60)
    <3> QED BY <1>2, <1>4, <3>1, <3>2
  <2>5. Loaded(k)' /\ k \in 1 .. Len(blocks')
    BY <1>1, <1>4, <2>1, <2>4 DEF Loaded, wvars
  <2> QED BY <1>1, <1>4, <2>2, <2>4, <2>5 DEF ReaderOnTrack, wvars
<1> QED BY <1>1, <1>5, <1>6, TableKept DEF Inv, TableInvariant

LEMMA CloseKeeps ==
  ASSUME Inv, Close
  PROVE  Inv'
<1>1. phase = "read" /\ phase' = "idle" /\ answer' = got /\ UNCHANGED <<wvars, reader, got>>
  BY DEF Close
<1>2. got \in Seq(Nat)
  BY DEF Inv, TypeOK
<1>3. TypeOK'
  BY <1>1, <1>2 DEF Inv, TypeOK, wvars
<1>4. ReaderOnTrack'
  BY <1>1 DEF ReaderOnTrack
<1> QED BY <1>1, <1>3, <1>4, TableKept DEF Inv, TableInvariant

(* The invariant is inductive.                                             *)
LEMMA NextKeeps == Inv /\ [Next]_vars => Inv'
<1> SUFFICES ASSUME Inv, [Next]_vars PROVE Inv'
  OBVIOUS
<1>1. ASSUME NEW n \in Sizes, Write(n) PROVE Inv'
  BY <1>1, WriteKeeps
<1>2. ASSUME NEW item \in refs, Open(item) PROVE Inv'
  BY <1>2, OpenKeeps
<1>3. CASE UNCHANGED vars
  BY <1>3, ZenonT(60) DEF vars, wvars, Inv, TypeOK, TableInvariant, BlocksInOrder, EndOfBytes,
     EndOfBlocks, Leads, StartsIn, ReaderOnTrack, Loaded
<1> QED BY <1>1, <1>2, <1>3, CopyKeeps, FinishKeeps, LoadKeeps, SkipKeeps, ReadExactKeeps,
           CloseKeeps DEF Next

THEOREM InvHolds == Spec => []Inv
BY InitHolds, NextKeeps, PTL DEF Spec

(* The blocks lie in order and every reference leads to its bytes.         *)
THEOREM TableInvariantHolds == Spec => []TableInvariant
BY InvHolds, PTL DEF Inv

THEOREM TypeCorrect == Spec => []TypeOK
BY InvHolds, PTL DEF Inv

(* Readers never meet the end of the table, whatever they are sent to read *)
(* and however its blocks were compressed.                                 *)
THEOREM ReaderNeverFails == Spec => []NeverFails
<1>1. Init => NeverFails
  BY DEF Init, NeverFails
<1>2. ASSUME Inv, NeverFails, [Next]_vars PROVE NeverFails'
  <2>1. CASE Load
    BY <1>2, <2>1, LoadKeeps DEF NeverFails
  <2>2. CASE ~Load
    BY <1>2, <2>2 DEF NeverFails, Next, vars, Write, Copy, Finish, Open, Skip, ReadExact, Close
  <2> QED BY <2>1, <2>2
<1> QED BY <1>1, <1>2, InvHolds, PTL DEF Spec

(* What is read is what was written.                                       *)
THEOREM ReadsBackHolds == Spec => []ReadsBack
<1>1. Init => ReadsBack
  BY DEF Init, ReadsBack
<1>2. ASSUME Inv, ReadsBack, [Next]_vars PROVE ReadsBack'
  <2>1. CASE ReadExact
    <3>1. PICK n \in Nat :
            /\ n <= reader.want /\ n <= reader.count - reader.off
            /\ reader' = [reader EXCEPT !.off = @ + n, !.want = @ - n]
            /\ got' \in Seq(Nat) /\ Len(got') = Len(got) + n
            /\ \A i \in 1 .. Len(got) : got'[i] = got[i]
            /\ \A i \in 1 .. n : got'[Len(got) + i] = reader.first + reader.off + i
      BY <1>2, <2>1, ReadExactAppends
    <3>2. phase = "read" /\ phase' = "read" /\ reader.off < reader.count /\ reader.skip = 0
      BY <2>1 DEF ReadExact, Reading
    <3>3. /\ reader \in Reader /\ reader.first \in Nat /\ reader.off \in Nat
          /\ reader.item.from \in Nat /\ Len(got) \in Nat
      BY <1>2, <3>2, ReaderTyped
    <3>4. reader'.item = reader.item
      BY <3>1, <3>3 DEF Reader
    <3>5. reader.first + reader.off = reader.item.from + Len(got)
      <4>1. PICK k \in 1 .. Len(blocks) : Loaded(k)
        BY <1>2, <3>2, BlockLoaded
      <4>2. reader.first + reader.off + reader.skip = reader.item.from + Len(got)
        BY <4>1 DEF Loaded
      <4> QED BY <3>2, <3>3, <4>2
    <3>6. ASSUME NEW i \in 1 .. Len(got') PROVE got'[i] = reader'.item.from + i
      <4>1. CASE i \in 1 .. Len(got)
        BY <1>2, <3>1, <3>2, <3>4, <4>1 DEF ReadsBack
      <4>2. CASE i \notin 1 .. Len(got)
        <5>1. i - Len(got) \in 1 .. n /\ i = Len(got) + (i - Len(got))
          BY <3>1, <3>3, <4>2, SMTT(60)
        <5>2. got'[i] = reader.first + reader.off + (i - Len(got))
          BY <3>1, <5>1
        <5> QED BY <3>3, <3>4, <3>5, <5>1, <5>2, SMTT(60)
      <4> QED BY <4>1, <4>2
    <3> QED BY <3>6 DEF ReadsBack
  <2>2. CASE Load
    <3>1. reader'.item = reader.item /\ got' = got /\ phase = "read"
      <4>1. phase = "read" /\ got' = got
        BY <2>2 DEF Load, Reading
      <4>2. reader \in Reader
        BY <1>2, <4>1, ReaderTyped
      <4> QED BY <2>2, <4>1, <4>2 DEF Load, Reader
    <3> QED BY <1>2, <3>1 DEF ReadsBack
  <2>3. CASE Skip
    <3>1. phase = "read" /\ got' = got
      BY <2>3 DEF Skip, Reading
    <3>2. reader \in Reader
      BY <1>2, <3>1, ReaderTyped
    <3>3. reader'.item = reader.item
      BY <2>3, <3>2 DEF Skip, Reader
    <3> QED BY <1>2, <3>1, <3>3 DEF ReadsBack
  <2>4. ASSUME NEW item \in refs, Open(item) PROVE ReadsBack'
    <3>1. Len(got') = 0
      BY <2>4 DEF Open
    <3> QED BY <3>1 DEF ReadsBack
  <2>5. CASE Close
    BY <2>5 DEF Close, ReadsBack
  <2>6. ASSUME NEW n \in Sizes, Write(n) PROVE ReadsBack'
    BY <2>6 DEF Write, ReadsBack
  <2>7. CASE Copy \/ Finish
    BY <2>7 DEF Copy, Finish, ReadsBack
  <2>8. CASE UNCHANGED vars
    BY <1>2, <2>8 DEF vars, ReadsBack
  <2> QED BY <1>2, <2>1, <2>2, <2>3, <2>4, <2>5, <2>6, <2>7, <2>8 DEF Next
<1> QED BY <1>1, <1>2, InvHolds, PTL DEF Spec

(* A reference has not been handed out before: an older one leads into a   *)
(* block, or to an earlier byte of the buffer.                             *)
LEMMA NewReference ==
  ASSUME Inv, NEW n \in Sizes, Write(n), NEW other \in refs
  PROVE  other.ref # MakeRef(byteLen, buf)
<1> SUFFICES ASSUME other.ref = MakeRef(byteLen, buf) PROVE FALSE
  OBVIOUS
<1>1. buf \in Nat /\ buf < RefScale /\ byteLen \in Nat /\ written \in Nat
  BY SizesAssumption DEF Inv, TypeOK, RefScale
<1>2. RefBlock(other.ref) = byteLen /\ RefOffset(other.ref) = buf
  BY <1>1, RefParts
<1>3. Leads(other) /\ other \in Item /\ todo = 0 /\ EndOfBytes + buf = written
  BY DEF Inv, TypeOK, TableInvariant, BlocksInOrder, Write
<1>4. other.from \in Nat /\ other.size \in Nat /\ 0 < other.size
      /\ other.from + other.size <= written
  <2>1. other.from + other.size <= written + todo
    BY <1>3 DEF Leads
  <2> QED BY <1>1, <1>3, <2>1, ItemTyped
<1>5. CASE \E k \in 1 .. Len(blocks) :
             StartsIn(k, RefBlock(other.ref), RefOffset(other.ref), other.from)
  <2>1. PICK k \in 1 .. Len(blocks) : blocks[k].at = byteLen
    BY <1>2, <1>5 DEF StartsIn
  <2>2. blocks[k].at < byteLen
    BY DEF Inv, TableInvariant, BlocksInOrder, Write
  <2> QED BY <1>1, <2>1, <2>2
<1>6. CASE EndOfBytes + RefOffset(other.ref) = other.from
  BY <1>1, <1>2, <1>3, <1>4, <1>6
<1> QED BY <1>3, <1>5, <1>6 DEF Leads

(* The tables implement the store they promise to be.                      *)
THEOREM TableIsAStore == Spec => StoreSpec
<1>1. Init => Store!Init
  BY DEF Init, Store!Init
<1>2. ASSUME Inv, ReadsBack, [Next]_vars
      PROVE  [Store!Put \/ Store!Get]_<<refs, answer>>
  <2>1. ASSUME NEW n \in Sizes, Write(n) PROVE Store!Put
    <3> DEFINE item == [ref |-> MakeRef(byteLen, buf), from |-> written, size |-> n]
    <3>1. refs' = refs \cup {item} /\ answer' = answer
      BY <2>1 DEF Write
    <3>2. buf \in Nat /\ buf < RefScale /\ byteLen \in Nat /\ written \in Nat
          /\ n \in Nat \ {0}
      BY <1>2, SizesAssumption DEF Inv, TypeOK, RefScale
    <3>3. item \in Store!Item
      BY <3>2, RefParts DEF Store!Item
    <3>4. \A other \in refs : other.ref # item.ref
      BY <1>2, <2>1, NewReference
    <3> QED BY <3>1, <3>3, <3>4 DEF Store!Put
  <2>2. CASE Close
    <3>1. phase = "read" /\ ~Reading /\ answer' = got /\ refs' = refs
      BY <2>2 DEF Close, wvars
    <3>2. /\ reader.item \in refs /\ got \in Seq(Nat) /\ Len(got) = reader.item.size
      <4>1. reader.skip + reader.want <= 0
        BY <1>2, <3>1, ReaderTyped DEF Reading
      <4> QED BY <1>2, <3>1, <4>1, ReaderTyped, SMTT(60) DEF Inv, TableInvariant, ReaderOnTrack
    <3>3. got = [i \in 1 .. reader.item.size |-> reader.item.from + i]
      BY <1>2, <3>1, <3>2 DEF ReadsBack
    <3> QED BY <3>1, <3>2, <3>3 DEF Store!Get, Store!Bytes
  <2>3. CASE Copy \/ Finish \/ Load \/ Skip \/ ReadExact \/ UNCHANGED vars
    BY <2>3 DEF Copy, Finish, Load, Skip, ReadExact, vars, wvars
  <2>4. ASSUME NEW item \in refs, Open(item) PROVE UNCHANGED <<refs, answer>>
    BY <2>4 DEF Open, wvars
  <2> QED BY <1>2, <2>1, <2>2, <2>3, <2>4 DEF Next
<1> QED BY <1>1, <1>2, InvHolds, ReadsBackHolds, PTL DEF Spec, StoreSpec, Store!Spec
=============================================================================
