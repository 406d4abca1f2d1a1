------------------------ MODULE DirectoryTableProofs ------------------------
(***************************************************************************)
(* Proofs about DirectoryTable for all sizes, numbers and bounds.          *)
(***************************************************************************)
EXTENDS DirectoryTable, SequenceTheorems, TLAPS

(* The headers divide the entries among them, in order.                    *)
HeadersInOrder ==
  /\ Len(headers) = 0 => Len(entries) = 0
  /\ Len(headers) > 0 => headers[1].first = 1
  /\ \A h \in 1 .. Len(headers) : headers[h].first <= Len(entries)
  /\ \A g, h \in 1 .. Len(headers) : g < h => headers[g].first < headers[h].first

Inv == TypeOK /\ HeadersInOrder /\ EntriesFitTheirHeader

LEMMA InitHolds == Init => Inv
BY SizesAssumption DEF Init, Inv, TypeOK, HeadersInOrder, EntriesFitTheirHeader

(* What one more entry does to dir_buf, with a header and without.         *)
LEMMA AddEntryEffect ==
  ASSUME TypeOK, NEW size \in EntrySizes, NEW block \in InodeBlocks, NEW number \in Numbers,
         AddEntry(size, block, number)
  PROVE  /\ TypeOK'
         /\ \E e \in Entry : /\ entries' = Append(entries, e)
                             /\ e.block = block /\ e.number = number
         /\ NeedsHeader(size, block, number) =>
              \E h \in Header : /\ headers' = Append(headers, h)
                               /\ h.block = block /\ h.base = number
                               /\ h.first = Len(entries) + 1
         /\ ~NeedsHeader(size, block, number) => headers' = headers
<1> DEFINE new == NeedsHeader(size, block, number)
           at  == IF new THEN len + HeaderSize ELSE len
           e   == [at |-> at, size |-> size, block |-> block, number |-> number]
           h   == [at |-> len, block |-> block, base |-> number, first |-> Len(entries) + 1]
<1>1. /\ len \in Nat /\ HeaderSize \in Nat /\ size \in Nat /\ MaxEntries \in Nat
      /\ Len(entries) \in Nat /\ Len(entries) < MaxEntries
      /\ entries \in Seq(Entry) /\ headers \in Seq(Header) /\ raw \in Seq(Nat)
  BY SizesAssumption DEF TypeOK, AddEntry
<1>2. at \in Nat
  BY <1>1
<1>3. e \in Entry /\ h \in Header
  BY <1>1, <1>2 DEF Entry, Header
<1>4. /\ entries' = Append(entries, e)
      /\ headers' = IF new THEN Append(headers, h) ELSE headers
      /\ raw' = IF new /\ NeedsIndex(size) THEN Append(raw, len) ELSE raw
      /\ len' = at + size
      /\ UNCHANGED <<phase, startOff, written, final>>
  BY DEF AddEntry
<1>5. len' \in Nat /\ len <= len'
  BY <1>1, <1>2, <1>4
<1>6. entries' \in Seq(Entry) /\ headers' \in Seq(Header) /\ raw' \in Seq(Nat)
  <2> HIDE DEF e, h, new
  <2> QED BY <1>1, <1>3, <1>4
<1>7. written' \in 0 .. len'
  BY <1>1, <1>4, <1>5 DEF TypeOK
<1>8. TypeOK'
  BY <1>4, <1>5, <1>6, <1>7 DEF TypeOK
<1>9. e.block = block /\ e.number = number /\ h.block = block /\ h.base = number
      /\ h.first = Len(entries) + 1
  OBVIOUS
<1> HIDE DEF e, h
<1> QED BY <1>3, <1>4, <1>8, <1>9

LEMMA AddEntryKeeps ==
  ASSUME Inv, NEW size \in EntrySizes, NEW block \in InodeBlocks, NEW number \in Numbers,
         AddEntry(size, block, number)
  PROVE  Inv'
<1> DEFINE n == Len(entries)
           m == Len(headers)
<1>1. TypeOK /\ HeadersInOrder /\ EntriesFitTheirHeader
  BY DEF Inv
<1>2. PICK e \in Entry : /\ entries' = Append(entries, e)
                         /\ e.block = block /\ e.number = number
  BY <1>1, AddEntryEffect
<1>3. /\ n \in Nat /\ m \in Nat /\ entries \in Seq(Entry) /\ headers \in Seq(Header)
      /\ GroupMax \in Nat /\ GroupMax > 0 /\ DeltaMax \in Nat /\ number \in Nat
  BY <1>1, SizesAssumption, SMTT(60) DEF TypeOK
<1>4. /\ Len(entries') = n + 1 /\ \A i \in 1 .. n : entries'[i] = entries[i]
      /\ entries'[n + 1] = e
  BY <1>2, <1>3
<1>5. \A h \in 1 .. m : headers[h].first \in Nat /\ headers[h].first >= 1
                          /\ headers[h].first <= n
  <2>1. ASSUME NEW h \in 1 .. m
        PROVE  headers[h].first \in Nat /\ headers[h].first >= 1
    <3>1. headers[h] \in Header
      BY <1>3
    <3>2. headers[h].first \in 1 .. MaxEntries /\ MaxEntries \in Nat
      BY <3>1, SizesAssumption DEF Header
    <3> QED BY <3>2
  <2> QED BY <1>1, <2>1 DEF HeadersInOrder
<1>6. TypeOK'
  BY <1>1, AddEntryEffect
<1>7. CASE NeedsHeader(size, block, number)
  <2>1. PICK h \in Header : /\ headers' = Append(headers, h)
                            /\ h.block = block /\ h.base = number /\ h.first = n + 1
    BY <1>1, <1>7, AddEntryEffect
  <2>2. /\ Len(headers') = m + 1 /\ \A i \in 1 .. m : headers'[i] = headers[i]
        /\ headers'[m + 1] = h
    BY <1>3, <2>1
  <2>3. HeadersInOrder'
    <3>1. headers'[1].first = 1
      <4>1. CASE m = 0
        BY <1>1, <1>3, <2>1, <2>2, <4>1 DEF HeadersInOrder
      <4>2. CASE m > 0
        BY <1>1, <1>3, <2>2, <4>2, SMTT(60) DEF HeadersInOrder
      <4> QED BY <1>3, <4>1, <4>2
    <3>2. ASSUME NEW g \in 1 .. Len(headers') PROVE headers'[g].first <= Len(entries')
      <4>1. CASE g \in 1 .. m
        BY <1>3, <1>4, <1>5, <2>2, <4>1, SMTT(60)
      <4>2. CASE g = m + 1
        BY <1>3, <1>4, <2>1, <2>2, <4>2
      <4> QED BY <1>3, <2>2, <4>1, <4>2
    <3>3. ASSUME NEW g \in 1 .. Len(headers'), NEW k \in 1 .. Len(headers'), g < k
          PROVE  headers'[g].first < headers'[k].first
      <4>1. g \in 1 .. m
        BY <1>3, <2>2, <3>3
      <4>2. CASE k \in 1 .. m
        BY <1>1, <2>2, <3>3, <4>1, <4>2 DEF HeadersInOrder
      <4>3. CASE k = m + 1
        BY <1>3, <1>5, <2>1, <2>2, <4>1, <4>3
      <4> QED BY <1>3, <2>2, <4>2, <4>3
    <3> QED BY <1>3, <2>2, <3>1, <3>2, <3>3 DEF HeadersInOrder
  <2>4. ASSUME NEW g \in 1 .. Len(headers'), NEW i \in 1 .. Len(entries'), IsOver(g, i)'
        PROVE  /\ entries'[i].block = headers'[g].block
               /\ entries'[i].number - headers'[g].base \in -DeltaMax - 1 .. DeltaMax
               /\ i - headers'[g].first < GroupMax
    <3>1. CASE g = m + 1
      <4>1. i = n + 1
        BY <1>3, <1>4, <2>1, <2>2, <2>4, <3>1, SMTT(60) DEF IsOver
      <4> QED BY <1>2, <1>3, <1>4, <2>1, <2>2, <3>1, <4>1, SMTT(60)
    <3>2. CASE g \in 1 .. m
      <4>1. g # Len(headers') /\ headers'[g + 1].first > i /\ headers'[g].first <= i
        BY <1>3, <2>2, <2>4, <3>2 DEF IsOver
      <4>2. g + 1 \in 1 .. m \/ g = m
        BY <1>3, <3>2
      <4>3. i \in 1 .. n
        <5>1. CASE g = m
          BY <1>3, <1>4, <2>1, <2>2, <4>1, <5>1
        <5>2. CASE g + 1 \in 1 .. m
          BY <1>3, <1>4, <1>5, <2>2, <4>1, <5>2, SMTT(60)
        <5> QED BY <4>2, <5>1, <5>2
      <4>4. IsOver(g, i)
        <5>1. CASE g = m
          BY <2>2, <3>2, <4>1, <5>1 DEF IsOver
        <5>2. CASE g + 1 \in 1 .. m
          BY <2>2, <3>2, <4>1, <5>2 DEF IsOver
        <5> QED BY <4>2, <5>1, <5>2
      <4> QED BY <1>1, <1>4, <2>2, <3>2, <4>3, <4>4 DEF EntriesFitTheirHeader
    <3> QED BY <1>3, <2>2, <3>1, <3>2
  <2> QED BY <1>6, <2>3, <2>4 DEF Inv, EntriesFitTheirHeader
<1>8. CASE ~NeedsHeader(size, block, number)
  <2>1. headers' = headers
    BY <1>1, <1>8, AddEntryEffect
  <2>2. /\ m > 0 /\ GroupSize < GroupMax /\ block = headers[m].block
        /\ number - headers[m].base \in -DeltaMax - 1 .. DeltaMax
    <3>1. headers # <<>> /\ ~(GroupSize >= GroupMax) /\ block = headers[m].block
          /\ number - headers[m].base \in -DeltaMax - 1 .. DeltaMax
      BY <1>8 DEF NeedsHeader, Current
    <3>2. m \in 1 .. m /\ m > 0
      BY <1>3, <3>1
    <3>3. GroupSize \in Int
      BY <1>3, <1>5, <3>2 DEF GroupSize, Current
    <3> QED BY <1>3, <3>1, <3>2, <3>3
  <2>3. HeadersInOrder'
    BY <1>1, <1>3, <1>4, <1>5, <2>1, <2>2, SMTT(60) DEF HeadersInOrder
  <2>4. ASSUME NEW g \in 1 .. Len(headers'), NEW i \in 1 .. Len(entries'), IsOver(g, i)'
        PROVE  /\ entries'[i].block = headers'[g].block
               /\ entries'[i].number - headers'[g].base \in -DeltaMax - 1 .. DeltaMax
               /\ i - headers'[g].first < GroupMax
    <3>1. IsOver(g, i) /\ g \in 1 .. m
      BY <2>1, <2>4 DEF IsOver
    <3>2. CASE i \in 1 .. n
      BY <1>1, <1>4, <2>1, <3>1, <3>2 DEF EntriesFitTheirHeader
    <3>3. CASE i = n + 1
      <4>1. g = m
        <5>1. SUFFICES ASSUME g # m PROVE FALSE
          OBVIOUS
        <5>2. g + 1 \in 1 .. m /\ headers[g + 1].first > n + 1
          BY <1>3, <3>1, <3>3, <5>1, SMTT(60) DEF IsOver
        <5> QED BY <1>3, <1>5, <5>2, SMTT(60)
      <4>2. i - headers[m].first < GroupMax
        BY <1>3, <1>5, <2>2, <3>3, SMTT(60) DEF GroupSize, Current
      <4> QED BY <1>2, <1>4, <2>1, <2>2, <3>3, <4>1, <4>2
    <3> QED BY <1>3, <1>4, <3>2, <3>3, SMTT(60)
  <2> QED BY <1>6, <2>3, <2>4 DEF Inv, EntriesFitTheirHeader
<1> QED BY <1>7, <1>8

(* Only the building adds headers and entries.                             *)
LEMMA WriteChunkTyped ==
  ASSUME TypeOK, WriteChunk
  PROVE  TypeOK'
<1>1. BlockSize \in Nat /\ BlockSize > 0 /\ startOff \in Nat /\ startOff < BlockSize
      /\ written \in Nat /\ len \in Nat /\ written <= len
  BY SizesAssumption, SMTT(60) DEF TypeOK
<1>2. BlockNow \in Nat /\ (startOff + written) < (BlockNow + 1) * BlockSize
  BY <1>1 DEF BlockNow
<1>3. Boundary \in Nat
  <2>1. (BlockNow + 1) * BlockSize \in Nat
    BY <1>1, <1>2
  <2> QED BY <1>1, <1>2, <2>1 DEF Boundary
<1>4. ChunkEnd \in 0 .. len
  BY <1>1, <1>3 DEF ChunkEnd
<1>5. PICK k \in Len(final) .. Len(raw) :
        final' = final \o [j \in 1 .. k - Len(final) |->
                             [index |-> raw[Len(final) + j], block |-> BlockNow]]
  BY DEF WriteChunk
<1> DEFINE l == Len(final)
           more == [j \in 1 .. k - l |-> [index |-> raw[l + j], block |-> BlockNow]]
           T == [index: Nat, block: Nat]
<1>6. l \in Nat /\ raw \in Seq(Nat) /\ final \in Seq(T) /\ k - l \in Nat /\ k <= Len(raw)
      /\ Len(raw) \in Nat
  BY <1>5 DEF TypeOK
<1>7. ASSUME NEW j \in 1 .. k - l PROVE raw[l + j] \in Nat
  <2>1. l + j \in 1 .. Len(raw)
    BY <1>6
  <2> QED BY <1>6, <2>1, SMTT(60)
<1>8. more \in Seq(T)
  BY <1>2, <1>6, <1>7
<1>9. final' \in Seq(T)
  <2> HIDE DEF T
  <2>1. final' = final \o more
    BY <1>5
  <2> HIDE DEF more
  <2> QED BY <1>6, <1>8, <2>1
<1> QED BY <1>1, <1>4, <1>9 DEF TypeOK, WriteChunk

LEMMA NextKeeps == Inv /\ [Next]_vars => Inv'
<1> SUFFICES ASSUME Inv, [Next]_vars PROVE Inv'
  OBVIOUS
<1>1. ASSUME NEW size \in EntrySizes, NEW block \in InodeBlocks, NEW number \in Numbers,
             AddEntry(size, block, number)
      PROVE  Inv'
  BY <1>1, AddEntryKeeps
<1>2. CASE BuildEnds
  <2>1. TypeOK'
    <3>1. len \in 0 .. len
      BY DEF Inv, TypeOK
    <3> QED BY <1>2, <3>1 DEF Inv, TypeOK, BuildEnds
  <2> QED BY <1>2, <2>1 DEF Inv, BuildEnds, HeadersInOrder, EntriesFitTheirHeader, IsOver
<1>3. CASE WriteChunk
  BY <1>3, WriteChunkTyped DEF Inv, WriteChunk, HeadersInOrder, EntriesFitTheirHeader, IsOver
<1>4. CASE UNCHANGED vars
  BY <1>4, ZenonT(60) DEF vars, Inv, TypeOK, HeadersInOrder, EntriesFitTheirHeader, IsOver
<1> QED BY <1>1, <1>2, <1>3, <1>4 DEF Next, Returned

(* Every entry fits its header: its number can be told from 16 bits.       *)
THEOREM EntriesFit == Spec => []EntriesFitTheirHeader
BY InitHolds, NextKeeps, PTL DEF Spec, Inv

THEOREM DirectoryTypeCorrect == Spec => []TypeOK
BY InitHolds, NextKeeps, PTL DEF Spec, Inv

-----------------------------------------------------------------------------
(***************************************************************************)
(* The indexes.  While the entries are put together, an index is the place *)
(* of a header; while they are written, the indexes that have no block yet *)
(* lie in what is still to be written.                                     *)
(***************************************************************************)
HeadersInBuffer == \A h \in 1 .. Len(headers) : headers[h].at < len

IndexesAreHeaders ==
  \A k \in 1 .. Len(raw) : \E h \in 1 .. Len(headers) : headers[h].at = raw[k]

NothingYet ==
  /\ headers = <<>> => len = 0 /\ raw = <<>>
  /\ phase = "build" => written = 0 /\ final = <<>>

FinalIsRaw ==
  /\ Len(final) <= Len(raw)
  /\ \A k \in 1 .. Len(final) : /\ final[k].index = raw[k]
                                /\ (startOff + raw[k]) \div BlockSize = final[k].block
  /\ \A k \in Len(final) + 1 .. Len(raw) : raw[k] >= written
  /\ phase = "done" => Len(final) = Len(raw)

IndexInv == HeadersInBuffer /\ IndexesAreHeaders /\ NothingYet /\ FinalIsRaw /\ IndexedOften

LEMMA IndexInit == Init => IndexInv
BY SizesAssumption
DEF Init, IndexInv, HeadersInBuffer, IndexesAreHeaders, NothingYet, FinalIsRaw, IndexedOften

(* One more entry, by its header.                                          *)
LEMMA AddEntryIndexes ==
  ASSUME TypeOK, NEW size \in EntrySizes, NEW block \in InodeBlocks, NEW number \in Numbers,
         AddEntry(size, block, number)
  PROVE  \E at \in Nat, e \in Entry, h \in Header :
           /\ at = IF NeedsHeader(size, block, number) THEN len + HeaderSize ELSE len
           /\ len' = at + size /\ entries' = Append(entries, e) /\ e.at = at /\ e.size = size
           /\ h.at = len
           /\ headers' = IF NeedsHeader(size, block, number) THEN Append(headers, h) ELSE headers
           /\ raw' = IF NeedsHeader(size, block, number) /\ NeedsIndex(size)
                     THEN Append(raw, len) ELSE raw
<1> DEFINE new == NeedsHeader(size, block, number)
           at  == IF new THEN len + HeaderSize ELSE len
           e   == [at |-> at, size |-> size, block |-> block, number |-> number]
           h   == [at |-> len, block |-> block, base |-> number, first |-> Len(entries) + 1]
<1>1. /\ len \in Nat /\ HeaderSize \in Nat /\ MaxEntries \in Nat
      /\ Len(entries) \in Nat /\ Len(entries) < MaxEntries
  BY SizesAssumption DEF TypeOK, AddEntry
<1>2. at \in Nat
  BY <1>1
<1>3. e \in Entry /\ h \in Header
  BY <1>1, <1>2 DEF Entry, Header
<1>4. /\ entries' = Append(entries, e)
      /\ headers' = IF new THEN Append(headers, h) ELSE headers
      /\ raw' = IF new /\ NeedsIndex(size) THEN Append(raw, len) ELSE raw
      /\ len' = at + size
  BY DEF AddEntry
<1>5. e.at = at /\ e.size = size /\ h.at = len
  OBVIOUS
<1> HIDE DEF e, h
<1> QED BY <1>2, <1>3, <1>4, <1>5

LEMMA AddEntryKeepsIndexes ==
  ASSUME TypeOK, IndexInv, NEW size \in EntrySizes, NEW block \in InodeBlocks,
         NEW number \in Numbers, AddEntry(size, block, number)
  PROVE  IndexInv'
<1> DEFINE new == NeedsHeader(size, block, number)
           index == new /\ NeedsIndex(size)
           m == Len(headers)
           n == Len(entries)
           r == Len(raw)
<1>1. PICK at \in Nat, e \in Entry, h \in Header :
           /\ at = IF new THEN len + HeaderSize ELSE len
           /\ len' = at + size /\ entries' = Append(entries, e) /\ e.at = at /\ e.size = size
           /\ h.at = len
           /\ headers' = IF new THEN Append(headers, h) ELSE headers
           /\ raw' = IF index THEN Append(raw, len) ELSE raw
  BY AddEntryIndexes
<1> HIDE DEF new, index
<1>0. entries \in Seq(Entry) /\ headers \in Seq(Header) /\ raw \in Seq(Nat)
  BY DEF TypeOK
<1>2. /\ m \in Nat /\ n \in Nat /\ r \in Nat /\ len \in Nat /\ size \in Nat /\ size > 0
      /\ HeaderSize \in Nat /\ HeaderSize > 0 /\ BlockSize \in Nat
      /\ HeaderSize + size <= BlockSize
  BY SizesAssumption, SMTT(60) DEF TypeOK
<1>3. /\ HeadersInBuffer /\ IndexesAreHeaders /\ NothingYet /\ FinalIsRaw /\ IndexedOften
      /\ phase = "build" /\ phase' = "build" /\ written' = written /\ final' = final
  BY DEF IndexInv, AddEntry
<1>4. len <= at /\ at < len'
  BY <1>1, <1>2
<1>5. /\ Len(entries') = n + 1 /\ \A i \in 1 .. n : entries'[i] = entries[i]
      /\ entries'[n + 1] = e
  BY <1>0, <1>1
<1>6. /\ new => /\ Len(headers') = m + 1 /\ headers'[m + 1] = h
                /\ \A i \in 1 .. m : headers'[i] = headers[i]
      /\ index => /\ Len(raw') = r + 1 /\ raw'[r + 1] = len
                  /\ \A k \in 1 .. r : raw'[k] = raw[k]
      /\ ~new => headers' = headers
      /\ ~index => raw' = raw
  BY <1>0, <1>1, SMTT(60)
<1>7. \A i \in 1 .. m : headers[i].at \in Nat /\ headers[i].at < len
  <2>1. \A i \in 1 .. m : headers[i] \in Header
    BY <1>0
  <2> QED BY <1>3, <2>1 DEF HeadersInBuffer, Header
<1>8. \A k \in 1 .. r : raw[k] \in Nat /\ raw[k] < len
  BY <1>0, <1>3, <1>7 DEF IndexesAreHeaders
<1>9. new \/ m > 0
  BY <1>0, <1>2 DEF NeedsHeader, new
<1>10. HeadersInBuffer'
  <2> SUFFICES ASSUME NEW i \in 1 .. Len(headers') PROVE headers'[i].at < len'
    BY DEF HeadersInBuffer
  <2>1. CASE i \in 1 .. m
    <3>1. headers'[i] = headers[i]
      BY <1>6, <2>1
    <3> QED BY <1>1, <1>2, <1>4, <1>7, <2>1, <3>1, SMTT(60)
  <2>2. CASE i \notin 1 .. m
    <3>1. new /\ i = m + 1
      BY <1>2, <1>6, <2>2, SMTT(60)
    <3>2. headers'[i].at = len
      BY <1>1, <1>6, <3>1
    <3> QED BY <1>1, <1>2, <1>4, <3>2, SMTT(60)
  <2> QED BY <2>1, <2>2
<1>11. IndexesAreHeaders'
  <2> SUFFICES ASSUME NEW k \in 1 .. Len(raw')
               PROVE  \E i \in 1 .. Len(headers') : headers'[i].at = raw'[k]
    BY DEF IndexesAreHeaders
  <2>1. CASE k \in 1 .. r
    <3>1. PICK i \in 1 .. m : headers[i].at = raw[k]
      BY <1>3, <2>1 DEF IndexesAreHeaders
    <3>2. raw'[k] = raw[k]
      BY <1>6, <2>1
    <3>3. i \in 1 .. Len(headers') /\ headers'[i] = headers[i]
      BY <1>2, <1>6, SMTT(60)
    <3> QED BY <3>1, <3>2, <3>3
  <2>2. CASE k \notin 1 .. r
    <3>1. index /\ k = r + 1
      BY <1>2, <1>6, <2>2, SMTT(60)
    <3>2. m + 1 \in 1 .. Len(headers') /\ headers'[m + 1].at = raw'[k]
      BY <1>1, <1>2, <1>6, <3>1, SMTT(60) DEF index
    <3> QED BY <3>2
  <2> QED BY <2>1, <2>2
<1>12. NothingYet'
  <2>1. headers' # <<>>
    <3>1. Len(headers') > 0
      BY <1>2, <1>6, <1>9
    <3> QED BY <3>1
  <2> QED BY <1>3, <2>1 DEF NothingYet
<1>13. FinalIsRaw'
  <2>1. Len(final') = 0 /\ written' = 0
    BY <1>3 DEF NothingYet
  <2>2. Len(raw') \in Nat /\ \A k \in 1 .. Len(raw') : raw'[k] >= 0
    <3>1. CASE index
      <4>1. Len(raw') = r + 1 /\ \A k \in 1 .. r + 1 : raw'[k] \in Nat
        <5>1. \A k \in 1 .. r : raw'[k] \in Nat
          BY <1>6, <1>8, <3>1
        <5> QED BY <1>2, <1>6, <3>1, <5>1, SMTT(60)
      <4> QED BY <1>2, <4>1
    <3>2. CASE ~index
      BY <1>2, <1>6, <1>8, <3>2
    <3> QED BY <3>1, <3>2
  <2> QED BY <1>3, <2>1, <2>2 DEF FinalIsRaw
<1>14. IndexedOften'
  <2> SUFFICES ASSUME NEW i \in 1 .. n + 1
               PROVE  \E j \in {0} \cup {raw'[k] : k \in 1 .. Len(raw')} :
                        /\ j < entries'[i].at
                        /\ entries'[i].at + entries'[i].size - j <= BlockSize + HeaderSize
    BY <1>5 DEF IndexedOften
  <2>1. CASE i \in 1 .. n
    <3>1. PICK j \in {0} \cup {raw[k] : k \in 1 .. r} :
            /\ j < entries[i].at
            /\ entries[i].at + entries[i].size - j <= BlockSize + HeaderSize
      BY <1>3, <2>1 DEF IndexedOften
    <3>2. j \in {0} \cup {raw'[k] : k \in 1 .. Len(raw')}
      <4>1. \A k \in 1 .. r : k \in 1 .. Len(raw') /\ raw'[k] = raw[k]
        BY <1>2, <1>6, SMTT(60)
      <4> QED BY <4>1
    <3> QED BY <1>5, <2>1, <3>1, <3>2
  <2>2. CASE i = n + 1 /\ index
    <3>1. len \in {0} \cup {raw'[k] : k \in 1 .. Len(raw')}
      BY <1>2, <1>6, <2>2, SMTT(60)
    <3>2. at = len + HeaderSize
      BY <1>1, <2>2 DEF index
    <3>3. len < at /\ at + size - len <= BlockSize + HeaderSize
      BY <1>2, <3>2
    <3> QED BY <1>1, <1>5, <2>2, <3>1, <3>3
  <2>3. CASE i = n + 1 /\ ~index
    <3> DEFINE last == IF raw = <<>> THEN 0 ELSE raw[r]
    <3>1. last \in {0} \cup {raw'[k] : k \in 1 .. Len(raw')} /\ last \in Nat
          /\ (last = 0 \/ last < len)
      <4>1. CASE raw = <<>>
        BY <4>1
      <4>2. CASE raw # <<>>
        <5>1. r \in 1 .. r
          BY <1>0, <4>2
        <5> QED BY <1>6, <1>8, <2>3, <4>2, <5>1
      <4> QED BY <4>1, <4>2
    <3>2. last < at
      <4>1. CASE new
        BY <1>1, <1>2, <3>1, <4>1, SMTT(60)
      <4>2. CASE ~new
        <5>1. 1 \in 1 .. m
          BY <1>2, <1>9, <4>2
        <5>2. len > 0
          BY <1>2, <1>7, <5>1
        <5> QED BY <1>1, <1>2, <3>1, <4>2, <5>2
      <4> QED BY <4>1, <4>2
    <3>3. len + size - last <= BlockSize
      <4>1. CASE headers = <<>>
        BY <1>2, <1>3, <4>1 DEF NothingYet
      <4>2. CASE headers # <<>>
        <5>1. ~(Distance(size) > BlockSize)
          BY <2>3, <4>2 DEF NeedsHeader, NeedsIndex, new, index
        <5>2. Distance(size) = len + size - last
          BY DEF Distance
        <5> HIDE DEF last
        <5> QED BY <1>2, <3>1, <5>1, <5>2, SMTT(60)
      <4> QED BY <4>1, <4>2
    <3> HIDE DEF last
    <3>4. at + size - last <= BlockSize + HeaderSize
      BY <1>1, <1>2, <3>1, <3>3, SMTT(60)
    <3> QED BY <1>1, <1>5, <2>3, <3>1, <3>2, <3>4
  <2> QED BY <1>2, <2>1, <2>2, <2>3
<1> QED BY <1>10, <1>11, <1>12, <1>13, <1>14 DEF IndexInv

(* What a division rounds down to, and that nothing else fits.             *)
LEMMA DivisionBounds ==
  ASSUME NEW a \in Nat, NEW b \in Nat, b > 0
  PROVE  /\ a \div b \in Nat /\ (a \div b) * b \in Nat
         /\ (a \div b) * b <= a /\ a < (a \div b) * b + b
<1>1. a \div b \in Nat /\ a % b \in 0 .. b - 1 /\ a = b * (a \div b) + (a % b)
  OBVIOUS
<1>2. (a \div b) * b = b * (a \div b) /\ b * (a \div b) \in Nat
  BY <1>1
<1> QED BY <1>1, <1>2

LEMMA DivisionUnique ==
  ASSUME NEW a \in Nat, NEW b \in Nat, b > 0, NEW q \in Nat, q * b <= a, a < q * b + b
  PROVE  a \div b = q
<1> DEFINE r == a \div b
<1>1. /\ r \in Nat /\ r * b \in Nat /\ r * b <= a /\ a < r * b + b
  BY DivisionBounds
<1>2. q * b \in Nat
  OBVIOUS
<1> HIDE DEF r
<1>3. ASSUME NEW x \in Nat, NEW y \in Nat, x < y PROVE x * b + b <= y * b
  <2>1. PICK d \in Nat : y = x + 1 + d
    <3>1. y - x - 1 \in Nat /\ y = x + 1 + (y - x - 1)
      BY <1>3
    <3> QED BY <3>1
  <2>2. y * b = x * b + b + d * b
    BY <2>1
  <2>3. d * b >= 0 /\ d * b \in Nat /\ x * b \in Nat /\ y * b \in Nat
    OBVIOUS
  <2> QED BY <2>2, <2>3
<1>4. ~(r < q) /\ ~(q < r)
  BY <1>1, <1>2, <1>3
<1> QED BY <1>1, <1>4 DEF r

(* A turn of the loop gives the indexes in the current block that block,   *)
(* and what it leaves begins where the block ends, or at the very end.     *)
LEMMA WriteChunkKeepsIndexes ==
  ASSUME TypeOK, IndexInv, WriteChunk
  PROVE  IndexInv'
<1> DEFINE l == Len(final)
           r == Len(raw)
<1>0. raw \in Seq(Nat) /\ final \in Seq([index: Nat, block: Nat])
  BY DEF TypeOK
<1>1. /\ BlockSize \in Nat /\ BlockSize > 0 /\ startOff \in Nat
      /\ written \in Nat /\ len \in Nat /\ l \in Nat /\ r \in Nat
  BY SizesAssumption, SMTT(60) DEF TypeOK
<1>2. /\ HeadersInBuffer /\ IndexesAreHeaders /\ NothingYet /\ FinalIsRaw /\ IndexedOften
      /\ phase = "write" /\ phase' \in {"write", "done"}
      /\ UNCHANGED <<startOff, len, headers, entries, raw>>
  BY DEF IndexInv, WriteChunk
<1>3. \A k \in 1 .. r : raw[k] \in Nat /\ raw[k] < len
  <2>1. \A h \in 1 .. Len(headers) : headers[h].at < len
    BY <1>2 DEF HeadersInBuffer
  <2>2. \A k \in 1 .. r : raw[k] \in Nat
    BY <1>0
  <2> QED BY <1>2, <2>1, <2>2 DEF IndexesAreHeaders
<1>4. /\ BlockNow \in Nat /\ BlockNow * BlockSize <= startOff + written
      /\ Boundary = BlockNow * BlockSize + BlockSize - startOff /\ Boundary \in Int
  <2>1. BlockNow \in Nat /\ BlockNow * BlockSize <= startOff + written
    BY <1>1 DEF BlockNow
  <2>2. (BlockNow + 1) * BlockSize = BlockNow * BlockSize + BlockSize
        /\ BlockNow * BlockSize \in Nat
    BY <1>1, <2>1
  <2> QED BY <1>1, <2>1, <2>2 DEF Boundary
<1>5. PICK k \in l .. r :
        /\ {j \in 1 .. r : j > l /\ raw[j] < Boundary} = l + 1 .. k
        /\ final' = final \o [j \in 1 .. k - l |-> [index |-> raw[l + j], block |-> BlockNow]]
  BY DEF WriteChunk
<1> DEFINE more == [j \in 1 .. k - l |-> [index |-> raw[l + j], block |-> BlockNow]]
<1>6. /\ Len(final') = k
      /\ \A j \in 1 .. l : final'[j] = final[j]
      /\ \A j \in l + 1 .. k : final'[j].index = raw[j] /\ final'[j].block = BlockNow
  <2> DEFINE T == [index: Nat, block: Nat]
  <2>1. more \in Seq(T) /\ Len(more) = k - l
    <3>1. k - l \in Nat
      BY <1>1, <1>5
    <3>2. ASSUME NEW j \in 1 .. k - l PROVE more[j] \in T
      <4>1. l + j \in 1 .. r
        BY <1>1, <1>5
      <4> QED BY <1>3, <1>4, <4>1
    <3> DEFINE next(j) == [index |-> raw[l + j], block |-> BlockNow]
    <3>3. more = [j \in 1 .. k - l |-> next(j)] /\ \A j \in 1 .. k - l : next(j) \in T
      BY <3>2
    <3> HIDE DEF next, T, more
    <3> QED BY <3>1, <3>3
  <2>2. \A j \in 1 .. k - l : more[j].index = raw[l + j] /\ more[j].block = BlockNow
    OBVIOUS
  <2>3. final' = final \o more
    BY <1>5
  <2> HIDE DEF more, T
  <2>0. final \in Seq(T)
    BY <1>0 DEF T
  <2>4. /\ Len(final') = l + (k - l)
        /\ \A j \in 1 .. l : final'[j] = final[j]
        /\ \A j \in l + 1 .. l + (k - l) : final'[j] = more[j - l]
    <3>1. /\ Len(final \o more) = Len(final) + Len(more)
          /\ \A j \in 1 .. Len(final) + Len(more) :
               (final \o more)[j] = IF j <= Len(final) THEN final[j] ELSE more[j - Len(final)]
      BY <2>0, <2>1, ConcatProperties
    <3>2. l = Len(final) /\ l \in Nat /\ k - l \in Nat
      BY <1>1, <1>5
    <3> QED BY <2>1, <2>3, <3>1, <3>2
  <2>5. ASSUME NEW j \in l + 1 .. k
        PROVE  final'[j].index = raw[j] /\ final'[j].block = BlockNow
    <3>1. j - l \in 1 .. k - l /\ l + (j - l) = j /\ j \in l + 1 .. l + (k - l)
      BY <1>1, <1>5
    <3> QED BY <2>2, <2>4, <3>1, SMTT(60)
  <2> QED BY <1>1, <1>5, <2>4, <2>5
<1>7. ASSUME NEW j \in 1 .. k
      PROVE  final'[j].index = raw[j] /\ (startOff + raw[j]) \div BlockSize = final'[j].block
  <2>1. CASE j \in 1 .. l
    BY <1>2, <1>6, <2>1 DEF FinalIsRaw
  <2>2. CASE j \in l + 1 .. k
    <3>1. raw[j] < Boundary /\ j \in l + 1 .. r
      BY <1>1, <1>5, <2>2
    <3>2. raw[j] >= written /\ raw[j] \in Nat
      BY <1>1, <1>2, <1>3, <3>1, SMTT(60) DEF FinalIsRaw
    <3> DEFINE p == startOff + raw[j]
    <3>3. p \in Nat /\ BlockNow * BlockSize <= p /\ p < BlockNow * BlockSize + BlockSize
      <4>1. BlockNow * BlockSize \in Nat
        BY <1>1, <1>4
      <4> QED BY <1>1, <1>4, <3>1, <3>2, <4>1, SMTT(60)
    <3>4. p \div BlockSize = BlockNow
      <4> HIDE DEF p
      <4> QED BY <1>1, <1>4, <3>3, DivisionUnique
    <3> QED BY <1>6, <2>2, <3>4
  <2> QED BY <1>1, <1>5, <2>1, <2>2
<1>8. ASSUME NEW j \in k + 1 .. r PROVE raw[j] >= written'
  <2>1. j \in 1 .. r /\ j > l /\ j \notin l + 1 .. k
    BY <1>1, <1>5
  <2>3. ~(raw[j] < Boundary) /\ raw[j] \in Nat /\ raw[j] < len
    BY <1>3, <1>5, <2>1
  <2>2. written' = IF Boundary < len THEN Boundary ELSE len
    BY DEF WriteChunk, ChunkEnd
  <2> QED BY <1>1, <1>4, <2>2, <2>3
<1>9. phase' = "done" => k = r
  <2> SUFFICES ASSUME phase' = "done", k # r PROVE FALSE
    OBVIOUS
  <2>1. ChunkEnd >= len
    BY <1>2 DEF WriteChunk
  <2>2. ~(Boundary < len)
    BY <1>1, <1>4, <2>1 DEF ChunkEnd
  <2>3. r \in 1 .. r /\ r > l /\ r \notin l + 1 .. k
    BY <1>1, <1>5
  <2>4. raw[r] \in Nat /\ raw[r] < len
    BY <1>3, <2>3
  <2>5. ~(raw[r] < Boundary)
    BY <1>5, <2>3
  <2> QED BY <1>1, <1>4, <2>2, <2>4, <2>5
<1>10. FinalIsRaw'
  <2>1. \A j \in 1 .. Len(final') : /\ final'[j].index = raw'[j]
                                    /\ (startOff' + raw'[j]) \div BlockSize = final'[j].block
    BY <1>2, <1>6, <1>7
  <2>2. \A j \in Len(final') + 1 .. Len(raw') : raw'[j] >= written'
    BY <1>2, <1>6, <1>8
  <2>3. Len(final') <= Len(raw') /\ (phase' = "done" => Len(final') = Len(raw'))
    BY <1>1, <1>2, <1>5, <1>6, <1>9
  <2> QED BY <2>1, <2>2, <2>3 DEF FinalIsRaw
<1>11. HeadersInBuffer' /\ IndexesAreHeaders' /\ NothingYet' /\ IndexedOften'
  BY <1>2 DEF HeadersInBuffer, IndexesAreHeaders, NothingYet, IndexedOften
<1> QED BY <1>10, <1>11 DEF IndexInv

LEMMA IndexNext ==
  ASSUME Inv, IndexInv, [Next]_vars
  PROVE  IndexInv'
<1>1. ASSUME NEW size \in EntrySizes, NEW block \in InodeBlocks, NEW number \in Numbers,
             AddEntry(size, block, number)
      PROVE  IndexInv'
  BY <1>1, AddEntryKeepsIndexes DEF Inv
<1>2. CASE BuildEnds
  <2>1. /\ HeadersInBuffer' /\ IndexesAreHeaders' /\ IndexedOften'
        /\ phase' # "build" /\ UNCHANGED <<headers, len, raw, final, startOff>>
        /\ Len(final) = 0 /\ raw \in Seq(Nat)
    BY <1>2
    DEF BuildEnds, IndexInv, HeadersInBuffer, IndexesAreHeaders, NothingYet, IndexedOften, Inv,
        TypeOK
  <2>2. NothingYet'
    BY <2>1 DEF IndexInv, NothingYet
  <2>3. FinalIsRaw'
    <3>1. CASE raw = <<>>
      BY <2>1, <3>1 DEF FinalIsRaw
    <3>2. CASE raw # <<>>
      BY <1>2, <2>1, <3>2 DEF BuildEnds, IndexInv, FinalIsRaw
    <3> QED BY <3>1, <3>2
  <2> QED BY <2>1, <2>2, <2>3 DEF IndexInv
<1>3. CASE WriteChunk
  BY <1>3, WriteChunkKeepsIndexes DEF Inv
<1>4. CASE UNCHANGED vars
  BY <1>4
  DEF vars, IndexInv, HeadersInBuffer, IndexesAreHeaders, NothingYet, FinalIsRaw, IndexedOften
<1> QED BY <1>1, <1>2, <1>3, <1>4 DEF Next, Returned

LEMMA IndexInvariantHolds == Spec => [](Inv /\ IndexInv)
BY InitHolds, NextKeeps, IndexInit, IndexNext, PTL DEF Spec

(* Every index leads to a header, in the block that was said, and none is  *)
(* missing, wherever in a block the directory begins.                      *)
THEOREM IndexesLeadToHeaders == Spec => []IndexLeadsToHeader
<1>1. IndexInv => IndexLeadsToHeader
  BY DEF IndexInv, IndexLeadsToHeader, FinalIsRaw, IndexesAreHeaders
<1> QED BY IndexInvariantHolds, <1>1, PTL

(* What a lookup scans from an index on is a block at most, and a header.  *)
THEOREM LookupsAreShort == Spec => []IndexedOften
BY IndexInvariantHolds, PTL DEF IndexInv

=============================================================================
