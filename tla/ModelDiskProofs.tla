--------------------------- MODULE ModelDiskProofs ---------------------------
(***************************************************************************)
(* Sealed images and what is on them: the layout of an image, for every    *)
(* size of a filesystem, a block, a digest, a sector and the alignment,    *)
(* and the models on a disk, for every list of models, every choice of     *)
(* files and any number of downloads that are refused, fail or are stopped.*)
(***************************************************************************)
EXTENDS ModelDisk, SequenceTheorems, WellFoundedInduction, TLAPS

(* Sequences of whatever units.                                            *)
IsSeq(s) == s \in Seq(ToSet(s))

LEMMA SeqFacts ==
  ASSUME NEW s, IsSeq(s)
  PROVE  Len(s) \in Nat /\ DOMAIN s = 1 .. Len(s) /\ s = [i \in 1 .. Len(s) |-> s[i]]
BY LenProperties DEF IsSeq

LEMMA FunIsSeq ==
  ASSUME NEW f, NEW n \in Nat, f = [i \in 1 .. n |-> f[i]]
  PROVE  IsSeq(f) /\ Len(f) = n
<1>1. DOMAIN f = 1 .. n
  OBVIOUS
<1>2. f \in [1 .. n -> ToSet(f)]
  BY <1>1 DEF ToSet
<1>3. IsSeq(f)
  BY <1>2, SeqDef DEF IsSeq
<1>4. Len(f) \in Nat /\ 1 .. Len(f) = 1 .. n
  BY <1>1, <1>3, SeqFacts
<1>5. Len(f) = n
  BY <1>4
<1> QED
  BY <1>3, <1>5

LEMMA WidenSeq ==
  ASSUME NEW S, NEW s \in Seq(S)
  PROVE  IsSeq(s)
<1>1. Len(s) \in Nat /\ DOMAIN s = 1 .. Len(s) /\ s \in [1 .. Len(s) -> S]
  BY LenProperties
<1>2. s = [i \in 1 .. Len(s) |-> s[i]]
  BY <1>1
<1> QED
  BY <1>1, <1>2, FunIsSeq

LEMMA EqualSeqs ==
  ASSUME NEW s, NEW t, IsSeq(s), IsSeq(t), Len(s) = Len(t),
         \A i \in 1 .. Len(s) : s[i] = t[i]
  PROVE  s = t
<1>1. s = [i \in 1 .. Len(s) |-> s[i]] /\ t = [i \in 1 .. Len(s) |-> t[i]]
  BY SeqFacts
<1>2. [i \in 1 .. Len(s) |-> s[i]] = [i \in 1 .. Len(s) |-> t[i]]
  OBVIOUS
<1> QED
  BY <1>1, <1>2

LEMMA ConcatFacts ==
  ASSUME NEW s, NEW t, IsSeq(s), IsSeq(t)
  PROVE  /\ IsSeq(s \o t) /\ Len(s \o t) = Len(s) + Len(t)
         /\ \A i \in 1 .. Len(s) : (s \o t)[i] = s[i]
         /\ \A i \in Len(s) + 1 .. Len(s) + Len(t) : (s \o t)[i] = t[i - Len(s)]
<1> DEFINE S == ToSet(s) \cup ToSet(t)
<1>1. s \in Seq(S) /\ t \in Seq(S)
  BY SeqMonotonic DEF IsSeq
<1>2. Len(s) \in Nat /\ Len(t) \in Nat
  BY SeqFacts
<1> HIDE DEF S
<1>3. /\ s \o t \in Seq(S) /\ Len(s \o t) = Len(s) + Len(t)
      /\ \A i \in 1 .. Len(s) + Len(t) :
           (s \o t)[i] = IF i <= Len(s) THEN s[i] ELSE t[i - Len(s)]
  BY <1>1, ConcatProperties
<1>4. IsSeq(s \o t)
  BY <1>3, WidenSeq
<1>5. \A i \in 1 .. Len(s) : i \in 1 .. Len(s) + Len(t) /\ i <= Len(s)
  BY <1>2
<1>6. \A i \in Len(s) + 1 .. Len(s) + Len(t) : i \in 1 .. Len(s) + Len(t) /\ ~(i <= Len(s))
  BY <1>2
<1> QED
  BY <1>3, <1>4, <1>5, <1>6

LEMMA SubSeqFacts ==
  ASSUME NEW s, IsSeq(s), NEW m \in Nat \ {0}, NEW n \in Nat, n <= Len(s)
  PROVE  /\ IsSeq(SubSeq(s, m, n))
         /\ Len(SubSeq(s, m, n)) = IF m <= n THEN n - m + 1 ELSE 0
         /\ \A i \in 1 .. n - m + 1 : SubSeq(s, m, n)[i] = s[m + i - 1]
<1>1. Len(s) \in Nat /\ DOMAIN s = 1 .. Len(s)
  BY SeqFacts
<1>2. \A i \in m .. n : s[i] \in ToSet(s)
  BY <1>1 DEF ToSet
<1>3. /\ SubSeq(s, m, n) \in Seq(ToSet(s))
      /\ Len(SubSeq(s, m, n)) = IF m <= n THEN n - m + 1 ELSE 0
      /\ \A i \in 1 .. n - m + 1 : SubSeq(s, m, n)[i] = s[m + i - 1]
  <2>1. m \in Int /\ n \in Int
    OBVIOUS
  <2> QED BY <1>2, <2>1, SubSeqProperties
<1>4. IsSeq(SubSeq(s, m, n))
  BY <1>3, WidenSeq
<1> QED
  BY <1>3, <1>4

LEMMA ZerosFacts ==
  ASSUME NEW n \in Nat
  PROVE  IsSeq(Zeros(n)) /\ Len(Zeros(n)) = n /\ \A i \in 1 .. n : Zeros(n)[i] = Zero
<1>1. Zeros(n) = [i \in 1 .. n |-> Zeros(n)[i]] /\ \A i \in 1 .. n : Zeros(n)[i] = Zero
  BY DEF Zeros
<1> QED
  BY <1>1, FunIsSeq
-----------------------------------------------------------------------------
(* The arithmetic of blocks and sectors.                                   *)

LEMMA DivFacts ==
  ASSUME NEW n \in Nat, NEW d \in Nat \ {0}
  PROVE  /\ n \div d \in Nat /\ n % d \in 0 .. d - 1
         /\ n = d * (n \div d) + (n % d)
OBVIOUS

LEMMA ExactDivision ==
  ASSUME NEW k \in Nat, NEW d \in Nat \ {0}
  PROVE  (k * d) % d = 0 /\ (k * d) \div d = k
<1> DEFINE q == (k * d) \div d
           r == (k * d) % d
<1>1. k * d \in Nat
  OBVIOUS
<1>2. q \in Nat /\ r \in 0 .. d - 1 /\ k * d = d * q + r
  BY <1>1, DivFacts
<1> HIDE DEF q, r
<1>3. d * (k - q) = r
  BY <1>2
<1>4. CASE k - q >= 1
  <2>1. d * (k - q) >= d
    BY <1>2, <1>4
  <2> QED BY <1>2, <1>3, <2>1
<1>5. CASE k - q <= -1
  <2>1. d * (k - q) <= -d
    BY <1>2, <1>5
  <2> QED BY <1>2, <1>3, <2>1
<1>6. CASE k = q
  BY <1>2, <1>3, <1>6 DEF q, r
<1> QED
  BY <1>2, <1>4, <1>5, <1>6

LEMMA AlignUpFacts ==
  ASSUME NEW n \in Nat, NEW d \in Nat \ {0}
  PROVE  /\ DivCeil(n, d) \in Nat
         /\ AlignUp(n, d) \in Nat /\ AlignUp(n, d) >= n
         /\ AlignUp(n, d) % d = 0
<1> DEFINE q == (n + d - 1) \div d
           r == (n + d - 1) % d
<1>1. n + d - 1 \in Nat
  OBVIOUS
<1>2. q \in Nat /\ r \in 0 .. d - 1 /\ n + d - 1 = d * q + r
  BY <1>1, DivFacts
<1>3. DivCeil(n, d) = q /\ AlignUp(n, d) = q * d
  BY DEF AlignUp, DivCeil
<1> HIDE DEF q, r
<1>4. q * d \in Nat /\ q * d = d * q
  BY <1>2
<1>5. q * d >= n
  BY <1>2, <1>4
<1>6. (q * d) % d = 0
  BY <1>2, ExactDivision
<1> QED
  BY <1>2, <1>3, <1>4, <1>5, <1>6

(* A number that is aligned stays where it is.                             *)
LEMMA AlignedStays ==
  ASSUME NEW k \in Nat, NEW d \in Nat \ {0}
  PROVE  AlignUp(k * d, d) = k * d
<1> DEFINE q == (k * d + d - 1) \div d
           r == (k * d + d - 1) % d
<1>1. k * d + d - 1 \in Nat
  OBVIOUS
<1>2. q \in Nat /\ r \in 0 .. d - 1 /\ k * d + d - 1 = d * q + r
  BY <1>1, DivFacts
<1>3. AlignUp(k * d, d) = q * d
  BY DEF AlignUp, DivCeil
<1> HIDE DEF q, r
<1>4. d * (q - k) = d - 1 - r
  BY <1>2
<1>5. CASE q - k >= 1
  <2>1. d * (q - k) >= d
    BY <1>2, <1>5
  <2> QED BY <1>2, <1>4, <2>1
<1>6. CASE q - k <= -1
  <2>1. d * (q - k) <= -d
    BY <1>2, <1>6
  <2> QED BY <1>2, <1>4, <2>1
<1> QED
  BY <1>2, <1>3, <1>5, <1>6
-----------------------------------------------------------------------------
(* Types.                                                                  *)
LEMMA LayoutFacts ==
  /\ BlockSize \in Nat \ {0} /\ DigestSize \in Nat \ {0}
  /\ SectorSize \in Nat \ {0} /\ AlignSectors \in Nat \ {0}
  /\ HeadSectors \in Nat /\ HeadSectors <= AlignSectors /\ BackupSectors \in Nat
  /\ MaxSize \in Nat /\ MaxBuilds \in Nat /\ MaxFaults \in Nat
BY LayoutAssumption

LEMMA PaddedFacts ==
  ASSUME NEW s, IsSeq(s)
  PROVE  IsSeq(PadToBlocks(s)) /\ Len(PadToBlocks(s)) % BlockSize = 0
<1>1. Len(s) \in Nat
  BY SeqFacts
<1>2. /\ AlignUp(Len(s), BlockSize) \in Nat
      /\ AlignUp(Len(s), BlockSize) >= Len(s)
      /\ AlignUp(Len(s), BlockSize) % BlockSize = 0
  BY <1>1, AlignUpFacts, LayoutFacts
<1> DEFINE n == AlignUp(Len(s), BlockSize) - Len(s)
<1>3. n \in Nat /\ Len(s) + n = AlignUp(Len(s), BlockSize)
  BY <1>1, <1>2
<1> HIDE DEF n
<1>4. IsSeq(Zeros(n)) /\ Len(Zeros(n)) = n
  BY <1>3, ZerosFacts
<1>5. IsSeq(s \o Zeros(n)) /\ Len(s \o Zeros(n)) = AlignUp(Len(s), BlockSize)
  BY <1>3, <1>4, ConcatFacts
<1> QED
  BY <1>2, <1>5 DEF PadToBlocks, n

LEMMA HashesFacts ==
  ASSUME NEW s, IsSeq(s)
  PROVE  IsSeq(Hashes(s)) /\ Len(Hashes(s)) % DigestSize = 0
<1>1. Len(s) \in Nat
  BY SeqFacts
<1>2. Blocks(s) \in Nat
  BY <1>1, AlignUpFacts, LayoutFacts DEF Blocks
<1> DEFINE n == Blocks(s) * DigestSize
<1>3. n \in Nat /\ n % DigestSize = 0
  BY <1>2, ExactDivision, LayoutFacts, SMTT(60)
<1>4. Hashes(s) = [i \in 1 .. n |-> Hashes(s)[i]]
  BY DEF Hashes
<1> HIDE DEF n
<1>5. IsSeq(Hashes(s)) /\ Len(Hashes(s)) = n
  BY <1>3, <1>4, FunIsSeq
<1> QED
  BY <1>3, <1>5

(* Two lengths of whole blocks make one.                                   *)
LEMMA WholeBlocks ==
  ASSUME NEW m \in Nat, NEW n \in Nat, m % BlockSize = 0, n % BlockSize = 0
  PROVE  (m + n) % BlockSize = 0
<1> DEFINE p == m \div BlockSize
           q == n \div BlockSize
<1>1. p \in Nat /\ q \in Nat /\ m = BlockSize * p /\ n = BlockSize * q
  BY DivFacts, LayoutFacts
<1> HIDE DEF p, q
<1>2. m + n = (p + q) * BlockSize /\ p + q \in Nat
  BY <1>1, LayoutFacts
<1> QED
  BY <1>2, ExactDivision, LayoutFacts

SeqTypes ==
  /\ IsSeq(file) /\ IsSeq(sealed) /\ IsSeq(current) /\ IsSeq(levels) /\ IsSeq(tree)
  /\ size \in Nat
  /\ phase = "truncate" => size <= Len(file)

(* The image that assemble_gpt makes.                                      *)
GptImage ==
  WriteGpt(Put(Put(Zeros(TotalSectors * SectorSize), Part1Start * SectorSize, file),
               Part2Start * SectorSize, tree))

ImageIsGpt == (phase = "sealed" /\ kind = "root" /\ faults = 0) => image = GptImage

VerityInv == TypeOK /\ SeqTypes /\ ImageIsGpt

LEMMA InitVerity == Init => VerityInv
<1> SUFFICES ASSUME Init PROVE VerityInv
  OBVIOUS
<1>1. IsSeq(<<>>) /\ Len(<<>>) = 0
  BY EmptySeq DEF IsSeq
<1>2. 0 % BlockSize = 0 /\ 0 % DigestSize = 0
  BY LayoutFacts
<1>3. TypeOK
  BY <1>1, <1>2, LayoutAssumption DEF Init, TypeOK, Phases, NoParams
<1> QED
  BY <1>1, <1>3 DEF Init, VerityInv, SeqTypes, ImageIsGpt

LEMMA MakeFilesystemKeeps ==
  ASSUME VerityInv, NEW n \in Nat, MakeFilesystem(n)
  PROVE  VerityInv'
<1> DEFINE bytes == IF kind = "disk" THEN AlignUp(n, BlockSize) ELSE n
           old == SubSeq(file, bytes + 1, Len(file))
<1>1. bytes \in Nat
  BY AlignUpFacts, LayoutFacts
<1> HIDE DEF bytes
<1>2. IsSeq(file) /\ Len(file) \in Nat
  BY SeqFacts DEF VerityInv, SeqTypes
<1>3. IsSeq(old)
  <2>1. bytes + 1 \in Nat \ {0} /\ Len(file) <= Len(file)
    BY <1>1, <1>2
  <2> QED BY <1>2, <2>1, SubSeqFacts
<1> HIDE DEF old
<1>4. IsSeq(NewFilesystem(bytes)) /\ Len(NewFilesystem(bytes)) = bytes
  <2>1. NewFilesystem(bytes) = [i \in 1 .. bytes |-> NewFilesystem(bytes)[i]]
    BY DEF NewFilesystem
  <2> QED BY <1>1, <2>1, FunIsSeq
<1>5. /\ size' = bytes /\ sealed' = NewFilesystem(bytes)
      /\ file' \in {sealed', sealed' \o old}
      /\ phase' \in {"truncate", "hash data"} /\ params' = NoParams /\ faults' = 0
      /\ builds < MaxBuilds /\ builds' = builds + 1
      /\ UNCHANGED <<kind, current, levels, tree, image>>
  BY DEF MakeFilesystem, bytes, old
<1>6. IsSeq(file') /\ bytes <= Len(file')
  <2>1. IsSeq(sealed') /\ Len(sealed') = bytes
    BY <1>4, <1>5
  <2>2. IsSeq(sealed' \o old) /\ Len(sealed' \o old) = bytes + Len(old) /\ Len(old) \in Nat
    BY <1>3, <2>1, ConcatFacts, SeqFacts
  <2>3. bytes <= Len(sealed') /\ bytes <= Len(sealed' \o old)
    BY <1>1, <2>1, <2>2
  <2>4. CASE file' = sealed'
    BY <2>1, <2>3, <2>4
  <2>5. CASE file' = sealed' \o old
    BY <2>2, <2>3, <2>5
  <2> QED BY <1>5, <2>4, <2>5
<1>7. SeqTypes'
  BY <1>1, <1>4, <1>5, <1>6 DEF VerityInv, SeqTypes
<1>8. TypeOK'
  <2>1. params'.hashoffset = 0 /\ size' = Len(sealed')
    BY <1>4, <1>5 DEF NoParams
  <2>2. builds' \in 0 .. MaxBuilds /\ faults' \in 0 .. MaxFaults
    <3>1. builds \in Nat
      BY DEF VerityInv, TypeOK
    <3>2. builds < MaxBuilds /\ builds' = builds + 1 /\ faults' = 0
      BY <1>5
    <3> QED BY <3>1, <3>2, LayoutFacts
  <2>3. 0 \in 0 .. size'
    <3>1. size' = bytes
      BY <1>5
    <3> QED BY <1>1, <3>1
  <2>4. phase' \in Phases
    BY <1>5 DEF Phases
  <2> QED
    BY <1>5, <2>1, <2>2, <2>3, <2>4 DEF VerityInv, TypeOK
<1> QED
  BY <1>5, <1>7, <1>8 DEF VerityInv, ImageIsGpt

LEMMA TruncateKeeps ==
  ASSUME VerityInv, Truncate
  PROVE  VerityInv'
<1>1. IsSeq(file')
  <2>1. IsSeq(file) /\ size \in Nat /\ size <= Len(file)
    BY DEF VerityInv, SeqTypes, Truncate
  <2>2. 1 \in Nat \ {0}
    OBVIOUS
  <2>3. IsSeq(SubSeq(file, 1, size))
    BY <2>1, <2>2, SubSeqFacts
  <2> QED BY <2>3 DEF Truncate
<1> QED
  BY <1>1 DEF VerityInv, Truncate, SeqTypes, TypeOK, Phases, ImageIsGpt

LEMMA HashDataKeeps ==
  ASSUME VerityInv, HashData
  PROVE  VerityInv'
<1> USE DEF VerityInv, HashData
<1>1. IsSeq(current') /\ Len(current') % DigestSize = 0
  BY HashesFacts DEF SeqTypes
<1>2. IsSeq(levels') /\ Len(levels') % BlockSize = 0
  BY <1>1, PaddedFacts
<1> QED
  BY <1>1, <1>2 DEF SeqTypes, TypeOK, Phases, ImageIsGpt

LEMMA HashLevelKeeps ==
  ASSUME VerityInv, HashLevel
  PROVE  VerityInv'
<1> USE DEF VerityInv, HashLevel
<1>1. IsSeq(current') /\ Len(current') % DigestSize = 0
  BY HashesFacts DEF SeqTypes
<1> DEFINE packed == PadToBlocks(current')
<1>2. IsSeq(packed) /\ Len(packed) \in Nat /\ Len(packed) % BlockSize = 0
  BY <1>1, PaddedFacts, SeqFacts
<1>3. levels' = packed \o levels \/ levels' = levels
  OBVIOUS
<1> HIDE DEF packed
<1>4. IsSeq(levels) /\ Len(levels) \in Nat /\ Len(levels) % BlockSize = 0
  BY SeqFacts DEF SeqTypes, TypeOK
<1>5. IsSeq(packed \o levels) /\ Len(packed \o levels) % BlockSize = 0
  BY <1>2, <1>4, ConcatFacts, WholeBlocks
<1>6. IsSeq(levels') /\ Len(levels') % BlockSize = 0
  BY <1>3, <1>4, <1>5
<1> QED
  BY <1>1, <1>6 DEF SeqTypes, TypeOK, Phases, ImageIsGpt

LEMMA WriteTreeKeeps ==
  ASSUME VerityInv, WriteTree
  PROVE  VerityInv'
<1> DEFINE head == PadToBlocks(<<Superblock(Blocks(file))>>)
<1>1. tree' = head \o levels \/ tree' = <<>> \o levels
  BY DEF WriteTree
<1>2. IsSeq(head) /\ Len(head) \in Nat /\ Len(head) % BlockSize = 0
  <2>1. <<Superblock(Blocks(file))>> \in Seq({Superblock(Blocks(file))})
    OBVIOUS
  <2>2. IsSeq(<<Superblock(Blocks(file))>>)
    BY <2>1, WidenSeq
  <2> QED BY <2>2, PaddedFacts, SeqFacts
<1>3. IsSeq(<<>>) /\ Len(<<>>) = 0 /\ 0 % BlockSize = 0
  BY EmptySeq, LayoutFacts DEF IsSeq
<1>4. IsSeq(levels) /\ Len(levels) \in Nat /\ Len(levels) % BlockSize = 0
  BY SeqFacts DEF VerityInv, SeqTypes, TypeOK
<1> HIDE DEF head
<1>5. IsSeq(head \o levels) /\ Len(head \o levels) % BlockSize = 0
  BY <1>2, <1>4, ConcatFacts, WholeBlocks
<1>6. IsSeq(<<>> \o levels) /\ Len(<<>> \o levels) % BlockSize = 0
  BY <1>3, <1>4, ConcatFacts, WholeBlocks
<1>7. IsSeq(tree') /\ Len(tree') % BlockSize = 0
  BY <1>1, <1>5, <1>6
<1> QED
  BY <1>7 DEF WriteTree, VerityInv, SeqTypes, TypeOK, Phases, ImageIsGpt

LEMMA AppendTreeKeeps ==
  ASSUME VerityInv, AppendTree
  PROVE  VerityInv'
<1> USE DEF VerityInv, AppendTree
<1>1. IsSeq(file')
  BY ConcatFacts DEF SeqTypes
<1>2. params'.hashoffset = size /\ size \in Nat
  BY DEF SeqTypes
<1> QED
  BY <1>1, <1>2 DEF SeqTypes, TypeOK, Phases, ImageIsGpt

LEMMA AssembleGptKeeps ==
  ASSUME VerityInv, AssembleGpt
  PROVE  VerityInv'
<1> USE DEF VerityInv, AssembleGpt
<1>1. params'.hashoffset = 0 /\ size \in Nat
  BY SMTT(60) DEF SeqTypes
<1>2. GptImage' = image'
  <2>1. Sectors(file)' = Sectors(file) /\ Sectors(tree)' = Sectors(tree)
    BY DEF Sectors
  <2>2. Part2Start' = Part2Start /\ TotalSectors' = TotalSectors
    BY <2>1 DEF Part1Start, Part1End, Part2Start, Part2End, TotalSectors
  <2> QED BY <2>2 DEF GptImage, Part1Start
<1> QED
  BY <1>1, <1>2 DEF SeqTypes, TypeOK, Phases, ImageIsGpt

LEMMA CrashKeeps ==
  ASSUME VerityInv, Crash
  PROVE  VerityInv'
<1> USE DEF VerityInv, Crash
<1>1. IsSeq(file')
  <2>1. CASE UNCHANGED file
    BY <2>1 DEF SeqTypes
  <2>2. ASSUME NEW n \in 1 .. Len(tree), file' = file \o SubSeq(tree, 1, n)
        PROVE  IsSeq(file')
    <3>1. IsSeq(tree) /\ Len(tree) \in Nat /\ IsSeq(file)
      BY SeqFacts DEF SeqTypes
    <3>2. n \in Nat /\ n <= Len(tree) /\ 1 \in Nat \ {0}
      BY <2>2, <3>1
    <3>3. IsSeq(SubSeq(tree, 1, n))
      BY <3>1, <3>2, SubSeqFacts
    <3> QED BY <2>2, <3>1, <3>3, ConcatFacts
  <2> QED BY <2>1, <2>2
<1> QED
  BY <1>1 DEF SeqTypes, TypeOK, Phases, ImageIsGpt

LEMMA GoBadKeeps ==
  ASSUME VerityInv, GoBad
  PROVE  VerityInv'
<1> USE DEF VerityInv, GoBad
<1>1. faults' \in 1 .. MaxFaults
  BY LayoutAssumption, SMTT(60) DEF TypeOK
<1>2. IsSeq(file')
  <2>1. CASE UNCHANGED file
    BY <2>1 DEF SeqTypes
  <2>2. ASSUME NEW i, NEW u, file' = [file EXCEPT ![i] = u]
        PROVE  IsSeq(file')
    <3>1. IsSeq(file) /\ Len(file) \in Nat /\ file = [j \in 1 .. Len(file) |-> file[j]]
      BY SeqFacts DEF SeqTypes
    <3>2. file' = [j \in 1 .. Len(file) |-> file'[j]]
      BY <2>2, <3>1
    <3> QED BY <3>1, <3>2, FunIsSeq
  <2> QED BY <2>1, <2>2 DEF Spoilt
<1> QED
  BY <1>1, <1>2, LayoutAssumption DEF SeqTypes, TypeOK, Phases, ImageIsGpt

LEMMA DiskStepKeeps ==
  ASSUME VerityInv, DiskStep
  PROVE  VerityInv'
BY TruncateKeeps, HashDataKeeps, HashLevelKeeps, WriteTreeKeeps, AppendTreeKeeps,
   AssembleGptKeeps, CrashKeeps, GoBadKeeps DEF DiskStep

LEMMA NextVerity ==
  ASSUME VerityInv, [Next]_vars
  PROVE  VerityInv'
<1>1. CASE UNCHANGED vars
  <2>1. GptImage' = GptImage
    BY <1>1 DEF vars, GptImage, TotalSectors, Part1Start, Part1End, Part2Start, Part2End,
           Sectors, Put, WriteGpt
  <2> QED
    BY <1>1, <2>1 DEF vars, VerityInv, SeqTypes, TypeOK, ImageIsGpt
<1>2. CASE \E n \in 1 .. MaxSize : MakeFilesystem(n)
  <2>1. \A n \in 1 .. MaxSize : n \in Nat
    BY LayoutAssumption
  <2> QED BY <1>2, <2>1, MakeFilesystemKeeps
<1>3. CASE DiskStep
  BY <1>3, DiskStepKeeps
<1> QED
  BY <1>1, <1>2, <1>3 DEF Next

-----------------------------------------------------------------------------
(* The layout of the GPT image.                                            *)

(* In n units from an offset on the image holds s and zeros behind.        *)
Holds(disk, offset, n, s) ==
  \A i \in 1 .. n : disk[offset + i] = IF i <= Len(s) THEN s[i] ELSE Zero

(* The n units from an offset on, and s with zeros behind.                 *)
Cut(disk, offset, n) == SubSeq(disk, offset + 1, offset + n)
Padded(part, s) == part = s \o Zeros(Len(part) - Len(s))

(* Then they read back as a file with zeros behind.                        *)
LEMMA ReadsBack ==
  ASSUME NEW disk, IsSeq(disk), NEW s, IsSeq(s),
         NEW offset \in Nat, NEW n \in Nat,
         Len(s) <= n, offset + n <= Len(disk),
         Holds(disk, offset, n, s)
  PROVE  Padded(Cut(disk, offset, n), s)
<1> DEFINE part == Cut(disk, offset, n)
<1> DEFINE rest == Zeros(n - Len(s))
<1>1. Len(s) \in Nat /\ n - Len(s) \in Nat
  BY SeqFacts
<1>2. IsSeq(part) /\ Len(part) = n /\ \A i \in 1 .. n : part[i] = disk[offset + i]
  <2>1. offset + 1 \in Nat \ {0} /\ offset + n \in Nat
    OBVIOUS
  <2>2. /\ IsSeq(part)
        /\ Len(part) = IF offset + 1 <= offset + n THEN offset + n - (offset + 1) + 1 ELSE 0
        /\ \A i \in 1 .. offset + n - (offset + 1) + 1 : part[i] = disk[offset + 1 + i - 1]
    BY <2>1, SubSeqFacts DEF Cut
  <2>3. Len(part) = n
    BY <2>2
  <2>4. \A i \in 1 .. n : part[i] = disk[offset + i]
    BY <2>2
  <2> QED BY <2>2, <2>3, <2>4
<1>3. /\ IsSeq(rest) /\ Len(rest) = n - Len(s)
      /\ \A i \in 1 .. n - Len(s) : rest[i] = Zero
  BY <1>1, ZerosFacts
<1> HIDE DEF rest
<1>4. /\ IsSeq(s \o rest) /\ Len(s \o rest) = n
      /\ \A i \in 1 .. Len(s) : (s \o rest)[i] = s[i]
      /\ \A i \in Len(s) + 1 .. n : (s \o rest)[i] = rest[i - Len(s)]
  BY <1>1, <1>3, ConcatFacts
<1>5. ASSUME NEW i \in 1 .. n PROVE part[i] = (s \o rest)[i]
  <2>1. CASE i <= Len(s)
    <3>1. i \in 1 .. Len(s)
      BY <1>1, <2>1
    <3>2. disk[offset + i] = s[i]
      BY <2>1 DEF Holds
    <3> QED BY <1>2, <1>4, <3>1, <3>2
  <2>2. CASE ~(i <= Len(s))
    <3>1. i \in Len(s) + 1 .. n /\ i - Len(s) \in 1 .. n - Len(s)
      BY <1>1, <2>2
    <3>2. disk[offset + i] = Zero
      BY <2>2 DEF Holds
    <3> QED BY <1>2, <1>3, <1>4, <3>1, <3>2
  <2> QED BY <2>1, <2>2
<1>6. part = s \o rest
  BY <1>2, <1>4, <1>5, EqualSeqs
<1> HIDE DEF part
<1>7. Len(part) = n
  BY <1>2
<1>8. part = s \o Zeros(Len(part) - Len(s))
  BY <1>6, <1>7 DEF rest
<1>9. Padded(part, s)
  BY <1>8 DEF Padded
<1> QED
  BY <1>9 DEF part

(* Writing into an image, and what the partition tables leave alone.       *)
LEMMA PutFacts ==
  ASSUME NEW disk, IsSeq(disk), NEW offset, NEW s
  PROVE  /\ IsSeq(Put(disk, offset, s)) /\ Len(Put(disk, offset, s)) = Len(disk)
         /\ \A i \in 1 .. Len(disk) :
              Put(disk, offset, s)[i] = IF i \in offset + 1 .. offset + Len(s)
                                        THEN s[i - offset] ELSE disk[i]
<1>1. Len(disk) \in Nat
  BY SeqFacts
<1>2. Put(disk, offset, s) = [i \in 1 .. Len(disk) |-> Put(disk, offset, s)[i]]
  BY DEF Put
<1>3. IsSeq(Put(disk, offset, s)) /\ Len(Put(disk, offset, s)) = Len(disk)
  BY <1>1, <1>2, FunIsSeq
<1> QED
  BY <1>3 DEF Put

LEMMA WriteGptFacts ==
  ASSUME NEW disk, IsSeq(disk)
  PROVE  /\ IsSeq(WriteGpt(disk)) /\ Len(WriteGpt(disk)) = Len(disk)
         /\ \A i \in 1 .. Len(disk) :
              (i > HeadSectors * SectorSize /\ i <= Len(disk) - BackupSectors * SectorSize)
                => WriteGpt(disk)[i] = disk[i]
<1>1. Len(disk) \in Nat
  BY SeqFacts
<1>2. WriteGpt(disk) = [i \in 1 .. Len(disk) |-> WriteGpt(disk)[i]]
  BY DEF WriteGpt
<1>3. IsSeq(WriteGpt(disk)) /\ Len(WriteGpt(disk)) = Len(disk)
  BY <1>1, <1>2, FunIsSeq
<1>4. BackupSectors * SectorSize \in Nat /\ HeadSectors * SectorSize \in Nat
  BY LayoutFacts
<1>5. ASSUME NEW i \in 1 .. Len(disk), i > HeadSectors * SectorSize,
             i <= Len(disk) - BackupSectors * SectorSize
      PROVE  WriteGpt(disk)[i] = disk[i]
  <2>1. ~(i <= HeadSectors * SectorSize) /\ ~(i > Len(disk) - BackupSectors * SectorSize)
    BY <1>1, <1>4, <1>5
  <2> QED BY <2>1 DEF WriteGpt
<1> QED
  BY <1>3, <1>5

(* A file takes whole alignment units, and enough of them.                 *)
LEMMA SectorsFacts ==
  ASSUME NEW s, IsSeq(s)
  PROVE  \E q \in Nat : /\ Sectors(s) = q * AlignSectors
                        /\ Len(s) <= (q * AlignSectors) * SectorSize
<1> DEFINE d == SectorSize * AlignSectors
           q == DivCeil(Len(s), d)
<1>1. Len(s) \in Nat /\ d \in Nat \ {0}
  BY SeqFacts, LayoutFacts, SMTT(60)
<1>2. q \in Nat /\ AlignUp(Len(s), d) >= Len(s) /\ AlignUp(Len(s), d) = q * d
  BY <1>1, AlignUpFacts DEF AlignUp
<1>3. Sectors(s) = (q * d) \div SectorSize
  BY <1>2 DEF Sectors
<1> HIDE DEF q
<1>4. q * d = (q * AlignSectors) * SectorSize /\ q * AlignSectors \in Nat
  BY <1>2, LayoutFacts
<1> HIDE DEF d
<1>5. Sectors(s) = q * AlignSectors
  BY <1>3, <1>4, ExactDivision, LayoutFacts
<1> QED
  BY <1>1, <1>2, <1>4, <1>5

LEMMA GptLayout ==
  ASSUME SeqTypes, image = GptImage, kind = "root"
  PROVE  /\ Part1Start % AlignSectors = 0 /\ Part2Start % AlignSectors = 0
         /\ Part1End < Part2Start
         /\ DataDevice = file \o Zeros(Len(DataDevice) - Len(file))
         /\ HashDevice = tree \o Zeros(Len(HashDevice) - Len(tree))
<1> DEFINE A == AlignSectors
           S == SectorSize
<1>1. /\ IsSeq(file) /\ Len(file) \in Nat /\ IsSeq(tree) /\ Len(tree) \in Nat
  BY SeqFacts DEF SeqTypes
<1>2. PICK q \in Nat : Sectors(file) = q * A /\ Len(file) <= (q * A) * S
  BY <1>1, SectorsFacts
<1>3. PICK r \in Nat : Sectors(tree) = r * A /\ Len(tree) <= (r * A) * S
  BY <1>1, SectorsFacts
<1>4. q * A \in Nat /\ r * A \in Nat /\ A + q * A = (q + 1) * A
  BY LayoutFacts
<1>5. /\ Part1Start = A /\ Part1End = A + q * A - 1
      /\ Part2Start = A + q * A /\ Part2End = A + q * A + r * A - 1
  <2>1. Part1Start = A /\ Part1End = A + q * A - 1
    BY <1>2 DEF Part1Start, Part1End
  <2>2. Part1End + 1 = (q + 1) * A
    BY <1>4, <2>1, LayoutFacts
  <2>3. Part2Start = A + q * A
    <3>1. q + 1 \in Nat /\ A \in Nat \ {0}
      BY LayoutFacts
    <3>2. AlignUp((q + 1) * A, A) = (q + 1) * A
      BY <3>1, AlignedStays
    <3> QED BY <1>4, <2>2, <3>2 DEF Part2Start
  <2> QED BY <1>3, <2>1, <2>3 DEF Part2End
<1>6. /\ A % A = 0 /\ (A + q * A) % A = 0
  <2>1. A = 1 * A
    BY LayoutFacts
  <2> QED BY <1>4, <2>1, ExactDivision, LayoutFacts
(* The same in units: where each part begins and how long it is.           *)
<1> DEFINE a == A * S
           f == (q * A) * S
           t == (r * A) * S
           h == HeadSectors * S
           b == BackupSectors * S
           empty == Zeros(TotalSectors * S)
           one == Put(empty, a, file)
           two == Put(one, a + f, tree)
<1>7. /\ a \in Nat /\ f \in Nat /\ t \in Nat /\ h \in Nat /\ b \in Nat /\ h <= a
      /\ Part2Start * S = a + f /\ (Part1End + 1) * S = a + f
      /\ (Part2End + 1) * S = a + f + t
      /\ TotalSectors * S = a + f + t + b
  <2>1. a \in Nat /\ f \in Nat /\ t \in Nat /\ h \in Nat /\ b \in Nat
    BY <1>4, LayoutFacts
  <2>2. h <= a
    BY LayoutFacts
  <2>3. Part2Start * S = a + f /\ (Part1End + 1) * S = a + f
    BY <1>4, <1>5, LayoutFacts
  <2>4. (Part2End + 1) * S = a + f + t
    BY <1>4, <1>5, LayoutFacts
  <2>5. TotalSectors * S = (Part2End + 1) * S + b
    BY <1>4, <1>5, LayoutFacts DEF TotalSectors
  <2> QED BY <2>1, <2>2, <2>3, <2>4, <2>5
<1>8. image = WriteGpt(two)
  BY <1>5, <1>7 DEF GptImage
<1> DEFINE len == a + f + t + b
<1>9. len \in Nat
  BY <1>7
<1>10. Len(file) <= f /\ Len(tree) <= t
  BY <1>2, <1>3
<1>11. IsSeq(empty) /\ Len(empty) = len /\ \A i \in 1 .. len : empty[i] = Zero
  BY <1>7, <1>9, ZerosFacts
<1> HIDE DEF a, f, t, h, b, empty, one, two, len
<1>12. /\ IsSeq(one) /\ Len(one) = len
       /\ \A i \in 1 .. len : one[i] = IF i \in a + 1 .. a + Len(file)
                                      THEN file[i - a] ELSE Zero
  BY <1>11, PutFacts DEF one
<1>13. /\ IsSeq(two) /\ Len(two) = len
       /\ \A i \in 1 .. len : two[i] = IF i \in a + f + 1 .. a + f + Len(tree)
                                      THEN tree[i - (a + f)] ELSE one[i]
  BY <1>12, PutFacts DEF two
<1>14. /\ IsSeq(image) /\ Len(image) = len
       /\ \A i \in 1 .. len : i > h /\ i <= len - b => image[i] = two[i]
  BY <1>8, <1>13, WriteGptFacts DEF h, b
<1>15. \A i \in 1 .. f : image[a + i] = IF i <= Len(file) THEN file[i] ELSE Zero
  <2> SUFFICES ASSUME NEW i \in 1 .. f
               PROVE  image[a + i] = IF i <= Len(file) THEN file[i] ELSE Zero
    OBVIOUS
  <2>1. a + i \in 1 .. len /\ a + i > h /\ a + i <= len - b
    BY <1>7 DEF len
  <2>2. a + i \notin a + f + 1 .. a + f + Len(tree)
    BY <1>1, <1>7
  <2>3. image[a + i] = one[a + i]
    BY <1>13, <1>14, <2>1, <2>2
  <2>4. (a + i \in a + 1 .. a + Len(file)) <=> i <= Len(file)
    BY <1>1, <1>7
  <2>5. (a + i) - a = i
    BY <1>7
  <2> QED BY <1>12, <2>1, <2>3, <2>4, <2>5
<1>16. \A i \in 1 .. t : image[a + f + i] = IF i <= Len(tree) THEN tree[i] ELSE Zero
  <2> SUFFICES ASSUME NEW i \in 1 .. t
               PROVE  image[a + f + i] = IF i <= Len(tree) THEN tree[i] ELSE Zero
    OBVIOUS
  <2>1. a + f + i \in 1 .. len /\ a + f + i > h /\ a + f + i <= len - b
    BY <1>7 DEF len
  <2>2. a + f + i \notin a + 1 .. a + Len(file)
    BY <1>1, <1>7, <1>10
  <2>3. image[a + f + i] = IF a + f + i \in a + f + 1 .. a + f + Len(tree)
                           THEN tree[(a + f + i) - (a + f)] ELSE Zero
    <3>1. one[a + f + i] = Zero
      BY <1>12, <2>1, <2>2
    <3>2. two[a + f + i] = IF a + f + i \in a + f + 1 .. a + f + Len(tree)
                           THEN tree[(a + f + i) - (a + f)] ELSE Zero
      <4> DEFINE j == a + f + i
      <4>1. j \in 1 .. len /\ one[j] = Zero
        BY <2>1, <3>1
      <4> HIDE DEF j
      <4>2. two[j] = IF j \in a + f + 1 .. a + f + Len(tree)
                     THEN tree[j - (a + f)] ELSE Zero
        BY <1>13, <4>1
      <4> QED BY <4>2 DEF j
    <3> QED BY <1>14, <2>1, <3>2
  <2>4. (a + f + i \in a + f + 1 .. a + f + Len(tree)) <=> i <= Len(tree)
    BY <1>1, <1>7
  <2>5. (a + f + i) - (a + f) = i
    BY <1>7
  <2> QED BY <2>3, <2>4, <2>5
<1>17. DataDevice = SubSeq(image, a + 1, a + f)
  <2>1. Part1Start * S = a
    BY <1>5 DEF a
  <2> QED BY <1>7, <2>1 DEF DataDevice, Partition
<1>18. HashDevice = SubSeq(image, a + f + 1, a + f + t)
  BY <1>7 DEF HashDevice, Partition
<1>19. DataDevice = file \o Zeros(Len(DataDevice) - Len(file))
  <2>1. a + f <= Len(image)
    BY <1>7, <1>14 DEF len
  <2>2. Holds(image, a, f, file)
    BY <1>15 DEF Holds
  <2>3. /\ a \in Nat /\ f \in Nat /\ IsSeq(image) /\ IsSeq(file)
        /\ Len(file) <= f
    BY <1>1, <1>7, <1>10, <1>14
  <2>4. Padded(Cut(image, a, f), file)
    BY <2>1, <2>2, <2>3, ReadsBack
  <2> QED BY <1>17, <2>4 DEF Padded, Cut
<1>20. HashDevice = tree \o Zeros(Len(HashDevice) - Len(tree))
  <2>1. a + f \in Nat /\ (a + f) + t <= Len(image)
    BY <1>7, <1>14 DEF len
  <2> DEFINE c == a + f
  <2>2. Holds(image, c, t, tree)
    BY <1>16 DEF Holds
  <2>3. HashDevice = SubSeq(image, c + 1, c + t)
    BY <1>18
  <2> HIDE DEF c
  <2>4. c \in Nat /\ c + t <= Len(image)
    BY <2>1 DEF c
  <2>5. /\ t \in Nat /\ IsSeq(image) /\ IsSeq(tree) /\ Len(tree) <= t
    BY <1>1, <1>7, <1>10, <1>14
  <2>6. Padded(Cut(image, c, t), tree)
    BY <2>2, <2>4, <2>5, ReadsBack
  <2> QED BY <2>3, <2>6 DEF Padded, Cut
<1>21. Part1End < Part2Start
  BY <1>4, <1>5, LayoutFacts
<1> QED
  BY <1>5, <1>6, <1>19, <1>20, <1>21
-----------------------------------------------------------------------------
(* Induction over numbers, from their least elements.                      *)

LEMMA LeastElement ==
  ASSUME NEW T, T \subseteq Nat, T # {}
  PROVE  \E m \in T : \A n \in T : m <= n
<1> DEFINE R == OpToRel(<, Nat)
<1>1. IsWellFoundedOn(R, Nat)
  BY NatLessThanWellFounded
<1>2. \A x, y \in Nat : x < y => <<x, y>> \in R
  BY DEF OpToRel
<1> HIDE DEF R
<1>3. PICK x \in T : \A y \in T : ~ (<<y, x>> \in R)
  BY <1>1, WFMin
<1>4. ASSUME NEW y \in T PROVE x <= y
  <2>1. x \in Nat /\ y \in Nat
    OBVIOUS
  <2>2. ~(y < x)
    BY <1>2, <1>3, <2>1, Zenon
  <2> QED BY <2>1, <2>2
<1> QED BY <1>3, <1>4

(* A set of numbers with 0 and every member's successor has all of them.   *)
LEMMA Induction ==
  ASSUME NEW S, 0 \in S, \A n \in Nat : n \in S => n + 1 \in S
  PROVE  Nat \subseteq S
<1> DEFINE T == Nat \ S
<1> SUFFICES ASSUME T # {} PROVE FALSE
  OBVIOUS
<1>1. T \subseteq Nat
  OBVIOUS
<1> HIDE DEF T
<1>2. PICK m \in T : \A n \in T : m <= n
  BY <1>1, LeastElement
<1>3. m \in Nat /\ m # 0 /\ m \notin S
  BY DEF T
<1>4. m - 1 \in Nat /\ m - 1 \notin T /\ (m - 1) + 1 = m
  BY <1>1, <1>2, <1>3
<1>5. m - 1 \in S
  BY <1>4 DEF T
<1> QED BY <1>3, <1>4, <1>5

-----------------------------------------------------------------------------
(* More of the arithmetic of blocks.                                       *)

LEMMA DivUnique ==
  ASSUME NEW n \in Nat, NEW d \in Nat \ {0}, NEW q \in Nat, NEW r \in 0 .. d - 1,
         n = d * q + r
  PROVE  n \div d = q /\ n % d = r
<1> DEFINE p == n \div d
           s == n % d
<1>1. p \in Nat /\ s \in 0 .. d - 1 /\ n = d * p + s
  BY DivFacts
<1> HIDE DEF p, s
<1>2. d * (q - p) = s - r
  BY <1>1
<1>3. CASE q - p >= 1
  <2>1. d * (q - p) >= d
    BY <1>1, <1>3
  <2> QED BY <1>1, <1>2, <2>1
<1>4. CASE q - p <= -1
  <2>1. d * (q - p) <= -d
    BY <1>1, <1>4
  <2> QED BY <1>1, <1>2, <2>1
<1>5. CASE q = p
  BY <1>1, <1>5 DEF p, s
<1> QED
  BY <1>1, <1>3, <1>4, <1>5

(* A product decides the order of a factor.                                *)
LEMMA LessTimes ==
  ASSUME NEW a \in Int, NEW b \in Int, NEW d \in Nat \ {0}
  PROVE  (a * d < b * d => a < b) /\ (a * d <= b * d => a <= b)
         /\ (a < b => a * d < b * d) /\ (a <= b => a * d <= b * d)
OBVIOUS

LEMMA CeilFacts ==
  ASSUME NEW n \in Nat, NEW d \in Nat \ {0}
  PROVE  /\ DivCeil(n, d) \in Nat
         /\ n <= DivCeil(n, d) * d /\ (DivCeil(n, d) - 1) * d < n
<1> DEFINE q == (n + d - 1) \div d
           r == (n + d - 1) % d
<1>1. n + d - 1 \in Nat
  OBVIOUS
<1>2. q \in Nat /\ r \in 0 .. d - 1 /\ n + d - 1 = d * q + r
  BY <1>1, DivFacts
<1>3. DivCeil(n, d) = q
  BY DEF DivCeil
<1> HIDE DEF q, r
<1>4. q * d \in Nat /\ q * d = d * q /\ (q - 1) * d = q * d - d
  BY <1>2
<1>5. n <= q * d /\ (q - 1) * d < n
  BY <1>2, <1>4
<1> QED
  BY <1>2, <1>3, <1>5

LEMMA CeilUnique ==
  ASSUME NEW n \in Nat, NEW d \in Nat \ {0}, NEW q \in Nat, n <= q * d, (q - 1) * d < n
  PROVE  DivCeil(n, d) = q
<1> DEFINE p == DivCeil(n, d)
<1>1. p \in Nat /\ n <= p * d /\ (p - 1) * d < n
  BY CeilFacts
<1> HIDE DEF p
<1>2. (q - 1) * d < p * d /\ (p - 1) * d < q * d
  <2>1. q * d \in Int /\ p * d \in Int /\ (q - 1) * d \in Int /\ (p - 1) * d \in Int
    BY <1>1
  <2> QED BY <1>1, <2>1
<1>3. q - 1 < p /\ p - 1 < q
  BY <1>1, <1>2, LessTimes
<1> QED
  BY <1>1, <1>3 DEF p

LEMMA CeilOfCeil ==
  ASSUME NEW n \in Nat, NEW p \in Nat \ {0}, NEW h \in Nat \ {0}, NEW d \in Nat \ {0}
  PROVE  DivCeil(DivCeil(n, p) * d, h * d) = DivCeil(n, h * p)
<1> DEFINE c == DivCeil(n, p)
           q == DivCeil(c * d, h * d)
<1>1. c \in Nat /\ n <= c * p /\ (c - 1) * p < n
  BY CeilFacts
<1>2. c * d \in Nat /\ h * d \in Nat \ {0} /\ h * p \in Nat \ {0}
  BY <1>1
<1>3. q \in Nat /\ c * d <= q * (h * d) /\ (q - 1) * (h * d) < c * d
  BY <1>2, CeilFacts
<1> HIDE DEF c, q
<1>4. q * (h * d) = (q * h) * d /\ (q - 1) * (h * d) = ((q - 1) * h) * d
  BY <1>1, <1>3
<1>5. q * h \in Nat /\ (q - 1) * h \in Int
  BY <1>3
<1>6. c <= q * h /\ (q - 1) * h < c
  BY <1>1, <1>3, <1>4, <1>5, LessTimes
<1>7. c * p <= (q * h) * p /\ ((q - 1) * h) * p <= (c - 1) * p
  <2>1. (q - 1) * h <= c - 1 /\ c - 1 \in Int
    BY <1>1, <1>5, <1>6
  <2> QED BY <1>1, <1>5, <1>6, <2>1, LessTimes
<1>8. (q * h) * p = q * (h * p) /\ ((q - 1) * h) * p = (q - 1) * (h * p)
  BY <1>3
<1>9. n <= q * (h * p) /\ (q - 1) * (h * p) < n
  <2>1. c * p \in Int /\ (c - 1) * p \in Int /\ q * (h * p) \in Int /\ (q - 1) * (h * p) \in Int
    BY <1>1, <1>2, <1>3
  <2> QED BY <1>1, <1>7, <1>8, <2>1
<1>10. DivCeil(n, h * p) = q
  BY <1>2, <1>3, <1>9, CeilUnique
<1> QED
  BY <1>10 DEF c, q

LEMMA DivOfDiv ==
  ASSUME NEW b \in Nat, NEW p \in Nat \ {0}, NEW h \in Nat \ {0}
  PROVE  b \div (h * p) = (b \div p) \div h
<1> DEFINE x == b \div p
           r == b % p
           y == x \div h
           s == x % h
<1>1. x \in Nat /\ r \in 0 .. p - 1 /\ b = p * x + r
  BY DivFacts
<1>2. y \in Nat /\ s \in 0 .. h - 1 /\ x = h * y + s
  BY <1>1, DivFacts
<1> HIDE DEF x, r, y, s
<1>3. b = (h * p) * y + (p * s + r)
  <2>1. p * x = p * (h * y) + p * s
    BY <1>2
  <2>2. p * (h * y) = (h * p) * y
    BY <1>2
  <2>3. p * (h * y) \in Int /\ p * s \in Int /\ p * x \in Int
    BY <1>1, <1>2
  <2> QED BY <1>1, <2>1, <2>2, <2>3
<1>4. p * s + r \in 0 .. (h * p) - 1
  <2>1. s \in Nat /\ s <= h - 1
    BY <1>2
  <2>2. s * p <= (h - 1) * p
    BY <2>1, LessTimes
  <2>3. (h - 1) * p = h * p - p /\ s * p = p * s /\ p * s \in Nat /\ h * p \in Nat
    BY <2>1
  <2> QED BY <1>1, <2>2, <2>3
<1>5. h * p \in Nat \ {0}
  OBVIOUS
<1>6. b \div (h * p) = y
  BY <1>2, <1>3, <1>4, <1>5, DivUnique, SMTT(60)
<1> QED
  BY <1>6 DEF x, y

LEMMA DivBelow ==
  ASSUME NEW n \in Nat, NEW b \in 0 .. n - 1, NEW p \in Nat \ {0}
  PROVE  b \div p \in 0 .. DivCeil(n, p) - 1
<1> DEFINE x == b \div p
           r == b % p
           c == DivCeil(n, p)
<1>1. x \in Nat /\ r \in 0 .. p - 1 /\ b = p * x + r
  <2>1. b \in Nat
    OBVIOUS
  <2> QED BY <2>1, DivFacts
<1>2. c \in Nat /\ n <= c * p
  BY CeilFacts
<1> HIDE DEF x, r, c
<1>3. x * p < c * p
  <2>1. x * p \in Nat /\ c * p \in Nat /\ x * p = p * x
    BY <1>1, <1>2
  <2> QED BY <1>1, <1>2, <2>1
<1>4. x < c
  BY <1>1, <1>2, <1>3, LessTimes
<1>5. x \in 0 .. c - 1
  BY <1>1, <1>2, <1>4
<1> QED
  BY <1>5 DEF x, c

(* At most one block where the blocks are no more than the divisor.        *)
LEMMA CeilIsOne ==
  ASSUME NEW n \in Nat \ {0}, NEW p \in Nat \ {0}
  PROVE  DivCeil(n, p) <= 1 <=> n <= p
<1>1. DivCeil(n, p) \in Nat /\ n <= DivCeil(n, p) * p /\ (DivCeil(n, p) - 1) * p < n
  BY CeilFacts
<1> DEFINE c == DivCeil(n, p)
<1> HIDE DEF c
<1>2. CASE c <= 1
  <2>1. c = 0 \/ c = 1
    BY <1>1, <1>2 DEF c
  <2> QED BY <1>1, <2>1 DEF c
<1>3. CASE c > 1
  <2>1. c \in Nat /\ 1 <= c - 1
    BY <1>1, <1>3 DEF c
  <2>2. 1 * p <= (c - 1) * p
    BY <2>1, LessTimes
  <2>3. p < n
    <3>1. (c - 1) * p < n /\ (c - 1) * p \in Int
      BY <1>1, <2>1 DEF c
    <3> QED BY <2>2, <3>1
  <2> QED BY <1>3, <2>1, <2>3 DEF c
<1> QED
  BY <1>1, <1>2, <1>3 DEF c
-----------------------------------------------------------------------------
(* Blocks, and the digests of them.                                        *)

LEMMA PadFacts ==
  ASSUME NEW s, IsSeq(s)
  PROVE  /\ IsSeq(PadToBlocks(s)) /\ Blocks(s) \in Nat
         /\ Len(PadToBlocks(s)) = Blocks(s) * BlockSize /\ Len(s) <= Blocks(s) * BlockSize
         /\ \A i \in 1 .. Len(s) : PadToBlocks(s)[i] = s[i]
         /\ \A i \in Len(s) + 1 .. Blocks(s) * BlockSize : PadToBlocks(s)[i] = Zero
<1>1. Len(s) \in Nat
  BY SeqFacts
<1> DEFINE all == AlignUp(Len(s), BlockSize)
           n == all - Len(s)
<1>2. /\ all \in Nat /\ all >= Len(s) /\ Blocks(s) \in Nat /\ all = Blocks(s) * BlockSize
  BY <1>1, AlignUpFacts, LayoutFacts DEF Blocks, AlignUp
<1> HIDE DEF all
<1>3. n \in Nat /\ Len(s) + n = all
  BY <1>1, <1>2
<1>4. PadToBlocks(s) = s \o Zeros(n)
  BY DEF PadToBlocks, all
<1> HIDE DEF n
<1> DEFINE z == Zeros(n)
<1>5. IsSeq(z) /\ Len(z) = n /\ \A i \in 1 .. n : z[i] = Zero
  BY <1>3, ZerosFacts
<1> HIDE DEF z
<1>6. /\ IsSeq(s \o z) /\ Len(s \o z) = all
      /\ \A i \in 1 .. Len(s) : (s \o z)[i] = s[i]
      /\ \A i \in Len(s) + 1 .. all : (s \o z)[i] = z[i - Len(s)]
  BY <1>3, <1>5, ConcatFacts
<1>7. \A i \in Len(s) + 1 .. all : i - Len(s) \in 1 .. n
  BY <1>1, <1>2, <1>3
<1>8. PadToBlocks(s) = s \o z
  BY <1>4 DEF z
<1> QED
  BY <1>2, <1>5, <1>6, <1>7, <1>8

LEMMA HashesAre ==
  ASSUME NEW s, IsSeq(s)
  PROVE  /\ IsSeq(Hashes(s)) /\ Len(Hashes(s)) = Blocks(s) * DigestSize
         /\ \A b \in 0 .. Blocks(s) - 1, i \in 1 .. DigestSize :
              Hashes(s)[b * DigestSize + i] = DigestUnit(Block(PadToBlocks(s), b), i)
<1>1. Blocks(s) \in Nat /\ DigestSize \in Nat \ {0}
  BY PadFacts, LayoutFacts
<1> DEFINE n == Blocks(s) * DigestSize
           at(i) == DigestUnit(Block(PadToBlocks(s), (i - 1) \div DigestSize),
                               ((i - 1) % DigestSize) + 1)
<1>2. n \in Nat
  BY <1>1
<1>3. Hashes(s) = [i \in 1 .. n |-> at(i)]
  BY DEF Hashes
<1> HIDE DEF at
<1>4. Hashes(s) = [i \in 1 .. n |-> Hashes(s)[i]] /\ \A i \in 1 .. n : Hashes(s)[i] = at(i)
  BY <1>3
<1>5. IsSeq(Hashes(s)) /\ Len(Hashes(s)) = n
  BY <1>2, <1>4, FunIsSeq
<1>6. ASSUME NEW b \in 0 .. Blocks(s) - 1, NEW i \in 1 .. DigestSize
      PROVE  Hashes(s)[b * DigestSize + i] = DigestUnit(Block(PadToBlocks(s), b), i)
  <2> DEFINE j == b * DigestSize + i
  <2>1. b \in Nat /\ b * DigestSize \in Nat /\ b + 1 <= Blocks(s)
    BY <1>1
  <2>2. (b + 1) * DigestSize <= n
    BY <1>1, <2>1, LessTimes
  <2>3. (b + 1) * DigestSize = b * DigestSize + DigestSize
    BY <1>1, <2>1
  <2>4. j \in 1 .. n /\ j - 1 \in Nat /\ j - 1 = DigestSize * b + (i - 1) /\ i - 1 \in 0 .. DigestSize - 1
    BY <1>1, <1>2, <2>1, <2>2, <2>3
  <2>5. (j - 1) \div DigestSize = b /\ ((j - 1) % DigestSize) = i - 1
    BY <1>1, <2>1, <2>4, DivUnique
  <2> HIDE DEF j
  <2>6. at(j) = DigestUnit(Block(PadToBlocks(s), b), i)
    <3>1. (i - 1) + 1 = i
      OBVIOUS
    <3> QED BY <2>5, <3>1 DEF at
  <2>7. Hashes(s)[j] = at(j)
    BY <1>4, <2>4
  <2> QED BY <2>6, <2>7 DEF j
<1> QED
  BY <1>5, <1>6

(* The units of a block.                                                   *)
LEMMA BlockFacts ==
  ASSUME NEW s, IsSeq(s), NEW b \in Nat, (b + 1) * BlockSize <= Len(s)
  PROVE  /\ IsSeq(Block(s, b)) /\ Len(Block(s, b)) = BlockSize
         /\ \A i \in 1 .. BlockSize : Block(s, b)[i] = s[b * BlockSize + i]
<1> DEFINE m == b * BlockSize + 1
           n == (b + 1) * BlockSize
<1>1. b * BlockSize \in Nat /\ n = b * BlockSize + BlockSize /\ BlockSize \in Nat \ {0}
  BY LayoutFacts
<1>2. m \in Nat \ {0} /\ n \in Nat /\ n - m + 1 = BlockSize /\ m <= n
  BY <1>1
<1>3. \A i \in 1 .. BlockSize : m + i - 1 = b * BlockSize + i
  BY <1>1
<1>4. Block(s, b) = SubSeq(s, m, n)
  BY DEF Block
<1> HIDE DEF m
<1>5. n <= Len(s)
  OBVIOUS
<1> HIDE DEF n
<1>6. /\ IsSeq(SubSeq(s, m, n))
      /\ Len(SubSeq(s, m, n)) = IF m <= n THEN n - m + 1 ELSE 0
      /\ \A i \in 1 .. n - m + 1 : SubSeq(s, m, n)[i] = s[m + i - 1]
  BY <1>2, <1>5, SubSeqFacts
<1> QED
  BY <1>2, <1>3, <1>4, <1>6, SMTT(60)

(* A digest is that of one block only.                                     *)
LEMMA DigestFacts ==
  ASSUME NEW block
  PROVE  /\ IsSeq(Digest(block)) /\ Len(Digest(block)) = DigestSize
         /\ \A i \in 1 .. DigestSize : Digest(block)[i] = DigestUnit(block, i)
         /\ Digest(block) # Refused
         /\ \A other : Digest(block) = Digest(other) => block = other
<1>1. DigestSize \in Nat \ {0} /\ 1 \in 1 .. DigestSize
  BY LayoutFacts
<1>2. Digest(block) = [i \in 1 .. DigestSize |-> Digest(block)[i]]
  BY DEF Digest
<1>3. \A any : Digest(any)[1] = DigestUnit(any, 1)
  BY <1>1 DEF Digest
<1>4. IsSeq(Digest(block)) /\ Len(Digest(block)) = DigestSize
  BY <1>1, <1>2, FunIsSeq
<1>5. Digest(block) # Refused
  <2>1. Len(Refused) = 0
    BY EmptySeq DEF Refused
  <2> QED BY <1>1, <1>4, <2>1
<1>6. ASSUME NEW other, Digest(block) = Digest(other) PROVE block = other
  <2>1. DigestUnit(block, 1) = DigestUnit(other, 1)
    BY <1>3, <1>6
  <2>2. DigestUnit(block, 1).of = block /\ DigestUnit(other, 1).of = other
    BY DEF DigestUnit
  <2> QED BY <2>1, <2>2
<1>7. \A i \in 1 .. DigestSize : Digest(block)[i] = DigestUnit(block, i)
  BY DEF Digest
<1> QED
  BY <1>4, <1>5, <1>6, <1>7
-----------------------------------------------------------------------------
(* The levels of a hash tree.                                              *)

LEMMA HashesPerBlockFacts ==
  HashesPerBlock \in Nat /\ HashesPerBlock >= 2 /\ BlockSize = HashesPerBlock * DigestSize
<1>1. BlockSize = DigestSize * HashesPerBlock + 0 /\ HashesPerBlock \in Nat
  BY DivFacts, LayoutAssumption, LayoutFacts DEF HashesPerBlock
<1>2. DigestSize < BlockSize /\ DigestSize \in Nat /\ BlockSize \in Nat
  BY LayoutAssumption, LayoutFacts
<1>3. HashesPerBlock # 0 /\ HashesPerBlock # 1
  BY <1>1, <1>2
<1> QED BY <1>1, <1>2, <1>3

(* Power is what it is meant to be.                                        *)
IsPower(g, m) == g[0] = 1 /\ \A i \in 0 .. m - 1 : g[i + 1] = HashesPerBlock * g[i]

LEMMA PowersExist == \A m \in Nat : \E g : IsPower(g, m)
<1> DEFINE S == {m \in Nat : \E g : IsPower(g, m)}
<1>1. 0 \in S
  <2>1. IsPower([i \in {0} |-> 1], 0)
    BY DEF IsPower
  <2> QED BY <2>1
<1>2. ASSUME NEW m \in Nat, m \in S PROVE m + 1 \in S
  <2>1. PICK g : IsPower(g, m)
    BY <1>2
  <2> DEFINE e == [i \in 0 .. m + 1 |-> IF i <= m THEN g[i] ELSE HashesPerBlock * g[m]]
  <2>2. IsPower(e, m + 1)
    BY <2>1 DEF IsPower
  <2> QED BY <2>2
<1> HIDE DEF S
<1>3. Nat \subseteq S
  BY <1>1, <1>2, Induction
<1> QED BY <1>3 DEF S

LEMMA PowersAgree ==
  ASSUME NEW m \in Nat, NEW n \in Nat, NEW f, NEW g, IsPower(f, m), IsPower(g, n),
         NEW k \in Nat, k <= m, k <= n
  PROVE  f[k] = g[k]
<1> DEFINE S == {i \in Nat : i <= m /\ i <= n => f[i] = g[i]}
<1>1. 0 \in S
  BY DEF IsPower
<1>2. ASSUME NEW i \in Nat, i \in S PROVE i + 1 \in S
  <2> SUFFICES ASSUME i + 1 <= m, i + 1 <= n PROVE f[i + 1] = g[i + 1]
    OBVIOUS
  <2>1. i \in 0 .. m - 1 /\ i \in 0 .. n - 1 /\ f[i] = g[i]
    BY <1>2
  <2> QED BY <2>1 DEF IsPower
<1> HIDE DEF S
<1>3. k \in S
  BY <1>1, <1>2, Induction
<1> QED BY <1>3 DEF S

LEMMA PowerDefined ==
  Power = [n \in Nat |-> IF n = 0 THEN 1 ELSE HashesPerBlock * Power[n - 1]]
<1> DEFINE g(m) == CHOOSE g : IsPower(g, m)
           p == [n \in Nat |-> g(n)[n]]
<1>1. \A m \in Nat : IsPower(g(m), m)
  BY PowersExist
<1> HIDE DEF g
<1>2. ASSUME NEW n \in Nat PROVE p[n] = IF n = 0 THEN 1 ELSE HashesPerBlock * p[n - 1]
  <2>1. CASE n = 0
    BY <1>1, <2>1 DEF IsPower
  <2>2. CASE n # 0
    <3>1. n - 1 \in Nat /\ n - 1 <= n
      BY <2>2
    <3>2. g(n)[n - 1] = g(n - 1)[n - 1]
      BY <1>1, <3>1, PowersAgree
    <3>3. g(n)[(n - 1) + 1] = HashesPerBlock * g(n)[n - 1]
      <4>1. IsPower(g(n), n) /\ n - 1 \in 0 .. n - 1
        BY <1>1, <3>1
      <4> QED BY <4>1 DEF IsPower
    <3> QED BY <2>2, <3>1, <3>2, <3>3
  <2> QED BY <2>1, <2>2
<1>3. p = [n \in Nat |-> IF n = 0 THEN 1 ELSE HashesPerBlock * p[n - 1]]
  BY <1>2
<1> HIDE DEF p
<1> QED BY <1>3 DEF Power

LEMMA PowerFacts ==
  /\ Power[0] = 1
  /\ \A l \in Nat : /\ Power[l] \in Nat \ {0}
                    /\ Power[l + 1] = HashesPerBlock * Power[l]
<1>1. HashesPerBlock \in Nat /\ HashesPerBlock >= 2
  BY HashesPerBlockFacts
<1>2. Power[0] = 1
  BY PowerDefined
<1>3. ASSUME NEW l \in Nat PROVE Power[l + 1] = HashesPerBlock * Power[l]
  <2>1. l + 1 \in Nat /\ l + 1 # 0 /\ (l + 1) - 1 = l
    OBVIOUS
  <2> QED BY <2>1, PowerDefined
<1> DEFINE S == {l \in Nat : Power[l] \in Nat \ {0}}
<1>4. 0 \in S
  BY <1>2
<1>5. ASSUME NEW l \in Nat, l \in S PROVE l + 1 \in S
  <2>1. HashesPerBlock * Power[l] \in Nat \ {0}
    BY <1>1, <1>5
  <2> QED BY <1>3, <2>1
<1> HIDE DEF S
<1>6. Nat \subseteq S
  BY <1>4, <1>5, Induction
<1> QED BY <1>2, <1>3, <1>6 DEF S

(* The filesystem, the digests of its blocks, the digests of their blocks, *)
(* and so on without end.                                                  *)
IsTower(s, t, n) == t[0] = s /\ \A i \in 0 .. n - 1 : t[i + 1] = Hashes(t[i])
Tower(s) == [n \in Nat |-> (CHOOSE t : IsTower(s, t, n))[n]]

LEMMA TowersExist ==
  ASSUME NEW s
  PROVE  \A n \in Nat : \E t : IsTower(s, t, n)
<1> DEFINE S == {n \in Nat : \E t : IsTower(s, t, n)}
<1>1. 0 \in S
  <2>1. IsTower(s, [i \in {0} |-> s], 0)
    BY DEF IsTower
  <2> QED BY <2>1
<1>2. ASSUME NEW n \in Nat, n \in S PROVE n + 1 \in S
  <2>1. PICK t : IsTower(s, t, n)
    BY <1>2
  <2> DEFINE e == [i \in 0 .. n + 1 |-> IF i <= n THEN t[i] ELSE Hashes(t[n])]
  <2>2. IsTower(s, e, n + 1)
    BY <2>1 DEF IsTower
  <2> QED BY <2>2
<1> HIDE DEF S
<1>3. Nat \subseteq S
  BY <1>1, <1>2, Induction
<1> QED BY <1>3 DEF S

LEMMA TowersAgree ==
  ASSUME NEW s, NEW m \in Nat, NEW n \in Nat, NEW t, NEW u, IsTower(s, t, m), IsTower(s, u, n),
         NEW k \in Nat, k <= m, k <= n
  PROVE  t[k] = u[k]
<1> DEFINE S == {i \in Nat : i <= m /\ i <= n => t[i] = u[i]}
<1>1. 0 \in S
  BY DEF IsTower
<1>2. ASSUME NEW i \in Nat, i \in S PROVE i + 1 \in S
  <2> SUFFICES ASSUME i + 1 <= m, i + 1 <= n PROVE t[i + 1] = u[i + 1]
    OBVIOUS
  <2>1. i \in 0 .. m - 1 /\ i \in 0 .. n - 1 /\ t[i] = u[i]
    BY <1>2
  <2>2. t[i + 1] = Hashes(t[i]) /\ u[i + 1] = Hashes(u[i])
    BY <2>1 DEF IsTower
  <2> QED BY <2>1, <2>2
<1> HIDE DEF S
<1>3. k \in S
  BY <1>1, <1>2, Induction
<1> QED BY <1>3 DEF S

LEMMA TowerFacts ==
  ASSUME NEW s
  PROVE  Tower(s)[0] = s /\ \A n \in Nat : Tower(s)[n + 1] = Hashes(Tower(s)[n])
<1> DEFINE t(n) == CHOOSE t : IsTower(s, t, n)
<1>1. \A n \in Nat : IsTower(s, t(n), n)
  BY TowersExist
<1>2. \A n \in Nat : Tower(s)[n] = t(n)[n]
  BY DEF Tower
<1> HIDE DEF t
<1>3. Tower(s)[0] = s
  BY <1>1, <1>2 DEF IsTower
<1>4. ASSUME NEW n \in Nat PROVE Tower(s)[n + 1] = Hashes(Tower(s)[n])
  <2>1. n + 1 \in Nat /\ n <= n + 1 /\ n <= n /\ n \in 0 .. (n + 1) - 1
    OBVIOUS
  <2>2. t(n + 1)[n] = t(n)[n]
    BY <1>1, <2>1, TowersAgree
  <2>3. t(n + 1)[n + 1] = Hashes(t(n + 1)[n])
    BY <1>1, <2>1 DEF IsTower
  <2> QED BY <1>2, <2>1, <2>2, <2>3
<1> QED BY <1>3, <1>4

(* Each level has as many blocks as a power of what a hash block holds     *)
(* leaves of the data blocks.                                              *)
LEMMA TowerBlocks ==
  ASSUME NEW s, IsSeq(s)
  PROVE  \A l \in Nat : /\ IsSeq(Tower(s)[l])
                        /\ Blocks(Tower(s)[l]) = DivCeil(Blocks(s), Power[l])
                        /\ Len(Tower(s)[l + 1]) = Blocks(Tower(s)[l]) * DigestSize
<1> DEFINE T == Tower(s)
           n == Blocks(s)
           S == {l \in Nat : IsSeq(T[l]) /\ Blocks(T[l]) = DivCeil(n, Power[l])}
<1>1. T[0] = s /\ \A l \in Nat : T[l + 1] = Hashes(T[l])
  BY TowerFacts
<1>2. n \in Nat
  BY PadFacts
<1>3. 0 \in S
  <2>1. DivCeil(n, 1) = n
    <3>1. n <= n * 1 /\ (n - 1) * 1 < n /\ 1 \in Nat \ {0}
      BY <1>2
    <3> QED BY <1>2, <3>1, CeilUnique
  <2> QED BY <1>1, <2>1, PowerFacts
<1> HIDE DEF T
<1>4. ASSUME NEW l \in Nat, l \in S PROVE l + 1 \in S
  <2>1. IsSeq(T[l]) /\ Blocks(T[l]) = DivCeil(n, Power[l])
    BY <1>4
  <2>2. IsSeq(T[l + 1]) /\ Len(T[l + 1]) = Blocks(T[l]) * DigestSize
    BY <1>1, <2>1, HashesAre
  <2>3. Power[l] \in Nat \ {0} /\ Power[l + 1] = HashesPerBlock * Power[l]
    BY PowerFacts
  <2>4. HashesPerBlock \in Nat \ {0} /\ BlockSize = HashesPerBlock * DigestSize
    BY HashesPerBlockFacts
  <2>5. DivCeil(DivCeil(n, Power[l]) * DigestSize, HashesPerBlock * DigestSize)
          = DivCeil(n, HashesPerBlock * Power[l])
    <3> DEFINE p == Power[l]
    <3>1. p \in Nat \ {0} /\ DigestSize \in Nat \ {0}
      BY <2>3, LayoutFacts
    <3> HIDE DEF p
    <3>2. DivCeil(DivCeil(n, p) * DigestSize, HashesPerBlock * DigestSize)
            = DivCeil(n, HashesPerBlock * p)
      BY <1>2, <2>4, <3>1, CeilOfCeil, ZenonT(60)
    <3> QED BY <3>2 DEF p
  <2>6. Blocks(T[l + 1]) = DivCeil(n, Power[l + 1])
    BY <2>1, <2>2, <2>3, <2>4, <2>5 DEF Blocks
  <2> QED BY <2>2, <2>6
<1> HIDE DEF S
<1>5. Nat \subseteq S
  BY <1>3, <1>4, Induction
<1>6. ASSUME NEW l \in Nat
      PROVE  IsSeq(T[l]) /\ Blocks(T[l]) = DivCeil(n, Power[l])
             /\ Len(T[l + 1]) = Blocks(T[l]) * DigestSize
  <2>1. IsSeq(T[l]) /\ Blocks(T[l]) = DivCeil(n, Power[l])
    BY <1>5 DEF S
  <2> QED BY <1>1, <2>1, HashesAre
<1> QED BY <1>6 DEF T

LEMMA PowerGrows == \A l \in Nat : l < Power[l]
<1> DEFINE S == {l \in Nat : l < Power[l]}
<1>1. 0 \in S
  BY PowerFacts
<1>2. ASSUME NEW l \in Nat, l \in S PROVE l + 1 \in S
  <2>1. Power[l] \in Nat \ {0} /\ Power[l + 1] = HashesPerBlock * Power[l] /\ l < Power[l]
    BY <1>2, PowerFacts
  <2>2. HashesPerBlock \in Nat /\ 2 <= HashesPerBlock
    BY HashesPerBlockFacts
  <2>3. 2 * Power[l] <= HashesPerBlock * Power[l]
    BY <2>1, <2>2, LessTimes
  <2>4. HashesPerBlock * Power[l] \in Nat
    BY <2>1, <2>2
  <2> QED BY <2>1, <2>3, <2>4
<1> HIDE DEF S
<1>3. Nat \subseteq S
  BY <1>1, <1>2, Induction
<1> QED BY <1>3 DEF S

(* The builder ends at the level where the guest begins.                   *)
LEMMA TopLevel ==
  ASSUME NEW s, IsSeq(s), Blocks(s) # 0, NEW k \in Nat \ {0},
         Len(Tower(s)[k]) <= DigestSize,
         \A i \in 1 .. k - 1 : Len(Tower(s)[i]) > DigestSize,
         DataBlocks = Blocks(s)
  PROVE  Levels = k - 1 /\ Blocks(Tower(s)[k - 1]) = 1
<1> DEFINE T == Tower(s)
           n == Blocks(s)
           L == k - 1
<1>1. n \in Nat \ {0} /\ L \in Nat /\ DigestSize \in Nat \ {0}
  BY PadFacts, LayoutFacts
<1>2. \A l \in Nat : /\ Blocks(T[l]) = DivCeil(n, Power[l])
                     /\ Len(T[l + 1]) = Blocks(T[l]) * DigestSize
                     /\ Power[l] \in Nat \ {0} /\ l < Power[l]
  BY TowerBlocks, PowerFacts, PowerGrows
<1> HIDE DEF T, n
<1>3. \A l \in Nat : /\ Len(T[l + 1]) <= DigestSize => n <= Power[l]
                     /\ Len(T[l + 1]) > DigestSize => n > Power[l]
  <2> TAKE l \in Nat
  <2> DEFINE c == DivCeil(n, Power[l])
  <2>1. c \in Nat /\ (c <= 1 <=> n <= Power[l]) /\ Len(T[l + 1]) = c * DigestSize
    BY <1>1, <1>2, CeilFacts, CeilIsOne
  <2>2. Power[l] \in Nat
    BY <1>2
  <2> HIDE DEF c
  <2>3. /\ c * DigestSize <= 1 * DigestSize => c <= 1
        /\ c <= 1 => c * DigestSize <= 1 * DigestSize
    BY <1>1, <2>1, LessTimes
  <2>4. 1 * DigestSize = DigestSize /\ c * DigestSize \in Nat
    BY <1>1, <2>1
  <2>5. /\ Len(T[l + 1]) <= DigestSize => c <= 1
        /\ Len(T[l + 1]) > DigestSize => ~(c <= 1)
    BY <1>1, <2>1, <2>3, <2>4
  <2> QED BY <1>1, <2>1, <2>2, <2>5
<1>4. n <= Power[L]
  <2>1. L + 1 = k
    OBVIOUS
  <2>2. Len(T[L + 1]) <= DigestSize
    BY <2>1 DEF T
  <2> QED BY <1>1, <1>3, <2>2
<1>5. \A l \in 0 .. L - 1 : l \in Nat /\ n > Power[l]
  <2> TAKE l \in 0 .. L - 1
  <2>1. l + 1 \in 1 .. k - 1 /\ l \in Nat
    OBVIOUS
  <2>2. Len(T[l + 1]) > DigestSize
    BY <2>1 DEF T
  <2> QED BY <1>3, <2>1, <2>2
<1>6. L \in 0 .. n
  <2>1. CASE L = 0
    BY <1>1, <2>1
  <2>2. CASE L # 0
    <3>1. L - 1 \in 0 .. L - 1 /\ L - 1 \in Nat
      BY <1>1, <2>2
    <3>2. n > Power[L - 1] /\ L - 1 < Power[L - 1] /\ Power[L - 1] \in Nat
      BY <1>2, <1>5, <3>1
    <3> QED BY <1>1, <3>2
  <2> QED BY <2>1, <2>2
<1> DEFINE S == {l \in 0 .. n : n <= Power[l]}
<1>7. Levels = Min(S)
  BY DEF Levels, n
<1>8. L \in S
  BY <1>4, <1>6
<1>9. \A l \in S : L <= l
  <2> TAKE l \in S
  <2>1. l \in 0 .. n /\ n <= Power[l]
    OBVIOUS
  <2>2. l \in Nat /\ Power[l] \in Nat
    <3>1. l \in Nat
      BY <1>1, <2>1
    <3> QED BY <1>2, <3>1
  <2>3. l \notin 0 .. L - 1
    BY <1>1, <1>5, <2>1, <2>2
  <2> QED BY <1>1, <2>2, <2>3
<1>10. S \subseteq Nat
  BY <1>1
<1> HIDE DEF S, L
<1>11. Min(S) = L
  <2>1. \A m \in S : (\A l \in S : m <= l) => m = L
    <3> TAKE m \in S
    <3>1. (\A l \in S : m <= l) => m <= L /\ L <= m
      BY <1>8, <1>9
    <3> QED BY <1>1, <1>10, <3>1
  <2> DEFINE least == CHOOSE m \in S : \A l \in S : m <= l
  <2>2. least \in S /\ \A l \in S : least <= l
    BY <1>8, <1>9
  <2>3. Min(S) = least
    BY DEF Min
  <2> HIDE DEF least
  <2> QED BY <2>1, <2>2, <2>3
<1>12. Blocks(T[L]) = 1
  <2> DEFINE c == DivCeil(n, Power[L])
  <2>1. c \in Nat /\ c <= 1 /\ n <= c * Power[L] /\ Power[L] \in Nat
    BY <1>1, <1>2, <1>4, CeilFacts, CeilIsOne
  <2>2. Blocks(T[L]) = c
    BY <1>1, <1>2
  <2> HIDE DEF c
  <2>3. c # 0
    BY <1>1, <2>1
  <2> QED BY <2>1, <2>2, <2>3
<1> QED
  BY <1>7, <1>11, <1>12 DEF T, L

-----------------------------------------------------------------------------
(* The guest's way through the tree.                                       *)

(* The digest of block c of t lies where the guest looks for it among the  *)
(* digests of all.                                                         *)
LEMMA SlotHoldsDigest ==
  ASSUME NEW t, IsSeq(t), NEW c \in 0 .. Blocks(t) - 1
  PROVE  LET hashes == Block(PadToBlocks(Hashes(t)), c \div HashesPerBlock)
             slot   == c % HashesPerBlock
         IN  SubSeq(hashes, slot * DigestSize + 1, (slot + 1) * DigestSize)
               = Digest(Block(PadToBlocks(t), c))
<1> DEFINE H == HashesPerBlock
           D == DigestSize
           q == c \div H
           r == c % H
           u == Hashes(t)
           pad == PadToBlocks(u)
           hashes == Block(pad, q)
           x == r * D
           y == q * BlockSize
           block == Block(PadToBlocks(t), c)
<1>1. H \in Nat \ {0} /\ BlockSize = H * D /\ D \in Nat \ {0} /\ BlockSize \in Nat \ {0}
  BY HashesPerBlockFacts, LayoutFacts
<1>2. Blocks(t) \in Nat /\ c \in Nat /\ c + 1 <= Blocks(t)
  <2>1. Blocks(t) \in Nat
    BY PadFacts
  <2> QED BY <2>1
<1>3. q \in Nat /\ r \in 0 .. H - 1 /\ c = H * q + r
  BY <1>1, <1>2, DivFacts
<1>4. /\ IsSeq(u) /\ Len(u) = Blocks(t) * D
      /\ \A i \in 1 .. D : u[c * D + i] = DigestUnit(block, i)
  BY HashesAre
<1>5. /\ IsSeq(pad) /\ Blocks(u) \in Nat /\ Len(pad) = Blocks(u) * BlockSize
      /\ Len(u) <= Len(pad) /\ \A i \in 1 .. Len(u) : pad[i] = u[i]
  BY <1>4, PadFacts
<1> HIDE DEF H, D, q, r, u, pad, block
<1>6. x \in Nat /\ y \in Nat /\ c * D = y + x /\ (c + 1) * D = y + x + D
  <2>1. x \in Nat /\ y \in Nat
    BY <1>1, <1>3
  <2>2. (H * q) * D = q * (H * D)
    BY <1>1, <1>3
  <2>3. c * D = (H * q) * D + r * D
    BY <1>1, <1>3
  <2>4. (c + 1) * D = c * D + D
    BY <1>1, <1>2
  <2> QED BY <1>1, <2>1, <2>2, <2>3, <2>4
<1>7. y + x + D <= Len(u) /\ x + D <= BlockSize /\ (r + 1) * D = x + D
  <2>1. (c + 1) * D <= Blocks(t) * D
    BY <1>1, <1>2, LessTimes
  <2>2. r + 1 <= H /\ r + 1 \in Nat
    BY <1>1, <1>3
  <2>3. (r + 1) * D <= H * D
    BY <1>1, <2>2, LessTimes
  <2>4. (r + 1) * D = r * D + D
    BY <1>1, <1>3
  <2> QED BY <1>1, <1>4, <1>6, <2>1, <2>3, <2>4
<1>8. (q + 1) * BlockSize <= Len(pad)
  <2>1. q * BlockSize < Blocks(u) * BlockSize
    <3>1. y < Len(pad)
      <4>1. Blocks(u) * BlockSize \in Nat /\ Blocks(t) * D \in Nat
        BY <1>1, <1>2, <1>5
      <4> QED BY <1>1, <1>4, <1>5, <1>6, <1>7, <4>1, SMTT(60)
    <3> QED BY <1>5, <3>1
  <2>2. q < Blocks(u)
    BY <1>1, <1>3, <1>5, <2>1, LessTimes
  <2>3. q + 1 <= Blocks(u) /\ q + 1 \in Nat
    BY <1>3, <1>5, <2>2
  <2>4. (q + 1) * BlockSize <= Blocks(u) * BlockSize
    BY <1>1, <1>5, <2>3, LessTimes
  <2> QED BY <1>5, <2>4
<1>9. /\ IsSeq(hashes) /\ Len(hashes) = BlockSize
      /\ \A i \in 1 .. BlockSize : hashes[i] = pad[y + i]
  BY <1>3, <1>5, <1>8, BlockFacts
<1> DEFINE cut == SubSeq(hashes, x + 1, x + D)
<1> HIDE DEF x, y, hashes
<1>10. /\ IsSeq(cut) /\ Len(cut) = D
       /\ \A i \in 1 .. D : cut[i] = hashes[x + i]
  <2>1. x + 1 \in Nat \ {0} /\ x + D \in Nat /\ x + D <= BlockSize /\ x + 1 <= x + D
        /\ (x + D) - (x + 1) + 1 = D
    BY <1>1, <1>6, <1>7
  <2>2. \A i \in 1 .. D : (x + 1) + i - 1 = x + i
    BY <1>1, <1>6
  <2>3. /\ IsSeq(cut) /\ Len(cut) = IF x + 1 <= x + D THEN (x + D) - (x + 1) + 1 ELSE 0
        /\ \A i \in 1 .. (x + D) - (x + 1) + 1 : cut[i] = hashes[(x + 1) + i - 1]
    <3> DEFINE m == x + 1
               n == x + D
    <3>1. m \in Nat \ {0} /\ n \in Nat /\ n <= Len(hashes)
      BY <1>9, <2>1
    <3> HIDE DEF m, n
    <3>2. /\ IsSeq(SubSeq(hashes, m, n))
          /\ Len(SubSeq(hashes, m, n)) = IF m <= n THEN n - m + 1 ELSE 0
          /\ \A i \in 1 .. n - m + 1 : SubSeq(hashes, m, n)[i] = hashes[m + i - 1]
      BY <1>9, <3>1, SubSeqFacts
    <3> QED BY <3>2 DEF m, n, cut
  <2> QED BY <2>1, <2>2, <2>3
<1> HIDE DEF cut
<1>11. ASSUME NEW i \in 1 .. D PROVE cut[i] = DigestUnit(block, i)
  <2>1. x + i \in 1 .. BlockSize /\ y + (x + i) = c * D + i
    BY <1>1, <1>6, <1>7
  <2>2. c * D + i \in 1 .. Len(u)
    <3>1. Len(u) \in Nat
      BY <1>4, SeqFacts
    <3> QED BY <1>1, <1>6, <1>7, <3>1
  <2>3. hashes[x + i] = pad[c * D + i]
    BY <1>9, <2>1
  <2> QED BY <1>4, <1>5, <1>10, <2>2, <2>3
<1>12. /\ IsSeq(Digest(block)) /\ Len(Digest(block)) = D
       /\ \A i \in 1 .. D : Digest(block)[i] = DigestUnit(block, i)
  BY DigestFacts DEF D
<1>13. cut = Digest(block)
  BY <1>10, <1>11, <1>12, EqualSeqs
<1>14. SubSeq(hashes, r * D + 1, (r + 1) * D) = Digest(block)
  BY <1>7, <1>13 DEF cut, x
<1> QED
  BY <1>14 DEF hashes, H, D, q, r, u, pad, block

(* A step of the guest's way to block b.                                   *)
Hop(b, g, l) ==
  IF l = Levels THEN params.root
  ELSE LET hashes == Block(HashDevice, LevelStart[l] + b \div Power[l + 1])
           slot   == (b \div Power[l]) % HashesPerBlock
       IN  IF Digest(hashes) = g[l + 1]
           THEN SubSeq(hashes, slot * DigestSize + 1, (slot + 1) * DigestSize)
           ELSE Refused

LEMMA ExpectedWalks ==
  ASSUME NEW b, Levels \in Nat
  PROVE  \E g : Expected(b) = g[0] /\ \A l \in 0 .. Levels : g[l] = Hop(b, g, l)
<1> DEFINE L == Levels
           Walks(g, m) == \A l \in L - m .. L : g[l] = Hop(b, g, l)
           S == {m \in Nat : m <= L => \E g : Walks(g, m)}
<1>1. 0 \in S
  <2>1. Walks([l \in {L} |-> params.root], 0)
    BY DEF Hop
  <2> QED BY <2>1
<1>2. ASSUME NEW m \in Nat, m \in S PROVE m + 1 \in S
  <2> SUFFICES ASSUME m + 1 <= L PROVE \E g : Walks(g, m + 1)
    OBVIOUS
  <2>1. PICK g : Walks(g, m)
    BY <1>2
  <2> DEFINE k == L - (m + 1)
             e == [l \in k .. L |-> IF l = k THEN Hop(b, g, k) ELSE g[l]]
  <2>2. k \in Nat /\ k < L /\ L - m = k + 1
    OBVIOUS
  <2> HIDE DEF k
  <2>3. \A l \in k + 1 .. L : e[l] = g[l]
    BY <2>2
  <2>4. ASSUME NEW l \in k .. L PROVE Hop(b, e, l) = Hop(b, g, l)
    <3>1. l # L => l + 1 \in k + 1 .. L
      BY <2>2
    <3>2. l # L => e[l + 1] = g[l + 1]
      BY <2>3, <3>1
    <3> HIDE DEF e
    <3> QED BY <3>2 DEF Hop
  <2>5. ASSUME NEW l \in k .. L PROVE e[l] = Hop(b, e, l)
    <3>1. CASE l = k
      <4>1. e[l] = Hop(b, g, k)
        BY <3>1
      <4> QED BY <2>4, <3>1, <4>1
    <3>2. CASE l # k
      <4>1. l \in k + 1 .. L
        BY <2>2, <3>2
      <4>2. g[l] = Hop(b, g, l)
        BY <2>1, <2>2, <4>1
      <4> QED BY <2>3, <2>4, <4>1, <4>2
    <3> QED BY <3>1, <3>2
  <2> QED BY <2>5 DEF k
<1>3. L \in S
  <2> HIDE DEF S
  <2>1. Nat \subseteq S
    BY <1>1, <1>2, Induction
  <2> QED BY <2>1
<1>4. PICK g : \A l \in 0 .. L : g[l] = Hop(b, g, l)
  <2>1. L - L = 0 /\ L <= L
    OBVIOUS
  <2>2. PICK g : Walks(g, L)
    BY <1>3, <2>1
  <2> QED BY <2>1, <2>2
<1> DEFINE f == [l \in 0 .. L |-> g[l]]
<1>5. f = [l \in 0 .. L |-> Hop(b, f, l)]
  <2>1. ASSUME NEW l \in 0 .. L PROVE g[l] = Hop(b, f, l)
    <3>1. l # L => l + 1 \in 0 .. L
      OBVIOUS
    <3>2. l # L => f[l + 1] = g[l + 1]
      BY <3>1
    <3>3. Hop(b, f, l) = Hop(b, g, l)
      <4> HIDE DEF f
      <4> QED BY <3>2 DEF Hop
    <3> QED BY <1>4, <3>3
  <2> QED BY <2>1
<1> DEFINE d == CHOOSE d : d = [l \in 0 .. L |-> Hop(b, d, l)]
<1>6. d = [l \in 0 .. L |-> Hop(b, d, l)]
  <2> HIDE DEF f
  <2> QED BY <1>5
<1>7. Expected(b) = d[0]
  BY DEF Expected, Hop
<1> HIDE DEF d
<1>8. \A l \in 0 .. L : d[l] = Hop(b, d, l)
  BY <1>6
<1> QED
  BY <1>7, <1>8

(* The block that the guest passes at level l on its way to data block b,  *)
(* as the build hashed it.                                                 *)
OnWay(s, b, l) == Block(PadToBlocks(Tower(s)[l]), b \div Power[l])

(* One block has the digest that is a whole level.                         *)
LEMMA OneDigest ==
  ASSUME NEW t, IsSeq(t), Blocks(t) = 1
  PROVE  Hashes(t) = Digest(Block(PadToBlocks(t), 0))
<1> DEFINE block == Block(PadToBlocks(t), 0)
<1>1. DigestSize \in Nat \ {0} /\ 1 * DigestSize = DigestSize /\ 0 \in 0 .. Blocks(t) - 1
      /\ \A i \in 1 .. DigestSize : 0 * DigestSize + i = i
  BY LayoutFacts
<1>2. /\ IsSeq(Hashes(t)) /\ Len(Hashes(t)) = DigestSize
      /\ \A i \in 1 .. DigestSize : Hashes(t)[i] = DigestUnit(block, i)
  BY <1>1, HashesAre
<1> HIDE DEF block
<1>3. /\ IsSeq(Digest(block)) /\ Len(Digest(block)) = DigestSize
      /\ \A i \in 1 .. DigestSize : Digest(block)[i] = DigestUnit(block, i)
  BY DigestFacts
<1>4. Hashes(t) = Digest(block)
  BY <1>2, <1>3, EqualSeqs
<1> QED BY <1>4 DEF block

(* A level down.                                                           *)
LEMMA HopDown ==
  ASSUME NEW s, IsSeq(s), NEW b \in 0 .. Blocks(s) - 1, NEW g, NEW l \in Nat, l # Levels,
         g[l] = Hop(b, g, l), g[l + 1] \in {Refused, Digest(OnWay(s, b, l + 1))}
  PROVE  /\ g[l] \in {Refused, Digest(OnWay(s, b, l))}
         /\ (/\ g[l + 1] # Refused
             /\ Block(HashDevice, LevelStart[l] + b \div Power[l + 1]) = OnWay(s, b, l + 1))
            => g[l] = Digest(OnWay(s, b, l))
<1> DEFINE t == Tower(s)[l]
           c == b \div Power[l]
           hashes == Block(HashDevice, LevelStart[l] + b \div Power[l + 1])
           slot == c % HashesPerBlock
           Cut1(h) == SubSeq(h, slot * DigestSize + 1, (slot + 1) * DigestSize)
<1>1. Blocks(s) \in Nat /\ b \in Nat
  <2>1. Blocks(s) \in Nat
    BY PadFacts
  <2> QED BY <2>1
<1>2. Power[l] \in Nat \ {0} /\ Power[l + 1] = HashesPerBlock * Power[l]
      /\ HashesPerBlock \in Nat \ {0}
  BY PowerFacts, HashesPerBlockFacts
<1>3. IsSeq(t) /\ Blocks(t) = DivCeil(Blocks(s), Power[l])
  BY TowerBlocks
<1>4. c \in 0 .. Blocks(t) - 1
  <2> DEFINE n == Blocks(s)
             p == Power[l]
  <2>1. n \in Nat /\ p \in Nat \ {0} /\ b \in 0 .. n - 1
    BY <1>1, <1>2
  <2> HIDE DEF n, p
  <2>2. b \div p \in 0 .. DivCeil(n, p) - 1
    BY <2>1, DivBelow
  <2> QED BY <1>3, <2>2 DEF n, p
<1>5. b \div Power[l + 1] = c \div HashesPerBlock
  <2> DEFINE p == Power[l]
  <2>1. p \in Nat \ {0}
    BY <1>2
  <2> HIDE DEF p
  <2>2. b \div (HashesPerBlock * p) = (b \div p) \div HashesPerBlock
    BY <1>1, <1>2, <2>1, DivOfDiv
  <2> QED BY <1>2, <2>2 DEF p
<1>6. Cut1(Block(PadToBlocks(Hashes(t)), c \div HashesPerBlock)) = Digest(Block(PadToBlocks(t), c))
  BY <1>3, <1>4, SlotHoldsDigest
<1>7. Cut1(OnWay(s, b, l + 1)) = Digest(OnWay(s, b, l))
  <2>1. Tower(s)[l + 1] = Hashes(t)
    BY TowerFacts
  <2> QED BY <1>5, <1>6, <2>1 DEF OnWay
<1>8. g[l] = IF Digest(hashes) = g[l + 1] THEN Cut1(hashes) ELSE Refused
  BY DEF Hop
<1> HIDE DEF hashes, Cut1
<1>9. Digest(hashes) # Refused
      /\ (Digest(hashes) = Digest(OnWay(s, b, l + 1)) => hashes = OnWay(s, b, l + 1))
  BY DigestFacts
<1>10. CASE Digest(hashes) = g[l + 1]
  <2>1. g[l + 1] = Digest(OnWay(s, b, l + 1)) /\ hashes = OnWay(s, b, l + 1)
    BY <1>9, <1>10
  <2> QED BY <1>7, <1>8, <1>10, <2>1
<1>11. CASE Digest(hashes) # g[l + 1]
  <2>1. g[l] = Refused
    BY <1>8, <1>11
  <2>2. g[l + 1] = Refused \/ hashes # OnWay(s, b, l + 1)
    BY <1>11
  <2> QED BY <2>1, <2>2 DEF hashes
<1> QED BY <1>10, <1>11

(* What the guest learns from the command line, and that it agrees with    *)
(* what the build made of s.                                               *)
Announced(s, k) ==
  /\ IsSeq(s) /\ Blocks(s) # 0 /\ DataBlocks = Blocks(s)
  /\ k \in Nat \ {0} /\ Tower(s)[k] = params.root
  /\ Len(Tower(s)[k]) <= DigestSize
  /\ \A i \in 1 .. k - 1 : Len(Tower(s)[i]) > DigestSize

LEMMA RootOnWay ==
  ASSUME NEW s, NEW k, Announced(s, k), NEW b \in 0 .. Blocks(s) - 1
  PROVE  Levels = k - 1 /\ params.root = Digest(OnWay(s, b, Levels))
<1> DEFINE L == k - 1
<1>1. IsSeq(s) /\ k \in Nat \ {0} /\ L \in Nat /\ L + 1 = k /\ Tower(s)[k] = params.root
  BY DEF Announced
<1>2. Levels = L /\ Blocks(Tower(s)[L]) = 1
  BY TopLevel DEF Announced
<1> HIDE DEF L
<1>3. Power[L] \in Nat \ {0} /\ IsSeq(Tower(s)[L])
      /\ Blocks(Tower(s)[L]) = DivCeil(Blocks(s), Power[L]) /\ Tower(s)[L + 1] = Hashes(Tower(s)[L])
  BY <1>1, PowerFacts, TowerBlocks, TowerFacts, ZenonT(60)
<1>4. b \div Power[L] = 0
  <2> DEFINE n == Blocks(s)
             p == Power[L]
  <2>1. n \in Nat /\ p \in Nat \ {0} /\ b \in 0 .. n - 1
    BY <1>1, <1>3, PadFacts
  <2> HIDE DEF n, p
  <2>2. b \div p \in 0 .. DivCeil(n, p) - 1
    BY <2>1, DivBelow
  <2>3. DivCeil(n, p) = 1
    BY <1>2, <1>3 DEF n, p
  <2>4. b \div p = 0
    BY <2>2, <2>3
  <2> QED BY <2>4 DEF p
<1>5. params.root = Digest(OnWay(s, b, L))
  BY <1>1, <1>2, <1>3, <1>4, OneDigest DEF OnWay
<1> QED BY <1>2, <1>5 DEF L

(* The digest that the guest expects of a block is that of the sealed one, *)
(* or none; and it is that one if the tree is where the guest looks.       *)
LEMMA WayDown ==
  ASSUME NEW s, NEW k, Announced(s, k), NEW b \in 0 .. Blocks(s) - 1
  PROVE  /\ Expected(b) \in {Refused, Digest(OnWay(s, b, 0))}
         /\ (\A l \in 0 .. Levels - 1 :
               Block(HashDevice, LevelStart[l] + b \div Power[l + 1]) = OnWay(s, b, l + 1))
            => Expected(b) = Digest(OnWay(s, b, 0))
<1> DEFINE L == Levels
           Found == \A l \in 0 .. L - 1 :
                      Block(HashDevice, LevelStart[l] + b \div Power[l + 1]) = OnWay(s, b, l + 1)
<1>1. L \in Nat /\ params.root = Digest(OnWay(s, b, L)) /\ IsSeq(s)
  BY RootOnWay DEF Announced
<1>2. PICK g : Expected(b) = g[0] /\ \A l \in 0 .. L : g[l] = Hop(b, g, l)
  BY <1>1, ExpectedWalks
<1> HIDE DEF L, Found
<1> DEFINE Right(l) == /\ g[l] \in {Refused, Digest(OnWay(s, b, l))}
                       /\ Found => g[l] = Digest(OnWay(s, b, l))
           S == {m \in Nat : m <= L => Right(L - m)}
<1>3. 0 \in S
  <2>1. L - 0 = L /\ L \in 0 .. L
    BY <1>1
  <2>2. g[L] = params.root
    BY <1>2, <2>1 DEF Hop, L
  <2> QED BY <1>1, <2>1, <2>2
<1>4. ASSUME NEW m \in Nat, m \in S PROVE m + 1 \in S
  <2> SUFFICES ASSUME m + 1 <= L PROVE Right(L - (m + 1))
    OBVIOUS
  <2> DEFINE l == L - (m + 1)
  <2>1. l \in Nat /\ l \in 0 .. L - 1 /\ l \in 0 .. L /\ l # L /\ L - m = l + 1 /\ m <= L
    BY <1>1
  <2>2. Right(l + 1)
    BY <1>4, <2>1
  <2> HIDE DEF l
  <2>3. g[l] = Hop(b, g, l) /\ g[l + 1] \in {Refused, Digest(OnWay(s, b, l + 1))}
    BY <1>2, <2>1, <2>2
  <2>4. l # Levels
    BY <2>1 DEF L
  <2>5. /\ g[l] \in {Refused, Digest(OnWay(s, b, l))}
        /\ (/\ g[l + 1] # Refused
            /\ Block(HashDevice, LevelStart[l] + b \div Power[l + 1]) = OnWay(s, b, l + 1))
           => g[l] = Digest(OnWay(s, b, l))
    BY <1>1, <2>1, <2>3, <2>4, HopDown
  <2>6. Found => g[l + 1] # Refused
    BY <2>2, DigestFacts
  <2>7. Found => Block(HashDevice, LevelStart[l] + b \div Power[l + 1]) = OnWay(s, b, l + 1)
    BY <2>1 DEF Found
  <2>8. Right(l)
    BY <2>5, <2>6, <2>7
  <2> QED BY <2>8 DEF l
<1> HIDE DEF S
<1>5. L \in S
  BY <1>1, <1>3, <1>4, Induction
<1>6. L - L = 0 /\ L <= L
  BY <1>1
<1>7. Right(0)
  BY <1>5, <1>6 DEF S
<1> QED
  BY <1>2, <1>7 DEF Found, L

(* A read returns the sealed block, or is refused.                         *)
LEMMA ReadsSealed ==
  ASSUME NEW s, NEW k, Announced(s, k), NEW b \in 0 .. Blocks(s) - 1
  PROVE  /\ ReadBlock(b) \in {Refused, Block(PadToBlocks(s), b)}
         /\ (/\ Block(DataDevice, b) = Block(PadToBlocks(s), b)
             /\ \A l \in 0 .. Levels - 1 :
                  Block(HashDevice, LevelStart[l] + b \div Power[l + 1]) = OnWay(s, b, l + 1))
            => ReadBlock(b) = Block(PadToBlocks(s), b)
<1>1. OnWay(s, b, 0) = Block(PadToBlocks(s), b)
  <2>1. b \in Nat
    <3>1. Blocks(s) \in Nat
      BY PadFacts DEF Announced
    <3> QED BY <3>1
  <2>2. b \div 1 = b
    BY <2>1
  <2> QED BY <2>2, TowerFacts, PowerFacts DEF OnWay
<1> DEFINE block == Block(DataDevice, b)
<1>2. /\ Digest(block) # Refused
      /\ Digest(block) = Digest(OnWay(s, b, 0)) => block = OnWay(s, b, 0)
  BY DigestFacts
<1>3. b < DataBlocks
  <2>1. Blocks(s) \in Nat /\ DataBlocks = Blocks(s)
    BY PadFacts DEF Announced
  <2> QED BY <2>1
<1> HIDE DEF block
<1>4. ReadBlock(b) = IF Digest(block) = Expected(b) THEN block ELSE Refused
  BY <1>3 DEF ReadBlock, block
<1> QED
  BY <1>1, <1>2, <1>4, WayDown DEF block
-----------------------------------------------------------------------------
(* Where the levels are laid out.                                          *)

(* Where a level lies among the levels, in blocks: the top one of them     *)
(* first, each of the others behind the one above it.                      *)
LaidOut(s, lv, top, p) ==
  LET n(i) == Blocks(Tower(s)[i]) IN
  /\ p[top] = 0
  /\ \A i \in 1 .. top : p[i] \in Nat /\ p[i] + n(i) <= p[1] + n(1)
  /\ \A i \in 1 .. top - 1 : p[i] = p[i + 1] + n(i + 1)
  /\ Len(lv) = (p[1] + n(1)) * BlockSize
  /\ \A i \in 1 .. top : \A j \in 1 .. n(i) * BlockSize :
       lv[p[i] * BlockSize + j] = PadToBlocks(Tower(s)[i])[j]

LEMMA FirstPlace ==
  ASSUME NEW s, IsSeq(s)
  PROVE  \E p : LaidOut(s, PadToBlocks(Tower(s)[1]), 1, p)
<1> DEFINE p == [i \in {1} |-> 0]
           t == Tower(s)[1]
           pad == PadToBlocks(t)
<1>1. IsSeq(t)
  <2>1. 1 \in Nat
    OBVIOUS
  <2> QED BY <2>1, TowerBlocks
<1>2. Blocks(t) \in Nat /\ Len(pad) = Blocks(t) * BlockSize
  BY <1>1, PadFacts
<1> HIDE DEF t, pad
<1>3. p[1] = 0 /\ \A i \in 1 .. 1 : i = 1
  OBVIOUS
<1> HIDE DEF p
<1>4. \A j : p[1] * BlockSize + j = 0 * BlockSize + j
  BY <1>3
<1>5. \A j \in 1 .. Blocks(t) * BlockSize : 0 * BlockSize + j = j
  BY LayoutFacts
<1>6. p[1] \in Nat /\ p[1] + Blocks(t) <= p[1] + Blocks(t) /\ (p[1] + Blocks(t)) * BlockSize = Len(pad)
  BY <1>2, <1>3
<1>7. \A i \in 1 .. 1 - 1 : FALSE
  OBVIOUS
<1>8. LaidOut(s, pad, 1, p)
  BY <1>3, <1>4, <1>5, <1>6, <1>7 DEF LaidOut, t, pad
<1> QED BY <1>8 DEF pad, t

LEMMA NextPlace ==
  ASSUME NEW s, IsSeq(s), NEW lv, IsSeq(lv), NEW top \in Nat \ {0}, NEW p,
         LaidOut(s, lv, top, p)
  PROVE  \E q : LaidOut(s, PadToBlocks(Tower(s)[top + 1]) \o lv, top + 1, q)
<1> DEFINE n(i) == Blocks(Tower(s)[i])
           m == n(top + 1)
           pad == PadToBlocks(Tower(s)[top + 1])
           new == pad \o lv
           q == [i \in 1 .. top + 1 |-> IF i = top + 1 THEN 0 ELSE p[i] + m]
<1>1. \A i \in Nat : IsSeq(Tower(s)[i]) /\ n(i) \in Nat
  <2>1. \A i \in Nat : IsSeq(Tower(s)[i])
    BY TowerBlocks
  <2> QED BY <2>1, PadFacts
<1>2. IsSeq(pad) /\ Len(pad) = m * BlockSize /\ m \in Nat
  <2> DEFINE t == Tower(s)[top + 1]
  <2>1. top + 1 \in Nat
    OBVIOUS
  <2>2. IsSeq(t)
    BY <1>1, <2>1
  <2> HIDE DEF t
  <2>3. IsSeq(PadToBlocks(t)) /\ Len(PadToBlocks(t)) = Blocks(t) * BlockSize /\ Blocks(t) \in Nat
    BY <2>2, PadFacts
  <2> QED BY <2>3 DEF t
<1>3. /\ IsSeq(new) /\ Len(new) = Len(pad) + Len(lv) /\ Len(lv) \in Nat
      /\ \A i \in 1 .. Len(pad) : new[i] = pad[i]
      /\ \A i \in Len(pad) + 1 .. Len(pad) + Len(lv) : new[i] = lv[i - Len(pad)]
  BY <1>2, ConcatFacts, SeqFacts
<1>4. /\ p[top] = 0
      /\ \A i \in 1 .. top : p[i] \in Nat /\ p[i] + n(i) <= p[1] + n(1)
      /\ \A i \in 1 .. top - 1 : p[i] = p[i + 1] + n(i + 1)
      /\ Len(lv) = (p[1] + n(1)) * BlockSize
      /\ \A i \in 1 .. top : \A j \in 1 .. n(i) * BlockSize :
           lv[p[i] * BlockSize + j] = PadToBlocks(Tower(s)[i])[j]
  BY DEF LaidOut
<1>5. q[top + 1] = 0 /\ \A i \in 1 .. top : q[i] = p[i] + m
  OBVIOUS
<1> HIDE DEF q, new, n, m
<1>6. m = n(top + 1)
  BY DEF m
<1>7. \A i \in 1 .. top + 1 : q[i] \in Nat /\ q[i] + n(i) <= q[1] + n(1)
  <2>1. q[1] = p[1] + m /\ p[1] \in Nat /\ n(1) \in Nat
    <3>1. 1 \in 1 .. top /\ 1 \in Nat
      OBVIOUS
    <3> QED BY <1>1, <1>4, <1>5, <3>1
  <2>2. ASSUME NEW i \in 1 .. top PROVE q[i] \in Nat /\ q[i] + n(i) <= q[1] + n(1)
    <3>1. q[i] = p[i] + m /\ p[i] \in Nat /\ p[i] + n(i) <= p[1] + n(1) /\ n(i) \in Nat
      <4>1. i \in Nat
        OBVIOUS
      <4> QED BY <1>1, <1>4, <1>5, <4>1
    <3>2. \A x, y, z, w \in Nat : x + y <= z + w => x + m \in Nat /\ (x + m) + y <= (z + m) + w
      BY <1>2
    <3>3. q[1] = p[1] + m /\ p[1] \in Nat /\ n(1) \in Nat
      BY <2>1
    <3> QED BY <3>1, <3>2, <3>3
  <2>3. q[top + 1] \in Nat /\ q[top + 1] + n(top + 1) <= q[1] + n(1)
    BY <1>2, <1>5, <1>6, <2>1
  <2>4. \A i \in 1 .. top + 1 : i \in 1 .. top \/ i = top + 1
    OBVIOUS
  <2> QED BY <2>2, <2>3, <2>4
<1>8. \A i \in 1 .. (top + 1) - 1 : q[i] = q[i + 1] + n(i + 1)
  <2> TAKE i \in 1 .. (top + 1) - 1
  <2>1. i \in 1 .. top /\ p[i] \in Nat
    BY <1>4
  <2>2. CASE i = top
    BY <1>2, <1>4, <1>5, <1>6, <2>1, <2>2
  <2>3. CASE i # top
    <3>1. i \in 1 .. top - 1 /\ i + 1 \in 1 .. top /\ i + 1 \in Nat
      BY <2>1, <2>3
    <3>2. p[i] = p[i + 1] + n(i + 1) /\ q[i] = p[i] + m /\ q[i + 1] = p[i + 1] + m
          /\ n(i + 1) \in Nat /\ p[i + 1] \in Nat
      BY <1>1, <1>4, <1>5, <2>1, <3>1
    <3> QED BY <1>2, <3>2
  <2> QED BY <2>2, <2>3
<1>9. Len(new) = (q[1] + n(1)) * BlockSize
  <2>1. q[1] = p[1] + m /\ p[1] \in Nat /\ n(1) \in Nat
    <3>1. 1 \in 1 .. top /\ 1 \in Nat
      OBVIOUS
    <3> QED BY <1>1, <1>4, <1>5, <3>1
  <2>2. (q[1] + n(1)) * BlockSize = m * BlockSize + (p[1] + n(1)) * BlockSize
    BY <1>2, <2>1, LayoutFacts
  <2> QED BY <1>2, <1>3, <1>4, <2>2
<1>10. ASSUME NEW i \in 1 .. top + 1, NEW j \in 1 .. n(i) * BlockSize
       PROVE  new[q[i] * BlockSize + j] = PadToBlocks(Tower(s)[i])[j]
  <2>1. CASE i = top + 1
    <3>1. j \in 1 .. Len(pad)
      BY <1>2, <1>6, <2>1
    <3>2. q[i] * BlockSize + j = j
      BY <1>2, <1>5, <2>1, <3>1, LayoutFacts
    <3> QED BY <1>3, <2>1, <3>1, <3>2
  <2>2. CASE i # top + 1
    <3>1. i \in 1 .. top /\ i \in Nat
      BY <2>2
    <3>2. q[i] = p[i] + m /\ p[i] \in Nat /\ n(i) \in Nat /\ p[1] \in Nat /\ n(1) \in Nat
          /\ p[i] + n(i) <= p[1] + n(1)
      <4>1. 1 \in 1 .. top /\ 1 \in Nat
        OBVIOUS
      <4> QED BY <1>1, <1>4, <1>5, <3>1, <4>1
    <3>3. /\ q[i] * BlockSize = Len(pad) + p[i] * BlockSize
          /\ p[i] * BlockSize \in Nat /\ n(i) * BlockSize \in Nat
          /\ (p[i] + n(i)) * BlockSize = p[i] * BlockSize + n(i) * BlockSize
      <4> DEFINE a == p[i]
                 c == n(i)
                 B == BlockSize
      <4>1. a \in Nat /\ c \in Nat /\ q[i] = a + m /\ B \in Nat /\ Len(pad) = m * B /\ m \in Nat
        BY <1>2, <3>2, LayoutFacts
      <4> HIDE DEF a, c, B
      <4>2. (a + m) * B = m * B + a * B /\ a * B \in Nat /\ c * B \in Nat
            /\ (a + c) * B = a * B + c * B
        BY <4>1
      <4>3. q[i] * B = Len(pad) + a * B
        BY <4>1, <4>2
      <4> QED BY <4>2, <4>3 DEF a, c, B
    <3>4. (p[i] + n(i)) * BlockSize <= Len(lv)
      <4> DEFINE a == p[i] + n(i)
                 b == p[1] + n(1)
      <4>1. a \in Nat /\ b \in Nat /\ a <= b
        BY <3>2
      <4> HIDE DEF a, b
      <4>2. a * BlockSize <= b * BlockSize
        BY <4>1, LessTimes, LayoutFacts
      <4> QED BY <1>4, <4>2 DEF a, b
    <3> DEFINE x == p[i] * BlockSize + j
    <3>5. x \in 1 .. Len(lv) /\ q[i] * BlockSize + j = Len(pad) + x
      <4>1. Len(pad) \in Nat
        BY <1>2, SeqFacts
      <4> QED BY <1>3, <3>3, <3>4, <4>1, SMTT(60)
    <3>6. lv[x] = PadToBlocks(Tower(s)[i])[j]
      BY <1>4, <3>1
    <3> HIDE DEF x
    <3>7. new[Len(pad) + x] = lv[x]
      <4>1. Len(pad) \in Nat
        BY <1>2, SeqFacts
      <4>2. Len(pad) + x \in Len(pad) + 1 .. Len(pad) + Len(lv) /\ (Len(pad) + x) - Len(pad) = x
        BY <1>3, <3>5, <4>1
      <4> QED BY <1>3, <4>2
    <3> QED BY <3>5, <3>6, <3>7
  <2> QED BY <2>1, <2>2
<1>11. LaidOut(s, new, top + 1, q)
  BY <1>5, <1>7, <1>8, <1>9, <1>10 DEF LaidOut, n
<1> QED BY <1>11 DEF new
-----------------------------------------------------------------------------
(* The invariant of the builder.                                           *)

(* A unit that is not a superblock, and units of which none is another     *)
(* superblock than the filesystem's.                                       *)
Plain(u) == DOMAIN u # {"dataBlocks"}
AllPlain(s) == \A i \in 1 .. Len(s) : Plain(s[i])
OneCount(s) == \A i \in 1 .. Len(s) : Plain(s[i]) \/ s[i] = Superblock(Blocks(sealed))

(* The file is the filesystem that was made, while it is hashed and until  *)
(* its tree is behind it.                                                  *)
FileKept ==
  /\ kind = "disk" => Len(sealed) % BlockSize = 0
  /\ AllPlain(sealed)
  /\ phase = "truncate" => SubSeq(file, 1, size) = sealed
  /\ phase \in {"hash data", "hash levels", "place"} => file = sealed
  /\ phase = "sealed" /\ kind = "root" => file = sealed
  /\ phase = "sealed" /\ kind = "disk" /\ faults = 0 => file = sealed \o tree

(* The loops have climbed to level k, and all levels below the root hash   *)
(* are laid out, the highest first.                                        *)
Climbed(k) ==
  /\ current = Tower(sealed)[k]
  /\ \A i \in 1 .. k - 1 : Len(Tower(sealed)[i]) > DigestSize
  /\ \E p : LaidOut(sealed, levels, IF k > 1 /\ Len(current) <= DigestSize THEN k - 1 ELSE k, p)

Hashed ==
  phase \in {"hash levels", "place", "sealed"} =>
    AllPlain(levels) /\ \E k \in Nat \ {0} : Climbed(k)

TreeKept ==
  /\ phase \in {"place", "sealed"} =>
       /\ Len(current) <= DigestSize
       /\ tree = (IF kind = "root" THEN PadToBlocks(<<Superblock(Blocks(sealed))>>) ELSE <<>>)
                 \o levels
  /\ phase = "sealed" =>
       params = [root |-> current, hashoffset |-> IF kind = "disk" THEN size ELSE 0]
  /\ phase = "sealed" /\ kind = "root" =>
       IsSeq(image) /\ Len(image) = TotalSectors * SectorSize /\ OneCount(image)

TreeInv == FileKept /\ Hashed /\ TreeKept

LEMMA UnitsPlain ==
  /\ Plain(Zero) /\ Plain(Bad)
  /\ \A n, i : Plain(Data(n, i)) /\ Plain(DigestUnit(n, i))
BY DEF Plain, Zero, Bad, Data, DigestUnit

LEMMA PaddedPlain ==
  ASSUME NEW s, IsSeq(s), AllPlain(s)
  PROVE  AllPlain(PadToBlocks(s))
<1>1. /\ Len(s) \in Nat /\ Blocks(s) \in Nat /\ Len(PadToBlocks(s)) = Blocks(s) * BlockSize
      /\ \A i \in 1 .. Len(s) : PadToBlocks(s)[i] = s[i]
      /\ \A i \in Len(s) + 1 .. Blocks(s) * BlockSize : PadToBlocks(s)[i] = Zero
  BY PadFacts, SeqFacts
<1> DEFINE n == Blocks(s) * BlockSize
<1>2. n \in Nat
  BY <1>1, LayoutFacts
<1> HIDE DEF n
<1>3. \A i \in 1 .. n : i \in 1 .. Len(s) \/ i \in Len(s) + 1 .. n
  BY <1>1, <1>2
<1> QED BY <1>1, <1>3, UnitsPlain DEF AllPlain, n

LEMMA HashesPlain ==
  ASSUME NEW s, IsSeq(s)
  PROVE  AllPlain(Hashes(s))
<1> DEFINE n == Blocks(s) * DigestSize
           at(i) == DigestUnit(Block(PadToBlocks(s), (i - 1) \div DigestSize),
                               ((i - 1) % DigestSize) + 1)
<1>1. Hashes(s) = [i \in 1 .. n |-> at(i)] /\ Len(Hashes(s)) = n
  BY HashesAre DEF Hashes
<1>2. \A i : Plain(at(i))
  BY UnitsPlain
<1> HIDE DEF n, at
<1> QED BY <1>1, <1>2 DEF AllPlain

LEMMA ConcatPlain ==
  ASSUME NEW s, NEW t, IsSeq(s), IsSeq(t), AllPlain(s), AllPlain(t)
  PROVE  AllPlain(s \o t)
<1>1. /\ Len(s \o t) = Len(s) + Len(t) /\ Len(s) \in Nat /\ Len(t) \in Nat
      /\ \A i \in 1 .. Len(s) : (s \o t)[i] = s[i]
      /\ \A i \in Len(s) + 1 .. Len(s) + Len(t) : (s \o t)[i] = t[i - Len(s)]
  BY ConcatFacts, SeqFacts
<1>2. ASSUME NEW i \in 1 .. Len(s) + Len(t) PROVE Plain((s \o t)[i])
  <2>1. CASE i \in 1 .. Len(s)
    BY <1>1, <2>1 DEF AllPlain
  <2>2. CASE i \notin 1 .. Len(s)
    <3>1. i \in Len(s) + 1 .. Len(s) + Len(t) /\ i - Len(s) \in 1 .. Len(t)
      BY <1>1, <2>2
    <3> QED BY <1>1, <3>1 DEF AllPlain
  <2> QED BY <2>1, <2>2
<1> QED BY <1>1, <1>2 DEF AllPlain

(* The beginning of a sequence.                                            *)
LEMMA FrontOf ==
  ASSUME NEW s, IsSeq(s), NEW t, IsSeq(t)
  PROVE  SubSeq(s \o t, 1, Len(s)) = s /\ SubSeq(s, 1, Len(s)) = s
<1> DEFINE n == Len(s)
           st == s \o t
<1>1. n \in Nat /\ Len(t) \in Nat
  BY SeqFacts
<1>2. IsSeq(st) /\ Len(st) = n + Len(t) /\ \A i \in 1 .. n : st[i] = s[i]
  BY ConcatFacts
<1> HIDE DEF st
<1>3. ASSUME NEW u, IsSeq(u), n <= Len(u), \A i \in 1 .. n : u[i] = s[i]
      PROVE  SubSeq(u, 1, n) = s
  <2> DEFINE c == SubSeq(u, 1, n)
  <2>1. 1 \in Nat \ {0}
    OBVIOUS
  <2>2. /\ IsSeq(c) /\ Len(c) = IF 1 <= n THEN n - 1 + 1 ELSE 0
        /\ \A i \in 1 .. n - 1 + 1 : c[i] = u[1 + i - 1]
    BY <1>1, <1>3, <2>1, SubSeqFacts
  <2>3. Len(c) = n /\ n - 1 + 1 = n /\ \A i \in 1 .. n : 1 + i - 1 = i
    BY <1>1, <2>2
  <2>4. \A i \in 1 .. n : c[i] = s[i]
    BY <1>3, <2>2, <2>3
  <2> HIDE DEF c
  <2>5. c = s
    BY <2>2, <2>3, <2>4, EqualSeqs
  <2> QED BY <2>5 DEF c
<1>4. SubSeq(st, 1, n) = s
  <2>1. n <= Len(st)
    BY <1>1, <1>2
  <2> QED BY <1>2, <1>3, <2>1
<1>5. SubSeq(s, 1, n) = s
  <2>1. n <= Len(s)
    BY <1>1
  <2> QED BY <1>3, <2>1
<1> QED BY <1>4, <1>5 DEF st

LEMMA InitTree == Init => TreeInv
<1> SUFFICES ASSUME Init PROVE TreeInv
  OBVIOUS
<1>1. Len(sealed) = 0
  BY EmptySeq DEF Init
<1>2. AllPlain(sealed)
  BY <1>1 DEF AllPlain
<1>3. Len(sealed) % BlockSize = 0
  BY <1>1, LayoutFacts
<1> QED BY <1>2, <1>3 DEF Init, TreeInv, FileKept, Hashed, TreeKept

LEMMA MakeFilesystemClimbs ==
  ASSUME VerityInv, NEW n \in Nat, MakeFilesystem(n)
  PROVE  TreeInv'
<1> DEFINE bytes == IF kind = "disk" THEN AlignUp(n, BlockSize) ELSE n
           old == SubSeq(file, bytes + 1, Len(file))
<1>1. bytes \in Nat /\ (kind = "disk" => bytes % BlockSize = 0)
  BY AlignUpFacts, LayoutFacts
<1>2. /\ size' = bytes /\ sealed' = NewFilesystem(bytes)
      /\ file' = IF kind = "disk" THEN sealed' \o old ELSE sealed'
      /\ phase' = IF kind = "disk" THEN "truncate" ELSE "hash data"
      /\ kind' = kind
  BY DEF MakeFilesystem
<1> HIDE DEF bytes
<1>3. IsSeq(old)
  <2>1. IsSeq(file) /\ Len(file) \in Nat
    BY SeqFacts DEF VerityInv, SeqTypes
  <2>2. bytes + 1 \in Nat \ {0} /\ Len(file) <= Len(file)
    BY <1>1, <2>1
  <2> QED BY <2>1, <2>2, SubSeqFacts
<1> HIDE DEF old
<1>4. IsSeq(sealed') /\ Len(sealed') = bytes /\ AllPlain(sealed')
  <2> DEFINE fs == NewFilesystem(bytes)
  <2>1. fs = [i \in 1 .. bytes |-> fs[i]] /\ \A i \in 1 .. bytes : fs[i] = Data(builds, i)
    BY DEF NewFilesystem
  <2> HIDE DEF fs
  <2>2. IsSeq(fs) /\ Len(fs) = bytes
    BY <1>1, <2>1, FunIsSeq
  <2>3. AllPlain(fs)
    BY <2>1, <2>2, UnitsPlain DEF AllPlain
  <2> QED BY <1>2, <2>2, <2>3 DEF fs
<1>5. phase' = "truncate" => SubSeq(file', 1, size') = sealed'
  BY <1>2, <1>3, <1>4, FrontOf
<1>6. FileKept'
  BY <1>1, <1>2, <1>4, <1>5 DEF FileKept, AllPlain
<1>7. phase' \in {"truncate", "hash data"}
  BY <1>2
<1> QED BY <1>6, <1>7 DEF TreeInv, Hashed, TreeKept

LEMMA TruncateClimbs ==
  ASSUME VerityInv, TreeInv, Truncate
  PROVE  TreeInv'
BY DEF Truncate, TreeInv, FileKept, Hashed, TreeKept, AllPlain

LEMMA HashDataClimbs ==
  ASSUME VerityInv, TreeInv, HashData
  PROVE  TreeInv'
<1>1. /\ phase = "hash data" /\ current' = Hashes(file) /\ levels' = PadToBlocks(current')
      /\ phase' = "hash levels" /\ UNCHANGED <<kind, file, size, tree, sealed>>
  BY DEF HashData
<1>2. file = sealed /\ IsSeq(sealed)
  BY <1>1 DEF TreeInv, FileKept, VerityInv, SeqTypes
<1>3. current' = Tower(sealed)[1] /\ IsSeq(current')
  <2>1. 0 \in Nat /\ 0 + 1 = 1
    OBVIOUS
  <2>2. Tower(sealed)[0] = sealed /\ Tower(sealed)[0 + 1] = Hashes(Tower(sealed)[0])
    BY <2>1, TowerFacts
  <2> QED BY <1>1, <1>2, <2>1, <2>2, HashesAre
<1>4. AllPlain(levels')
  BY <1>1, <1>2, <1>3, HashesPlain, PaddedPlain
<1>5. \E p : LaidOut(sealed, levels', 1, p)
  BY <1>1, <1>2, <1>3, FirstPlace
<1>6. Climbed(1)'
  <2>1. \A i \in 1 .. 1 - 1 : FALSE
    OBVIOUS
  <2>2. (IF 1 > 1 /\ Len(current') <= DigestSize THEN 1 - 1 ELSE 1) = 1
    OBVIOUS
  <2> QED BY <1>1, <1>3, <1>5, <2>1, <2>2 DEF Climbed
<1>7. Hashed'
  <2>1. 1 \in Nat \ {0}
    OBVIOUS
  <2> QED BY <1>4, <1>6, <2>1 DEF Hashed
<1>8. FileKept' /\ TreeKept'
  BY <1>1, <1>2 DEF TreeInv, FileKept, TreeKept, AllPlain
<1> QED BY <1>7, <1>8 DEF TreeInv

LEMMA HashLevelClimbs ==
  ASSUME VerityInv, TreeInv, HashLevel
  PROVE  TreeInv'
<1>1. /\ phase = "hash levels" /\ Len(current) > DigestSize
      /\ current' = Hashes(current)
      /\ levels' = IF Len(current') > DigestSize THEN PadToBlocks(current') \o levels ELSE levels
      /\ UNCHANGED <<kind, file, size, tree, sealed, phase>>
  BY DEF HashLevel
<1>2. /\ IsSeq(sealed) /\ IsSeq(current) /\ IsSeq(levels) /\ Len(current) \in Nat
      /\ Len(current') \in Nat
  <2>1. IsSeq(current')
    BY <1>1, HashesAre DEF VerityInv, SeqTypes
  <2> QED BY <2>1, SeqFacts DEF VerityInv, SeqTypes
<1>3. PICK k \in Nat \ {0} : Climbed(k)
  BY <1>1 DEF TreeInv, Hashed
<1>4. current' = Tower(sealed)[k + 1] /\ IsSeq(current') /\ AllPlain(current')
  <2>1. k \in Nat
    OBVIOUS
  <2>2. Tower(sealed)[k + 1] = Hashes(Tower(sealed)[k])
    BY <2>1, TowerFacts
  <2> QED BY <1>1, <1>2, <1>3, <2>2, HashesAre, HashesPlain DEF Climbed
<1>5. PICK p : LaidOut(sealed, levels, k, p)
  <2>1. ~(Len(current) <= DigestSize)
    <3>1. \A x, y \in Nat : x > y => ~(x <= y)
      OBVIOUS
    <3>2. Len(current) \in Nat /\ DigestSize \in Nat /\ Len(current) > DigestSize
      BY <1>1, <1>2, LayoutFacts
    <3> QED BY <3>1, <3>2, Zenon
  <2> QED BY <1>3, <2>1 DEF Climbed
<1>6. AllPlain(levels')
  <2>1. AllPlain(levels)
    BY <1>1 DEF TreeInv, Hashed
  <2>2. IsSeq(PadToBlocks(current')) /\ AllPlain(PadToBlocks(current'))
    BY <1>4, PadFacts, PaddedPlain
  <2>3. AllPlain(PadToBlocks(current') \o levels)
    BY <1>2, <2>1, <2>2, ConcatPlain
  <2> QED BY <1>1, <2>1, <2>3
<1>7. \E q : LaidOut(sealed, levels', IF Len(current') <= DigestSize THEN k ELSE k + 1, q)
  <2>1. CASE Len(current') <= DigestSize
    <3>1. ~(Len(current') > DigestSize)
      BY <1>2, <2>1, LayoutFacts
    <3> QED BY <1>1, <1>5, <2>1, <3>1
  <2>2. CASE ~(Len(current') <= DigestSize)
    <3>1. Len(current') > DigestSize
      BY <1>2, <2>2, LayoutFacts
    <3>2. \E q : LaidOut(sealed, PadToBlocks(Tower(sealed)[k + 1]) \o levels, k + 1, q)
      BY <1>2, <1>5, NextPlace
    <3> QED BY <1>1, <1>4, <2>2, <3>1, <3>2
  <2> QED BY <2>1, <2>2
<1>8. Climbed(k + 1)'
  <2>1. \A i \in 1 .. (k + 1) - 1 : Len(Tower(sealed)[i]) > DigestSize
    <3> TAKE i \in 1 .. (k + 1) - 1
    <3>1. i \in 1 .. k - 1 \/ i = k
      OBVIOUS
    <3>2. Len(Tower(sealed)[k]) > DigestSize
      BY <1>1, <1>3 DEF Climbed
    <3> QED BY <1>3, <3>1, <3>2 DEF Climbed
  <2>2. k + 1 > 1 /\ (k + 1) - 1 = k
    OBVIOUS
  <2>3. sealed' = sealed
    BY <1>1
  <2> QED BY <1>4, <1>7, <2>1, <2>2, <2>3 DEF Climbed
<1>9. Hashed'
  <2>1. k + 1 \in Nat \ {0}
    OBVIOUS
  <2> QED BY <1>6, <1>8, <2>1 DEF Hashed
<1>10. FileKept' /\ TreeKept'
  BY <1>1 DEF TreeInv, FileKept, TreeKept, AllPlain
<1> QED BY <1>9, <1>10 DEF TreeInv

(* The sectors of an image whose tree is not empty.                        *)
LEMMA SectorBounds ==
  ASSUME SeqTypes
  PROVE  /\ Part2Start \in Nat /\ Part2End + 1 \in Nat /\ TotalSectors \in Nat
         /\ Part2End + 1 <= TotalSectors
         /\ Part2Start <= Part2End + 1
         /\ Len(tree) <= (Part2End + 1) * SectorSize - Part2Start * SectorSize
         /\ ((Part2End + 1) * SectorSize) <= TotalSectors * SectorSize
<1> DEFINE A == AlignSectors
           S == SectorSize
<1>1. A \in Nat \ {0} /\ S \in Nat \ {0} /\ BackupSectors \in Nat /\ IsSeq(file) /\ IsSeq(tree)
      /\ Len(tree) \in Nat
  BY LayoutFacts, SeqFacts DEF SeqTypes
<1>2. PICK q \in Nat : Sectors(file) = q * A /\ Len(file) <= (q * A) * S
  BY <1>1, SectorsFacts
<1>3. PICK r \in Nat : Sectors(tree) = r * A /\ Len(tree) <= (r * A) * S
  BY <1>1, SectorsFacts
<1> DEFINE x == q * A
           y == r * A
           p2 == Part2Start
           e2 == Part2End + 1
<1>4. x \in Nat /\ y \in Nat
  BY <1>1
<1> HIDE DEF A, S, x, y
<1>5. Part1End + 1 \in Nat
  <2>1. Part1End = A + x - 1
    BY <1>2 DEF Part1End, Part1Start, A, x
  <2> QED BY <1>1, <1>4, <2>1
<1>6. p2 \in Nat
  <2> DEFINE n == Part1End + 1
  <2>1. n \in Nat
    BY <1>5
  <2> HIDE DEF n
  <2>2. AlignUp(n, A) \in Nat
    BY <1>1, <2>1, AlignUpFacts
  <2> QED BY <2>2 DEF Part2Start, n, A
<1> HIDE DEF p2
<1>7. e2 = p2 + y
  <2>1. Part2End = p2 + y - 1
    BY <1>3 DEF Part2End, p2, y, A
  <2> QED BY <1>4, <1>6, <2>1
<1>8. TotalSectors = e2 + BackupSectors
  BY <1>7 DEF TotalSectors
<1> HIDE DEF e2
<1>9. e2 * S = p2 * S + y * S /\ p2 * S \in Nat /\ y * S \in Nat
  BY <1>1, <1>4, <1>6, <1>7
<1>10. (e2 + BackupSectors) * S = e2 * S + BackupSectors * S /\ BackupSectors * S \in Nat
  BY <1>1, <1>4, <1>6, <1>7
<1>11. e2 \in Nat /\ p2 <= e2 /\ e2 <= e2 + BackupSectors /\ e2 + BackupSectors \in Nat
  BY <1>1, <1>4, <1>6, <1>7
<1>12. Len(tree) <= e2 * S - p2 * S
  <2>1. Len(tree) <= y * S
    BY <1>3 DEF x, y, A, S
  <2> QED BY <1>1, <1>9, <2>1
<1>13. e2 * S <= (e2 + BackupSectors) * S
  BY <1>1, <1>9, <1>10
<1> QED
  BY <1>6, <1>8, <1>11, <1>12, <1>13 DEF e2, p2, S

LEMMA TreeHasOneCount ==
  ASSUME IsSeq(levels), AllPlain(levels)
  PROVE  OneCount(PadToBlocks(<<Superblock(Blocks(sealed))>>) \o levels)
<1> DEFINE u == Superblock(Blocks(sealed))
           head == PadToBlocks(<<u>>)
<1>1. IsSeq(<<u>>) /\ Len(<<u>>) = 1 /\ <<u>>[1] = u
  <2>1. <<u>> \in Seq({u})
    OBVIOUS
  <2>2. IsSeq(<<u>>)
    BY <2>1, WidenSeq
  <2> QED BY <2>2
<1> DEFINE one == <<u>>
<1> HIDE DEF one, u
<1>2. head = PadToBlocks(one) /\ IsSeq(one) /\ Len(one) = 1 /\ one[1] = u
  BY <1>1 DEF one
<1> DEFINE n == Blocks(one) * BlockSize
<1>3. /\ IsSeq(head) /\ Len(head) = n /\ Len(head) \in Nat
      /\ \A i \in 1 .. 1 : head[i] = one[i]
      /\ \A i \in 2 .. n : head[i] = Zero
  <2>1. 1 + 1 = 2
    OBVIOUS
  <2>2. /\ IsSeq(PadToBlocks(one)) /\ Len(PadToBlocks(one)) = n
        /\ \A i \in 1 .. Len(one) : PadToBlocks(one)[i] = one[i]
        /\ \A i \in Len(one) + 1 .. n : PadToBlocks(one)[i] = Zero
    BY <1>2, PadFacts
  <2> QED BY <1>2, <2>1, <2>2, SeqFacts
<1> HIDE DEF head, n
<1>4. OneCount(head)
  <2>1. ASSUME NEW i \in 1 .. n PROVE Plain(head[i]) \/ head[i] = u
    <3>1. CASE i = 1
      BY <1>2, <1>3, <3>1
    <3>2. CASE i # 1
      <4>1. i \in 2 .. n
        BY <1>3, <3>2
      <4> QED BY <1>3, <4>1, UnitsPlain
    <3> QED BY <3>1, <3>2
  <2> QED BY <1>3, <2>1 DEF OneCount, u
<1>5. /\ Len(head \o levels) = Len(head) + Len(levels) /\ Len(levels) \in Nat
      /\ \A i \in 1 .. Len(head) : (head \o levels)[i] = head[i]
      /\ \A i \in Len(head) + 1 .. Len(head) + Len(levels) :
           (head \o levels)[i] = levels[i - Len(head)]
  BY <1>3, ConcatFacts, SeqFacts, SMTT(60)
<1>6. ASSUME NEW i \in 1 .. Len(head) + Len(levels)
      PROVE  Plain((head \o levels)[i]) \/ (head \o levels)[i] = u
  <2>1. CASE i \in 1 .. Len(head)
    BY <1>4, <1>5, <2>1 DEF OneCount, u
  <2>2. CASE i \notin 1 .. Len(head)
    <3>1. i \in Len(head) + 1 .. Len(head) + Len(levels) /\ i - Len(head) \in 1 .. Len(levels)
      BY <1>3, <1>5, <2>2
    <3> QED BY <1>5, <3>1 DEF AllPlain
  <2> QED BY <2>1, <2>2
<1>7. OneCount(head \o levels)
  BY <1>5, <1>6 DEF OneCount, u
<1> QED BY <1>7 DEF head, u

(* A superblock in the image is the filesystem's.                          *)
LEMMA PlainCounts ==
  ASSUME NEW s, AllPlain(s)
  PROVE  OneCount(s)
BY DEF AllPlain, OneCount

LEMMA PutCounts ==
  ASSUME NEW disk, IsSeq(disk), OneCount(disk), NEW s, IsSeq(s), OneCount(s), NEW offset \in Nat
  PROVE  IsSeq(Put(disk, offset, s)) /\ Len(Put(disk, offset, s)) = Len(disk)
         /\ OneCount(Put(disk, offset, s))
<1>1. /\ IsSeq(Put(disk, offset, s)) /\ Len(Put(disk, offset, s)) = Len(disk)
      /\ \A i \in 1 .. Len(disk) :
           Put(disk, offset, s)[i] = IF i \in offset + 1 .. offset + Len(s)
                                     THEN s[i - offset] ELSE disk[i]
  BY PutFacts, ZenonT(60)
<1>2. Len(s) \in Nat /\ Len(disk) \in Nat
  BY SeqFacts
<1>3. \A i \in offset + 1 .. offset + Len(s) : i - offset \in 1 .. Len(s)
  BY <1>2
<1> QED BY <1>1, <1>3 DEF OneCount

LEMMA WriteGptCounts ==
  ASSUME NEW disk, IsSeq(disk), OneCount(disk)
  PROVE  IsSeq(WriteGpt(disk)) /\ Len(WriteGpt(disk)) = Len(disk) /\ OneCount(WriteGpt(disk))
<1>1. IsSeq(WriteGpt(disk)) /\ Len(WriteGpt(disk)) = Len(disk)
  BY WriteGptFacts
<1>2. \A i \in 1 .. Len(disk) : WriteGpt(disk)[i] = Bad \/ WriteGpt(disk)[i] = disk[i]
  BY DEF WriteGpt
<1> QED BY <1>1, <1>2, UnitsPlain DEF OneCount

LEMMA ImageCounts ==
  ASSUME SeqTypes, OneCount(file), OneCount(tree)
  PROVE  IsSeq(GptImage) /\ Len(GptImage) = TotalSectors * SectorSize /\ OneCount(GptImage)
<1> DEFINE n == TotalSectors * SectorSize
           a == Part1Start * SectorSize
           c == Part2Start * SectorSize
           empty == Zeros(n)
<1>1. n \in Nat /\ a \in Nat /\ c \in Nat /\ IsSeq(file) /\ IsSeq(tree)
  BY SectorBounds, LayoutFacts, SMTT(60) DEF SeqTypes, Part1Start
<1>2. GptImage = WriteGpt(Put(Put(empty, a, file), c, tree))
  BY DEF GptImage
<1> HIDE DEF n, a, c
<1>3. IsSeq(empty) /\ Len(empty) = n /\ OneCount(empty)
  <2>1. IsSeq(empty) /\ Len(empty) = n /\ \A i \in 1 .. n : empty[i] = Zero
    BY <1>1, ZerosFacts
  <2> QED BY <2>1, UnitsPlain DEF OneCount
<1> HIDE DEF empty
<1> DEFINE one == Put(empty, a, file)
           two == Put(one, c, tree)
<1>4. IsSeq(one) /\ Len(one) = n /\ OneCount(one)
  BY <1>1, <1>3, PutCounts
<1> HIDE DEF one
<1>5. IsSeq(two) /\ Len(two) = n /\ OneCount(two)
  BY <1>1, <1>4, PutCounts
<1> HIDE DEF two
<1>6. IsSeq(WriteGpt(two)) /\ Len(WriteGpt(two)) = n /\ OneCount(WriteGpt(two))
  BY <1>5, WriteGptCounts
<1> QED BY <1>2, <1>6 DEF n, one, two
-----------------------------------------------------------------------------
LEMMA SameClimb ==
  ASSUME UNCHANGED <<sealed, current, levels>>, \E k \in Nat \ {0} : Climbed(k)
  PROVE  \E k \in Nat \ {0} : Climbed(k)'
<1>1. PICK k \in Nat \ {0} : Climbed(k)
  OBVIOUS
<1>2. Climbed(k)'
  BY <1>1 DEF Climbed
<1> QED BY <1>2

LEMMA WriteTreeClimbs ==
  ASSUME VerityInv, TreeInv, WriteTree
  PROVE  TreeInv'
<1>1. Hashed'
  BY SameClimb DEF WriteTree, TreeInv, Hashed, AllPlain
<1>2. file = sealed
  BY DEF WriteTree, TreeInv, FileKept
<1>3. TreeKept'
  BY <1>2 DEF WriteTree, TreeKept
<1>4. FileKept'
  BY DEF WriteTree, TreeInv, FileKept, AllPlain
<1> QED BY <1>1, <1>3, <1>4 DEF TreeInv

LEMMA AppendTreeClimbs ==
  ASSUME VerityInv, TreeInv, AppendTree
  PROVE  TreeInv'
<1>1. Hashed'
  BY SameClimb DEF AppendTree, TreeInv, Hashed, AllPlain
<1>2. TreeKept'
  BY DEF AppendTree, TreeInv, TreeKept
<1>3. FileKept'
  BY DEF AppendTree, TreeInv, FileKept, AllPlain
<1> QED BY <1>1, <1>2, <1>3 DEF TreeInv

LEMMA AssembleGptClimbs ==
  ASSUME VerityInv, TreeInv, AssembleGpt
  PROVE  TreeInv'
<1>1. /\ phase = "place" /\ kind = "root" /\ image' = GptImage /\ phase' = "sealed"
      /\ params' = [root |-> current, hashoffset |-> 0]
      /\ UNCHANGED <<kind, file, size, current, levels, tree, sealed>>
  BY DEF AssembleGpt, GptImage
<1>2. Hashed'
  BY <1>1, SameClimb DEF TreeInv, Hashed, AllPlain
<1>3. FileKept'
  BY <1>1 DEF TreeInv, FileKept, AllPlain
<1>4. OneCount(file) /\ OneCount(tree)
  <2>1. file = sealed /\ AllPlain(sealed)
    BY <1>1 DEF TreeInv, FileKept
  <2>2. AllPlain(levels) /\ IsSeq(levels)
    BY <1>1 DEF TreeInv, Hashed, VerityInv, SeqTypes
  <2>3. tree = PadToBlocks(<<Superblock(Blocks(sealed))>>) \o levels
    BY <1>1 DEF TreeInv, TreeKept
  <2> QED BY <2>1, <2>2, <2>3, PlainCounts, TreeHasOneCount
<1>5. IsSeq(GptImage) /\ Len(GptImage) = TotalSectors * SectorSize /\ OneCount(GptImage)
  BY <1>4, ImageCounts DEF VerityInv
<1>6. TotalSectors' = TotalSectors
  BY <1>1 DEF TotalSectors, Part2End, Part2Start, Part1End, Part1Start, Sectors
<1>7. OneCount(GptImage)'
  <2>1. GptImage' = GptImage
    BY <1>1, <1>6 DEF GptImage, TotalSectors, Part1Start, Part1End, Part2Start, Part2End, Sectors
  <2>2. Blocks(sealed)' = Blocks(sealed)
    BY <1>1
  <2> QED BY <1>5, <2>1, <2>2 DEF OneCount
<1>8. IsSeq(image') /\ Len(image') = TotalSectors' * SectorSize /\ OneCount(image)'
  BY <1>1, <1>5, <1>6 DEF OneCount
<1>9. TreeKept'
  BY <1>1, <1>8 DEF TreeInv, TreeKept
<1> QED BY <1>2, <1>3, <1>9 DEF TreeInv

LEMMA CrashClimbs ==
  ASSUME VerityInv, TreeInv, Crash
  PROVE  TreeInv'
BY DEF Crash, TreeInv, FileKept, Hashed, TreeKept, AllPlain

LEMMA GoBadClimbs ==
  ASSUME VerityInv, TreeInv, GoBad
  PROVE  TreeInv'
<1>1. /\ phase = "sealed" /\ faults' = faults + 1
      /\ UNCHANGED <<kind, size, current, levels, tree, params, phase, sealed>>
  BY DEF GoBad
<1>2. Hashed'
  BY <1>1, SameClimb DEF TreeInv, Hashed, AllPlain
<1>3. kind = "root" => UNCHANGED file
  BY DEF GoBad
<1>4. FileKept'
  <2>1. faults' # 0
    BY <1>1 DEF VerityInv, TypeOK
  <2> QED BY <1>1, <1>3, <2>1 DEF TreeInv, FileKept, AllPlain
<1>5. ASSUME kind = "root"
      PROVE  IsSeq(image') /\ Len(image') = TotalSectors' * SectorSize /\ OneCount(image)'
  <2>1. PICK i \in DOMAIN image, u \in {Zero, Bad} \cup ToSet(image) :
          image' = [image EXCEPT ![i] = u]
    BY <1>5 DEF GoBad, Spoilt
  <2>2. IsSeq(image) /\ Len(image) = TotalSectors * SectorSize /\ OneCount(image)
    BY <1>1, <1>5 DEF TreeInv, TreeKept
  <2>3. Len(image) \in Nat /\ DOMAIN image = 1 .. Len(image)
        /\ image = [j \in 1 .. Len(image) |-> image[j]]
    BY <2>2, SeqFacts
  <2>4. image' = [j \in 1 .. Len(image) |-> image'[j]]
    BY <2>1, <2>3
  <2>5. IsSeq(image') /\ Len(image') = Len(image)
    BY <2>3, <2>4, FunIsSeq
  <2>6. TotalSectors' = TotalSectors
    BY <1>1, <1>3, <1>5 DEF TotalSectors, Part2End, Part2Start, Part1End, Part1Start, Sectors
  <2>7. Plain(u) \/ u = Superblock(Blocks(sealed))
    BY <2>2, <2>3, UnitsPlain DEF OneCount, ToSet
  <2>8. \A j \in 1 .. Len(image) : image'[j] = u \/ image'[j] = image[j]
    BY <2>1, <2>3
  <2>9. \A j \in 1 .. Len(image') : Plain(image'[j]) \/ image'[j] = Superblock(Blocks(sealed))
    BY <2>2, <2>5, <2>7, <2>8 DEF OneCount
  <2>10. Blocks(sealed') = Blocks(sealed)
    BY <1>1
  <2> QED BY <2>2, <2>5, <2>6, <2>9, <2>10 DEF OneCount
<1>6. TreeKept'
  BY <1>1, <1>5 DEF TreeInv, TreeKept
<1> QED BY <1>2, <1>4, <1>6 DEF TreeInv

LEMMA SameTree ==
  ASSUME TreeInv, UNCHANGED vars
  PROVE  TreeInv'
<1> USE DEF vars
<1>1. TotalSectors' = TotalSectors
  BY DEF TotalSectors, Part2End, Part2Start, Part1End, Part1Start, Sectors
<1>2. Hashed'
  BY SameClimb DEF TreeInv, Hashed, AllPlain
<1>3. TreeKept'
  BY <1>1 DEF TreeInv, TreeKept, OneCount
<1>4. FileKept'
  BY DEF TreeInv, FileKept, AllPlain
<1> QED BY <1>2, <1>3, <1>4 DEF TreeInv

LEMMA NextTree ==
  ASSUME VerityInv, TreeInv, [Next]_vars
  PROVE  TreeInv'
<1>1. ASSUME NEW n \in 1 .. MaxSize, MakeFilesystem(n) PROVE TreeInv'
  <2>1. n \in Nat
    OBVIOUS
  <2> QED BY <1>1, <2>1, MakeFilesystemClimbs
<1>2. CASE DiskStep
  BY <1>2, TruncateClimbs, HashDataClimbs, HashLevelClimbs, WriteTreeClimbs, AppendTreeClimbs,
     AssembleGptClimbs, CrashClimbs, GoBadClimbs DEF DiskStep
<1>3. CASE UNCHANGED vars
  BY <1>3, SameTree
<1> QED BY <1>1, <1>2, <1>3 DEF Next

-----------------------------------------------------------------------------
(* What the guest reads.                                                   *)

(* A disk's command line tells where the filesystem ends.                  *)
LEMMA DiskBlocks ==
  ASSUME VerityInv, TreeInv, phase = "sealed", kind = "disk"
  PROVE  /\ DataBlocks = Blocks(sealed) /\ HashStart = Blocks(sealed)
         /\ Len(sealed) = Blocks(sealed) * BlockSize
<1> DEFINE n == Len(sealed)
           q == n \div BlockSize
<1>1. n \in Nat /\ n % BlockSize = 0 /\ params.hashoffset = n
  <2>1. IsSeq(sealed) /\ size = n
    BY DEF VerityInv, SeqTypes, TypeOK
  <2>2. params.hashoffset = size /\ n % BlockSize = 0
    BY DEF TreeInv, TreeKept, FileKept
  <2> QED BY <2>1, <2>2, SeqFacts
<1>2. DataBlocks = q /\ HashStart = q
  BY <1>1 DEF DataBlocks, HashStart
<1> HIDE DEF n
<1>3. q \in Nat /\ n = BlockSize * q + (n % BlockSize) /\ BlockSize \in Nat \ {0}
  BY <1>1, DivFacts, LayoutFacts
<1> HIDE DEF q
<1>4. n <= q * BlockSize /\ (q - 1) * BlockSize < n /\ n = q * BlockSize
  BY <1>1, <1>3
<1>5. DivCeil(n, BlockSize) = q
  BY <1>1, <1>3, <1>4, CeilUnique
<1> QED BY <1>2, <1>4, <1>5 DEF Blocks, n

(* The guest finds a superblock before the tree, and there is only one.    *)
LEMMA RootBlocks ==
  ASSUME VerityInv, TreeInv, phase = "sealed", kind = "root"
  PROVE  DataBlocks \in {0, Blocks(sealed)}
<1> DEFINE m == Part2Start * SectorSize
           n == (Part2End + 1) * SectorSize
<1>1. SeqTypes /\ IsSeq(image) /\ Len(image) = TotalSectors * SectorSize /\ OneCount(image)
  BY DEF VerityInv, TreeInv, TreeKept
<1>2. m \in Nat /\ n \in Nat /\ n <= Len(image) /\ Len(tree) <= n - m
  BY <1>1, SectorBounds, LayoutFacts
<1>3. HashDevice = SubSeq(image, m + 1, n)
  BY DEF HashDevice, Partition
<1> HIDE DEF m, n
<1>4. Len(tree) \in Nat /\ Len(tree) # 0
  <2> DEFINE one == <<Superblock(Blocks(sealed))>>
             head == PadToBlocks(one)
  <2>1. one \in Seq({Superblock(Blocks(sealed))}) /\ Len(one) = 1
    OBVIOUS
  <2>2. IsSeq(one)
    BY <2>1, WidenSeq
  <2>3. tree = head \o levels /\ IsSeq(levels)
    BY DEF TreeInv, TreeKept, VerityInv, SeqTypes
  <2> HIDE DEF one
  <2>4. IsSeq(head) /\ Len(head) = Blocks(one) * BlockSize /\ 1 <= Blocks(one) * BlockSize
    BY <2>1, <2>2, PadFacts
  <2> HIDE DEF head
  <2>5. Len(tree) = Len(head) + Len(levels) /\ Len(head) \in Nat /\ Len(levels) \in Nat
    BY <2>3, <2>4, ConcatFacts, SeqFacts
  <2> QED BY <2>4, <2>5
<1>5. m + 1 \in Nat \ {0} /\ m + 1 <= n /\ 1 \in 1 .. n - (m + 1) + 1 /\ (m + 1) + 1 - 1 = m + 1
      /\ m + 1 \in 1 .. Len(image)
  <2>1. Len(image) \in Nat
    BY <1>1, SeqFacts
  <2> QED BY <1>2, <1>4, <2>1
<1> DEFINE a == m + 1
<1>6. HashDevice[1] = image[a]
  <2>1. a \in Nat \ {0} /\ n \in Nat /\ n <= Len(image) /\ 1 \in 1 .. n - a + 1 /\ a + 1 - 1 = a
    BY <1>2, <1>5
  <2>2. HashDevice = SubSeq(image, a, n)
    BY <1>3
  <2> HIDE DEF a
  <2>3. \A i \in 1 .. n - a + 1 : SubSeq(image, a, n)[i] = image[a + i - 1]
    BY <1>1, <2>1, SubSeqFacts
  <2> QED BY <2>1, <2>2, <2>3
<1>7. Plain(HashDevice[1]) \/ HashDevice[1] = Superblock(Blocks(sealed))
  BY <1>1, <1>5, <1>6 DEF OneCount
<1>8. Superblock(Blocks(sealed)).dataBlocks = Blocks(sealed)
  BY DEF Superblock
<1> QED BY <1>7, <1>8 DEF DataBlocks, Plain

LEMMA SealedAgrees ==
  ASSUME VerityInv, TreeInv, phase = "sealed", DataBlocks = Blocks(sealed), Blocks(sealed) # 0
  PROVE  \E k \in Nat \ {0} : Climbed(k) /\ Announced(sealed, k)
<1>1. PICK k \in Nat \ {0} : Climbed(k)
  BY DEF TreeInv, Hashed
<1>2. params.root = current /\ Len(current) <= DigestSize /\ IsSeq(sealed)
  BY DEF TreeInv, TreeKept, VerityInv, SeqTypes
<1>3. Announced(sealed, k)
  BY <1>1, <1>2 DEF Announced, Climbed
<1> QED BY <1>1, <1>3

LEMMA NothingElseIsRead ==
  ASSUME VerityInv, TreeInv
  PROVE  SealedOrRefused
<1> SUFFICES ASSUME phase = "sealed", NEW b \in 0 .. Blocks(sealed) - 1
             PROVE  ReadBlock(b) \in {SealedBlock(b), Refused}
  BY DEF SealedOrRefused
<1>1. Blocks(sealed) \in Nat /\ Blocks(sealed) # 0 /\ b \in Nat
  <2>1. Blocks(sealed) \in Nat
    BY PadFacts DEF VerityInv, SeqTypes
  <2> QED BY <2>1
<1>2. DataBlocks \in {0, Blocks(sealed)}
  BY DiskBlocks, RootBlocks DEF VerityInv, TypeOK
<1>3. CASE DataBlocks = 0
  <2>1. ~(b < DataBlocks)
    BY <1>1, <1>3
  <2> QED BY <2>1 DEF ReadBlock
<1>4. CASE DataBlocks = Blocks(sealed)
  <2>1. PICK k \in Nat \ {0} : Announced(sealed, k)
    BY <1>1, <1>4, SealedAgrees
  <2> QED BY <2>1, ReadsSealed DEF SealedBlock
<1> QED BY <1>2, <1>3, <1>4


LEMMA SameBlock ==
  ASSUME NEW s, IsSeq(s), NEW t, IsSeq(t), NEW a \in Nat, NEW b \in Nat,
         (a + 1) * BlockSize <= Len(s), (b + 1) * BlockSize <= Len(t),
         \A j \in 1 .. BlockSize : s[a * BlockSize + j] = t[b * BlockSize + j]
  PROVE  Block(s, a) = Block(t, b)
<1>1. /\ IsSeq(Block(s, a)) /\ Len(Block(s, a)) = BlockSize
      /\ \A j \in 1 .. BlockSize : Block(s, a)[j] = s[a * BlockSize + j]
  BY BlockFacts
<1>2. /\ IsSeq(Block(t, b)) /\ Len(Block(t, b)) = BlockSize
      /\ \A j \in 1 .. BlockSize : Block(t, b)[j] = t[b * BlockSize + j]
  BY BlockFacts
<1> QED BY <1>1, <1>2, EqualSeqs, ZenonT(60)

(* dm-verity finds the levels where the build laid them out.               *)
LEMMA StartsAreRight ==
  ASSUME NEW s, IsSeq(s), DataBlocks = Blocks(s), HashStart \in Nat,
         Levels \in Nat \ {0}, NEW lv, NEW p, LaidOut(s, lv, Levels, p)
  PROVE  \A l \in 0 .. Levels - 1 : LevelStart[l] = HashStart + p[l + 1]
<1> DEFINE L == Levels
           n(i) == Blocks(Tower(s)[i])
           Next1(f, l) == IF l = L - 1 THEN HashStart ELSE f[l + 1] + LevelBlocks(l + 1)
           f == [l \in 0 .. L - 1 |-> HashStart + p[l + 1]]
           start == CHOOSE g : g = [l \in 0 .. L - 1 |-> Next1(g, l)]
<1>1. /\ p[L] = 0
      /\ \A i \in 1 .. L : p[i] \in Nat
      /\ \A i \in 1 .. L - 1 : p[i] = p[i + 1] + n(i + 1)
  BY DEF LaidOut
<1>2. \A l \in Nat : LevelBlocks(l) = n(l + 1) /\ n(l + 1) \in Nat
  <2> TAKE l \in Nat
  <2>1. l + 1 \in Nat
    OBVIOUS
  <2>2. IsSeq(Tower(s)[l + 1]) /\ n(l + 1) = DivCeil(Blocks(s), Power[l + 1])
    BY <2>1, TowerBlocks
  <2> QED BY <2>2, PadFacts DEF LevelBlocks
<1>3. LevelStart = start
  BY DEF LevelStart
<1> HIDE DEF n, L
<1>4. L \in Nat \ {0}
  BY DEF L
<1>5. ASSUME NEW l \in 0 .. L - 1 PROVE f[l] = Next1(f, l)
  <2>1. CASE l = L - 1
    <3>1. l + 1 = L
      BY <1>4, <2>1
    <3> QED BY <1>1, <2>1, <3>1
  <2>2. CASE l # L - 1
    <3>1. l + 1 \in 0 .. L - 1 /\ l + 1 \in 1 .. L - 1 /\ l + 1 \in Nat /\ (l + 1) + 1 \in 1 .. L
      BY <1>4, <2>2
    <3>2. p[l + 1] = p[(l + 1) + 1] + n((l + 1) + 1) /\ p[(l + 1) + 1] \in Nat
      BY <1>1, <3>1
    <3>3. f[l + 1] = HashStart + p[(l + 1) + 1] /\ f[l] = HashStart + p[l + 1]
      BY <3>1
    <3>4. LevelBlocks(l + 1) = n((l + 1) + 1) /\ n((l + 1) + 1) \in Nat
      BY <1>2, <3>1
    <3>5. Next1(f, l) = f[l + 1] + LevelBlocks(l + 1)
      BY <2>2
    <3> HIDE DEF f, Next1
    <3> QED BY <3>2, <3>3, <3>4, <3>5
  <2> QED BY <2>1, <2>2
<1>6. f = [l \in 0 .. L - 1 |-> Next1(f, l)]
  BY <1>5
<1>7. start = [l \in 0 .. L - 1 |-> Next1(start, l)]
  <2> HIDE DEF f
  <2> QED BY <1>6
<1> HIDE DEF start
<1>8. \A l \in 0 .. L - 1 : start[l] = Next1(start, l)
  BY <1>7
<1>9. \A l \in 0 .. L - 1 : f[l] = HashStart + p[l + 1]
  OBVIOUS
<1> HIDE DEF f
<1> DEFINE S == {m \in Nat : m <= L - 1 => start[(L - 1) - m] = f[(L - 1) - m]}
<1>10. 0 \in S
  <2>1. (L - 1) - 0 = L - 1 /\ L - 1 \in 0 .. L - 1
    BY <1>4
  <2>2. start[L - 1] = HashStart /\ f[L - 1] = HashStart
    BY <1>5, <1>8, <2>1
  <2> QED BY <2>1, <2>2
<1>11. ASSUME NEW m \in Nat, m \in S PROVE m + 1 \in S
  <2> SUFFICES ASSUME m + 1 <= L - 1
               PROVE  start[(L - 1) - (m + 1)] = f[(L - 1) - (m + 1)]
    OBVIOUS
  <2> DEFINE l == (L - 1) - (m + 1)
  <2>1. l \in 0 .. L - 1 /\ l # L - 1 /\ (L - 1) - m = l + 1 /\ m <= L - 1
    BY <1>4
  <2> HIDE DEF l
  <2>2. start[l + 1] = f[l + 1]
    BY <1>11, <2>1
  <2>3. start[l] = f[l]
    BY <1>5, <1>8, <2>1, <2>2
  <2> QED BY <2>3 DEF l
<1> HIDE DEF S
<1>12. Nat \subseteq S
  BY <1>10, <1>11, Induction
<1>13. ASSUME NEW l \in 0 .. L - 1 PROVE start[l] = HashStart + p[l + 1]
  <2>1. (L - 1) - l \in Nat /\ (L - 1) - l <= L - 1 /\ (L - 1) - ((L - 1) - l) = l
    BY <1>4
  <2>2. start[l] = f[l]
    BY <1>12, <2>1 DEF S
  <2> QED BY <1>9, <2>2
<1> QED BY <1>3, <1>13 DEF L

(* Where the tree is in a device, and that its blocks are the levels'.     *)
LevelsBehind(offset) ==
  /\ IsSeq(HashDevice) /\ offset + Len(levels) <= Len(HashDevice)
  /\ \A j \in 1 .. Len(levels) : HashDevice[offset + j] = levels[j]

LEMMA TreeBlock ==
  ASSUME NEW s, IsSeq(s), IsSeq(levels), HashStart \in Nat, LevelsBehind(HashStart * BlockSize),
         NEW top \in Nat \ {0}, NEW p, LaidOut(s, levels, top, p), NEW i \in 1 .. top,
         NEW c \in 0 .. Blocks(Tower(s)[i]) - 1
  PROVE  Block(HashDevice, HashStart + p[i] + c) = Block(PadToBlocks(Tower(s)[i]), c)
<1> DEFINE t == Tower(s)[i]
           n == Blocks(t)
           B == BlockSize
           h == HashStart
           a == p[i]
           pad == PadToBlocks(t)
           e == h + a + c
           m == p[1] + Blocks(Tower(s)[1])
<1>1. IsSeq(t) /\ i \in Nat
  <2>1. i \in Nat
    OBVIOUS
  <2> QED BY <2>1, TowerBlocks
<1>2. n \in Nat /\ IsSeq(pad) /\ Len(pad) = n * B /\ B \in Nat \ {0}
  BY <1>1, PadFacts, LayoutFacts
<1>3. /\ a \in Nat /\ a + n <= m /\ Len(levels) = m * B
      /\ \A j \in 1 .. n * B : levels[a * B + j] = pad[j]
  BY DEF LaidOut
<1>4. m \in Nat
  <2>1. 1 \in 1 .. top /\ 1 \in Nat
    OBVIOUS
  <2>2. p[1] \in Nat
    BY <2>1 DEF LaidOut
  <2>3. IsSeq(Tower(s)[1])
    BY <2>1, TowerBlocks
  <2>4. Blocks(Tower(s)[1]) \in Nat
    BY <2>3, PadFacts
  <2> QED BY <2>2, <2>4
<1>5. h \in Nat /\ IsSeq(HashDevice) /\ h * B + Len(levels) <= Len(HashDevice)
      /\ \A j \in 1 .. Len(levels) : HashDevice[h * B + j] = levels[j]
  BY DEF LevelsBehind
<1>6. Len(HashDevice) \in Nat
  BY <1>5, SeqFacts
<1>7. c \in Nat /\ c + 1 <= n
  <2> HIDE DEF n
  <2>1. c \in 0 .. n - 1
    BY DEF n
  <2> QED BY <1>2, <2>1
<1> HIDE DEF t, n, B, h, a, pad, m
(* The same in units.                                                      *)
<1> DEFINE X == h * B
           Y == a * B
           Z == c * B
           M == m * B
           N == n * B
           E == e * B
           len == Len(HashDevice)
<1>8. /\ E = X + Y + Z /\ (e + 1) * B = X + Y + Z + B
      /\ (c + 1) * B = Z + B /\ (a + (c + 1)) * B = Y + Z + B
      /\ X \in Nat /\ Y \in Nat /\ Z \in Nat /\ M \in Nat /\ N \in Nat /\ e \in Nat
  BY <1>2, <1>3, <1>4, <1>5, <1>7
<1>9. (c + 1) * B <= N
  BY <1>2, <1>7, LessTimes
<1>10. (a + (c + 1)) * B <= M
  <2>1. a + (c + 1) <= m /\ a + (c + 1) \in Nat
    BY <1>2, <1>3, <1>4, <1>7
  <2> QED BY <1>2, <1>4, <2>1, LessTimes
<1>11. /\ Len(levels) = M /\ X + M <= len /\ len \in Nat /\ B \in Nat
       /\ Len(pad) = N /\ Z + B <= N /\ Y + Z + B <= M
       /\ \A j \in 1 .. N : levels[Y + j] = pad[j]
       /\ \A j \in 1 .. M : HashDevice[X + j] = levels[j]
  BY <1>2, <1>3, <1>5, <1>6, <1>8, <1>9, <1>10
<1> HIDE DEF X, Y, Z, M, N, E, e, len
<1>12. X + Y + Z + B <= len
  <2>1. X + M <= len /\ len \in Nat /\ B \in Nat /\ Y + Z + B <= M
    BY <1>11
  <2>2. X \in Nat /\ Y \in Nat /\ Z \in Nat /\ M \in Nat
    BY <1>8
  <2> QED BY <2>1, <2>2
<1>13. ASSUME NEW j \in 1 .. B PROVE HashDevice[E + j] = pad[Z + j]
  <2> DEFINE x == Z + j
             y == Y + x
  <2>1. x \in 1 .. N /\ y \in 1 .. M /\ E + j = X + y
    BY <1>8, <1>11
  <2>2. levels[y] = pad[x]
    BY <1>11, <2>1
  <2> HIDE DEF x, y
  <2>3. HashDevice[X + y] = levels[y]
    BY <1>11, <2>1
  <2> QED BY <2>1, <2>2, <2>3 DEF x
<1>14. Block(HashDevice, e) = Block(pad, c)
  <2>1. (e + 1) * B <= Len(HashDevice) /\ (c + 1) * B <= Len(pad)
    BY <1>8, <1>11, <1>12 DEF len
  <2>2. \A j \in 1 .. B : HashDevice[e * B + j] = pad[c * B + j]
    BY <1>13 DEF E, Z
  <2>3. IsSeq(HashDevice) /\ IsSeq(pad) /\ e \in Nat /\ c \in Nat
    BY <1>2, <1>5, <1>7, <1>8
  <2> QED BY <2>1, <2>2, <2>3, SameBlock DEF B
<1> QED BY <1>14 DEF e, h, a, pad, t

LEMMA BlockOfFront ==
  ASSUME NEW s, IsSeq(s), NEW t, IsSeq(t), NEW n \in Nat, Len(t) = n * BlockSize,
         n * BlockSize <= Len(s), \A i \in 1 .. n * BlockSize : s[i] = t[i],
         NEW b \in 0 .. n - 1
  PROVE  Block(s, b) = Block(t, b)
<1> DEFINE x == b * BlockSize
           N == n * BlockSize
<1>1. b \in Nat /\ b + 1 <= n /\ BlockSize \in Nat \ {0}
  BY LayoutFacts
<1>2. (b + 1) * BlockSize <= n * BlockSize
  BY <1>1, LessTimes
<1>3. (b + 1) * BlockSize = x + BlockSize /\ x \in Nat /\ N \in Nat
  BY <1>1
<1>4. Len(s) \in Nat
  BY SeqFacts
<1> HIDE DEF x, N
<1>5. x + BlockSize <= N /\ N <= Len(s) /\ Len(t) = N /\ \A i \in 1 .. N : s[i] = t[i]
  BY <1>2, <1>3 DEF N
<1>6. \A j \in 1 .. BlockSize : x + j \in 1 .. N
  BY <1>1, <1>3, <1>5
<1>7. \A j \in 1 .. BlockSize : s[x + j] = t[x + j]
  BY <1>5, <1>6
<1>8. (b + 1) * BlockSize <= Len(s) /\ (b + 1) * BlockSize <= Len(t)
  <2>1. x + BlockSize <= Len(s)
    BY <1>1, <1>3, <1>4, <1>5
  <2> QED BY <1>3, <1>5, <2>1
<1>9. \A j \in 1 .. BlockSize : s[b * BlockSize + j] = t[b * BlockSize + j]
  BY <1>7 DEF x
<1>10. b \in Nat
  BY <1>1
<1> QED BY <1>8, <1>9, <1>10, SameBlock, SMTT(60)

LEMMA EmptyBefore ==
  ASSUME NEW s, IsSeq(s)
  PROVE  <<>> \o s = s
<1> DEFINE e == <<>>
<1>1. IsSeq(e) /\ Len(e) = 0
  BY EmptySeq DEF IsSeq
<1> HIDE DEF e
<1>2. /\ IsSeq(e \o s) /\ Len(e \o s) = Len(e) + Len(s) /\ Len(s) \in Nat
      /\ \A i \in Len(e) + 1 .. Len(e) + Len(s) : (e \o s)[i] = s[i - Len(e)]
  BY <1>1, ConcatFacts, SeqFacts
<1> DEFINE n == Len(s)
<1>3. n \in Nat /\ Len(e \o s) = 0 + n
      /\ \A i \in 0 + 1 .. 0 + n : (e \o s)[i] = s[i - 0]
  BY <1>1, <1>2
<1> HIDE DEF n
<1>4. 0 + n = n /\ \A i \in 1 .. n : i \in 0 + 1 .. 0 + n /\ i - 0 = i
  BY <1>3
<1>5. e \o s = s
  BY <1>2, <1>3, <1>4, EqualSeqs DEF n
<1> QED BY <1>5 DEF e

LEMMA CutLength ==
  ASSUME NEW s, IsSeq(s), NEW m \in Nat, NEW n \in Nat, m <= n, n <= Len(s)
  PROVE  IsSeq(SubSeq(s, m + 1, n)) /\ Len(SubSeq(s, m + 1, n)) = n - m
<1> DEFINE a == m + 1
<1>1. a \in Nat \ {0} /\ (IF a <= n THEN n - a + 1 ELSE 0) = n - m
  OBVIOUS
<1> HIDE DEF a
<1>2. IsSeq(SubSeq(s, a, n)) /\ Len(SubSeq(s, a, n)) = IF a <= n THEN n - a + 1 ELSE 0
  BY <1>1, SubSeqFacts
<1> QED BY <1>1, <1>2 DEF a

(* A partition has room for whole blocks.                                  *)
LEMMA SectorsHoldBlocks ==
  ASSUME NEW s, IsSeq(s)
  PROVE  /\ Sectors(s) \in Nat /\ Blocks(s) * BlockSize <= Sectors(s) * SectorSize
<1> DEFINE d == SectorSize * AlignSectors
           q == DivCeil(Len(s), d)
           w == d \div BlockSize
           n == Blocks(s)
           B == BlockSize
<1>1. Len(s) \in Nat /\ d \in Nat \ {0} /\ B \in Nat \ {0} /\ SectorSize \in Nat \ {0}
      /\ AlignSectors \in Nat \ {0}
  BY SeqFacts, LayoutFacts, SMTT(60)
<1>2. q \in Nat /\ Len(s) <= q * d
  BY <1>1, CeilFacts
<1>3. Sectors(s) = (q * d) \div SectorSize
  BY DEF Sectors, AlignUp
<1>4. w \in Nat /\ d = w * B
  <2>1. d % B = 0
    BY LayoutAssumption
  <2> HIDE DEF d
  <2>2. w \in Nat /\ d = B * w + (d % B)
    BY <1>1, DivFacts
  <2> HIDE DEF w
  <2> QED BY <1>1, <2>1, <2>2
<1>5. n \in Nat /\ (n - 1) * B < Len(s)
  BY <1>1, CeilFacts DEF Blocks
<1> HIDE DEF q
<1>6. q * d = (q * AlignSectors) * SectorSize /\ q * AlignSectors \in Nat
  BY <1>1, <1>2
<1>7. Sectors(s) = q * AlignSectors
  BY <1>1, <1>3, <1>6, ExactDivision
<1> HIDE DEF d, w, n, B
<1>8. q * d = (q * w) * B /\ q * w \in Nat /\ q * d \in Nat
  BY <1>1, <1>2, <1>4
<1>9. (n - 1) * B < (q * w) * B
  <2>1. (n - 1) * B \in Int
    BY <1>1, <1>5
  <2> QED BY <1>1, <1>2, <1>5, <1>8, <2>1
<1>10. n <= q * w
  <2>1. n - 1 < q * w
    BY <1>1, <1>5, <1>8, <1>9, LessTimes
  <2> QED BY <1>5, <1>8, <2>1
<1>11. n * B <= (q * w) * B
  BY <1>1, <1>5, <1>8, <1>10, LessTimes
<1> QED BY <1>6, <1>7, <1>8, <1>11 DEF n, B

LEMMA RootLengths ==
  ASSUME SeqTypes, IsSeq(image), Len(image) = TotalSectors * SectorSize, kind = "root"
  PROVE  /\ IsSeq(DataDevice) /\ Len(DataDevice) = Sectors(file) * SectorSize
         /\ IsSeq(HashDevice) /\ Len(tree) <= Len(HashDevice)
<1> DEFINE S == SectorSize
           a == Part1Start
           e1 == Part1End + 1
           p2 == Part2Start
           e2 == Part2End + 1
           f == Sectors(file)
           all == TotalSectors
<1>1. S \in Nat \ {0} /\ a \in Nat /\ AlignSectors \in Nat \ {0}
  BY LayoutFacts DEF Part1Start
<1>2. f \in Nat
  BY SectorsHoldBlocks DEF SeqTypes
<1>3. e1 = a + f
  BY <1>1, <1>2 DEF Part1End
<1>4. /\ p2 \in Nat /\ e2 \in Nat /\ all \in Nat /\ e2 <= all /\ p2 <= e2
      /\ Len(tree) <= e2 * S - p2 * S /\ e2 * S <= all * S
  BY SectorBounds
<1>5. e1 <= p2
  <2> HIDE DEF e1, p2
  <2>1. e1 \in Nat
    BY <1>1, <1>2, <1>3
  <2>2. AlignUp(e1, AlignSectors) >= e1 /\ AlignUp(e1, AlignSectors) \in Nat
    BY <1>1, <2>1, AlignUpFacts
  <2>3. p2 = AlignUp(e1, AlignSectors)
    BY DEF p2, e1, Part2Start
  <2> QED BY <2>1, <2>2, <2>3
<1>6. DataDevice = SubSeq(image, a * S + 1, e1 * S) /\ HashDevice = SubSeq(image, p2 * S + 1, e2 * S)
  BY DEF DataDevice, HashDevice, Partition
<1>7. Len(image) = all * S
  OBVIOUS
<1> HIDE DEF S, a, e1, p2, e2, f, all
<1>8. e1 \in Nat /\ a <= e1 /\ e1 <= all
  BY <1>1, <1>2, <1>3, <1>4, <1>5
<1> DEFINE A == a * S
           E1 == e1 * S
           P2 == p2 * S
           E2 == e2 * S
<1>9. /\ A \in Nat /\ E1 \in Nat /\ P2 \in Nat /\ E2 \in Nat
      /\ A <= E1 /\ E1 <= Len(image) /\ P2 <= E2 /\ E2 <= Len(image)
  BY <1>1, <1>4, <1>7, <1>8, LessTimes
<1>10. E1 - A = f * S
  BY <1>1, <1>2, <1>3
<1>11. Len(tree) <= E2 - P2
  BY <1>4
<1> HIDE DEF A, E1, P2, E2
<1>12. IsSeq(SubSeq(image, A + 1, E1)) /\ Len(SubSeq(image, A + 1, E1)) = E1 - A
  BY <1>9, CutLength
<1>13. IsSeq(SubSeq(image, P2 + 1, E2)) /\ Len(SubSeq(image, P2 + 1, E2)) = E2 - P2
  BY <1>9, CutLength
<1> QED
  BY <1>6, <1>10, <1>11, <1>12, <1>13 DEF A, E1, P2, E2, f, S
-----------------------------------------------------------------------------
(* What the guest has of an image with which nothing is wrong.             *)
Readable ==
  /\ DataBlocks = Blocks(sealed) /\ HashStart \in Nat
  /\ LevelsBehind(HashStart * BlockSize)
  /\ \A b \in 0 .. Blocks(sealed) - 1 : Block(DataDevice, b) = Block(PadToBlocks(sealed), b)

LEMMA DiskReadable ==
  ASSUME VerityInv, TreeInv, phase = "sealed", kind = "disk", faults = 0
  PROVE  Readable
<1> DEFINE n == Blocks(sealed)
           N == n * BlockSize
           pad == PadToBlocks(sealed)
<1>1. IsSeq(sealed) /\ IsSeq(levels) /\ IsSeq(file)
  BY DEF VerityInv, SeqTypes
<1>2. file = sealed \o levels
  <2>1. file = sealed \o tree /\ tree = <<>> \o levels
    BY DEF TreeInv, FileKept, TreeKept
  <2>2. tree = levels
    BY <1>1, <2>1, EmptyBefore
  <2> QED BY <2>1, <2>2
<1>3. DataBlocks = n /\ HashStart = n /\ Len(sealed) = N
  BY DiskBlocks
<1>4. n \in Nat /\ IsSeq(pad) /\ Len(pad) = N /\ \A i \in 1 .. Len(sealed) : pad[i] = sealed[i]
  BY <1>1, PadFacts
<1>5. /\ Len(file) = Len(sealed) + Len(levels) /\ Len(levels) \in Nat /\ Len(sealed) \in Nat
      /\ \A i \in 1 .. Len(sealed) : file[i] = sealed[i]
      /\ \A i \in Len(sealed) + 1 .. Len(sealed) + Len(levels) : file[i] = levels[i - Len(sealed)]
  BY <1>1, <1>2, ConcatFacts, SeqFacts
<1>6. HashDevice = file /\ DataDevice = file
  BY DEF HashDevice, DataDevice
<1> HIDE DEF n, N, pad
<1>7. N = n * BlockSize
  BY DEF N
<1>8. LevelsBehind(N)
  <2>1. IsSeq(file) /\ N + Len(levels) <= Len(file)
    BY <1>1, <1>3, <1>5
  <2>2. ASSUME NEW j \in 1 .. Len(levels) PROVE file[N + j] = levels[j]
    <3> DEFINE m == Len(levels)
    <3>1. m \in Nat /\ N \in Nat /\ \A i \in N + 1 .. N + m : file[i] = levels[i - N]
      BY <1>3, <1>5
    <3>2. j \in 1 .. m
      OBVIOUS
    <3> HIDE DEF m
    <3>3. N + j \in N + 1 .. N + m /\ (N + j) - N = j
      BY <3>1, <3>2
    <3> QED BY <3>1, <3>3
  <2> QED BY <1>6, <2>1, <2>2 DEF LevelsBehind
<1>9. \A b \in 0 .. n - 1 : Block(file, b) = Block(pad, b)
  <2>1. N <= Len(file)
    BY <1>3, <1>5
  <2>2. \A i \in 1 .. N : file[i] = pad[i]
    BY <1>3, <1>4, <1>5
  <2>3. n * BlockSize <= Len(file) /\ Len(pad) = n * BlockSize
        /\ \A i \in 1 .. n * BlockSize : file[i] = pad[i]
    BY <1>4, <1>7, <2>1, <2>2
  <2> TAKE b \in 0 .. n - 1
  <2> QED BY <1>1, <1>4, <2>3, BlockOfFront
<1>10. HashStart * BlockSize = N /\ HashStart \in Nat
  BY <1>3, <1>4, <1>7
<1> QED
  BY <1>3, <1>6, <1>8, <1>9, <1>10 DEF Readable, n, pad

LEMMA RootReadable ==
  ASSUME VerityInv, TreeInv, phase = "sealed", kind = "root", faults = 0
  PROVE  Readable
<1> DEFINE n == Blocks(sealed)
           N == n * BlockSize
           pad == PadToBlocks(sealed)
           one == <<Superblock(n)>>
           head == PadToBlocks(one)
<1>1. /\ SeqTypes /\ image = GptImage /\ IsSeq(sealed) /\ IsSeq(levels) /\ IsSeq(file) /\ IsSeq(tree)
  BY DEF VerityInv, ImageIsGpt, SeqTypes
<1>2. /\ file = sealed /\ tree = head \o levels
      /\ IsSeq(image) /\ Len(image) = TotalSectors * SectorSize
  BY DEF TreeInv, FileKept, TreeKept
<1>3. /\ IsSeq(DataDevice) /\ Len(DataDevice) = Sectors(file) * SectorSize
      /\ IsSeq(HashDevice) /\ Len(tree) <= Len(HashDevice)
  BY <1>1, <1>2, RootLengths
<1>4. /\ DataDevice = file \o Zeros(Len(DataDevice) - Len(file))
      /\ HashDevice = tree \o Zeros(Len(HashDevice) - Len(tree))
  BY <1>1, GptLayout
<1>5. n \in Nat /\ IsSeq(pad) /\ Len(pad) = N /\ Len(sealed) <= N
      /\ (\A i \in 1 .. Len(sealed) : pad[i] = sealed[i])
      /\ (\A i \in Len(sealed) + 1 .. N : pad[i] = Zero)
  BY <1>1, PadFacts
<1>6. N <= Len(DataDevice)
  BY <1>1, <1>2, <1>3, SectorsHoldBlocks
<1>7. HashStart = 1
  BY DEF HashStart
(* The data.                                                               *)
<1>8. \A i \in 1 .. N : DataDevice[i] = pad[i]
  <2> DEFINE m == Len(sealed)
             len == Len(DataDevice)
             z == Zeros(len - m)
  <2>1. m \in Nat /\ len \in Nat /\ N \in Nat /\ m <= N /\ N <= len
    BY <1>1, <1>3, <1>5, <1>6, SeqFacts, LayoutFacts
  <2>2. len - m \in Nat
    BY <2>1
  <2>3. IsSeq(z) /\ Len(z) = len - m /\ \A i \in 1 .. len - m : z[i] = Zero
    BY <2>2, ZerosFacts
  <2>4. DataDevice = sealed \o z
    BY <1>2, <1>4
  <2> HIDE DEF z, N, pad
  <2>5. /\ \A i \in 1 .. m : (sealed \o z)[i] = sealed[i]
        /\ \A i \in m + 1 .. m + Len(z) : (sealed \o z)[i] = z[i - m]
    BY <1>1, <2>3, ConcatFacts
  <2>6. /\ \A i \in 1 .. m : DataDevice[i] = sealed[i]
        /\ \A i \in m + 1 .. m + Len(z) : DataDevice[i] = z[i - m]
    BY <2>4, <2>5
  <2>7. (\A i \in 1 .. m : pad[i] = sealed[i]) /\ (\A i \in m + 1 .. N : pad[i] = Zero)
    BY <1>5
  <2> HIDE DEF m, len
  <2>8. ASSUME NEW i \in 1 .. N PROVE DataDevice[i] = pad[i]
    <3>1. CASE i <= m
      <4>1. i \in 1 .. m
        BY <2>1, <3>1
      <4> QED BY <2>6, <2>7, <4>1
    <3>2. CASE ~(i <= m)
      <4>1. i \in m + 1 .. N
        BY <2>1, <3>2
      <4>2. i \in m + 1 .. m + (len - m) /\ i - m \in 1 .. len - m
        BY <2>1, <3>2
      <4>3. DataDevice[i] = z[i - m]
        BY <2>3, <2>6, <4>2
      <4> QED BY <2>3, <2>7, <4>1, <4>2, <4>3
    <3> QED BY <3>1, <3>2
  <2> QED BY <2>8
<1>9. \A b \in 0 .. n - 1 : Block(DataDevice, b) = Block(pad, b)
  <2> HIDE DEF n, pad
  <2>1. n * BlockSize <= Len(DataDevice) /\ Len(pad) = n * BlockSize
        /\ \A i \in 1 .. n * BlockSize : DataDevice[i] = pad[i]
    BY <1>5, <1>6, <1>8
  <2> TAKE b \in 0 .. n - 1
  <2> QED BY <1>3, <1>5, <2>1, BlockOfFront
(* The tree.                                                               *)
<1> DEFINE u == Superblock(n)
<1>10. IsSeq(one) /\ Len(one) = 1 /\ one[1] = u
  <2>1. one \in Seq({u})
    OBVIOUS
  <2>2. IsSeq(one)
    BY <2>1, WidenSeq
  <2> QED BY <2>2
<1> HIDE DEF one, u
<1>11. IsSeq(head) /\ Len(head) = BlockSize /\ head[1] = u
  <2>1. Blocks(one) = 1
    <3>1. 1 <= 1 * BlockSize /\ (1 - 1) * BlockSize < 1 /\ BlockSize \in Nat \ {0}
      BY LayoutFacts
    <3>2. DivCeil(1, BlockSize) = 1
      BY <3>1, CeilUnique
    <3> QED BY <1>10, <3>2 DEF Blocks
  <2>2. /\ IsSeq(head) /\ Len(head) = Blocks(one) * BlockSize
        /\ \A i \in 1 .. Len(one) : head[i] = one[i]
    BY <1>10, PadFacts
  <2>3. 1 * BlockSize = BlockSize /\ 1 \in 1 .. 1
    BY LayoutFacts
  <2> QED BY <1>10, <2>1, <2>2, <2>3
<1> HIDE DEF head
<1> DEFINE B == BlockSize
           v == Len(levels)
           len == Len(HashDevice)
           y == Zeros(len - Len(tree))
<1>12. /\ Len(tree) = B + v /\ B \in Nat \ {0} /\ v \in Nat /\ len \in Nat /\ Len(tree) <= len
  <2>1. Len(tree) = Len(head) + Len(levels)
    BY <1>1, <1>2, <1>11, ConcatFacts
  <2> QED BY <1>1, <1>3, <1>11, <2>1, SeqFacts, LayoutFacts
<1>13. /\ \A i \in 1 .. B : tree[i] = head[i]
       /\ \A i \in B + 1 .. B + v : tree[i] = levels[i - B]
  BY <1>1, <1>2, <1>11, ConcatFacts, SMTT(60)
<1>14. \A i \in 1 .. Len(tree) : HashDevice[i] = tree[i]
  <2>1. len - Len(tree) \in Nat
    BY <1>12
  <2>2. IsSeq(y)
    BY <2>1, ZerosFacts
  <2>3. HashDevice = tree \o y
    BY <1>4
  <2> HIDE DEF y
  <2> QED BY <1>1, <2>2, <2>3, ConcatFacts
<1> HIDE DEF y, v, len, B
<1>15. HashDevice[1] = u
  <2>1. 1 \in 1 .. B /\ 1 \in 1 .. Len(tree)
    BY <1>12
  <2> QED BY <1>11, <1>13, <1>14, <2>1
<1>16. DataBlocks = n
  <2>1. DOMAIN u = {"dataBlocks"} /\ u.dataBlocks = n
    BY DEF u, Superblock
  <2> QED BY <1>15, <2>1 DEF DataBlocks
<1>17. LevelsBehind(B)
  <2>1. B + v <= len
    BY <1>12
  <2>2. ASSUME NEW j \in 1 .. v PROVE HashDevice[B + j] = levels[j]
    <3>1. B + j \in B + 1 .. B + v /\ (B + j) - B = j /\ B + j \in 1 .. Len(tree)
      BY <1>12
    <3> QED BY <1>13, <1>14, <3>1
  <2> QED BY <1>3, <2>1, <2>2 DEF LevelsBehind, v, len
<1>18. HashStart * BlockSize = B /\ HashStart \in Nat
  BY <1>7, LayoutFacts DEF B
<1> QED
  BY <1>9, <1>16, <1>17, <1>18 DEF Readable
-----------------------------------------------------------------------------
LEMMA AllIsRead ==
  ASSUME VerityInv, TreeInv
  PROVE  EveryBlockReads
<1> SUFFICES ASSUME phase = "sealed", faults = 0, NEW b \in 0 .. Blocks(sealed) - 1
             PROVE  ReadBlock(b) = SealedBlock(b)
  BY DEF EveryBlockReads
<1>1. IsSeq(sealed) /\ IsSeq(levels)
  BY DEF VerityInv, SeqTypes
<1>2. Blocks(sealed) \in Nat /\ Blocks(sealed) # 0 /\ b \in Nat
  <2>1. Blocks(sealed) \in Nat
    BY <1>1, PadFacts
  <2> QED BY <2>1
<1>3. Readable
  BY DiskReadable, RootReadable DEF VerityInv, TypeOK
<1>4. PICK k \in Nat \ {0} : Climbed(k) /\ Announced(sealed, k)
  BY <1>2, <1>3, SealedAgrees DEF Readable
<1>5. Levels = k - 1
  BY <1>4, RootOnWay
<1>6. ASSUME NEW l \in 0 .. Levels - 1
      PROVE  Block(HashDevice, LevelStart[l] + b \div Power[l + 1]) = OnWay(sealed, b, l + 1)
  <2> DEFINE c == b \div Power[l + 1]
             t == Tower(sealed)[l + 1]
  <2>1. /\ l \in Nat /\ l + 1 \in Nat /\ l + 1 \in 1 .. Levels /\ Levels \in Nat \ {0} /\ k > 1
    BY <1>5
  <2>2. Len(current) <= DigestSize
    BY DEF TreeInv, TreeKept
  <2>3. PICK p : LaidOut(sealed, levels, Levels, p)
    BY <1>4, <1>5, <2>1, <2>2 DEF Climbed
  <2>4. LevelStart[l] = HashStart + p[l + 1]
    BY <1>1, <1>3, <2>1, <2>3, StartsAreRight DEF Readable
  <2>5. c \in 0 .. Blocks(t) - 1
    <3> DEFINE n == Blocks(sealed)
               q == Power[l + 1]
    <3>1. n \in Nat /\ q \in Nat \ {0} /\ b \in 0 .. n - 1
      BY <1>2, <2>1, PowerFacts
    <3>2. Blocks(t) = DivCeil(n, q)
      BY <1>1, <2>1, TowerBlocks
    <3> HIDE DEF n, q
    <3>3. b \div q \in 0 .. DivCeil(n, q) - 1
      BY <3>1, DivBelow
    <3> QED BY <3>2, <3>3 DEF q
  <2> DEFINE i == l + 1
  <2>6. c \in 0 .. Blocks(Tower(sealed)[i]) - 1 /\ i \in 1 .. Levels
    BY <2>1, <2>5
  <2> HIDE DEF c, i
  <2>7. Block(HashDevice, HashStart + p[i] + c) = Block(PadToBlocks(Tower(sealed)[i]), c)
    BY <1>1, <1>3, <2>1, <2>3, <2>6, TreeBlock DEF Readable
  <2> QED BY <2>4, <2>7 DEF OnWay, c, i
<1> QED
  BY <1>3, <1>4, <1>6, ReadsSealed DEF Readable, SealedBlock

-----------------------------------------------------------------------------
(* The models.                                                             *)

Entries == {"missing", "dangling", "torn", "whole"}

(* DownloadTypeOK, and what a loop's position says.                        *)
DownloadTypes ==
  /\ wanted \subseteq Files
  /\ dirs \subseteq Models /\ folders \subseteq dirs
  /\ entry \in [Files -> Entries]
  /\ state \in {"idle", "models", "files", "copy", "ready"}
  /\ model \in 1 .. Len(Repos) + 1
  /\ sibling \in Nat \ {0}
  /\ state \in {"files", "copy"} => model <= Len(Repos) /\ Current \in dirs
  /\ state = "copy" => sibling <= Len(Siblings[Current])
  /\ state = "ready" => model > Len(Repos)

(* Where a file is: in a directory that exists.                            *)
Housed ==
  \A m \in Models : \A f \in FilesOf(m) :
    /\ entry[f] # "missing" => m \in dirs
    /\ f \in Nested => entry[f] # "dangling" /\ (entry[f] # "missing" => m \in folders)

(* What a download leaves of a file when it succeeds.                      *)
Final(f) == IF f \in wanted THEN "whole" ELSE "missing"
Complete(m) == \A f \in FilesOf(m) : entry[f] = Final(f)

Busy(m) == state \in {"files", "copy"} /\ m = Current

(* The files of the current model that the loop has dealt with.            *)
Placed == {Siblings[Current][j] : j \in 1 .. sibling - 1}

Partial ==
  state \in {"files", "copy"} =>
    \A f \in FilesOf(Current) :
      entry[f] = IF f \in Placed THEN Final(f)
                 ELSE IF state = "copy" /\ f = Target THEN "torn" ELSE "missing"

TargetUnplaced == state = "copy" => Target \notin Placed /\ Target \in wanted

(* What counts as present is complete, is being fetched, or was given up.  *)
PresentIsComplete ==
  \A m \in Models \ half : HasRealFiles(m) => Complete(m) \/ Busy(m)

Passed == \A i \in 1 .. model - 1 : Repos[i] \in half \/ Complete(Repos[i])

DiskIsComplete ==
  (kind = "disk" /\ phase # "idle") =>
    \A m \in Models \ half : \A f \in FilesOf(m) : contents[f] = Final(f)

DownloadInv ==
  /\ DownloadTypes /\ Housed
  /\ Partial /\ TargetUnplaced
  /\ PresentIsComplete /\ Passed

ModelInv == DownloadInv /\ DiskIsComplete
-----------------------------------------------------------------------------
LEMMA RepoFacts ==
  /\ Len(Repos) \in Nat
  /\ \A i \in 1 .. Len(Repos) : Repos[i] \in Models
  /\ \A i, j \in 1 .. Len(Repos) : Repos[i] = Repos[j] => i = j
  /\ \A m \in Models : \E i \in 1 .. Len(Repos) : m = Repos[i]
<1>1. Len(Repos) \in Nat /\ DOMAIN Repos = 1 .. Len(Repos)
  BY DownloadAssumption
<1> QED BY <1>1, DownloadAssumption DEF IsInjective, Models, ToSet

LEMMA SiblingFacts ==
  ASSUME NEW m \in Models
  PROVE  /\ Len(Siblings[m]) \in Nat
         /\ \A i \in 1 .. Len(Siblings[m]) : Siblings[m][i] \in FilesOf(m)
         /\ \A f \in FilesOf(m) : \E i \in 1 .. Len(Siblings[m]) : f = Siblings[m][i]
         /\ FilesOf(m) \subseteq Files
<1>1. Len(Siblings[m]) \in Nat /\ DOMAIN Siblings[m] = 1 .. Len(Siblings[m])
  BY DownloadAssumption
<1> QED BY <1>1 DEF FilesOf, Files, ToSet

(* Two models share no file.                                               *)
LEMMA FilesApart ==
  ASSUME NEW m \in Models, NEW n \in Models, m # n, NEW f \in FilesOf(m)
  PROVE  f \notin FilesOf(n)
  BY DownloadAssumption

LEMMA InitModelInv == ModelInit => ModelInv
<1> SUFFICES ASSUME ModelInit PROVE ModelInv
  OBVIOUS
<1> USE DEF ModelInit, DownloadInit
<1>1. DownloadTypes
  <2>1. wanted \subseteq Files
    BY DownloadAssumption
  <2>2. entry \in [Files -> Entries]
    BY DEF Entries
  <2> QED BY <2>1, <2>2, RepoFacts DEF DownloadTypes
<1>2. Housed
  BY SiblingFacts DEF Housed
<1>3. PresentIsComplete
  BY SiblingFacts DEF PresentIsComplete, HasRealFiles, IsReal
<1>4. Partial /\ TargetUnplaced /\ Passed /\ DiskIsComplete
  BY DEF Partial, TargetUnplaced, Passed, DiskIsComplete, Init
<1> QED BY <1>1, <1>2, <1>3, <1>4 DEF ModelInv, DownloadInv
-----------------------------------------------------------------------------
(* The steps of a download.                                                *)

LEMMA CurrentIsModel ==
  ASSUME DownloadTypes, model <= Len(Repos)
  PROVE  Current \in Models
  BY RepoFacts DEF DownloadTypes, Current

LEMMA TargetIsFile ==
  ASSUME DownloadTypes, state \in {"files", "copy"}, sibling <= Len(Siblings[Current])
  PROVE  Target \in FilesOf(Current) /\ Target \in Files
  BY CurrentIsModel, SiblingFacts DEF DownloadTypes, Target

(* A step that changes no file and that no loop depends on.                *)
LEMMA SameFiles ==
  ASSUME UNCHANGED <<dirs, folders, entry, wanted>>
  PROVE  /\ Housed => Housed'
         /\ \A m \in Models : HasRealFiles(m)' = HasRealFiles(m) /\ Complete(m)' = Complete(m)
  BY DEF Housed, HasRealFiles, IsReal, Complete, Final

LEMMA StartKeeps ==
  ASSUME DownloadInv, NEW c, NEW off, StartDownload(c, off)
  PROVE  DownloadInv'
<1> USE DEF DownloadInv, StartDownload
<1>1. DownloadTypes'
  BY RepoFacts, DownloadAssumption DEF DownloadTypes, Current
<1>2. Housed' /\ PresentIsComplete'
  BY SameFiles DEF PresentIsComplete, Busy
<1>3. Partial' /\ TargetUnplaced' /\ Passed'
  BY DEF Partial, TargetUnplaced, Passed
<1> QED BY <1>1, <1>2, <1>3

LEMMA AlreadyExistsKeeps ==
  ASSUME DownloadInv, AlreadyExists
  PROVE  DownloadInv'
<1> USE DEF DownloadInv, AlreadyExists, disksVars
<1>1. DownloadTypes'
  BY RepoFacts DEF DownloadTypes, Current
<1>2. Housed' /\ PresentIsComplete'
  BY SameFiles DEF PresentIsComplete, Busy
<1>3. Partial' /\ TargetUnplaced'
  BY DEF Partial, TargetUnplaced
<1>4. Current \in half \/ Complete(Current)
  BY CurrentIsModel DEF PresentIsComplete, Busy
<1>5. ASSUME NEW i \in 1 .. model' - 1
      PROVE  Repos[i] \in half' \/ Complete(Repos[i])'
  BY <1>4, <1>5, RepoFacts, SameFiles DEF DownloadTypes, Passed, Current
<1> QED BY <1>1, <1>2, <1>3, <1>5 DEF Passed

(* Before the files of a model are fetched it has none.                    *)
LEMMA NothingReal ==
  ASSUME DownloadInv, state = "models", model <= Len(Repos),
         ~(Current \in dirs /\ HasRealFiles(Current))
  PROVE  /\ Current \notin folders
         /\ \A f \in FilesOf(Current) : 
              entry[f] = "missing" \/ (entry[f] = "dangling" /\ f \notin Nested)
<1> USE DEF DownloadInv
<1>1. CASE Current \in dirs
  BY <1>1, CurrentIsModel, SiblingFacts
  DEF HasRealFiles, IsReal, Housed, DownloadTypes, Entries
<1>2. CASE Current \notin dirs
  BY <1>2, CurrentIsModel DEF Housed, DownloadTypes
<1> QED BY <1>1, <1>2

LEMMA BeginModelKeeps ==
  ASSUME DownloadInv, BeginModel
  PROVE  DownloadInv'
<1> USE DEF DownloadInv, BeginModel
<1>1. Current \in Models
  BY CurrentIsModel
<1>2. /\ Current \notin folders
      /\ \A f \in FilesOf(Current) : entry'[f] = "missing"
      /\ \A m \in Models \ {Current} : \A f \in FilesOf(m) : entry'[f] = entry[f]
  BY <1>1, NothingReal, SiblingFacts, FilesApart
<1>3. DownloadTypes'
  <2>1. entry' \in [Files -> Entries]
    BY DEF DownloadTypes, Entries
  <2>2. state' \in {"files", "copy"} => model' <= Len(Repos) /\ Current' \in dirs'
    BY DEF Ended, Current
  <2> QED BY <1>1, <2>1, <2>2, RepoFacts DEF DownloadTypes, Ended
<1>4. Housed'
  BY <1>1, <1>2 DEF Housed
<1>5. Partial' /\ TargetUnplaced'
  <2>1. ASSUME state' \in {"files", "copy"}
        PROVE  state' = "files" /\ Placed' = {} /\ Current' = Current
    BY <2>1 DEF Ended, Placed, Current
  <2> QED BY <1>2, <2>1 DEF Partial, TargetUnplaced
<1>6. ASSUME NEW m \in Models \ {Current}
      PROVE  HasRealFiles(m)' = HasRealFiles(m) /\ Complete(m)' = Complete(m)
  BY <1>2, <1>6, SiblingFacts, ZenonT(60) DEF HasRealFiles, IsReal, Complete, Final
<1>7. PresentIsComplete'
  <2>1. ASSUME NEW m \in Models \ half', m # Current, HasRealFiles(m)'
        PROVE  Complete(m)'
    BY <1>6, <2>1 DEF PresentIsComplete, Busy
  <2>2. ASSUME NEW m \in Models \ half', m = Current PROVE ~HasRealFiles(m)'
    BY <1>2, <2>2 DEF HasRealFiles, IsReal
  <2> QED BY <2>1, <2>2 DEF PresentIsComplete
<1>8. Passed'
  <2>1. ASSUME NEW i \in 1 .. model' - 1
        PROVE  Repos[i] \in half' \/ Complete(Repos[i])'
    <3>1. model' = model
      BY <2>1 DEF Ended
    <3>2. Repos[i] \in Models \ {Current}
      BY <2>1, <3>1, RepoFacts DEF DownloadTypes, Current
    <3> QED BY <1>6, <2>1, <3>1, <3>2 DEF Passed
  <2> QED BY <2>1 DEF Passed
<1> QED BY <1>3, <1>4, <1>5, <1>7, <1>8

(* The loop goes on behind a file that is as it should be.                 *)
LEMMA NextPlaced ==
  ASSUME DownloadTypes, UNCHANGED model, sibling' = sibling + 1
  PROVE  Current' = Current /\ Placed' = Placed \cup {Target}
<1>1. Current' = Current
  BY DEF Current
<1>2. 1 .. sibling' - 1 = (1 .. sibling - 1) \cup {sibling}
  BY DEF DownloadTypes
<1> QED BY <1>1, <1>2 DEF Placed, Target

LEMMA SkipKeeps ==
  ASSUME DownloadInv, Skip
  PROVE  DownloadInv'
<1> USE DEF DownloadInv, Skip, AtFile, disksVars
<1>1. Current' = Current /\ Placed' = Placed \cup {Target} /\ Target \in FilesOf(Current)
  BY NextPlaced, TargetIsFile
<1>2. DownloadTypes'
  BY <1>1 DEF DownloadTypes
<1>3. Housed' /\ PresentIsComplete'
  BY <1>1, SameFiles DEF PresentIsComplete, Busy
<1>4. Partial' /\ TargetUnplaced'
  BY <1>1 DEF Partial, TargetUnplaced, Final
<1>5. Passed'
  BY RepoFacts, SameFiles DEF Passed, DownloadTypes
<1> QED BY <1>2, <1>3, <1>4, <1>5

(* What a step that changes nothing but the current model's files and      *)
(* directories leaves of the others.                                       *)
LEMMA OthersKeep ==
  ASSUME DownloadInv, state \in {"files", "copy"}, state' \in {"files", "copy"},
         UNCHANGED <<wanted, dirs, model, half>>,
         \/ UNCHANGED folders
         \/ folders' = folders \cup {Current},
         \A f \in Files \ FilesOf(Current) : entry'[f] = entry[f]
  PROVE  PresentIsComplete' /\ Passed' /\ Current' = Current
<1> USE DEF DownloadInv
<1>1. Current \in Models /\ Current' = Current
  BY CurrentIsModel DEF DownloadTypes, Current
<1>2. ASSUME NEW m \in Models \ {Current}
      PROVE  HasRealFiles(m)' = HasRealFiles(m) /\ Complete(m)' = Complete(m)
  <2>1. \A f \in FilesOf(m) : entry'[f] = entry[f]
    BY <1>1, <1>2, SiblingFacts, FilesApart
  <2> QED BY <2>1, <1>2 DEF HasRealFiles, IsReal, Complete, Final
<1>3. PresentIsComplete'
  BY <1>1, <1>2 DEF PresentIsComplete, Busy
<1>4. ASSUME NEW i \in 1 .. model - 1
      PROVE  Repos[i] \in Models \ {Current}
  BY <1>4, RepoFacts DEF DownloadTypes, Current
<1>5. Passed'
  BY <1>2, <1>4 DEF Passed
<1> QED BY <1>1, <1>3, <1>5

LEMMA PlaceKeeps ==
  ASSUME DownloadInv, Place
  PROVE  DownloadInv'
<1> USE DEF DownloadInv, Place, AtFile
<1>1. Current \in Models /\ Target \in FilesOf(Current) /\ Target \in Files
  BY CurrentIsModel, TargetIsFile DEF DownloadTypes
<1>2. /\ entry' \in [Files -> Entries]
      /\ \A f \in Files \ {Target} : entry'[f] = entry[f]
      /\ entry'[Target] \in {"torn", "whole"}
  BY <1>1 DEF DownloadTypes, Entries, IsReal
<1>3. PresentIsComplete' /\ Passed' /\ Current' = Current
  BY <1>1, <1>2, OthersKeep
<1>4. DownloadTypes'
  BY <1>1, <1>2, <1>3 DEF DownloadTypes
<1>5. Housed'
  BY <1>1, <1>2, SiblingFacts, FilesApart DEF Housed, DownloadTypes
<1>6. IsReal(Target) => Target \in Placed /\ entry[Target] = "whole"
  BY <1>1 DEF Partial, IsReal, Final
<1>7. CASE state' = "copy"
  <2>1. Target' = Target /\ Placed' = Placed
    BY <1>3, <1>7 DEF Target, Placed, Current
  <2>2. Target \notin Placed
    BY <1>1, <1>7 DEF Partial, Final, IsReal
  <2> QED BY <1>1, <1>2, <1>3, <1>4, <1>5, <1>7, <2>1, <2>2, SiblingFacts
      DEF Partial, TargetUnplaced, Final
<1>8. CASE state' = "files"
  <2>1. Placed' = Placed \cup {Target}
    BY <1>8, NextPlaced DEF DownloadTypes
  <2>2. entry'[Target] = Final(Target)
    BY <1>1, <1>6, <1>8 DEF DownloadTypes, Final
  <2> QED BY <1>1, <1>2, <1>3, <1>4, <1>5, <1>8, <2>1, <2>2, SiblingFacts
      DEF Partial, TargetUnplaced, Final
<1> QED BY <1>7, <1>8

LEMMA CopyEndsKeeps ==
  ASSUME DownloadInv, CopyEnds
  PROVE  DownloadInv'
<1> USE DEF DownloadInv, CopyEnds
<1>1. /\ Current \in Models /\ Target \in FilesOf(Current) /\ Target \in Files
      /\ Target \in wanted /\ Target \notin Placed
  BY CurrentIsModel, TargetIsFile DEF DownloadTypes, TargetUnplaced
<1>2. /\ entry' \in [Files -> Entries]
      /\ \A f \in Files \ {Target} : entry'[f] = entry[f]
      /\ entry'[Target] = "whole"
  BY <1>1 DEF DownloadTypes, Entries
<1>3. PresentIsComplete' /\ Passed' /\ Current' = Current
  BY <1>1, <1>2, OthersKeep
<1>4. DownloadTypes'
  BY <1>1, <1>2, <1>3 DEF DownloadTypes
<1>5. Housed'
  <2>1. entry[Target] = "torn"
    BY <1>1 DEF Partial
  <2> QED BY <1>1, <1>2, <2>1, SiblingFacts, FilesApart DEF Housed
<1>6. Placed' = Placed \cup {Target}
  BY NextPlaced
<1>7. Partial' /\ TargetUnplaced'
  BY <1>1, <1>2, <1>3, <1>6, SiblingFacts DEF Partial, TargetUnplaced, Final
<1> QED BY <1>3, <1>4, <1>5, <1>7

LEMMA ModelDoneKeeps ==
  ASSUME DownloadInv, ModelDone
  PROVE  DownloadInv'
<1> USE DEF DownloadInv, ModelDone, disksVars
<1>1. Current \in Models
  BY CurrentIsModel DEF DownloadTypes
<1>2. Complete(Current)
  <2>1. FilesOf(Current) \subseteq Placed
    BY <1>1, SiblingFacts DEF Placed, DownloadTypes
  <2> QED BY <2>1 DEF Partial, Complete
<1>3. DownloadTypes'
  BY RepoFacts DEF DownloadTypes
<1>4. Housed' /\ Partial' /\ TargetUnplaced'
  BY SameFiles DEF Partial, TargetUnplaced
<1>5. PresentIsComplete'
  BY <1>2, SameFiles DEF PresentIsComplete, Busy
<1>6. ASSUME NEW i \in 1 .. model' - 1
      PROVE  Repos[i] \in half' \/ Complete(Repos[i])'
  BY <1>2, <1>6, RepoFacts, SameFiles DEF DownloadTypes, Passed, Current
<1> QED BY <1>3, <1>4, <1>5, <1>6 DEF Passed

(* The end of a command that leaves no model half fetched.                 *)
LEMMA EndKeeps ==
  ASSUME DownloadInv, Ended, UNCHANGED <<wanted, disksVars>>, half \subseteq half',
         state \in {"files", "copy"} /\ HasRealFiles(Current) => Current \in half'
  PROVE  DownloadInv'
<1> USE DEF DownloadInv, Ended, disksVars
<1>1. DownloadTypes'
  BY RepoFacts DEF DownloadTypes
<1>2. Housed' /\ Partial' /\ TargetUnplaced' /\ Passed'
  BY SameFiles DEF Partial, TargetUnplaced, Passed
<1>3. PresentIsComplete'
  BY SameFiles DEF PresentIsComplete, Busy
<1> QED BY <1>1, <1>2, <1>3

LEMMA DownloadDoneKeeps ==
  ASSUME DownloadInv, DownloadDone
  PROVE  DownloadInv'
<1> USE DEF DownloadDone, disksVars
<1>1. CASE Ended
  BY <1>1, EndKeeps
<1>2. CASE state' = "ready" /\ UNCHANGED Running
  <2> USE DEF DownloadInv, Running
  <2>1. DownloadTypes'
    BY <1>2 DEF DownloadTypes
  <2>2. Housed' /\ Partial' /\ TargetUnplaced'
    BY <1>2, SameFiles DEF Partial, TargetUnplaced
  <2>3. PresentIsComplete' /\ Passed'
    BY <1>2, RepoFacts, SameFiles DEF PresentIsComplete, Busy, Passed, DownloadTypes
  <2> QED BY <2>1, <2>2, <2>3
<1> QED BY <1>1, <1>2

LEMMA GiveUpKeeps ==
  ASSUME DownloadInv, GiveUp
  PROVE  DownloadInv' /\ half \subseteq half'
  BY EndKeeps DEF GiveUp

LEMMA DownloadKeeps ==
  ASSUME DownloadInv, DownloadStep
  PROVE  DownloadInv' /\ half \subseteq half' /\ UNCHANGED wanted
<1>1. CASE AlreadyExists BY <1>1, AlreadyExistsKeeps DEF AlreadyExists
<1>2. CASE BeginModel    BY <1>2, BeginModelKeeps DEF BeginModel
<1>3. CASE Skip          BY <1>3, SkipKeeps DEF Skip
<1>4. CASE Place         BY <1>4, PlaceKeeps DEF Place
<1>5. CASE CopyEnds      BY <1>5, CopyEndsKeeps DEF CopyEnds
<1>6. CASE ModelDone     BY <1>6, ModelDoneKeeps DEF ModelDone
<1>7. CASE DownloadDone  BY <1>7, DownloadDoneKeeps DEF DownloadDone
<1>8. CASE GiveUp        BY <1>8, GiveUpKeeps DEF GiveUp
<1> QED BY <1>1, <1>2, <1>3, <1>4, <1>5, <1>6, <1>7, <1>8 DEF DownloadStep

LEMMA UnchangedKeeps ==
  ASSUME DownloadInv, UNCHANGED downloadVars
  PROVE  DownloadInv'
<1> USE DEF downloadVars
<1>1. UNCHANGED <<Current, Target, Placed>>
  BY DEF Current, Target, Placed
<1>2. DownloadTypes' /\ Housed' /\ Partial' /\ TargetUnplaced'
  BY <1>1, SameFiles DEF DownloadInv, DownloadTypes, Partial, TargetUnplaced, Final
<1>3. PresentIsComplete'
  BY <1>1, SameFiles DEF DownloadInv, PresentIsComplete, Busy
<1>4. Passed'
  BY RepoFacts, SameFiles DEF DownloadInv, DownloadTypes, Passed
<1> QED BY <1>2, <1>3, <1>4 DEF DownloadInv
-----------------------------------------------------------------------------
(* The steps of a build, and the theorem.                                  *)

(* A disk is sealed of what was there when its build began.                *)
LEMMA DiskStepLeaves ==
  ASSUME DiskStep
  PROVE  UNCHANGED kind /\ (phase' # "idle" => phase # "idle")
  BY DEF DiskStep, Truncate, HashData, HashLevel, WriteTree, AppendTree,
         AssembleGpt, Crash, GoBad

LEMMA MakeModelDiskKeeps ==
  ASSUME ModelInv, MakeModelDisk
  PROVE  ModelInv'
<1>1. DownloadInv'
  BY EndKeeps DEF ModelInv, MakeModelDisk
<1>2. \A m \in Models \ half : Complete(m)
  <2>1. model = Len(Repos) + 1
    BY RepoFacts DEF MakeModelDisk, ModelInv, DownloadInv, DownloadTypes
  <2> QED BY <2>1, RepoFacts DEF ModelInv, DownloadInv, Passed
<1>3. DiskIsComplete'
  BY <1>2 DEF MakeModelDisk, DiskIsComplete, Complete, Final
<1> QED BY <1>1, <1>3 DEF ModelInv

LEMMA NextKeeps ==
  ASSUME ModelInv, [ModelNext]_modelDiskVars
  PROVE  ModelInv'
<1> USE DEF ModelInv
<1>1. CASE Start
  <2>1. DownloadInv' /\ UNCHANGED <<wanted, half>>
    BY <1>1, StartKeeps DEF Start, StartDownload
  <2> QED BY <1>1, <2>1 DEF Start, DiskIsComplete, Final, vars
<1>2. CASE Download
  BY <1>2, DownloadKeeps DEF Download, DiskIsComplete, Final, vars
<1>3. CASE MakeModelDisk
  BY <1>3, MakeModelDiskKeeps
<1>4. CASE StopBuild
  BY <1>4, EndKeeps DEF StopBuild, DiskIsComplete, Final, vars
<1>5. CASE MakeRoot
  <2>1. kind' = "root" /\ kind = "root"
    BY <1>5 DEF MakeRoot, MakeFilesystem
  <2> QED BY <1>5, <2>1, UnchangedKeeps DEF MakeRoot, DiskIsComplete
<1>6. CASE OtherStep
  BY <1>6, UnchangedKeeps, DiskStepLeaves DEF OtherStep, DiskIsComplete, Final, downloadVars
<1>7. CASE UNCHANGED modelDiskVars
  BY <1>7, UnchangedKeeps DEF modelDiskVars, downloadVars, vars, DiskIsComplete, Final
<1> QED BY <1>1, <1>2, <1>3, <1>4, <1>5, <1>6, <1>7 DEF ModelNext

(* A sealed models disk holds what the config asks for, whole, unless a    *)
(* download gave up with something in place.                               *)
THEOREM SealedModelsAreComplete == ModelSpec => []SealedModelsComplete
<1>1. ModelInv => SealedModelsComplete
  BY DEF ModelInv, DiskIsComplete, SealedModelsComplete, Final
<1> QED BY <1>1, InitModelInv, NextKeeps, PTL DEF ModelSpec

(* The cache never holds a file outside of its directory, and what counts  *)
(* as present there is complete, is being fetched, or was given up.        *)
THEOREM PresentModelsAreComplete == ModelSpec => [](Housed /\ PresentIsComplete)
<1>1. ModelInv => Housed /\ PresentIsComplete
  BY DEF ModelInv, DownloadInv
<1> QED BY <1>1, InitModelInv, NextKeeps, PTL DEF ModelSpec
-----------------------------------------------------------------------------
(* The disks of models, and the root images, are VerityDisk's.             *)

LEMMA StepsOfDisks ==
  /\ ModelInit => Init
  /\ [ModelNext]_modelDiskVars => [Next]_vars
<1>1. DiskSizes \subseteq 1 .. MaxSize
  BY SizesAssumption
<1>2. Start \/ Download \/ StopBuild => UNCHANGED vars
  BY DEF Start, Download, StopBuild
<1>3. MakeModelDisk \/ MakeRoot => \E n \in 1 .. MaxSize : MakeFilesystem(n)
  BY <1>1 DEF MakeModelDisk, MakeRoot
<1> QED
  BY <1>2, <1>3 DEF ModelInit, ModelNext, OtherStep, Next, modelDiskVars

(* Whatever the downloads do, what is built from them is built and read as *)
(* VerityDisk says.                                                        *)
THEOREM ModelDiskIsVerityDisk == ModelSpec => Spec
  BY StepsOfDisks, PTL DEF ModelSpec, Spec

(* The partitions are aligned, share no sector, and read back as their     *)
(* files behind both partition tables.                                     *)
THEOREM PartitionsAreApart == ModelSpec => []PartitionsApart
<1>1. VerityInv => PartitionsApart
  BY GptLayout DEF VerityInv, ImageIsGpt, PartitionsApart
<1>2. Spec => []PartitionsApart
  BY <1>1, InitVerity, NextVerity, PTL DEF Spec
<1> QED
  BY <1>2, ModelDiskIsVerityDisk, PTL

(* Whatever units of a sealed image go bad, of the data, the tree or the   *)
(* superblock, a read of the guest returns the block that was sealed, or   *)
(* is refused: for every size of the filesystem and any number of levels.  *)
THEOREM ReadsAreSealedOrRefused == ModelSpec => []SealedOrRefused
<1>1. Spec => []SealedOrRefused
  BY InitVerity, NextVerity, InitTree, NextTree, NothingElseIsRead, PTL DEF Spec
<1> QED BY <1>1, ModelDiskIsVerityDisk, PTL

(* The guest reads every block of the filesystem that the build made.      *)
THEOREM EveryBlockIsRead == ModelSpec => []EveryBlockReads
<1>1. Spec => []EveryBlockReads
  BY InitVerity, NextVerity, InitTree, NextTree, AllIsRead, PTL DEF Spec
<1> QED BY <1>1, ModelDiskIsVerityDisk, PTL

(* What a download leaves on record.                                       *)
Recorded ==
  /\ wanted \in Includes /\ link \in BOOLEAN
  /\ half \subseteq dirs /\ downloads \in 0 .. MaxDownloads
  /\ contents \in [Files -> Entries]

LEMMA RecordKeeps ==
  ASSUME DownloadInv, Recorded, [ModelNext]_modelDiskVars
  PROVE  Recorded'
<1> USE DEF Recorded
<1>1. CASE Start
  <2>1. downloads' \in 0 .. MaxDownloads
    BY <1>1, DownloadAssumption DEF Start, StartDownload
  <2> QED BY <1>1, <2>1 DEF Start, StartDownload
<1>2. CASE Download
  <2> USE DEF disksVars
  <2>1. UNCHANGED <<contents, wanted, downloads>>
    BY <1>2 DEF Download, DownloadStep, AlreadyExists, BeginModel, Skip, Place, CopyEnds,
                ModelDone, DownloadDone, GiveUp
  <2>2. dirs \subseteq dirs' /\ UNCHANGED link
    BY <1>2 DEF Download, DownloadStep, AlreadyExists, BeginModel, Skip, Place, CopyEnds,
                ModelDone, DownloadDone, GiveUp
  <2>3. half' = half \/ (state \in {"files", "copy"} /\ half' = half \cup {Current})
    BY <1>2 DEF Download, DownloadStep, AlreadyExists, BeginModel, Skip, Place, CopyEnds,
                ModelDone, DownloadDone, GiveUp
  <2> QED BY <2>1, <2>2, <2>3 DEF DownloadInv, DownloadTypes
<1>3. CASE MakeModelDisk
  BY <1>3 DEF MakeModelDisk, disksVars, DownloadInv, DownloadTypes
<1>4. CASE StopBuild
  BY <1>4 DEF StopBuild, disksVars
<1>5. CASE MakeRoot \/ OtherStep \/ UNCHANGED modelDiskVars
  BY <1>5 DEF MakeRoot, OtherStep, downloadVars, modelDiskVars
<1> QED BY <1>1, <1>2, <1>3, <1>4, <1>5 DEF ModelNext

(* The variables keep their types: every hash tree is whole blocks, the    *)
(* command line never tells an offset behind the filesystem, and no model  *)
(* is on record that has no directory.                                     *)
THEOREM TypesHold == ModelSpec => []ModelTypeOK
<1>1. ModelInit => Recorded
  BY DownloadAssumption DEF ModelInit, DownloadInit, Recorded, Entries
<1>2. VerityInv /\ DownloadInv /\ Recorded => ModelTypeOK
  BY DEF VerityInv, DownloadInv, DownloadTypes, Recorded, ModelTypeOK, DownloadTypeOK, Entries
<1>3. Spec => []VerityInv
  BY InitVerity, NextVerity, PTL DEF Spec
<1>4. ModelInv => DownloadInv
  BY DEF ModelInv
<1>5. ModelSpec => []ModelInv
  BY InitModelInv, NextKeeps, PTL DEF ModelSpec
<1>6. ModelSpec => []Recorded
  BY <1>1, <1>4, <1>5, RecordKeeps, PTL DEF ModelSpec
<1> QED
  BY <1>2, <1>3, <1>4, <1>5, <1>6, ModelDiskIsVerityDisk, PTL
=============================================================================
