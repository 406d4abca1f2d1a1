------------------------- MODULE MeasurementsProofs -------------------------
(***************************************************************************)
(* What the digests of one manifest, or of one run of the tool, have in    *)
(* common, for any firmware, CPU models and files, however the files are   *)
(* replaced while the commands run, what a digest is of, that a launch     *)
(* measures a guest's memory as MeasuredGuest says, that MRTD is of what   *)
(* the firmware's sections load, and that RTMRs tell apart what they are   *)
(* of: a kernel's Authenticode hash any two that differ in more than a     *)
(* signature.                                                              *)
(***************************************************************************)
EXTENDS Measurements, FiniteSetTheorems, SequenceTheorems, WellFoundedInduction, TLAPS
-----------------------------------------------------------------------------
(* Sequences of whatever elements.                                         *)
IsSeq(s) == s \in Seq(ToSet(s))

LEMMA WidenSeq ==
  ASSUME NEW S, NEW s \in Seq(S)
  PROVE  IsSeq(s) /\ ToSet(s) \subseteq S
<1>1. Len(s) \in Nat /\ DOMAIN s = 1 .. Len(s) /\ s \in [1 .. Len(s) -> S]
  BY LenProperties
<1>2. s \in [1 .. Len(s) -> ToSet(s)] /\ ToSet(s) \subseteq S
  BY <1>1 DEF ToSet
<1> QED
  BY <1>1, <1>2, SeqDef DEF IsSeq

LEMMA SeqFacts ==
  ASSUME NEW s, IsSeq(s)
  PROVE  Len(s) \in Nat /\ DOMAIN s = 1 .. Len(s)
BY LenProperties DEF IsSeq

LEMMA FunIsSeq ==
  ASSUME NEW f, NEW n \in Nat, f = [i \in 1 .. n |-> f[i]]
  PROVE  IsSeq(f) /\ Len(f) = n
<1>1. f \in [1 .. n -> ToSet(f)] /\ DOMAIN f = 1 .. n
  BY DEF ToSet
<1>2. f \in Seq(ToSet(f))
  BY <1>1, SeqDef
<1> QED
  BY <1>1, <1>2, LenProperties DEF IsSeq

LEMMA EmptyFacts == IsSeq(<<>>) /\ Len(<<>>) = 0 /\ DOMAIN <<>> = {}
<1>1. IsSeq(<<>>) /\ Len(<<>>) = 0
  BY EmptySeq DEF IsSeq
<1> QED BY <1>1, SeqFacts

(* A concatenation, which the provers know by the following lemma only.    *)
Join(s, t) == s \o t

LEMMA JoinFacts ==
  ASSUME NEW s, NEW t, IsSeq(s), IsSeq(t)
  PROVE  /\ IsSeq(Join(s, t)) /\ Len(Join(s, t)) = Len(s) + Len(t)
         /\ DOMAIN Join(s, t) = 1 .. Len(s) + Len(t)
         /\ \A i \in DOMAIN s : i \in DOMAIN Join(s, t) /\ Join(s, t)[i] = s[i]
         /\ \A i \in DOMAIN t :
              Len(s) + i \in DOMAIN Join(s, t) /\ Join(s, t)[Len(s) + i] = t[i]
         /\ \A i \in DOMAIN Join(s, t) :
              i \in DOMAIN s \/ \E j \in DOMAIN t : i = Len(s) + j
         /\ ToSet(Join(s, t)) = ToSet(s) \cup ToSet(t)
<1> DEFINE S == ToSet(s) \cup ToSet(t)
<1>1. s \in Seq(S) /\ t \in Seq(S)
  <2>1. ToSet(s) \subseteq S /\ ToSet(t) \subseteq S
    OBVIOUS
  <2> QED BY <2>1 DEF IsSeq
<1>2. /\ Join(s, t) \in Seq(S) /\ Len(Join(s, t)) = Len(s) + Len(t)
      /\ \A i \in 1 .. Len(s) + Len(t) :
           Join(s, t)[i] = IF i <= Len(s) THEN s[i] ELSE t[i - Len(s)]
  BY <1>1, ConcatProperties DEF Join
<1>3. Len(s) \in Nat /\ Len(t) \in Nat /\ DOMAIN s = 1 .. Len(s) /\ DOMAIN t = 1 .. Len(t)
  BY SeqFacts
<1>4. DOMAIN Join(s, t) = 1 .. Len(s) + Len(t)
  BY <1>2, LenProperties
<1>5. IsSeq(Join(s, t))
  BY <1>2, WidenSeq
<1> HIDE DEF S
<1>6. ASSUME NEW i \in DOMAIN s
      PROVE  i \in DOMAIN Join(s, t) /\ Join(s, t)[i] = s[i]
  BY <1>2, <1>3, <1>4
<1>7. ASSUME NEW i \in DOMAIN t
      PROVE  Len(s) + i \in DOMAIN Join(s, t) /\ Join(s, t)[Len(s) + i] = t[i]
  BY <1>2, <1>3, <1>4
<1>8. ASSUME NEW i \in DOMAIN Join(s, t), i \notin DOMAIN s
      PROVE  \E j \in DOMAIN t : i = Len(s) + j
  <2>1. i - Len(s) \in DOMAIN t /\ i = Len(s) + (i - Len(s))
    BY <1>3, <1>4, <1>8
  <2> QED BY <2>1
<1>9. ToSet(Join(s, t)) = ToSet(s) \cup ToSet(t)
  BY <1>6, <1>7, <1>8 DEF ToSet
<1> QED
  BY <1>2, <1>4, <1>5, <1>6, <1>7, <1>8, <1>9

-----------------------------------------------------------------------------
(* The launch of a CPU model: its pages, as far as they bind a kernel.     *)
Section == [type : SectionTypes, gpa : Nat, pages : Nat]

LEMMA SectionsFacts ==
  ASSUME NEW f \in DOMAIN Firmware, Firmware[f].parses
  PROVE  Sections[f] \in Seq(Section)
<1> DEFINE items == Firmware[f].items
           room == Firmware[f].room
<1>1. items \in Seq(Section) /\ room \in 0 .. Len(items)
  BY FirmwareAssumption DEF Section
<1>2. <<>> \in Seq(Section)
  BY EmptySeq
<1>3. SubSeq(items, 1, room) \in Seq(Section)
  <2>1. Len(items) \in Nat
    BY <1>1, LenProperties
  <2>2. \A i \in 1 .. room : items[i] \in Section
    BY <1>1, <2>1, ElementOfSeq
  <2> QED BY <1>1, <2>1, <2>2, SubSeqProperties
<1> HIDE DEF items, room
<1>4. Sections[f] = IF InTable(f, "metadata") THEN SubSeq(items, 1, room) ELSE <<>>
  BY DEF Sections, items, room
<1> QED
  BY <1>2, <1>3, <1>4

LEMMA HashesConcat ==
  ASSUME NEW s, NEW t, IsSeq(s), IsSeq(t)
  PROVE  IsSeq(s \o t) /\ HashesIn(s \o t) = HashesIn(s) \cup HashesIn(t)
BY JoinFacts DEF HashesIn, Join

(* Pages without the hashes of a kernel.                                   *)
Plain(s) == \A i \in DOMAIN s :
  s[i].type # "normal" \/ \E f, n : s[i].contents = [file |-> f, page |-> n]

LEMMA PlainBinds ==
  ASSUME NEW s, Plain(s)
  PROVE  HashesIn(s) = {}
<1>1. ASSUME NEW i \in DOMAIN s, s[i].type = "normal"
      PROVE  DOMAIN s[i].contents = {"file", "page"}
  <2>1. PICK f, n : s[i].contents = [file |-> f, page |-> n]
    BY <1>1 DEF Plain
  <2>2. DOMAIN [file |-> f, page |-> n] = {"file", "page"}
    OBVIOUS
  <2> QED BY <2>1, <2>2
<1>2. "hashes" \notin {"file", "page"}
  OBVIOUS
<1> QED
  BY <1>1, <1>2 DEF HashesIn, ToSet

LEMMA OnePage ==
  ASSUME NEW p
  PROVE  IsSeq(<<p>>) /\ DOMAIN <<p>> = {1} /\ <<p>>[1] = p
<1>1. <<p>> \in Seq({p})
  OBVIOUS
<1>2. IsSeq(<<p>>)
  BY <1>1, WidenSeq
<1>3. Len(<<p>>) = 1 /\ <<p>>[1] = p
  OBVIOUS
<1>4. DOMAIN <<p>> = 1 .. 1
  BY <1>2, <1>3, SeqFacts
<1> QED BY <1>2, <1>3, <1>4

LEMMA FilePagesFacts ==
  ASSUME NEW f \in DOMAIN Firmware, NEW end
  PROVE  IsSeq(FilePages(f, end)) /\ HashesIn(FilePages(f, end)) = {}
<1>1. Firmware[f].pages \in Nat
  BY FirmwareAssumption
<1>2. FilePages(f, end) = [i \in 1 .. Firmware[f].pages |-> FilePages(f, end)[i]]
  BY DEF FilePages
<1>3. Plain(FilePages(f, end))
  BY DEF FilePages, Plain, PageInfo
<1> QED
  BY <1>1, <1>2, <1>3, FunIsSeq, PlainBinds

LEMMA UnhashedFacts ==
  ASSUME NEW type, type # "normal", NEW gpa, NEW n \in Nat
  PROVE  IsSeq(Unhashed(type, gpa, n)) /\ HashesIn(Unhashed(type, gpa, n)) = {}
<1>1. Unhashed(type, gpa, n) = [i \in 1 .. n |-> Unhashed(type, gpa, n)[i]]
  BY DEF Unhashed
<1>2. Plain(Unhashed(type, gpa, n))
  BY DEF Unhashed, Plain, PageInfo
<1> QED
  BY <1>1, <1>2, FunIsSeq, PlainBinds

LEMMA HashPage ==
  ASSUME NEW gpa, NEW h, NEW o
  PROVE  /\ IsSeq(<<PageInfo("normal", gpa, [hashes |-> h, offset |-> o])>>)
         /\ HashesIn(<<PageInfo("normal", gpa, [hashes |-> h, offset |-> o])>>) = {h}
<1> DEFINE p == PageInfo("normal", gpa, [hashes |-> h, offset |-> o])
<1>1. p.type = "normal" /\ "hashes" \in DOMAIN p.contents /\ p.contents.hashes = h
  BY DEF PageInfo
<1> HIDE DEF p
<1>2. IsSeq(<<p>>) /\ ToSet(<<p>>) = {p}
  BY OnePage DEF ToSet
<1>3. HashesIn(<<p>>) = {h}
  BY <1>1, <1>2 DEF HashesIn
<1> QED
  BY <1>2, <1>3 DEF p

SnpOnQemu(r) ==
  /\ r.mode = "snp" /\ r.vmm = "QEMU" /\ r.seed = None
  /\ r.ovmf \in DOMAIN Firmware

Binds(r) == IF r.kernel = None THEN {} ELSE {Hashes(r)}

LEMMA SectionBinds ==
  ASSUME NEW r, SnpOnQemu(r), NEW s \in Section
  PROVE  /\ IsSeq(SectionPages(r, s))
         /\ HashesIn(SectionPages(r, s)) = IF s.type = "kernel hashes" THEN Binds(r) ELSE {}
<1>1. s.gpa \in Nat /\ s.pages \in Nat /\ s.type \in SectionTypes /\ 1 \in Nat
  BY DEF Section
<1>2. HashesKernel(r) <=> r.kernel # None
  BY DEF HashesKernel, SnpOnQemu
<1>3. r.vmm # "ec2" /\ r.vmm # "gce"
  BY DEF SnpOnQemu
<1>4. CASE s.type = "sec mem"
  <2>1. SectionPages(r, s) = Unhashed("zero", s.gpa, s.pages)
    BY <1>3, <1>4 DEF SectionPages
  <2> QED BY <1>1, <1>4, <2>1, UnhashedFacts
<1>5. CASE s.type = "secrets"
  <2>1. SectionPages(r, s) = Unhashed("secrets", s.gpa, 1)
    BY <1>5 DEF SectionPages
  <2> QED BY <1>1, <1>5, <2>1, UnhashedFacts
<1>6. CASE s.type = "cpuid"
  <2>1. SectionPages(r, s) = Unhashed("cpuid", s.gpa, 1)
    BY <1>3, <1>6 DEF SectionPages
  <2> QED BY <1>1, <1>6, <2>1, UnhashedFacts
<1>7. CASE s.type = "kernel hashes" /\ r.kernel # None
  <2>1. SectionPages(r, s) =
          <<PageInfo("normal", s.gpa, [hashes |-> Hashes(r), offset |-> HashOffset(r)])>>
    BY <1>2, <1>7 DEF SectionPages
  <2>2. IsSeq(SectionPages(r, s)) /\ HashesIn(SectionPages(r, s)) = {Hashes(r)}
    BY <2>1, HashPage
  <2> QED BY <1>7, <2>2 DEF Binds
<1>8. CASE s.type = "caa" \/ (s.type = "kernel hashes" /\ r.kernel = None)
  <2>1. SectionPages(r, s) = Unhashed("zero", s.gpa, s.pages)
    BY <1>2, <1>8 DEF SectionPages
  <2>2. HashesIn(SectionPages(r, s)) = {} /\ IsSeq(SectionPages(r, s))
    BY <1>1, <2>1, UnhashedFacts
  <2>3. s.type = "kernel hashes" => Binds(r) = {}
    BY <1>8 DEF Binds
  <2> QED BY <2>2, <2>3
<1> QED
  BY <1>1, <1>4, <1>5, <1>6, <1>7, <1>8 DEF SectionTypes
-----------------------------------------------------------------------------
(* How far the launch of a CPU model is, and what it has bound by then.    *)
HashesBefore(f, n) ==
  \E i \in DOMAIN Sections[f] : i < n /\ Sections[f][i].type = "kernel hashes"

CpuLaunch ==
  /\ SnpOnQemu(req)
  /\ stage \in {"load", "sections", "cpus", "measured", "refused"}
  /\ stage \in {"sections", "cpus", "measured"} => IsSeq(ld) /\ Firmware[req.ovmf].parses
  /\ stage = "sections" =>
       /\ at \in Nat \ {0}
       /\ HashesIn(ld) = IF HashesBefore(req.ovmf, at) THEN Binds(req) ELSE {}
  /\ stage \in {"cpus", "measured"} => HashesIn(ld) = Binds(req)

LEMMA SaveAreaFacts ==
  ASSUME NEW r, NEW cpu
  PROVE  IsSeq(<<SaveArea(r, cpu)>>) /\ HashesIn(<<SaveArea(r, cpu)>>) = {}
<1>1. SaveArea(r, cpu).type # "normal"
  BY DEF SaveArea, PageInfo
<1> DEFINE p == SaveArea(r, cpu)
<1> HIDE DEF p
<1>2. IsSeq(<<p>>) /\ ToSet(<<p>>) = {p}
  BY OnePage DEF ToSet
<1>3. p.type # "normal"
  BY <1>1 DEF p
<1>4. HashesIn(<<p>>) = {}
  BY <1>2, <1>3 DEF HashesIn
<1> QED BY <1>2, <1>4 DEF p

LEMMA AppendOne ==
  ASSUME NEW s, IsSeq(s), NEW p
  PROVE  Append(s, p) = s \o <<p>>
<1>1. s \in Seq(ToSet(s) \cup {p}) /\ p \in ToSet(s) \cup {p}
  BY SeqMonotonic DEF IsSeq
<1> QED BY <1>1, AppendIsConcat

LEMMA LoadKeeps ==
  ASSUME CpuLaunch, Load
  PROVE  CpuLaunch'
<1>1. SnpOnQemu(req) /\ Firmware[req.ovmf].parses
  BY DEF CpuLaunch, Load, LoadFails
<1>2. ld' = FilePages(req.ovmf, FourGB)
  BY <1>1 DEF Load, Loaded, OwnPages, SnpOnQemu
<1>3. IsSeq(ld') /\ HashesIn(ld') = {}
  BY <1>1, <1>2, FilePagesFacts DEF SnpOnQemu
<1>4. Sections[req.ovmf] \in Seq(Section)
  BY <1>1, SectionsFacts DEF SnpOnQemu
<1>5. ~HashesBefore(req.ovmf, 1)
  <2>1. DOMAIN Sections[req.ovmf] = 1 .. Len(Sections[req.ovmf])
    BY <1>4, LenProperties
  <2>2. \A i \in DOMAIN Sections[req.ovmf] : ~(i < 1)
    BY <2>1
  <2> QED BY <2>2 DEF HashesBefore
<1>6. req' = req /\ stage' = "sections" /\ at' = 1
  BY DEF Load
<1>7. HashesBefore(req.ovmf, at)' = HashesBefore(req.ovmf, 1)
  BY <1>6
<1> QED
  BY <1>1, <1>3, <1>5, <1>6, <1>7 DEF CpuLaunch

LEMMA FoldSectionKeeps ==
  ASSUME CpuLaunch, FoldSection
  PROVE  CpuLaunch'
<1> DEFINE f == req.ovmf
           s == Sections[f][at]
<1>1. /\ SnpOnQemu(req) /\ Firmware[f].parses /\ IsSeq(ld) /\ at \in Nat \ {0}
      /\ HashesIn(ld) = IF HashesBefore(f, at) THEN Binds(req) ELSE {}
  BY DEF CpuLaunch, FoldSection
<1>2. Sections[f] \in Seq(Section) /\ Len(Sections[f]) \in Nat
      /\ DOMAIN Sections[f] = 1 .. Len(Sections[f])
  BY <1>1, SectionsFacts, LenProperties DEF SnpOnQemu
<1>3. LaunchSections(req) = Sections[f]
  BY <1>1, SMTT(60) DEF LaunchSections, LaunchFile, SnpOnQemu
<1>4. at \in 1 .. Len(Sections[f]) /\ ld' = ld \o SectionPages(req, s)
      /\ at' = at + 1 /\ UNCHANGED <<req, stage>> /\ stage = "sections"
  BY <1>1, <1>2, <1>3 DEF FoldSection
<1>5. s \in Section
  BY <1>2, <1>4, ElementOfSeq
<1>6. HashesBefore(f, at + 1) <=> HashesBefore(f, at) \/ s.type = "kernel hashes"
  <2>1. \A i \in DOMAIN Sections[f] : i < at + 1 <=> i < at \/ i = at
    BY <1>2, <1>4
  <2>2. at \in DOMAIN Sections[f]
    BY <1>2, <1>4
  <2> QED BY <2>1, <2>2 DEF HashesBefore
<1> HIDE DEF f, s
<1>7. IsSeq(ld') /\ HashesIn(ld') = HashesIn(ld) \cup HashesIn(SectionPages(req, s))
  BY <1>1, <1>4, <1>5, SectionBinds, HashesConcat
<1>8. HashesIn(ld') = IF HashesBefore(f, at + 1) THEN Binds(req) ELSE {}
  BY <1>1, <1>5, <1>6, <1>7, SectionBinds
<1>9. HashesBefore(req.ovmf, at)' = HashesBefore(f, at + 1)
  BY <1>4 DEF f
<1>10. at' \in Nat \ {0} /\ Binds(req)' = Binds(req) /\ SnpOnQemu(req)'
  BY <1>1, <1>4 DEF Binds
<1> QED
  BY <1>1, <1>4, <1>7, <1>8, <1>9, <1>10 DEF CpuLaunch, f

LEMMA StartCpusKeeps ==
  ASSUME CpuLaunch, StartCpus
  PROVE  CpuLaunch'
<1> DEFINE f == req.ovmf
<1>1. SnpOnQemu(req) /\ stage = "sections"
  BY DEF CpuLaunch, StartCpus, PagesEnd
<1>2. /\ Firmware[f].parses /\ IsSeq(ld) /\ at \in Nat \ {0}
      /\ HashesIn(ld) = IF HashesBefore(f, at) THEN Binds(req) ELSE {}
  BY <1>1 DEF CpuLaunch
<1>3. Sections[f] \in Seq(Section) /\ Len(Sections[f]) \in Nat
      /\ DOMAIN Sections[f] = 1 .. Len(Sections[f])
  BY <1>1, <1>2, SectionsFacts, LenProperties DEF SnpOnQemu
<1>4. at > Len(Sections[f])
  BY <1>1 DEF StartCpus, PagesEnd, LaunchSections, LaunchFile, SnpOnQemu
<1>5. req.kernel # None => HasSection(f, "kernel hashes")
  BY <1>1 DEF StartCpus, CpusFail, SnpOnQemu
<1>6. HasSection(f, "kernel hashes") => HashesBefore(f, at)
  <2>1. \A i \in DOMAIN Sections[f] : i < at
    BY <1>2, <1>3, <1>4
  <2> QED BY <2>1 DEF HasSection, HashesBefore, ToSet
<1>7. HashesIn(ld) = Binds(req)
  BY <1>2, <1>5, <1>6 DEF Binds
<1> QED
  BY <1>1, <1>2, <1>7 DEF StartCpus, CpuLaunch

LEMMA SaveCpuKeeps ==
  ASSUME CpuLaunch, SaveCpu
  PROVE  CpuLaunch'
<1>1. IsSeq(ld) /\ HashesIn(ld) = Binds(req)
  BY DEF CpuLaunch, SaveCpu
<1> DEFINE p == <<SaveArea(req, at)>>
<1>2. ld' = ld \o p
  BY <1>1, AppendOne DEF SaveCpu
<1>5. IsSeq(p) /\ HashesIn(p) = {}
  BY SaveAreaFacts
<1> HIDE DEF p
<1>6. IsSeq(ld \o p) /\ HashesIn(ld \o p) = HashesIn(ld) \cup HashesIn(p)
  BY <1>1, <1>5, HashesConcat
<1>3. IsSeq(ld') /\ HashesIn(ld') = Binds(req)
  BY <1>1, <1>2, <1>5, <1>6
<1>4. UNCHANGED <<req, stage>> /\ stage = "cpus"
  BY DEF SaveCpu
<1> QED
  BY <1>3, <1>4 DEF CpuLaunch

(* Each step of the launch; EC2's second loop is none of this one's.       *)
LEMMA LaunchKeeps ==
  ASSUME CpuLaunch, Launching
  PROVE  CpuLaunch' /\ UNCHANGED req
<1>1. CASE Load        BY <1>1, LoadKeeps DEF Load
<1>2. CASE FoldSection BY <1>2, FoldSectionKeeps DEF FoldSection
<1>3. CASE SectionsEnd BY <1>3 DEF SectionsEnd, FoldsLateCpuid, CpuLaunch, SnpOnQemu
<1>4. CASE FoldLateCpuid BY <1>4 DEF FoldLateCpuid, CpuLaunch
<1>5. CASE StartCpus   BY <1>5, StartCpusKeeps DEF StartCpus
<1>6. CASE SaveCpu     BY <1>6, SaveCpuKeeps DEF SaveCpu
<1>7. CASE Measured    BY <1>7 DEF Measured, CpuLaunch
<1>8. CASE Refuse      BY <1>8 DEF Refuse, CpuLaunch
<1> QED
  BY <1>1, <1>2, <1>3, <1>4, <1>5, <1>6, <1>7, <1>8 DEF Launching
-----------------------------------------------------------------------------
(* The plan of a command: its launches are in one stretch.                 *)
IsCpu(step) == \E k \in DOMAIN Cpus : step = <<"cpu", k>>

NoCpus(p) == \A i \in DOMAIN p : ~IsCpu(p[i])

CpusTogether(p) ==
  \A i, l, j \in DOMAIN p : i <= l /\ l <= j /\ IsCpu(p[i]) /\ IsCpu(p[j]) => IsCpu(p[l])

LEMMA TailFacts ==
  ASSUME NEW p, IsSeq(p), p # <<>>
  PROVE  /\ IsSeq(Tail(p)) /\ 1 \in DOMAIN p /\ Head(p) = p[1]
         /\ \A i \in DOMAIN Tail(p) : i + 1 \in DOMAIN p /\ Tail(p)[i] = p[i + 1]
         /\ \A i \in DOMAIN p : i = 1 \/ i - 1 \in DOMAIN Tail(p)
         /\ DOMAIN p \subseteq Nat \ {0} /\ DOMAIN Tail(p) \subseteq Nat \ {0}
<1> DEFINE S == ToSet(p)
<1>1. p \in Seq(S)
  BY DEF IsSeq
<1>2. /\ Tail(p) \in Seq(S) /\ Len(Tail(p)) = Len(p) - 1
      /\ \A i \in 1 .. Len(Tail(p)) : Tail(p)[i] = p[i + 1]
  BY <1>1, HeadTailProperties
<1>3. Len(p) \in Nat /\ Len(p) # 0 /\ DOMAIN p = 1 .. Len(p)
  BY <1>1, LenProperties, EmptySeq
<1>4. DOMAIN Tail(p) = 1 .. Len(p) - 1
  BY <1>2, LenProperties
<1>5. Head(p) = p[1]
  OBVIOUS
<1>6. IsSeq(Tail(p))
  BY <1>2, WidenSeq
<1> HIDE DEF S
<1> QED
  BY <1>2, <1>3, <1>4, <1>5, <1>6

LEMMA TailCpus ==
  ASSUME NEW p, IsSeq(p), p # <<>>
  PROVE  /\ NoCpus(p) => NoCpus(Tail(p))
         /\ CpusTogether(p) => CpusTogether(Tail(p))
         /\ CpusTogether(p) /\ IsCpu(Head(p)) =>
              NoCpus(Tail(p)) \/ (Tail(p) # <<>> /\ IsCpu(Tail(p)[1]))
<1>1. NoCpus(p) => NoCpus(Tail(p))
  BY TailFacts DEF NoCpus
<1>2. ASSUME CpusTogether(p)
      PROVE  CpusTogether(Tail(p))
  <2> SUFFICES ASSUME NEW i \in DOMAIN Tail(p), NEW l \in DOMAIN Tail(p), NEW j \in DOMAIN Tail(p),
                      i <= l, l <= j, IsCpu(Tail(p)[i]), IsCpu(Tail(p)[j])
               PROVE  IsCpu(Tail(p)[l])
    BY DEF CpusTogether
  <2>1. /\ {i + 1, l + 1, j + 1} \subseteq DOMAIN p /\ {i, l, j} \subseteq Nat
        /\ Tail(p)[i] = p[i + 1] /\ Tail(p)[l] = p[l + 1] /\ Tail(p)[j] = p[j + 1]
    BY TailFacts
  <2>2. i + 1 <= l + 1 /\ l + 1 <= j + 1
    BY <2>1
  <2> QED BY <1>2, <2>1, <2>2 DEF CpusTogether
<1>3. ASSUME CpusTogether(p), IsCpu(Head(p)), ~NoCpus(Tail(p))
      PROVE  Tail(p) # <<>> /\ IsCpu(Tail(p)[1])
  <2>1. PICK j \in DOMAIN Tail(p) : IsCpu(Tail(p)[j])
    BY <1>3 DEF NoCpus
  <2>2. IsSeq(Tail(p)) /\ Tail(p) # <<>>
    <3>1. IsSeq(Tail(p)) /\ DOMAIN Tail(p) = 1 .. Len(Tail(p))
      BY TailFacts, SeqFacts
    <3>2. Len(<<>>) = 0
      BY EmptySeq
    <3> QED BY <2>1, <3>1, <3>2
  <2>3. 1 \in DOMAIN Tail(p)
    BY <2>2, TailFacts
  <2>4. /\ 1 \in DOMAIN p /\ 1 + 1 \in DOMAIN p /\ j + 1 \in DOMAIN p /\ j \in Nat \ {0}
        /\ p[1] = Head(p) /\ Tail(p)[1] = p[1 + 1] /\ Tail(p)[j] = p[j + 1]
    BY <2>1, <2>3, TailFacts
  <2>5. 1 <= 1 + 1 /\ 1 + 1 <= j + 1
    BY <2>4
  <2>6. IsCpu(p[1 + 1])
    BY <1>3, <2>1, <2>4, <2>5 DEF CpusTogether
  <2> QED BY <2>2, <2>4, <2>6
<1> QED
  BY <1>1, <1>2, <1>3

(* Kernel and initrd are read before the first launch.                     *)
ReadFirst(p, f) ==
  NoCpus(p) \/ \E i \in DOMAIN p : p[i] = Read(f) /\ \A j \in DOMAIN p : IsCpu(p[j]) => i < j

(* MRTD gets a text in the last step only.                                 *)
NoMrtd == <<"no ovmf", "MRTD">>

TextLast(p) == \A i \in DOMAIN p : p[i] = NoMrtd => i = Len(p)

PlanFacts(p) ==
  /\ IsSeq(p) /\ CpusTogether(p) /\ TextLast(p)
  /\ ReadFirst(p, "kernel") /\ ReadFirst(p, "initrd")

IsList(list) == list \in Seq(DOMAIN Cpus)

LEMMA ListFacts ==
  ASSUME NEW list, IsList(list)
  PROVE  Len(list) \in Nat /\ DOMAIN list = 1 .. Len(list) /\ \A i \in DOMAIN list : list[i] \in DOMAIN Cpus
BY LenProperties, ElementOfSeq DEF IsList

LEMMA ListsAreLists == IsList(CpuLists["manifest"]) /\ IsList(CpuLists["snp tool"])
BY CpusAssumption DEF IsList

(* No step is a launch and something else.                                 *)
LEMMA StepsApart ==
  /\ \A f : ~IsCpu(Read(f)) /\ Read(f) # NoMrtd /\ Read(f) # <<"launch", 0>>
  /\ \A m : ~IsCpu(Measure(m)) /\ Measure(m) # NoMrtd /\ Measure(m) # <<"launch", 0>>
  /\ \A m : ~IsCpu(<<"no ovmf", m>>) /\ <<"no ovmf", m>> # <<"launch", 0>>
  /\ \A f, m : Read(f) # Measure(m) /\ Read(f) # <<"no ovmf", m>> /\ Measure(f) # <<"no ovmf", m>>
  /\ ~IsCpu(<<"launch", 0>>) /\ ~IsCpu(NoMrtd)
BY DEF IsCpu, Read, Measure, NoMrtd

LEMMA SnpPlanFacts ==
  ASSUME NEW list, IsList(list)
  PROVE
  /\ IsSeq(SnpPlan(list)) /\ Len(SnpPlan(list)) = 2 + Len(list)
  /\ DOMAIN SnpPlan(list) = 1 .. 2 + Len(list)
  /\ SnpPlan(list)[1] = Read("kernel") /\ SnpPlan(list)[2] = Read("initrd")
  /\ \A i \in DOMAIN SnpPlan(list) : IsCpu(SnpPlan(list)[i]) <=> i > 2
<1> DEFINE reads == <<Read("kernel"), Read("initrd")>>
           cpus == [k \in DOMAIN list |-> <<"cpu", list[k]>>]
           m == Len(list)
<1>1. IsSeq(cpus) /\ Len(cpus) = m
  BY ListFacts, FunIsSeq
<1>2. IsSeq(reads) /\ Len(reads) = 2 /\ reads[1] = Read("kernel") /\ reads[2] = Read("initrd")
  <2>1. reads \in Seq({Read("kernel"), Read("initrd")})
    OBVIOUS
  <2> QED BY <2>1, WidenSeq
<1>3. \A i \in DOMAIN cpus : IsCpu(cpus[i])
  BY ListFacts DEF IsCpu
<1>4. ~IsCpu(reads[1]) /\ ~IsCpu(reads[2])
  BY StepsApart, <1>2
<1>5. SnpPlan(list) = Join(reads, cpus)
  BY DEF SnpPlan, Join
<1>6. DOMAIN reads = 1 .. 2 /\ DOMAIN cpus = 1 .. m
  BY <1>1, <1>2, SeqFacts
<1>m. m \in Nat /\ DOMAIN list = 1 .. m
  BY ListFacts
<1> HIDE DEF reads, cpus, m
<1>7. /\ IsSeq(SnpPlan(list)) /\ Len(SnpPlan(list)) = 2 + m /\ DOMAIN SnpPlan(list) = 1 .. 2 + m
      /\ \A i \in DOMAIN reads : SnpPlan(list)[i] = reads[i]
      /\ \A i \in DOMAIN cpus : SnpPlan(list)[2 + i] = cpus[i]
  <2>1. /\ IsSeq(Join(reads, cpus)) /\ Len(Join(reads, cpus)) = Len(reads) + Len(cpus)
        /\ DOMAIN Join(reads, cpus) = 1 .. Len(reads) + Len(cpus)
        /\ \A i \in DOMAIN reads : Join(reads, cpus)[i] = reads[i]
        /\ \A i \in DOMAIN cpus : Join(reads, cpus)[Len(reads) + i] = cpus[i]
    <3>1. IsSeq(reads) /\ IsSeq(cpus)
      BY <1>1, <1>2
    <3> QED BY <3>1, JoinFacts
  <2> QED BY <1>1, <1>2, <1>5, <2>1
<1>9. 1 \in DOMAIN reads /\ 2 \in DOMAIN reads
  BY <1>6
<1>10. SnpPlan(list)[1] = reads[1] /\ SnpPlan(list)[2] = reads[2]
  BY <1>7, <1>9
<1>8. ASSUME NEW i \in DOMAIN SnpPlan(list)
      PROVE  IsCpu(SnpPlan(list)[i]) <=> i > 2
  <2>1. CASE i > 2
    <3>1. i - 2 \in DOMAIN cpus /\ 2 + (i - 2) = i
      BY <1>6, <1>7, <1>m, <2>1
    <3>2. SnpPlan(list)[2 + (i - 2)] = cpus[i - 2]
      BY <1>7, <3>1
    <3> QED BY <1>3, <2>1, <3>1, <3>2
  <2>2. CASE i = 1 \/ i = 2
    BY <1>4, <1>10, <2>2
  <2> QED BY <1>7, <1>m, <2>1, <2>2
<1> QED
  BY <1>2, <1>7, <1>8, <1>10 DEF m

(* A plan that measures SNP and goes on with something else.               *)
LEMMA SnpFirst ==
  ASSUME NEW list, IsList(list), NEW t, IsSeq(t), NoCpus(t), TextLast(t)
  PROVE  /\ PlanFacts(Join(SnpPlan(list), t))
         /\ ToSet(t) \subseteq ToSet(Join(SnpPlan(list), t))
<1> DEFINE p == Join(SnpPlan(list), t)
           n == 2 + Len(list)
<1>1. /\ IsSeq(p) /\ Len(p) = n + Len(t) /\ DOMAIN p = 1 .. n + Len(t)
      /\ \A i \in DOMAIN SnpPlan(list) : i \in DOMAIN p /\ p[i] = SnpPlan(list)[i]
      /\ \A i \in DOMAIN t : n + i \in DOMAIN p /\ p[n + i] = t[i]
      /\ \A i \in DOMAIN p : i \in DOMAIN SnpPlan(list) \/ \E j \in DOMAIN t : i = n + j
      /\ ToSet(t) \subseteq ToSet(p)
  BY SnpPlanFacts, JoinFacts
<1>2. n \in Nat /\ n >= 2 /\ Len(t) \in Nat /\ DOMAIN t = 1 .. Len(t)
  BY ListFacts, SeqFacts
<1>3. /\ DOMAIN SnpPlan(list) = 1 .. n /\ SnpPlan(list)[1] = Read("kernel") /\ SnpPlan(list)[2] = Read("initrd")
      /\ \A i \in DOMAIN SnpPlan(list) : IsCpu(SnpPlan(list)[i]) <=> i > 2
  BY SnpPlanFacts
<1> HIDE DEF p, n
<1>4. ASSUME NEW i \in DOMAIN SnpPlan(list)
      PROVE  SnpPlan(list)[i] # NoMrtd
  <2>1. CASE i > 2
    <3>1. IsCpu(SnpPlan(list)[i])
      BY <1>3, <2>1
    <3> QED BY <3>1, StepsApart
  <2>2. CASE i = 1
    BY <1>3, <2>2, StepsApart
  <2>3. CASE i = 2
    BY <1>3, <2>3, StepsApart
  <2>4. i = 1 \/ i = 2 \/ i > 2
    BY <1>2, <1>3
  <2> QED BY <2>1, <2>2, <2>3, <2>4
<1>5. ASSUME NEW i \in DOMAIN p
      PROVE  i \in Nat /\ (IsCpu(p[i]) <=> (i > 2 /\ i <= n)) /\ (p[i] = NoMrtd => i = Len(p))
  <2>1. CASE i \in DOMAIN SnpPlan(list)
    <3>1. p[i] = SnpPlan(list)[i] /\ i \in Nat /\ i <= n
      BY <1>1, <1>2, <1>3, <2>1
    <3>2. IsCpu(p[i]) <=> i > 2
      BY <1>3, <2>1, <3>1
    <3>3. p[i] # NoMrtd
      BY <1>4, <2>1, <3>1
    <3> QED BY <3>1, <3>2, <3>3
  <2>2. CASE i \notin DOMAIN SnpPlan(list)
    <3>1. PICK j \in DOMAIN t : i = n + j
      BY <1>1, <2>2
    <3>2. p[i] = t[j]
      BY <1>1, <3>1
    <3>3. ~IsCpu(p[i])
      BY <3>2 DEF NoCpus
    <3>4. p[i] = NoMrtd => j = Len(t)
      BY <3>2 DEF TextLast
    <3>5. i \in Nat /\ ~(i <= n) /\ (j = Len(t) => i = Len(p))
      BY <1>1, <1>2, <3>1, SMTT(60)
    <3> QED BY <3>3, <3>4, <3>5
  <2> QED BY <2>1, <2>2
<1>6. CpusTogether(p)
  <2> SUFFICES ASSUME NEW i \in DOMAIN p, NEW l \in DOMAIN p, NEW j \in DOMAIN p,
                      i <= l, l <= j, IsCpu(p[i]), IsCpu(p[j])
               PROVE  IsCpu(p[l])
    BY DEF CpusTogether
  <2>1. i > 2 /\ j <= n /\ {i, l, j} \subseteq Nat
    BY <1>5
  <2>2. l > 2 /\ l <= n
    BY <1>2, <2>1
  <2> QED BY <1>5, <2>2
<1>7. TextLast(p)
  BY <1>5 DEF TextLast
<1>8. ReadFirst(p, "kernel") /\ ReadFirst(p, "initrd")
  <2>1. 1 \in DOMAIN SnpPlan(list) /\ 2 \in DOMAIN SnpPlan(list)
    BY <1>2, <1>3
  <2>2. 1 \in DOMAIN p /\ 2 \in DOMAIN p /\ p[1] = Read("kernel") /\ p[2] = Read("initrd")
    BY <1>1, <1>3, <2>1
  <2>3. ASSUME NEW j \in DOMAIN p, IsCpu(p[j])
        PROVE  1 < j /\ 2 < j
    <3>1. j \in Nat /\ j > 2
      BY <1>5, <2>3
    <3> QED BY <3>1
  <2> QED BY <2>2, <2>3 DEF ReadFirst
<1>9. PlanFacts(p)
  BY <1>1, <1>6, <1>7, <1>8 DEF PlanFacts
<1> QED
  BY <1>1, <1>9 DEF p
-----------------------------------------------------------------------------
(* The plans that commands start with.                                     *)
TdxSteps ==
  <<Read("tdx ovmf"), Measure("MRTD"), Read("dsdt"), Measure("RTMR0"),
    Read("kernel"), Measure("RTMR1"), Read("initrd"), Measure("RTMR2"), Measure("RTMR3")>>

NoTdxSteps == <<NoMrtd>>

ManifestTail(c) == IF c.tdxOvmf THEN TdxSteps ELSE NoTdxSteps

(* MRTD, RTMR1 and RTMR2 are still to come, or a text for MRTD.            *)
TdxToCome(p) ==
  \/ NoMrtd \in ToSet(p)
  \/ {Measure("MRTD"), Measure("RTMR1"), Measure("RTMR2")} \subseteq ToSet(p)

LEMMA TdxStepsFacts ==
  IsSeq(TdxSteps) /\ NoCpus(TdxSteps) /\ TextLast(TdxSteps) /\ TdxToCome(TdxSteps)
<1> DEFINE S == {Read(f) : f \in FileNames} \cup {Measure(m) : m \in Registers}
<1>1. TdxSteps \in Seq(S) /\ Len(TdxSteps) = 9
  BY DEF TdxSteps, FileNames, Registers
<1>2. IsSeq(TdxSteps) /\ DOMAIN TdxSteps = 1 .. 9
  BY <1>1, WidenSeq, SeqFacts
<1>3. /\ TdxSteps[2] = Measure("MRTD")
      /\ TdxSteps[6] = Measure("RTMR1") /\ TdxSteps[8] = Measure("RTMR2")
  BY DEF TdxSteps
<1>4. \A i \in DOMAIN TdxSteps : ~IsCpu(TdxSteps[i]) /\ TdxSteps[i] # NoMrtd
  <2>1. \A i \in DOMAIN TdxSteps : TdxSteps[i] \in S
    BY <1>1, <1>2, ElementOfSeq
  <2> QED BY <2>1, StepsApart
<1>5. 2 \in DOMAIN TdxSteps /\ 6 \in DOMAIN TdxSteps /\ 8 \in DOMAIN TdxSteps
  BY <1>2
<1>6. TdxToCome(TdxSteps)
  BY <1>3, <1>5 DEF TdxToCome, ToSet
<1> QED
  BY <1>2, <1>4, <1>6 DEF NoCpus, TextLast

LEMMA OneStep ==
  ASSUME NEW x, ~IsCpu(x)
  PROVE  IsSeq(<<x>>) /\ NoCpus(<<x>>) /\ TextLast(<<x>>) /\ ToSet(<<x>>) = {x}
<1>1. IsSeq(<<x>>) /\ DOMAIN <<x>> = {1} /\ <<x>>[1] = x
  BY OnePage
<1>2. Len(<<x>>) = 1
  OBVIOUS
<1> QED
  BY <1>1, <1>2 DEF NoCpus, TextLast, ToSet

LEMMA ManifestTailFacts ==
  ASSUME NEW c
  PROVE  /\ IsSeq(ManifestTail(c)) /\ NoCpus(ManifestTail(c)) /\ TextLast(ManifestTail(c))
         /\ TdxToCome(ManifestTail(c))
<1>1. IsSeq(NoTdxSteps) /\ NoCpus(NoTdxSteps) /\ TextLast(NoTdxSteps) /\ TdxToCome(NoTdxSteps)
  BY OneStep, StepsApart DEF NoTdxSteps, TdxToCome
<1> QED
  BY <1>1, TdxStepsFacts DEF ManifestTail

LEMMA NoCpusPlan ==
  ASSUME NEW p, IsSeq(p), NoCpus(p), TextLast(p)
  PROVE  PlanFacts(p)
BY DEF PlanFacts, NoCpus, CpusTogether, ReadFirst

(* A step other than a launch before the rest of a plan.                   *)
OtherStep(y) == Len(y) = 1 /\ ~IsCpu(y[1]) /\ y[1] # NoMrtd

LEMMA StepFirst ==
  ASSUME NEW y, IsSeq(y), OtherStep(y), NEW t, IsSeq(t), NoCpus(t), TextLast(t)
  PROVE  PlanFacts(Join(y, t)) /\ ToSet(t) \subseteq ToSet(Join(y, t))
<1> DEFINE p == Join(y, t)
<1>1. DOMAIN y = {1} /\ Len(t) \in Nat
  <2>1. DOMAIN y = 1 .. 1 /\ Len(t) \in Nat
    BY SeqFacts DEF OtherStep
  <2> QED BY <2>1
<1>2. /\ IsSeq(p) /\ Len(p) = Len(y) + Len(t)
      /\ \A i \in DOMAIN y : i \in DOMAIN p /\ p[i] = y[i]
      /\ \A i \in DOMAIN t : Len(y) + i \in DOMAIN p /\ p[Len(y) + i] = t[i]
      /\ \A i \in DOMAIN p : i \in DOMAIN y \/ \E j \in DOMAIN t : i = Len(y) + j
      /\ ToSet(p) = ToSet(y) \cup ToSet(t)
  BY JoinFacts
<1> HIDE DEF p
<1>3. ASSUME NEW i \in DOMAIN p
      PROVE  ~IsCpu(p[i]) /\ (p[i] = NoMrtd => i = Len(p))
  <2>1. CASE i = 1
    <3>1. p[i] = y[1]
      BY <1>1, <1>2, <2>1
    <3> QED BY <3>1 DEF OtherStep
  <2>2. CASE \E j \in DOMAIN t : i = Len(y) + j
    <3>1. PICK j \in DOMAIN t : i = Len(y) + j
      BY <2>2
    <3>2. p[i] = t[j]
      BY <1>2, <3>1
    <3>3. ~IsCpu(t[j]) /\ (t[j] = NoMrtd => j = Len(t))
      BY DEF NoCpus, TextLast
    <3> QED BY <1>2, <3>1, <3>2, <3>3
  <2> QED BY <1>1, <1>2, <2>1, <2>2
<1>4. NoCpus(p) /\ TextLast(p)
  BY <1>3 DEF NoCpus, TextLast
<1> QED
  BY <1>2, <1>4, NoCpusPlan DEF p

LEMMA PlanOfFacts ==
  ASSUME NEW command \in CommandNames, NEW c
  PROVE  /\ PlanFacts(PlanOf(command, c))
         /\ command = "manifest" => TdxToCome(PlanOf(command, c))
<1> DEFINE t == ManifestTail(c)
           x == <<"no ovmf", "LAUNCH_DIGEST">>
           plan1 == SnpPlan(CpuLists["manifest"])
           plan2 == SnpPlan(CpuLists["snp tool"])
<1>1. IsSeq(t) /\ NoCpus(t) /\ TextLast(t) /\ TdxToCome(t)
  BY ManifestTailFacts
<1>2. x # NoMrtd /\ ~IsCpu(x)
  <2>1. "LAUNCH_DIGEST" # "MRTD"
    OBVIOUS
  <2> QED BY <2>1, StepsApart DEF NoMrtd
<1>3. CASE command = "manifest"
  <2>1. PlanOf(command, c) = IF c.snpOvmf THEN Join(plan1, t) ELSE Join(<<x>>, t)
    BY <1>3 DEF PlanOf, Join, ManifestTail, TdxSteps, NoTdxSteps, NoMrtd
  <2> HIDE DEF t, x
  <2>2. /\ PlanFacts(Join(plan1, t)) /\ ToSet(t) \subseteq ToSet(Join(plan1, t))
        /\ PlanFacts(Join(<<x>>, t)) /\ ToSet(t) \subseteq ToSet(Join(<<x>>, t))
    <3>1. IsSeq(<<x>>) /\ Len(<<x>>) = 1 /\ <<x>>[1] = x
      BY OnePage
    <3> QED BY <1>1, <1>2, <3>1, ListsAreLists, SnpFirst, StepFirst DEF OtherStep
  <2>3. PlanFacts(PlanOf(command, c)) /\ ToSet(t) \subseteq ToSet(PlanOf(command, c))
    BY <2>1, <2>2
  <2> QED BY <1>1, <2>3 DEF TdxToCome
<1>4. CASE command = "snp tool"
  <2>1. IsSeq(<<>>) /\ NoCpus(<<>>) /\ TextLast(<<>>)
    BY EmptyFacts DEF NoCpus, TextLast
  <2>2. Join(plan2, <<>>) = plan2
    BY ListsAreLists, SnpPlanFacts, ConcatEmptySeq DEF Join, IsSeq
  <2>3. PlanFacts(plan2)
    BY <2>1, <2>2, ListsAreLists, SnpFirst
  <2> QED BY <1>4, <2>3 DEF PlanOf
<1>5. CASE command = "tdx tool"
  <2> DEFINE p == PlanOf(command, c)
             S == {Read(f) : f \in FileNames} \cup {Measure(m) : m \in Registers}
             q == <<Read("tdx ovmf"), Read("kernel"), Read("initrd"), Read("dsdt"), Measure("MRTD"),
                    Measure("RTMR0"), Measure("RTMR1"), Measure("RTMR2"), Measure("RTMR3")>>
  <2>0. q \in Seq(S) /\ Len(q) = 9
    BY DEF FileNames, Registers
  <2>1. p \in Seq(S) /\ Len(p) = 9
    <3>1. p = q
      BY <1>5 DEF PlanOf
    <3> QED BY <2>0, <3>1
  <2>2. IsSeq(p) /\ DOMAIN p = 1 .. 9
    BY <2>1, WidenSeq, SeqFacts
  <2>3. \A i \in DOMAIN p : p[i] \in S
    BY <2>1, <2>2, ElementOfSeq
  <2> HIDE DEF p
  <2>4. NoCpus(p) /\ TextLast(p)
    BY <2>3, StepsApart DEF NoCpus, TextLast
  <2>5. PlanFacts(p)
    BY <2>2, <2>4, NoCpusPlan
  <2> QED BY <1>5, <2>5 DEF p
<1>6. CASE command = "library"
  <2>1. PlanFacts(<<<<"launch", 0>>>>)
    BY OneStep, NoCpusPlan, StepsApart
  <2> QED BY <1>6, <2>1 DEF PlanOf
<1> QED
  BY <1>3, <1>4, <1>5, <1>6 DEF CommandNames
-----------------------------------------------------------------------------
(* The map and its SNP digests.                                            *)
LEMMA TextsAndDigests ==
  \A x : IsText(Text(x)) /\ ~IsText(Digest(x)) /\ Digest(x).digest = x
<1> SUFFICES ASSUME NEW x PROVE IsText(Text(x)) /\ ~IsText(Digest(x)) /\ Digest(x).digest = x
  OBVIOUS
<1>1. DOMAIN Text(x) = {"text"} /\ DOMAIN Digest(x) = {"digest"}
  BY DEF Text, Digest
<1>2. "text" \notin {"digest"}
  OBVIOUS
<1>3. Digest(x).digest = x
  BY DEF Digest
<1> QED
  BY <1>1, <1>2, <1>3 DEF IsText

LEMMA PutFacts ==
  ASSUME NEW name, NEW v, NEW rest, Put(name, v, rest)
  PROVE  /\ plan' = rest /\ DOMAIN out' = DOMAIN out \cup {name}
         /\ out'[name] = v /\ \A n \in DOMAIN out \ {name} : out'[n] = out[n]
         /\ SnpDigests' \subseteq SnpDigests \cup {v.digest}
         /\ name \notin CpuNames \/ IsText(v) => SnpDigests' \subseteq SnpDigests
         /\ UNCHANGED <<disk, cmd, config, mem, todo, changes>>
<1>1. /\ plan' = rest /\ DOMAIN out' = DOMAIN out \cup {name}
      /\ out'[name] = v /\ \A n \in DOMAIN out \ {name} : out'[n] = out[n]
      /\ UNCHANGED <<disk, cmd, config, mem, todo, changes>>
  BY DEF Put
<1>2. ASSUME NEW d \in SnpDigests'
      PROVE  d \in SnpDigests \/ (d = v.digest /\ name \in CpuNames /\ ~IsText(v))
  <2>1. PICK n \in DOMAIN out' : n \in CpuNames /\ ~IsText(out'[n]) /\ d = out'[n].digest
    BY DEF SnpDigests, CpuNames
  <2> QED BY <1>1, <2>1 DEF SnpDigests
<1> QED
  BY <1>1, <1>2

LEMMA NoDigests ==
  ASSUME out = <<>>
  PROVE  SnpDigests = {}
BY EmptyFacts DEF SnpDigests

LEMMA NoNewDigests ==
  ASSUME out' = <<>>
  PROVE  SnpDigests' = {}
BY EmptyFacts DEF SnpDigests
-----------------------------------------------------------------------------
(* Every digest of the map binds what its kernel, initrd and command line  *)
(* are, which are read, if at all, before the first launch: while launches *)
(* are to come the digests bind the files that were read, and afterwards   *)
(* the same one thing.                                                     *)
MemBinds ==
  IF OrNone(mem["kernel"]) = None THEN {}
  ELSE {[kernel  |-> OrNone(mem["kernel"]),
         initrd  |-> IF OrNone(mem["initrd"]) = None THEN Empty ELSE OrNone(mem["initrd"]),
         cmdline |-> IF mem["kernel"] = Absent \/ config.cmdline = None THEN Empty
                     ELSE config.cmdline]}

TodoOK ==
  /\ todo \in Seq(CommandNames \X Configs)
  /\ \A c \in ToSet(todo) : c[1] = "manifest" => c[2].cmdline # None

OvmfOK ==
  /\ disk \in [FileNames -> FileContents \cup {Absent}]
  /\ disk["snp ovmf"] \in DOMAIN Firmware \cup {Absent}

IdleOK ==
  cmd = None =>
    stage = "idle" /\ plan = <<>> /\ out = <<>> /\ mem = [f \in FileNames |-> Absent]

PlanOK == IsSeq(plan) /\ CpusTogether(plan) /\ TextLast(plan)

LaunchOK ==
  stage # "idle" =>
    /\ plan # <<>>
    /\ IsCpu(plan[1]) \/ plan[1] = <<"launch", 0>>
    /\ IsCpu(plan[1]) => CpuLaunch /\ Binds(req) = MemBinds

DigestsOK ==
  \/ SnpDigests = {}
  \/ NoCpus(plan) /\ OneKernelPerMap
  \/ plan # <<>> /\ IsCpu(plan[1]) /\ \A d \in SnpDigests : HashesIn(d) = MemBinds

KernelInv == TodoOK /\ OvmfOK /\ IdleOK /\ PlanOK /\ LaunchOK /\ DigestsOK

LEMMA CpuBinds ==
  ASSUME NEW k \in DOMAIN Cpus
  PROVE  Binds(CpuRequest(k)) = MemBinds
<1>1. Hashes(CpuRequest(k)) =
        [kernel  |-> OrNone(mem["kernel"]),
         initrd  |-> IF OrNone(mem["initrd"]) = None THEN Empty ELSE OrNone(mem["initrd"]),
         cmdline |-> IF mem["kernel"] = Absent \/ config.cmdline = None THEN Empty
                     ELSE config.cmdline]
  BY DEF Hashes, CpuRequest
<1>2. CpuRequest(k).kernel = OrNone(mem["kernel"])
  BY DEF CpuRequest
<1> QED
  BY <1>1, <1>2 DEF Binds, MemBinds

(* What a step does to plan and digests: only the end of a launch adds one.*)
LEMMA SkipKeeps ==
  ASSUME PlanOK, DigestsOK, plan # <<>>,
         plan' = <<>> \/ (plan' = Tail(plan) /\ (IsCpu(plan[1]) => MemBinds' = MemBinds)),
         \A d \in SnpDigests' : d \in SnpDigests \/ (IsCpu(plan[1]) /\ HashesIn(d) = MemBinds)
  PROVE  PlanOK' /\ DigestsOK'
<1>1. IsSeq(<<>>) /\ CpusTogether(<<>>) /\ TextLast(<<>>) /\ NoCpus(<<>>)
  BY EmptyFacts DEF CpusTogether, TextLast, NoCpus
<1>2. TextLast(Tail(plan))
  <2> SUFFICES ASSUME NEW i \in DOMAIN Tail(plan), Tail(plan)[i] = NoMrtd
               PROVE  i = Len(Tail(plan))
    BY DEF TextLast
  <2>1. i + 1 \in DOMAIN plan /\ plan[i + 1] = NoMrtd /\ i \in Nat
    BY TailFacts DEF PlanOK
  <2>2. i + 1 = Len(plan)
    BY <2>1 DEF PlanOK, TextLast
  <2>3. Len(Tail(plan)) = Len(plan) - 1
    BY HeadTailProperties DEF PlanOK, IsSeq
  <2> QED BY <2>1, <2>2, <2>3
<1>3. PlanOK'
  BY <1>1, <1>2, TailFacts, TailCpus, ZenonT(60) DEF PlanOK
<1> SUFFICES DigestsOK'
  BY <1>3
<1>4. NoCpus(plan) => NoCpus(plan')
  BY <1>1, TailCpus DEF PlanOK
<1>5. CASE ~IsCpu(plan[1])
  <2>1. SnpDigests' \subseteq SnpDigests
    BY <1>5
  <2>2. OneKernelPerMap => OneKernelPerMap'
    BY <2>1 DEF OneKernelPerMap
  <2>3. SnpDigests = {} \/ (NoCpus(plan) /\ OneKernelPerMap)
    BY <1>5 DEF DigestsOK
  <2>4. SnpDigests' = {} \/ (NoCpus(plan') /\ OneKernelPerMap')
    BY <1>4, <2>1, <2>2, <2>3
  <2>5. NoCpus(plan') = NoCpus(plan)'
    BY DEF NoCpus, IsCpu
  <2> QED BY <2>4, <2>5 DEF DigestsOK
<1>6. CASE IsCpu(plan[1])
  <2>1. ~NoCpus(plan)
    BY <1>6, TailFacts DEF PlanOK, NoCpus
  <2>2. \A d \in SnpDigests' : HashesIn(d) = MemBinds
    BY <2>1 DEF DigestsOK
  <2>3. OneKernelPerMap'
    BY <2>2 DEF OneKernelPerMap
  <2>4. NoCpus(plan') => DigestsOK'
    BY <2>3 DEF DigestsOK, NoCpus, IsCpu
  <2>5. CASE plan' = <<>>
    BY <1>1, <2>4, <2>5
  <2>6. CASE plan' = Tail(plan) /\ MemBinds' = MemBinds
    <3>1. NoCpus(plan') \/ (plan' # <<>> /\ IsCpu(plan'[1]))
      BY <1>6, <2>6, TailFacts, TailCpus DEF PlanOK
    <3>2. plan' # <<>> /\ IsCpu(plan'[1]) => DigestsOK'
      BY <2>2, <2>6 DEF DigestsOK, IsCpu
    <3> QED BY <2>4, <3>1, <3>2
  <2> QED BY <1>6, <2>5, <2>6
<1> QED
  BY <1>5, <1>6

LEMMA SameDigests ==
  ASSUME out' = out
  PROVE  SnpDigests' = SnpDigests
BY DEF SnpDigests, CpuNames

(* A step of a command that leaves no launch running.                      *)
LEMMA StepKeeps ==
  ASSUME KernelInv, plan # <<>>, stage' = "idle", UNCHANGED <<todo, disk, cmd>>,
         plan' = <<>> \/ (plan' = Tail(plan) /\ (IsCpu(plan[1]) => MemBinds' = MemBinds)),
         \A d \in SnpDigests' : d \in SnpDigests \/ (IsCpu(plan[1]) /\ HashesIn(d) = MemBinds)
  PROVE  KernelInv'
<1>1. PlanOK' /\ DigestsOK'
  BY SkipKeeps DEF KernelInv
<1>2. cmd # None
  BY DEF KernelInv, IdleOK
<1>3. TodoOK' /\ OvmfOK' /\ IdleOK' /\ LaunchOK'
  BY <1>2 DEF KernelInv, TodoOK, OvmfOK, IdleOK, LaunchOK
<1> QED
  BY <1>1, <1>3 DEF KernelInv

LEMMA StopKeeps ==
  ASSUME KernelInv, plan # <<>>, stage' = "idle", Stop
  PROVE  KernelInv'
<1>1. /\ plan' = <<>> /\ SnpDigests' = {} /\ UNCHANGED <<todo, disk, cmd>>
  BY NoNewDigests DEF Stop
<1> QED
  BY <1>1, StepKeeps

(* A value other than the digest of a launch is put into the map.          *)
LEMMA PutKeeps ==
  ASSUME KernelInv, plan # <<>>, stage' = "idle", NEW name, NEW v,
         NEW rest, rest \in {Tail(plan), <<>>}, Put(name, v, rest),
         name \notin CpuNames \/ IsText(v)
  PROVE  KernelInv'
<1>1. /\ plan' = rest /\ SnpDigests' \subseteq SnpDigests
      /\ UNCHANGED <<todo, disk, cmd, mem, config>>
  BY PutFacts
<1>2. MemBinds' = MemBinds
  BY <1>1 DEF MemBinds
<1> QED
  BY <1>1, <1>2, StepKeeps

LEMMA NoOvmfKeeps ==
  ASSUME KernelInv, NEW name, NoOvmf(name)
  PROVE  KernelInv'
<1>1. /\ plan # <<>> /\ stage' = "idle" /\ Put(name, Text("REQUIRES_OVMF_PATH"), Tail(plan))
  BY DEF NoOvmf, Now, launchVars
<1> QED
  BY <1>1, PutKeeps, TextsAndDigests

LEMMA ReadFileKeeps ==
  ASSUME KernelInv, NEW f, ReadFile(f)
  PROVE  KernelInv'
<1>1. plan # <<>> /\ stage' = "idle" /\ plan[1] = Read(f)
  BY TailFacts DEF ReadFile, Now, launchVars, KernelInv, PlanOK
<1>2. ~IsCpu(plan[1])
  BY <1>1, StepsApart
<1>3. CASE Stop
  BY <1>1, <1>3, StopKeeps
<1>4. CASE plan' = Tail(plan) /\ UNCHANGED <<disk, cmd, config, out, registers, todo, changes>>
  <2>1. SnpDigests' = SnpDigests
    BY <1>4, SameDigests
  <2> QED BY <1>1, <1>2, <1>4, <2>1, StepKeeps
<1> QED
  BY <1>3, <1>4 DEF ReadFile

LEMMA NoFirmwareKeeps ==
  ASSUME KernelInv, NEW k, NoFirmware(k)
  PROVE  KernelInv'
<1>1. plan # <<>> /\ stage' = "idle"
  BY DEF NoFirmware, Now, launchVars
<1>2. CASE Stop
  BY <1>1, <1>2, StopKeeps
<1>3. CASE Put(Cpus[k].name, Text("ERROR"), Tail(plan))
  BY <1>1, <1>3, PutKeeps, TextsAndDigests
<1> QED
  BY <1>2, <1>3 DEF NoFirmware

LEMMA MeasureTdxKeeps ==
  ASSUME KernelInv, NEW m \in Registers, MeasureTdx(m)
  PROVE  KernelInv'
<1>1. plan # <<>> /\ stage' = "idle"
  BY DEF MeasureTdx, Now, launchVars
<1>2. m \notin CpuNames
  BY CpusAssumption
<1>3. \/ Stop
      \/ \E v : Put(m, v, Tail(plan))
      \/ \E v : Put(m, v, <<>>)
  <2>1. ASSUME NEW t, NEW u, Put(m, Text(t), IF m = "MRTD" THEN u ELSE Tail(plan)), u = <<>>
        PROVE  (\E v : Put(m, v, Tail(plan))) \/ (\E v : Put(m, v, <<>>))
    BY <2>1
  <2> QED BY <2>1 DEF MeasureTdx
<1>4. CASE Stop
  BY <1>1, <1>4, StopKeeps
<1>5. CASE \E v : Put(m, v, Tail(plan))
  BY <1>1, <1>2, <1>5, PutKeeps
<1>6. CASE \E v : Put(m, v, <<>>)
  BY <1>1, <1>2, <1>6, PutKeeps
<1> QED
  BY <1>3, <1>4, <1>5, <1>6

LEMMA SamePlan ==
  ASSUME PlanOK, plan' = plan
  PROVE  PlanOK'
<1>1. CpusTogether(plan)' /\ TextLast(plan)'
  BY DEF PlanOK, CpusTogether, TextLast, IsCpu
<1>2. IsSeq(plan)'
  BY DEF PlanOK, IsSeq, ToSet
<1> QED
  BY <1>1, <1>2 DEF PlanOK

LEMMA SameFiles ==
  ASSUME TodoOK, OvmfOK, UNCHANGED <<todo, disk>>
  PROVE  TodoOK' /\ OvmfOK'
<1>1. TodoOK'
  BY DEF TodoOK, CommandNames, ToSet
<1>2. OvmfOK'
  BY DEF OvmfOK, FileNames, FileContents
<1> QED
  BY <1>1, <1>2

LEMMA HeadTodo ==
  ASSUME TodoOK, todo # <<>>
  PROVE  /\ Head(todo)[1] \in CommandNames
         /\ Head(todo)[1] = "manifest" => Head(todo)[2].cmdline # None
         /\ Tail(todo) \in Seq(CommandNames \X Configs)
         /\ \A c \in ToSet(Tail(todo)) : c[1] = "manifest" => c[2].cmdline # None
<1>1. todo \in Seq(CommandNames \X Configs) /\ IsSeq(todo)
  BY WidenSeq DEF TodoOK
<1>2. Head(todo) \in ToSet(todo)
  BY <1>1, TailFacts DEF ToSet
<1>3. ToSet(Tail(todo)) \subseteq ToSet(todo)
  BY <1>1, TailFacts DEF ToSet
<1>4. Head(todo) \in CommandNames \X Configs /\ Tail(todo) \in Seq(CommandNames \X Configs)
  BY <1>1, HeadTailProperties
<1> QED
  BY <1>2, <1>3, <1>4 DEF TodoOK

LEMMA StartKeeps ==
  ASSUME KernelInv, Start
  PROVE  KernelInv'
<1>1. /\ todo # <<>> /\ cmd = None /\ todo' = Tail(todo) /\ cmd' = Head(todo)[1]
      /\ plan' = PlanOf(Head(todo)[1], Head(todo)[2]) /\ stage = "idle" /\ stage' = "idle"
      /\ disk' = disk \/ disk' \in Disks
      /\ out = <<>> /\ out' = out /\ cmd' \in CommandNames
  BY HeadTodo DEF Start, KernelInv, IdleOK, launchVars
<1>2. PlanOK'
  BY <1>1, HeadTodo, PlanOfFacts DEF PlanOK, PlanFacts, KernelInv
<1>3. TodoOK'
  BY <1>1, HeadTodo DEF KernelInv, TodoOK
<1>4. OvmfOK'
  BY <1>1, FilesAssumption DEF OvmfOK, KernelInv, FileNames
<1>5. IdleOK' /\ LaunchOK'
  BY <1>1, SessionsAssumption DEF IdleOK, LaunchOK
<1>6. DigestsOK'
  BY <1>1, NoNewDigests DEF DigestsOK
<1> QED
  BY <1>2, <1>3, <1>4, <1>5, <1>6 DEF KernelInv

LEMMA StartCpuKeeps ==
  ASSUME KernelInv, NEW k \in DOMAIN Cpus, StartCpu(k)
  PROVE  KernelInv'
<1>1. /\ plan # <<>> /\ plan[1] = <<"cpu", k>> /\ IsCpu(plan[1])
      /\ disk["snp ovmf"] \in DOMAIN Firmware
  BY TailFacts DEF StartCpu, Now, KernelInv, PlanOK, OvmfOK, IsCpu
<1>2. req' = CpuRequest(k) /\ stage' = "load" /\ UNCHANGED callerVars
  BY DEF StartCpu, Begin
<1>3. UNCHANGED <<plan, cmd, todo, disk, out, mem, config>> /\ SnpDigests' = SnpDigests
  BY <1>2, SameDigests DEF callerVars
<1>4. MemBinds' = MemBinds
  BY <1>3 DEF MemBinds
<1>5. SnpOnQemu(CpuRequest(k)) /\ Binds(CpuRequest(k)) = MemBinds
  BY <1>1, CpuBinds DEF SnpOnQemu, CpuRequest
<1>6. CpuLaunch' /\ Binds(req)' = MemBinds'
  <2>1. SnpOnQemu(req)' /\ Binds(req)' = Binds(CpuRequest(k))
    BY <1>2, <1>5 DEF SnpOnQemu, Binds, Hashes
  <2> QED BY <1>2, <1>4, <1>5, <2>1 DEF CpuLaunch
<1>7. LaunchOK'
  BY <1>1, <1>3, <1>6 DEF LaunchOK
<1>8. TodoOK' /\ OvmfOK' /\ PlanOK' /\ cmd' # None
  BY <1>1, <1>3, SamePlan, SameFiles DEF KernelInv, IdleOK
<1>9. DigestsOK'
  BY <1>3, <1>4 DEF KernelInv, DigestsOK, OneKernelPerMap, NoCpus, IsCpu
<1> QED
  BY <1>7, <1>8, <1>9 DEF KernelInv, IdleOK

LEMMA StartLibraryKeeps ==
  ASSUME KernelInv, StartLibrary
  PROVE  KernelInv'
<1>1. plan # <<>> /\ plan[1] = <<"launch", 0>> /\ ~IsCpu(plan[1])
  BY TailFacts, StepsApart DEF StartLibrary, Now, KernelInv, PlanOK
<1>2. UNCHANGED <<plan, cmd, todo, disk, out, mem, config>> /\ SnpDigests' = SnpDigests
  BY SameDigests DEF StartLibrary, callerVars
<1>3. MemBinds' = MemBinds
  BY <1>2 DEF MemBinds
<1>4. LaunchOK'
  BY <1>1, <1>2 DEF LaunchOK, IsCpu
<1>5. TodoOK' /\ OvmfOK' /\ PlanOK' /\ cmd' # None
  BY <1>1, <1>2, SamePlan, SameFiles DEF KernelInv, IdleOK
<1>6. DigestsOK'
  BY <1>2, <1>3 DEF KernelInv, DigestsOK, OneKernelPerMap, NoCpus, IsCpu
<1> QED
  BY <1>4, <1>5, <1>6 DEF KernelInv, IdleOK

LEMMA LaunchStepKeeps ==
  ASSUME KernelInv, LaunchStep
  PROVE  KernelInv'
<1>1. Launching /\ stage # "idle"
  BY DEF LaunchStep, Launching, Load, FoldSection, SectionsEnd, FoldLateCpuid, StartCpus, SaveCpu,
         Measured, Refuse, PagesEnd
<1>2. UNCHANGED <<plan, cmd, todo, disk, out, mem, config>> /\ SnpDigests' = SnpDigests
  BY SameDigests DEF LaunchStep, callerVars
<1>3. MemBinds' = MemBinds
  BY <1>2 DEF MemBinds
<1>4. plan # <<>> /\ (IsCpu(plan[1]) \/ plan[1] = <<"launch", 0>>)
      /\ (IsCpu(plan[1]) => CpuLaunch /\ Binds(req) = MemBinds)
  BY <1>1 DEF KernelInv, LaunchOK
<1>5. IsCpu(plan[1]) => CpuLaunch' /\ Binds(req)' = MemBinds'
  <2>1. req' = req => Binds(req)' = Binds(req)
    BY DEF Binds, Hashes
  <2> QED BY <1>1, <1>3, <1>4, <2>1, LaunchKeeps
<1>6. LaunchOK'
  BY <1>2, <1>4, <1>5 DEF LaunchOK, IsCpu
<1>7. TodoOK' /\ OvmfOK' /\ PlanOK' /\ cmd' # None
  BY <1>1, <1>2, SamePlan, SameFiles DEF KernelInv, IdleOK
<1>8. DigestsOK'
  BY <1>2, <1>3 DEF KernelInv, DigestsOK, OneKernelPerMap, NoCpus, IsCpu
<1> QED
  BY <1>6, <1>7, <1>8 DEF KernelInv, IdleOK

LEMMA CpuDoneKeeps ==
  ASSUME KernelInv, NEW k \in DOMAIN Cpus, CpuDone(k)
  PROVE  KernelInv'
<1>1. plan # <<>> /\ IsCpu(plan[1]) /\ stage # "idle" /\ stage' = "idle"
  BY TailFacts DEF CpuDone, Return, KernelInv, PlanOK, IsCpu
<1>2. CASE Stop
  BY <1>1, <1>2, StopKeeps
<1>3. CASE Put(Cpus[k].name, Text("ERROR"), Tail(plan))
  BY <1>1, <1>3, PutKeeps, TextsAndDigests
<1>4. CASE stage = "measured" /\ Put(Cpus[k].name, Digest(ld), Tail(plan))
  <2>1. HashesIn(ld) = MemBinds
    BY <1>1, <1>4 DEF KernelInv, LaunchOK, CpuLaunch
  <2>2. /\ plan' = Tail(plan) /\ SnpDigests' \subseteq SnpDigests \cup {ld}
        /\ UNCHANGED <<todo, disk, cmd, mem, config>>
    <3>1. /\ plan' = Tail(plan) /\ SnpDigests' \subseteq SnpDigests \cup {Digest(ld).digest}
          /\ UNCHANGED <<todo, disk, cmd, mem, config>>
      <4> DEFINE v == Digest(ld)
                 name == Cpus[k].name
                 rest == Tail(plan)
      <4>1. Put(name, v, rest)
        BY <1>4
      <4> HIDE DEF v, name, rest
      <4>2. /\ plan' = rest /\ SnpDigests' \subseteq SnpDigests \cup {v.digest}
            /\ UNCHANGED <<disk, cmd, config, mem, todo, changes>>
        BY <4>1, PutFacts
      <4> QED BY <4>2 DEF v, rest
    <3>2. Digest(ld).digest = ld
      BY TextsAndDigests
    <3> QED BY <3>1, <3>2
  <2>3. MemBinds' = MemBinds
    BY <2>2 DEF MemBinds
  <2> QED BY <1>1, <2>1, <2>2, <2>3, StepKeeps
<1> QED
  BY <1>2, <1>3, <1>4 DEF CpuDone

LEMMA LibraryDoneKeeps ==
  ASSUME KernelInv, LibraryDone
  PROVE  KernelInv'
<1>1. plan # <<>> /\ stage' = "idle" /\ plan' = <<>> /\ UNCHANGED <<todo, disk, cmd>>
      /\ SnpDigests' = SnpDigests
  BY SameDigests DEF LibraryDone, Return
<1> QED
  BY <1>1, StepKeeps

LEMMA FinishKeeps ==
  ASSUME KernelInv, Finish
  PROVE  KernelInv'
<1>1. stage' = "idle" /\ plan' = plan /\ plan = <<>> /\ out' = <<>> /\ UNCHANGED <<todo, disk>>
      /\ mem' = [f \in FileNames |-> Absent]
  BY DEF Finish, KernelInv, LaunchOK, launchVars
<1>2. DigestsOK' /\ LaunchOK' /\ IdleOK'
  BY <1>1, NoNewDigests DEF DigestsOK, LaunchOK, IdleOK, FileNames
<1>3. TodoOK' /\ OvmfOK' /\ PlanOK'
  BY <1>1, SamePlan, SameFiles DEF KernelInv
<1> QED
  BY <1>2, <1>3 DEF KernelInv

LEMMA ReplaceKeeps ==
  ASSUME KernelInv, NEW f \in FileNames, Replace(f)
  PROVE  KernelInv'
<1>1. /\ UNCHANGED <<req, ld, stage, at, plan, cmd, todo, out, mem, config>>
      /\ SnpDigests' = SnpDigests
  BY SameDigests DEF Replace, launchVars
<1>2. OvmfOK'
  <2>1. PICK new \in NewContents[f] : disk' = [disk EXCEPT ![f] = new]
    BY DEF Replace
  <2>2. new \in FileContents
    BY DEF FileContents
  <2>3. f = "snp ovmf" => new \in DOMAIN Firmware \cup {Absent}
    BY FilesAssumption
  <2> QED BY <2>1, <2>2, <2>3 DEF OvmfOK, KernelInv, FileNames
<1>3. MemBinds' = MemBinds
  BY <1>1 DEF MemBinds
<1>4. TodoOK' /\ PlanOK' /\ IdleOK'
  <2>1. TodoOK'
    BY <1>1 DEF KernelInv, TodoOK, CommandNames, ToSet
  <2>2. IdleOK'
    BY <1>1 DEF KernelInv, IdleOK, FileNames
  <2> QED BY <1>1, <2>1, <2>2, SamePlan DEF KernelInv
<1>5. DigestsOK'
  BY <1>1, <1>3 DEF KernelInv, DigestsOK, OneKernelPerMap, NoCpus, IsCpu
<1>6. LaunchOK'
  <2>1. CpuLaunch => CpuLaunch'
    BY <1>1 DEF CpuLaunch, SnpOnQemu, HashesBefore, Binds, Hashes
  <2>2. Binds(req)' = Binds(req)
    BY <1>1 DEF Binds, Hashes
  <2> QED BY <1>1, <1>3, <2>1, <2>2 DEF KernelInv, LaunchOK, IsCpu
<1> QED
  BY <1>2, <1>4, <1>5, <1>6 DEF KernelInv

LEMMA StutterKeeps ==
  ASSUME KernelInv, UNCHANGED vars
  PROVE  KernelInv'
<1>1. UNCHANGED <<req, ld, stage, at, disk, plan, cmd, todo, out, mem, config>>
  BY DEF vars, launchVars, callerVars
<1>2. SnpDigests' = SnpDigests /\ MemBinds' = MemBinds
  BY <1>1, SameDigests DEF MemBinds
<1>3. TodoOK' /\ OvmfOK' /\ PlanOK' /\ IdleOK'
  <2>1. IdleOK'
    BY <1>1 DEF KernelInv, IdleOK, FileNames
  <2> QED BY <1>1, <2>1, SamePlan, SameFiles DEF KernelInv
<1>4. DigestsOK'
  BY <1>1, <1>2 DEF KernelInv, DigestsOK, OneKernelPerMap, NoCpus, IsCpu
<1>5. LaunchOK'
  <2>1. CpuLaunch => CpuLaunch'
    BY <1>1 DEF CpuLaunch, SnpOnQemu, HashesBefore, Binds, Hashes
  <2>2. Binds(req)' = Binds(req)
    BY <1>1 DEF Binds, Hashes
  <2> QED BY <1>1, <1>2, <2>1, <2>2 DEF KernelInv, LaunchOK, IsCpu
<1> QED
  BY <1>3, <1>4, <1>5 DEF KernelInv

LEMMA KernelInit ==
  ASSUME Init
  PROVE  KernelInv
<1>1. /\ todo \in Sessions /\ disk = [f \in FileNames |-> Absent] /\ plan = <<>> /\ out = <<>>
      /\ mem = [f \in FileNames |-> Absent] /\ stage = "idle"
  BY DEF Init, LaunchInit
<1>2. TodoOK
  BY <1>1, SessionsAssumption DEF TodoOK
<1>3. OvmfOK /\ IdleOK /\ LaunchOK
  BY <1>1 DEF OvmfOK, IdleOK, LaunchOK, FileNames
<1>4. PlanOK
  BY <1>1, EmptyFacts DEF PlanOK, CpusTogether, TextLast
<1>5. DigestsOK
  BY <1>1, NoDigests DEF DigestsOK
<1> QED
  BY <1>2, <1>3, <1>4, <1>5 DEF KernelInv

LEMMA KernelNext ==
  ASSUME KernelInv, [Next]_vars
  PROVE  KernelInv'
<1>1. CASE Start BY <1>1, StartKeeps
<1>2. CASE NoOvmf("LAUNCH_DIGEST") \/ NoOvmf("MRTD") BY <1>2, NoOvmfKeeps
<1>3. CASE \E f \in FileNames : ReadFile(f) BY <1>3, ReadFileKeeps
<1>4. CASE \E k \in DOMAIN Cpus : StartCpu(k) BY <1>4, StartCpuKeeps
<1>5. CASE \E k \in DOMAIN Cpus : NoFirmware(k) BY <1>5, NoFirmwareKeeps
<1>6. CASE \E k \in DOMAIN Cpus : CpuDone(k) BY <1>6, CpuDoneKeeps
<1>7. CASE StartLibrary BY <1>7, StartLibraryKeeps
<1>8. CASE LibraryDone BY <1>8, LibraryDoneKeeps
<1>9. CASE LaunchStep BY <1>9, LaunchStepKeeps
<1>10. CASE \E m \in Registers : MeasureTdx(m) BY <1>10, MeasureTdxKeeps
<1>11. CASE Finish BY <1>11, FinishKeeps
<1>12. CASE \E f \in FileNames : Replace(f) BY <1>12, ReplaceKeeps
<1>13. CASE UNCHANGED vars BY <1>13, StutterKeeps
<1>14. CASE AllDone BY <1>14, StutterKeeps DEF AllDone
<1> QED
  BY <1>1, <1>2, <1>3, <1>4, <1>5, <1>6, <1>7, <1>8, <1>9, <1>10, <1>11, <1>12, <1>13, <1>14
     DEF Next, Proceed

(* The digests that one manifest, or one run of the tool, lists for its CPU*)
(* models (compute_snp_measurements) bind one kernel, initrd and command   *)
(* line, whatever the firmware, the CPU models and the commands are and    *)
(* however often the files are replaced meanwhile.                         *)
THEOREM OneKernel == Spec => []OneKernelPerMap
<1>1. KernelInv => OneKernelPerMap
  BY DEF KernelInv, DigestsOK, OneKernelPerMap
<1> QED
  BY <1>1, KernelInit, KernelNext, PTL DEF Spec
-----------------------------------------------------------------------------
(* A manifest whose files nobody touched: what was read is what is there,  *)
(* each digest binds it, and RTMR1 and RTMR2 are there or to come, unless  *)
(* MRTD is a text; they name the file that cannot be read.                 *)
NoLaunch(p) == <<"launch", 0>> \notin ToSet(p)

LEMMA SnpPlanNoLaunch ==
  ASSUME NEW list, IsList(list)
  PROVE  NoLaunch(SnpPlan(list)) /\ \A m : Measure(m) \notin ToSet(SnpPlan(list))
<1> SUFFICES ASSUME NEW i \in DOMAIN SnpPlan(list)
             PROVE  SnpPlan(list)[i] # <<"launch", 0>> /\ \A m : SnpPlan(list)[i] # Measure(m)
  BY DEF NoLaunch, ToSet
<1>1. CASE i > 2
  <2>1. IsCpu(SnpPlan(list)[i])
    BY <1>1, SnpPlanFacts
  <2> QED BY <2>1, StepsApart
<1>2. CASE i = 1
  BY <1>2, SnpPlanFacts, StepsApart
<1>3. CASE i = 2
  BY <1>3, SnpPlanFacts, StepsApart
<1>4. i \in Nat \ {0}
  BY SnpPlanFacts, ListFacts
<1> QED
  BY <1>1, <1>2, <1>3, <1>4

LEMMA TdxStepsNoLaunch == NoLaunch(TdxSteps) /\ NoLaunch(NoTdxSteps)
<1> DEFINE S == {Read(f) : f \in FileNames} \cup {Measure(m) : m \in Registers}
<1>1. TdxSteps \in Seq(S)
  BY DEF TdxSteps, FileNames, Registers
<1>2. ToSet(TdxSteps) \subseteq S
  BY <1>1, WidenSeq
<1>3. NoLaunch(TdxSteps)
  BY <1>2, StepsApart DEF NoLaunch
<1>4. NoLaunch(NoTdxSteps)
  <2>1. ToSet(NoTdxSteps) = {NoMrtd}
    BY OneStep, StepsApart DEF NoTdxSteps
  <2>2. NoMrtd # <<"launch", 0>>
    BY StepsApart DEF NoMrtd
  <2> QED BY <2>1, <2>2 DEF NoLaunch
<1> QED
  BY <1>3, <1>4

(* Behind each file the register that is measured of it.                   *)
RegisterOf(f) == IF f = "kernel" THEN "RTMR1" ELSE "RTMR2"
FileOf(m)     == IF m = "RTMR1" THEN "kernel" ELSE "initrd"

ReadBefore(p, f) ==
  \A j \in DOMAIN p :
    p[j] = Measure(RegisterOf(f)) => \E i \in DOMAIN p : i < j /\ p[i] = Read(f)

ReadsBefore(p) == ReadBefore(p, "kernel") /\ ReadBefore(p, "initrd")

LEMMA TdxStepsReadBefore == ReadsBefore(TdxSteps) /\ ReadsBefore(NoTdxSteps)
<1>1. \A m, n : Measure(m) = Measure(n) => m = n
  BY DEF Measure
<1>2. IsSeq(TdxSteps) /\ DOMAIN TdxSteps = 1 .. 9
  <2>1. TdxSteps \in Seq({Read(f) : f \in FileNames} \cup {Measure(m) : m \in Registers})
    BY DEF TdxSteps, FileNames, Registers
  <2>2. Len(TdxSteps) = 9
    BY DEF TdxSteps
  <2> QED BY <2>1, <2>2, WidenSeq, SeqFacts
<1>3. /\ TdxSteps[1] = Read("tdx ovmf") /\ TdxSteps[2] = Measure("MRTD") /\ TdxSteps[3] = Read("dsdt")
      /\ TdxSteps[4] = Measure("RTMR0") /\ TdxSteps[5] = Read("kernel") /\ TdxSteps[6] = Measure("RTMR1")
      /\ TdxSteps[7] = Read("initrd") /\ TdxSteps[8] = Measure("RTMR2") /\ TdxSteps[9] = Measure("RTMR3")
  BY DEF TdxSteps
<1>4. ASSUME NEW j \in DOMAIN TdxSteps, NEW m \in {"RTMR1", "RTMR2"}, TdxSteps[j] = Measure(m)
      PROVE  j = IF m = "RTMR1" THEN 6 ELSE 8
  <2>1. \A f : Read(f) # Measure(m)
    BY StepsApart
  <2>2. TdxSteps[j] # TdxSteps[1] /\ TdxSteps[j] # TdxSteps[3] /\ TdxSteps[j] # TdxSteps[5]
        /\ TdxSteps[j] # TdxSteps[7]
    BY <1>3, <1>4, <2>1
  <2>3. TdxSteps[j] # TdxSteps[2] /\ TdxSteps[j] # TdxSteps[4] /\ TdxSteps[j] # TdxSteps[9]
    BY <1>1, <1>3, <1>4
  <2>4. j \in {6, 8}
    BY <1>2, <2>2, <2>3
  <2>5. (j = 6 => m = "RTMR1") /\ (j = 8 => m = "RTMR2")
    BY <1>1, <1>3, <1>4
  <2> QED BY <2>4, <2>5
<1>5. ReadsBefore(TdxSteps)
  <2>1. RegisterOf("kernel") = "RTMR1" /\ RegisterOf("initrd") = "RTMR2"
    BY DEF RegisterOf
  <2>2. \A j \in DOMAIN TdxSteps : TdxSteps[j] = Measure("RTMR1") => j = 6
    BY <1>4
  <2>3. \A j \in DOMAIN TdxSteps : TdxSteps[j] = Measure("RTMR2") => j = 8
    BY <1>4
  <2>4. 5 \in DOMAIN TdxSteps /\ 7 \in DOMAIN TdxSteps /\ 5 < 6 /\ 7 < 8
    BY <1>2
  <2> QED BY <1>3, <2>1, <2>2, <2>3, <2>4 DEF ReadsBefore, ReadBefore
<1>6. ReadsBefore(NoTdxSteps)
  <2>1. DOMAIN NoTdxSteps = {1} /\ NoTdxSteps[1] = NoMrtd
    BY OnePage DEF NoTdxSteps
  <2>2. \A m : NoMrtd # Measure(m)
    BY StepsApart
  <2> QED BY <2>1, <2>2 DEF ReadsBefore, ReadBefore
<1> QED
  BY <1>5, <1>6

LEMMA JoinReadBefore ==
  ASSUME NEW s, IsSeq(s), \A m : Measure(m) \notin ToSet(s), NEW t, IsSeq(t), NEW f, ReadBefore(t, f)
  PROVE  ReadBefore(Join(s, t), f)
<1> DEFINE p == Join(s, t)
<1>1. /\ \A i \in DOMAIN s : i \in DOMAIN p /\ p[i] = s[i]
      /\ \A i \in DOMAIN t : Len(s) + i \in DOMAIN p /\ p[Len(s) + i] = t[i]
      /\ \A i \in DOMAIN p : i \in DOMAIN s \/ \E j \in DOMAIN t : i = Len(s) + j
  BY JoinFacts
<1>2. Len(s) \in Nat /\ DOMAIN t \subseteq Nat
  BY SeqFacts
<1> HIDE DEF p
<1>3. ASSUME NEW j \in DOMAIN p, p[j] = Measure(RegisterOf(f))
      PROVE  \E i \in DOMAIN p : i < j /\ p[i] = Read(f)
  <2>1. j \notin DOMAIN s
    BY <1>1, <1>3 DEF ToSet
  <2>2. PICK k \in DOMAIN t : j = Len(s) + k
    BY <1>1, <2>1
  <2>3. t[k] = Measure(RegisterOf(f))
    BY <1>1, <1>3, <2>2
  <2>4. PICK i \in DOMAIN t : i < k /\ t[i] = Read(f)
    BY <2>3 DEF ReadBefore
  <2>5. Len(s) + i < j
    BY <1>2, <2>2, <2>4
  <2> QED BY <1>1, <2>4, <2>5
<1> QED
  BY <1>3 DEF ReadBefore, p

LEMMA ManifestPlan ==
  ASSUME NEW c
  PROVE  NoLaunch(PlanOf("manifest", c)) /\ ReadsBefore(PlanOf("manifest", c))
<1> DEFINE t == ManifestTail(c)
           x == <<"no ovmf", "LAUNCH_DIGEST">>
           y == <<x>>
           first == SnpPlan(CpuLists["manifest"])
<1>1. IsSeq(t) /\ NoLaunch(t) /\ ReadsBefore(t)
  BY ManifestTailFacts, TdxStepsNoLaunch, TdxStepsReadBefore DEF ManifestTail
<1>2. IsSeq(y) /\ ToSet(y) = {x} /\ x # <<"launch", 0>> /\ \A m : x # Measure(m)
  BY OneStep, StepsApart
<1>3. PlanOf("manifest", c) = IF c.snpOvmf THEN Join(first, t) ELSE Join(y, t)
  BY DEF PlanOf, Join, ManifestTail, TdxSteps, NoTdxSteps, NoMrtd
<1>f. IsSeq(first) /\ NoLaunch(first) /\ \A m : Measure(m) \notin ToSet(first)
  BY ListsAreLists, SnpPlanFacts, SnpPlanNoLaunch
<1> HIDE DEF t, x, y, first
<1>4. ToSet(Join(first, t)) = ToSet(first) \cup ToSet(t)
  BY <1>1, <1>f, JoinFacts
<1>5. ToSet(Join(y, t)) = {x} \cup ToSet(t)
  BY <1>1, <1>2, JoinFacts
<1>6. NoLaunch(Join(first, t)) /\ NoLaunch(Join(y, t))
  BY <1>1, <1>2, <1>4, <1>5, <1>f DEF NoLaunch
<1>7. ReadsBefore(Join(first, t)) /\ ReadsBefore(Join(y, t))
  <2>1. \A m : Measure(m) \notin ToSet(y)
    BY <1>2
  <2> QED BY <1>1, <1>2, <1>f, <2>1, JoinReadBefore DEF ReadsBefore
<1> QED
  BY <1>3, <1>6, <1>7

LEMMA TailReadBefore ==
  ASSUME NEW p, IsSeq(p), p # <<>>, NEW f, ReadBefore(p, f)
  PROVE  /\ p[1] # Read(f) => ReadBefore(Tail(p), f)
         /\ p[1] # Measure(RegisterOf(f))
<1>1. ASSUME p[1] # Read(f), NEW j \in DOMAIN Tail(p), Tail(p)[j] = Measure(RegisterOf(f))
      PROVE  \E i \in DOMAIN Tail(p) : i < j /\ Tail(p)[i] = Read(f)
  <2>1. j + 1 \in DOMAIN p /\ p[j + 1] = Measure(RegisterOf(f)) /\ j \in Nat
    BY <1>1, TailFacts
  <2>2. PICK i \in DOMAIN p : i < j + 1 /\ p[i] = Read(f)
    BY <2>1 DEF ReadBefore
  <2>3. i - 1 \in DOMAIN Tail(p) /\ i \in Nat
    BY <1>1, <2>2, TailFacts
  <2>4. (i - 1) + 1 = i /\ i - 1 < j
    BY <2>1, <2>2, <2>3
  <2>5. Tail(p)[i - 1] = p[(i - 1) + 1]
    BY <2>3, TailFacts
  <2> QED BY <2>2, <2>3, <2>4, <2>5
<1>2. p[1] # Measure(RegisterOf(f))
  <2>1. 1 \in DOMAIN p /\ \A i \in DOMAIN p : ~(i < 1)
    BY TailFacts, SeqFacts
  <2> QED BY <2>1 DEF ReadBefore
<1> QED
  BY <1>1, <1>2 DEF ReadBefore

LEMMA TailSteps ==
  ASSUME NEW p, IsSeq(p), p # <<>>
  PROVE  /\ ToSet(Tail(p)) \subseteq ToSet(p)
         /\ \A x \in ToSet(p) : x = p[1] \/ x \in ToSet(Tail(p))
         /\ \A f : ReadFirst(p, f) /\ p[1] # Read(f) => ReadFirst(Tail(p), f)
         /\ \A f : ReadFirst(p, f) => ~IsCpu(p[1])
         /\ TextLast(p) /\ p[1] = NoMrtd => Tail(p) = <<>>
<1>1. ToSet(Tail(p)) \subseteq ToSet(p)
  BY TailFacts DEF ToSet
<1>2. ASSUME NEW x \in ToSet(p), x # p[1]
      PROVE  x \in ToSet(Tail(p))
  <2>1. PICK i \in DOMAIN p : x = p[i]
    BY DEF ToSet
  <2>2. i - 1 \in DOMAIN Tail(p) /\ i \in Nat
    BY <1>2, <2>1, TailFacts
  <2>3. Tail(p)[i - 1] = p[(i - 1) + 1] /\ (i - 1) + 1 = i
    BY <2>2, TailFacts
  <2> QED BY <2>1, <2>2, <2>3 DEF ToSet
<1>3. ASSUME NEW f, ReadFirst(p, f), p[1] # Read(f)
      PROVE  ReadFirst(Tail(p), f)
  <2>1. CASE NoCpus(p)
    BY <2>1, TailCpus DEF ReadFirst
  <2>2. CASE ~NoCpus(p)
    <3>1. PICK i \in DOMAIN p : p[i] = Read(f) /\ \A j \in DOMAIN p : IsCpu(p[j]) => i < j
      BY <1>3, <2>2 DEF ReadFirst
    <3>2. i - 1 \in DOMAIN Tail(p) /\ i \in Nat
      BY <1>3, <3>1, TailFacts
    <3>3. Tail(p)[i - 1] = Read(f)
      <4>1. Tail(p)[i - 1] = p[(i - 1) + 1] /\ (i - 1) + 1 = i
        BY <3>2, TailFacts
      <4> QED BY <3>1, <4>1
    <3>4. ASSUME NEW j \in DOMAIN Tail(p), IsCpu(Tail(p)[j])
          PROVE  i - 1 < j
      <4>1. j + 1 \in DOMAIN p /\ IsCpu(p[j + 1]) /\ j \in Nat
        BY <3>4, TailFacts
      <4>2. i < j + 1
        BY <3>1, <4>1
      <4> QED BY <3>2, <4>1, <4>2
    <3> QED BY <3>2, <3>3, <3>4 DEF ReadFirst
  <2> QED BY <2>1, <2>2
<1>4. ASSUME NEW f, ReadFirst(p, f)
      PROVE  ~IsCpu(p[1])
  <2>1. 1 \in DOMAIN p /\ \A i \in DOMAIN p : ~(i < 1)
    BY TailFacts, SeqFacts
  <2> QED BY <1>4, <2>1 DEF ReadFirst, NoCpus
<1>5. ASSUME TextLast(p), p[1] = NoMrtd
      PROVE  Tail(p) = <<>>
  <2>1. Len(p) = 1
    BY <1>5, TailFacts DEF TextLast
  <2>2. Len(Tail(p)) = 0 /\ Tail(p) \in Seq(ToSet(p))
    BY <2>1, HeadTailProperties DEF IsSeq
  <2> QED BY <2>2, EmptySeq
<1> QED
  BY <1>1, <1>2, <1>3, <1>4, <1>5
-----------------------------------------------------------------------------
DiskBinds ==
  IF OrNone(disk["kernel"]) = None THEN {}
  ELSE {[kernel  |-> OrNone(disk["kernel"]),
         initrd  |-> IF OrNone(disk["initrd"]) = None THEN Empty ELSE OrNone(disk["initrd"]),
         cmdline |-> IF disk["kernel"] = Absent \/ config.cmdline = None THEN Empty
                     ELSE config.cmdline]}

MrtdSays == plan = <<>> /\ "MRTD" \in DOMAIN out /\ IsText(out["MRTD"])

RtmrsToCome ==
  \/ NoMrtd \in ToSet(plan)
  \/ \A m \in {"MRTD", "RTMR1", "RTMR2"} : m \in DOMAIN out \/ Measure(m) \in ToSet(plan)

FilesRead ==
  \A f \in {"kernel", "initrd"} :
    mem[f] = disk[f] \/ (mem[f] = Absent /\ ReadFirst(plan, f) /\ ReadBefore(plan, f))

RtmrsSay ==
  \A m \in {"RTMR1", "RTMR2"} :
    m \in DOMAIN out => (out[m] = Text(Unread(m)) <=> disk[FileOf(m)] = Absent)

MemOK ==
  changes \in Nat /\ mem \in [FileNames -> FileContents \cup {Absent}]
    /\ (cmd = "manifest" => NoLaunch(plan))

UntouchedOK ==
  cmd = "manifest" /\ changes = 0 =>
    /\ config.cmdline # None
    /\ FilesRead
    /\ \A d \in SnpDigests : HashesIn(d) = DiskBinds
    /\ MrtdSays \/ RtmrsToCome
    /\ RtmrsSay

ManifestOK == MemOK /\ UntouchedOK

LEMMA ManifestIsCommand == None # "manifest"
BY SessionsAssumption DEF CommandNames

LEMMA ReadBinds ==
  ASSUME FilesRead, IsSeq(plan), plan # <<>>, IsCpu(plan[1])
  PROVE  MemBinds = DiskBinds
<1>1. mem["kernel"] = disk["kernel"] /\ mem["initrd"] = disk["initrd"]
  BY TailSteps DEF FilesRead
<1> QED
  BY <1>1 DEF MemBinds, DiskBinds

(* Nothing that matters to a manifest changes.                             *)
LEMMA CalmKeeps ==
  ASSUME ManifestOK, UNCHANGED <<disk, cmd, config, plan, mem, out, changes>>
  PROVE  ManifestOK'
<1>1. SnpDigests' = SnpDigests
  BY SameDigests
<1>2. FilesRead' = FilesRead /\ DiskBinds' = DiskBinds
  BY DEF FilesRead, DiskBinds, ReadFirst, ReadBefore, NoCpus, IsCpu
<1>3. MrtdSays' = MrtdSays /\ RtmrsToCome' = RtmrsToCome /\ RtmrsSay' = RtmrsSay
  BY DEF MrtdSays, RtmrsToCome, RtmrsSay, FileOf, Unread, Text, IsText, ToSet, NoMrtd
<1>4. MemOK'
  BY DEF ManifestOK, MemOK, NoLaunch, ToSet, FileNames, FileContents
<1> QED
  BY <1>1, <1>2, <1>3, <1>4 DEF ManifestOK, UntouchedOK

LEMMA PutManifest ==
  ASSUME KernelInv, ManifestOK, plan # <<>>, NEW name, NEW v, NEW rest, Put(name, v, rest),
         \A f : plan[1] # Read(f),
         rest = Tail(plan) \/ (rest = <<>> /\ IsText(v) /\ name = "MRTD"),
         plan[1] = NoMrtd => IsText(v) /\ name = "MRTD",
         \A m : plan[1] = Measure(m) => name = m,
         name \in CpuNames /\ ~IsText(v) => IsCpu(plan[1]) /\ HashesIn(v.digest) = MemBinds,
         \A m \in {"RTMR1", "RTMR2"} :
           name = m => plan[1] = Measure(m) /\ (v = Text(Unread(m)) <=> mem[FileOf(m)] = Absent)
  PROVE  ManifestOK'
<1>1. /\ plan' = rest /\ DOMAIN out' = DOMAIN out \cup {name}
      /\ out'[name] = v /\ \A n \in DOMAIN out \ {name} : out'[n] = out[n]
      /\ UNCHANGED <<disk, cmd, config, mem, todo, changes>>
  BY PutFacts
<1>2. SnpDigests' \subseteq SnpDigests \cup {v.digest}
      /\ (name \notin CpuNames \/ IsText(v) => SnpDigests' \subseteq SnpDigests)
  BY PutFacts
<1>3. IsSeq(plan) /\ TextLast(plan)
  BY DEF KernelInv, PlanOK
<1>4. ToSet(rest) \subseteq ToSet(plan)
  <2>1. ToSet(<<>>) = {}
    BY EmptyFacts DEF ToSet
  <2> QED BY <1>3, <2>1, TailSteps
<1>5. MemOK'
  BY <1>1, <1>4 DEF ManifestOK, MemOK, NoLaunch
<1> SUFFICES ASSUME cmd = "manifest", changes = 0
             PROVE  /\ config.cmdline # None
                    /\ FilesRead'
                    /\ \A d \in SnpDigests' : HashesIn(d) = DiskBinds
                    /\ MrtdSays' \/ RtmrsToCome'
                    /\ RtmrsSay'
  <2>1. DiskBinds' = DiskBinds
    BY <1>1 DEF DiskBinds
  <2> QED BY <1>1, <1>5, <2>1 DEF ManifestOK, UntouchedOK
<1>6. /\ config.cmdline # None /\ FilesRead /\ RtmrsSay /\ RtmrsToCome
      /\ \A d \in SnpDigests : HashesIn(d) = DiskBinds
  BY DEF ManifestOK, UntouchedOK, MrtdSays
<1>7. FilesRead'
  <2>1. \A f : ReadFirst(plan, f) => ReadFirst(rest, f)
    <3>1. \A f : ReadFirst(<<>>, f)
      BY EmptyFacts DEF ReadFirst, NoCpus
    <3> QED BY <1>3, <3>1, TailSteps
  <2>2. \A f : ReadFirst(plan, f)' = ReadFirst(rest, f)
    BY <1>1 DEF ReadFirst, NoCpus, IsCpu
  <2>3. \A f : ReadBefore(plan, f) => ReadBefore(rest, f)
    <3>1. \A f : ReadBefore(<<>>, f)
      BY EmptyFacts DEF ReadBefore
    <3> QED BY <1>3, <3>1, TailReadBefore
  <2>4. \A f : ReadBefore(plan, f)' = ReadBefore(rest, f)
    BY <1>1 DEF ReadBefore, Measure, Read, RegisterOf
  <2> QED BY <1>1, <1>6, <2>1, <2>2, <2>3, <2>4 DEF FilesRead
<1>8. ASSUME NEW d \in SnpDigests'
      PROVE  HashesIn(d) = DiskBinds
  <2>1. CASE d \in SnpDigests
    BY <1>6, <2>1
  <2>2. CASE d \notin SnpDigests
    <3>1. d = v.digest /\ IsCpu(plan[1]) /\ HashesIn(d) = MemBinds
      BY <1>2, <1>8, <2>2
    <3> QED BY <1>3, <1>6, <3>1, ReadBinds
  <2> QED BY <2>1, <2>2
<1>9. MrtdSays' \/ RtmrsToCome'
  <2>1. plan' = <<>> /\ IsText(v) /\ name = "MRTD" => MrtdSays'
    BY <1>1 DEF MrtdSays
  <2>2. CASE rest = <<>> /\ IsText(v) /\ name = "MRTD"
    BY <1>1, <2>1, <2>2
  <2>3. CASE rest = Tail(plan) /\ plan[1] = NoMrtd
    BY <1>1, <1>3, <2>1, <2>3, TailSteps
  <2>4. CASE rest = Tail(plan) /\ plan[1] # NoMrtd
    <3>1. NoMrtd \in ToSet(plan) => NoMrtd \in ToSet(rest)
      BY <1>3, <2>4, TailSteps
    <3>2. \A m : Measure(m) \in ToSet(plan) => name = m \/ Measure(m) \in ToSet(rest)
      BY <1>3, <2>4, TailSteps
    <3>3. ToSet(plan)' = ToSet(rest)
      BY <1>1 DEF ToSet
    <3> QED BY <1>1, <1>6, <3>1, <3>2, <3>3 DEF RtmrsToCome
  <2> QED BY <2>2, <2>3, <2>4
<1>10. RtmrsSay'
  <2> SUFFICES ASSUME NEW m \in {"RTMR1", "RTMR2"}, m \in DOMAIN out'
               PROVE  out'[m] = Text(Unread(m)) <=> disk[FileOf(m)] = Absent
    BY <1>1 DEF RtmrsSay, FileOf, Unread, Text
  <2>1. CASE m = name
    <3>1. plan[1] = Measure(m) /\ (v = Text(Unread(m)) <=> mem[FileOf(m)] = Absent)
      BY <2>1
    <3>2. FileOf(m) \in {"kernel", "initrd"} /\ RegisterOf(FileOf(m)) = m
      BY DEF FileOf, RegisterOf
    <3>3. ~ReadBefore(plan, FileOf(m))
      BY <1>3, <3>1, <3>2, TailReadBefore
    <3>4. mem[FileOf(m)] = disk[FileOf(m)]
      BY <1>6, <3>2, <3>3 DEF FilesRead
    <3> QED BY <1>1, <2>1, <3>1, <3>4
  <2>2. CASE m # name
    BY <1>1, <1>6, <2>2 DEF RtmrsSay
  <2> QED BY <2>1, <2>2
<1> QED
  BY <1>6, <1>7, <1>8, <1>9, <1>10

(* The tool stops, a manifest does not.                                    *)
LEMMA StopManifest ==
  ASSUME ManifestOK, Stop
  PROVE  ManifestOK'
BY DEF ManifestOK, MemOK, UntouchedOK, Stop, Strict

LEMMA NoOvmfManifest ==
  ASSUME KernelInv, ManifestOK, NEW name, name \in {"LAUNCH_DIGEST", "MRTD"}, NoOvmf(name)
  PROVE  ManifestOK'
<1> DEFINE v == Text("REQUIRES_OVMF_PATH")
<1>1. plan # <<>> /\ plan[1] = <<"no ovmf", name>> /\ Put(name, v, Tail(plan))
  BY TailFacts DEF NoOvmf, Now, KernelInv, PlanOK
<1>2. IsText(v)
  BY TextsAndDigests
<1> HIDE DEF v
<1>3. (\A f : plan[1] # Read(f)) /\ (\A m : plan[1] # Measure(m))
  BY <1>1, StepsApart
<1>4. plan[1] = NoMrtd => name = "MRTD"
  <2>1. \A a, b, c : <<a, b>> = <<a, c>> => b = c
    OBVIOUS
  <2> QED BY <1>1, <2>1, Zenon DEF NoMrtd
<1>5. name \notin CpuNames \/ IsText(v)
  BY <1>2
<1>6. name \notin {"RTMR1", "RTMR2"}
  OBVIOUS
<1> QED
  BY <1>1, <1>2, <1>3, <1>4, <1>5, <1>6, PutManifest

LEMMA ReadFileManifest ==
  ASSUME KernelInv, ManifestOK, NEW f \in FileNames, ReadFile(f)
  PROVE  ManifestOK'
<1>1. plan # <<>> /\ plan[1] = Read(f) /\ IsSeq(plan)
  BY TailFacts DEF ReadFile, Now, KernelInv, PlanOK
<1>2. CASE Stop
  BY <1>2, StopManifest
<1>3. CASE /\ mem' = [mem EXCEPT ![f] = disk[f]] /\ plan' = Tail(plan)
           /\ UNCHANGED <<disk, cmd, config, out, registers, todo, changes>>
  <2>1. mem \in [FileNames -> FileContents \cup {Absent}] /\ disk[f] \in FileContents \cup {Absent}
    BY DEF ManifestOK, MemOK, KernelInv, OvmfOK
  <2>2. /\ mem' \in [FileNames -> FileContents \cup {Absent}]
        /\ mem'[f] = disk[f] /\ \A g \in FileNames : g # f => mem'[g] = mem[g]
    BY <1>3, <2>1
  <2>3. MemOK'
    BY <1>1, <1>3, <2>2, TailSteps DEF ManifestOK, MemOK, NoLaunch
  <2>4. \A g : g # f => Read(g) # Read(f)
    BY DEF Read
  <2>5. FilesRead => FilesRead'
    <3> SUFFICES ASSUME FilesRead, NEW g \in {"kernel", "initrd"}, g # f
                 PROVE  \/ mem'[g] = disk[g]
                        \/ mem'[g] = Absent /\ ReadFirst(plan', g) /\ ReadBefore(plan', g)
      <4>1. \A h : ReadFirst(plan, h)' = ReadFirst(plan', h) /\ ReadBefore(plan, h)' = ReadBefore(plan', h)
        BY DEF ReadFirst, ReadBefore, NoCpus, IsCpu, RegisterOf
      <4>2. \A h \in {"kernel", "initrd"} : h = f => mem'[h] = disk'[h]
        BY <1>3, <2>2
      <4>3. disk' = disk
        BY <1>3
      <4> QED BY <4>1, <4>2, <4>3 DEF FilesRead
    <3>1. mem[g] = disk[g] \/ (mem[g] = Absent /\ ReadFirst(plan, g) /\ ReadBefore(plan, g))
      BY DEF FilesRead
    <3>2. mem'[g] = mem[g]
      BY <2>2 DEF FileNames
    <3>3. ReadFirst(plan, g) => ReadFirst(Tail(plan), g)
      BY <1>1, <2>4, TailSteps
    <3>4. ReadBefore(plan, g) => ReadBefore(Tail(plan), g)
      BY <1>1, <2>4, TailReadBefore
    <3> QED BY <1>3, <3>1, <3>2, <3>3, <3>4
  <2>6. RtmrsToCome => RtmrsToCome'
    <3>1. NoMrtd # plan[1] /\ \A m : Measure(m) # plan[1]
      BY <1>1, StepsApart
    <3>2. \A x \in ToSet(plan) : x # plan[1] => x \in ToSet(plan')
      BY <1>1, <1>3, TailSteps
    <3>3. ToSet(plan)' = ToSet(plan')
      BY DEF ToSet
    <3> QED BY <1>3, <3>1, <3>2, <3>3 DEF RtmrsToCome
  <2>7. ~MrtdSays
    BY <1>1 DEF MrtdSays
  <2>8. SnpDigests' = SnpDigests /\ DiskBinds' = DiskBinds /\ RtmrsSay' = RtmrsSay
    BY <1>3, SameDigests DEF DiskBinds, RtmrsSay, FileOf, Unread, Text
  <2> QED BY <1>3, <2>3, <2>5, <2>6, <2>7, <2>8 DEF ManifestOK, UntouchedOK
<1> QED
  BY <1>2, <1>3 DEF ReadFile

LEMMA NoFirmwareManifest ==
  ASSUME KernelInv, ManifestOK, NEW k \in DOMAIN Cpus, NoFirmware(k)
  PROVE  ManifestOK'
<1>1. plan # <<>> /\ IsCpu(plan[1])
  BY TailFacts DEF NoFirmware, Now, KernelInv, PlanOK, IsCpu
<1>2. plan[1] # NoMrtd /\ (\A f : plan[1] # Read(f)) /\ (\A m : plan[1] # Measure(m))
  BY <1>1, StepsApart
<1>3. CASE Stop
  BY <1>3, StopManifest
<1>4. CASE Put(Cpus[k].name, Text("ERROR"), Tail(plan))
  <2> DEFINE v == Text("ERROR")
             name == Cpus[k].name
  <2>1. IsText(v) /\ Put(name, v, Tail(plan))
    BY <1>4, TextsAndDigests
  <2>2. name \notin {"RTMR1", "RTMR2"}
    BY CpusAssumption DEF Registers, CpuNames
  <2> HIDE DEF v, name
  <2> QED BY <1>1, <1>2, <2>1, <2>2, PutManifest
<1> QED
  BY <1>3, <1>4 DEF NoFirmware

LEMMA CpuDoneManifest ==
  ASSUME KernelInv, ManifestOK, NEW k \in DOMAIN Cpus, CpuDone(k)
  PROVE  ManifestOK'
<1>1. plan # <<>> /\ IsCpu(plan[1]) /\ stage # "idle"
  BY TailFacts DEF CpuDone, Return, KernelInv, PlanOK, IsCpu
<1>2. plan[1] # NoMrtd /\ (\A f : plan[1] # Read(f)) /\ (\A m : plan[1] # Measure(m))
  BY <1>1, StepsApart
<1> DEFINE name == Cpus[k].name
<1>3. name \in CpuNames
  BY DEF CpuNames
<1>4. name \notin {"RTMR1", "RTMR2"}
  BY <1>3, CpusAssumption DEF Registers
<1>5. CASE Stop
  BY <1>5, StopManifest
<1>6. CASE Put(name, Text("ERROR"), Tail(plan))
  <2> DEFINE v == Text("ERROR")
  <2>1. IsText(v) /\ Put(name, v, Tail(plan))
    BY <1>6, TextsAndDigests
  <2> HIDE DEF v, name
  <2> QED BY <1>1, <1>2, <1>4, <2>1, PutManifest
<1>7. CASE stage = "measured" /\ Put(name, Digest(ld), Tail(plan))
  <2> DEFINE v == Digest(ld)
  <2>1. ~IsText(v) /\ v.digest = ld /\ Put(name, v, Tail(plan))
    BY <1>7, TextsAndDigests
  <2>2. HashesIn(ld) = MemBinds
    BY <1>1, <1>7 DEF KernelInv, LaunchOK, CpuLaunch
  <2> HIDE DEF v, name
  <2> QED BY <1>1, <1>2, <1>3, <1>4, <2>1, <2>2, PutManifest
<1> QED
  BY <1>5, <1>6, <1>7 DEF CpuDone

LEMMA MeasureTdxManifest ==
  ASSUME KernelInv, ManifestOK, NEW m \in Registers, MeasureTdx(m)
  PROVE  ManifestOK'
<1>1. plan # <<>> /\ plan[1] = Measure(m)
  BY TailFacts DEF MeasureTdx, Now, KernelInv, PlanOK
<1>2. plan[1] # NoMrtd /\ (\A f : plan[1] # Read(f)) /\ (\A n : plan[1] = Measure(n) => n = m)
  <2>1. \A n : Measure(m) = Measure(n) => n = m
    BY DEF Measure
  <2> QED BY <1>1, <2>1, StepsApart
<1>3. m \notin CpuNames
  BY CpusAssumption
<1>4. \/ Stop
      \/ \E v, rest :
           /\ Put(m, v, rest) /\ (rest = Tail(plan) \/ (rest = <<>> /\ IsText(v) /\ m = "MRTD"))
           /\ m \in {"RTMR1", "RTMR2"} => (v = Text(Unread(m)) <=> mem[FileOf(m)] = Absent)
  <2> DEFINE missing == \E f \in Needs(m) : mem[f] = Absent
             value == IF missing THEN Error ELSE Compute(m)
             said == IF missing THEN Unread(m)
                     ELSE IF m = "MRTD" THEN "NOT_TDVF_FIRMWARE" ELSE "ERROR"
  <2>1. \/ value # Error /\ Put(m, Digest(value), Tail(plan))
        \/ Stop
        \/ Put(m, Text(said), IF m = "MRTD" THEN <<>> ELSE Tail(plan))
    BY DEF MeasureTdx
  <2>2. m \in {"RTMR1", "RTMR2"} => (missing <=> mem[FileOf(m)] = Absent)
    BY DEF FileOf, Needs
  <2>3. value # Error => ~missing
    OBVIOUS
  <2>4. IsText(Text(said)) /\ ~IsText(Digest(value)) /\ IsText(Text(Unread(m)))
    BY TextsAndDigests
  <2>5. m \in {"RTMR1", "RTMR2"} => (Text(said) = Text(Unread(m)) <=> missing)
    <3>1. CASE missing
      BY <3>1
    <3>2. CASE ~missing
      <4>1. m \in {"RTMR1", "RTMR2"} => said = "ERROR" /\ Unread(m) # "ERROR"
        BY <3>2 DEF Unread
      <4>2. \A a, b : Text(a) = Text(b) => a = b
        BY DEF Text
      <4> QED BY <3>2, <4>1, <4>2
    <3> QED BY <3>1, <3>2
  <2> HIDE DEF missing, value, said
  <2>6. CASE value # Error /\ Put(m, Digest(value), Tail(plan))
    <3>1. Digest(value) # Text(Unread(m))
      BY <2>4
    <3> QED BY <2>2, <2>3, <2>6, <3>1
  <2>7. CASE Put(m, Text(said), IF m = "MRTD" THEN <<>> ELSE Tail(plan))
    <3>1. CASE m = "MRTD"
      BY <2>4, <2>7, <3>1
    <3>2. CASE m # "MRTD"
      BY <2>2, <2>5, <2>7, <3>2
    <3> QED BY <3>1, <3>2
  <2> QED BY <2>1, <2>6, <2>7
<1>5. CASE Stop
  BY <1>5, StopManifest
<1>6. CASE ~Stop
  <2>1. PICK v, rest :
           /\ Put(m, v, rest) /\ (rest = Tail(plan) \/ (rest = <<>> /\ IsText(v) /\ m = "MRTD"))
           /\ m \in {"RTMR1", "RTMR2"} => (v = Text(Unread(m)) <=> mem[FileOf(m)] = Absent)
    BY <1>4, <1>6
  <2> QED BY <1>1, <1>2, <1>3, <2>1, PutManifest
<1> QED
  BY <1>5, <1>6

LEMMA StartManifest ==
  ASSUME KernelInv, ManifestOK, Start
  PROVE  ManifestOK'
<1> DEFINE h == Head(todo)
<1>1. /\ todo # <<>> /\ cmd = None /\ cmd' = h[1] /\ config' = h[2] /\ plan' = PlanOf(h[1], h[2])
      /\ mem' = mem /\ out' = out /\ changes' = changes
  BY DEF Start
<1>2. out = <<>> /\ mem = [f \in FileNames |-> Absent]
  BY <1>1 DEF KernelInv, IdleOK
<1>3. h[1] \in CommandNames /\ (h[1] = "manifest" => h[2].cmdline # None)
  BY <1>1, HeadTodo DEF KernelInv
<1> HIDE DEF h
<1>4. /\ PlanFacts(plan')
      /\ cmd' = "manifest" => NoLaunch(plan') /\ TdxToCome(plan') /\ ReadsBefore(plan')
  BY <1>1, <1>3, PlanOfFacts, ManifestPlan
<1>5. NoLaunch(plan)' = NoLaunch(plan') /\ ToSet(plan)' = ToSet(plan')
  BY DEF NoLaunch, ToSet
<1>6. MemOK'
  BY <1>1, <1>4, <1>5 DEF ManifestOK, MemOK, FileNames, FileContents
<1>7. cmd' = "manifest" => FilesRead'
  <2>1. \A f : ReadFirst(plan, f)' = ReadFirst(plan', f) /\ ReadBefore(plan, f)' = ReadBefore(plan', f)
    BY DEF ReadFirst, ReadBefore, NoCpus, IsCpu, RegisterOf
  <2>2. ReadFirst(plan', "kernel") /\ ReadFirst(plan', "initrd")
    BY <1>4 DEF PlanFacts
  <2>3. cmd' = "manifest" => ReadBefore(plan', "kernel") /\ ReadBefore(plan', "initrd")
    BY <1>4 DEF ReadsBefore
  <2> QED BY <1>1, <1>2, <2>1, <2>2, <2>3 DEF FilesRead, FileNames
<1>8. SnpDigests' = {}
  BY <1>1, <1>2, NoNewDigests
<1>9. RtmrsSay'
  BY <1>1, <1>2, EmptyFacts DEF RtmrsSay
<1>10. cmd' = "manifest" => RtmrsToCome'
  BY <1>4, <1>5 DEF RtmrsToCome, TdxToCome
<1> QED
  BY <1>1, <1>3, <1>6, <1>7, <1>8, <1>9, <1>10 DEF ManifestOK, UntouchedOK

LEMMA LibraryDoneManifest ==
  ASSUME KernelInv, ManifestOK, LibraryDone
  PROVE  ManifestOK'
<1>1. /\ plan # <<>> /\ plan[1] = <<"launch", 0>> /\ 1 \in DOMAIN plan
      /\ UNCHANGED <<cmd, mem, changes>>
  BY TailFacts DEF LibraryDone, KernelInv, PlanOK
<1>2. cmd # "manifest"
  BY <1>1 DEF ManifestOK, MemOK, NoLaunch, ToSet
<1> QED
  BY <1>1, <1>2 DEF ManifestOK, MemOK, UntouchedOK, FileNames, FileContents

LEMMA FinishManifest ==
  ASSUME ManifestOK, Finish
  PROVE  ManifestOK'
<1>1. cmd' = None /\ changes' = changes /\ mem' = [f \in FileNames |-> Absent]
  BY DEF Finish
<1> QED
  BY <1>1, ManifestIsCommand DEF ManifestOK, MemOK, UntouchedOK

LEMMA ReplaceManifest ==
  ASSUME ManifestOK, NEW f \in FileNames, Replace(f)
  PROVE  ManifestOK'
<1>1. changes' = changes + 1 /\ UNCHANGED <<mem, plan, cmd>>
  BY DEF Replace
<1>2. changes' \in Nat /\ changes' # 0
  BY <1>1 DEF ManifestOK, MemOK
<1>3. NoLaunch(plan)' = NoLaunch(plan)
  BY <1>1 DEF NoLaunch, ToSet
<1> QED
  BY <1>1, <1>2, <1>3 DEF ManifestOK, MemOK, UntouchedOK, FileNames, FileContents

LEMMA ManifestInit ==
  ASSUME Init
  PROVE  ManifestOK
BY ManifestIsCommand DEF Init, ManifestOK, MemOK, UntouchedOK

LEMMA ManifestNext ==
  ASSUME KernelInv, ManifestOK, [Next]_vars
  PROVE  ManifestOK'
<1>1. CASE Start BY <1>1, StartManifest
<1>2. CASE NoOvmf("LAUNCH_DIGEST") \/ NoOvmf("MRTD") BY <1>2, NoOvmfManifest
<1>3. CASE \E f \in FileNames : ReadFile(f) BY <1>3, ReadFileManifest
<1>4. CASE \E k \in DOMAIN Cpus : StartCpu(k) BY <1>4, CalmKeeps DEF StartCpu, callerVars
<1>5. CASE \E k \in DOMAIN Cpus : NoFirmware(k) BY <1>5, NoFirmwareManifest
<1>6. CASE \E k \in DOMAIN Cpus : CpuDone(k) BY <1>6, CpuDoneManifest
<1>7. CASE StartLibrary BY <1>7, CalmKeeps DEF StartLibrary, callerVars
<1>8. CASE LibraryDone BY <1>8, LibraryDoneManifest
<1>9. CASE LaunchStep BY <1>9, CalmKeeps DEF LaunchStep, callerVars
<1>10. CASE \E m \in Registers : MeasureTdx(m) BY <1>10, MeasureTdxManifest
<1>11. CASE Finish BY <1>11, FinishManifest
<1>12. CASE \E f \in FileNames : Replace(f) BY <1>12, ReplaceManifest
<1>13. CASE UNCHANGED vars BY <1>13, CalmKeeps DEF vars, callerVars
<1>14. CASE AllDone BY <1>14, CalmKeeps DEF AllDone, vars, callerVars
<1> QED
  BY <1>1, <1>2, <1>3, <1>4, <1>5, <1>6, <1>7, <1>8, <1>9, <1>10, <1>11, <1>12, <1>13, <1>14
     DEF Next, Proceed

LEMMA ManifestBinds ==
  ASSUME KernelInv, ManifestOK
  PROVE  ManifestBindsOrSays
<1> SUFFICES ASSUME cmd = "manifest", plan = <<>>, changes = 0
             PROVE  /\ \A d \in SnpDigests : HashesIn(d) = HashesOfDisk
                    /\ "MRTD" \in DOMAIN out
                    /\ ~IsText(out["MRTD"]) =>
                         /\ {"RTMR1", "RTMR2"} \subseteq DOMAIN out
                         /\ out["RTMR1"] = Text("REQUIRES_KERNEL") <=> disk["kernel"] = Absent
                         /\ out["RTMR2"] = Text("REQUIRES_INITRD") <=> disk["initrd"] = Absent
  BY DEF ManifestBindsOrSays
<1>1. /\ config.cmdline # None /\ RtmrsSay /\ (MrtdSays \/ RtmrsToCome)
      /\ \A d \in SnpDigests : HashesIn(d) = DiskBinds
  BY DEF ManifestOK, UntouchedOK
<1>2. ToSet(plan) = {}
  BY EmptyFacts DEF ToSet
<1>3. \/ "MRTD" \in DOMAIN out /\ IsText(out["MRTD"])
      \/ {"MRTD", "RTMR1", "RTMR2"} \subseteq DOMAIN out
  BY <1>1, <1>2 DEF RtmrsToCome, MrtdSays
<1>4. \A f \in {"kernel", "initrd"} : disk[f] = Absent \/ disk[f] # None
  BY FilesAssumption DEF KernelInv, OvmfOK, FileNames
<1>5. DiskBinds = HashesOfDisk
  BY <1>1, <1>4 DEF DiskBinds, HashesOfDisk, OrNone
<1>6. ASSUME ~IsText(out["MRTD"])
      PROVE  /\ {"RTMR1", "RTMR2"} \subseteq DOMAIN out
             /\ out["RTMR1"] = Text("REQUIRES_KERNEL") <=> disk["kernel"] = Absent
             /\ out["RTMR2"] = Text("REQUIRES_INITRD") <=> disk["initrd"] = Absent
  <2>1. /\ FileOf("RTMR1") = "kernel" /\ FileOf("RTMR2") = "initrd"
        /\ Unread("RTMR1") = "REQUIRES_KERNEL" /\ Unread("RTMR2") = "REQUIRES_INITRD"
    BY DEF FileOf, Unread
  <2>2. {"RTMR1", "RTMR2"} \subseteq DOMAIN out
    BY <1>3, <1>6
  <2> QED BY <1>1, <2>1, <2>2 DEF RtmrsSay
<1> QED
  BY <1>1, <1>3, <1>5, <1>6

(* A manifest made while nobody touched the files has SNP digests of the   *)
(* kernel, the initrd and the command line that are there, and says which  *)
(* of the files cannot be read if it gets beyond MRTD, whatever the        *)
(* firmware, the CPU models and the files are: compute_snp_measurements    *)
(* passes over what it cannot read, compute_tdx_measurements says it.      *)
THEOREM ManifestsBindOrSay == Spec => []ManifestBindsOrSays
<1> DEFINE Inv == KernelInv /\ ManifestOK
<1>1. Init => Inv
  BY KernelInit, ManifestInit
<1>2. Inv /\ [Next]_vars => Inv'
  BY KernelNext, ManifestNext
<1>3. Inv => ManifestBindsOrSays
  BY ManifestBinds
<1> QED
  BY <1>1, <1>2, <1>3, PTL DEF Spec
-----------------------------------------------------------------------------
(* Induction on the steps of a launch.                                     *)
LEMMA LeastElement ==
  ASSUME NEW T, T \subseteq Nat, T # {}
  PROVE  \E m \in T : \A n \in T : m <= n
<1> DEFINE R == OpToRel(<, Nat)
<1>1. IsWellFoundedOn(R, Nat)
  BY NatLessThanWellFounded
<1>2. \A x, y \in Nat : x < y => <<x, y>> \in R
  BY DEF OpToRel
<1> HIDE DEF R
<1>3. PICK x \in T : \A y \in T : ~ (<<y, x>> \in R)
  BY <1>1, WFMin
<1>4. ASSUME NEW y \in T PROVE x <= y
  <2>1. x \in Nat /\ y \in Nat
    OBVIOUS
  <2>2. ~(y < x)
    BY <1>2, <1>3, <2>1, Zenon
  <2> QED BY <2>1, <2>2
<1> QED BY <1>3, <1>4

(* A set of numbers with 0 and every member's successor has all of them.   *)
LEMMA Induction ==
  ASSUME NEW S, 0 \in S, \A n \in Nat : n \in S => n + 1 \in S
  PROVE  Nat \subseteq S
<1> DEFINE T == Nat \ S
<1> SUFFICES ASSUME T # {} PROVE FALSE
  OBVIOUS
<1>1. T \subseteq Nat
  OBVIOUS
<1> HIDE DEF T
<1>2. PICK m \in T : \A n \in T : m <= n
  BY <1>1, LeastElement
<1>3. m \in Nat /\ m # 0 /\ m \notin S
  BY DEF T
<1>4. m - 1 \in Nat /\ m - 1 \notin T /\ (m - 1) + 1 = m
  BY <1>1, <1>2, <1>3
<1>5. m - 1 \in S
  BY <1>4 DEF T
<1> QED BY <1>3, <1>4, <1>5

-----------------------------------------------------------------------------
(* A launch as a sequence of pieces.                                       *)
LateSteps(r)  == IF FoldsLateCpuid(r) THEN Len(LaunchSections(r)) ELSE 0
BeforeCpus(r) == Len(LaunchSections(r)) + LateSteps(r)
Steps(r)      == BeforeCpus(r) + CpusOf(r)

LatePages(s) == IF s.type = "cpuid" THEN Unhashed("cpuid", s.gpa, 1) ELSE <<>>

(* What the step number i of a launch folds in.                            *)
Piece(r, i) ==
  IF i <= Len(LaunchSections(r)) THEN SectionPages(r, LaunchSections(r)[i])
  ELSE IF i <= BeforeCpus(r) THEN LatePages(LaunchSections(r)[i - Len(LaunchSections(r))])
  ELSE <<SaveArea(r, i - BeforeCpus(r))>>

(* The digests after each step up to n, and the last of them.              *)
Chain(r, c, n) ==
  c[0] = Loaded(r) /\ \A i \in 1 .. n : c[i] = Join(c[i - 1], Piece(r, i))

Folded(r, n, d) == \E c : Chain(r, c, n) /\ c[n] = d

LEMMA FoldedStart ==
  ASSUME NEW r
  PROVE  Folded(r, 0, Loaded(r))
<1> DEFINE c == [i \in {0} |-> Loaded(r)]
<1>1. c[0] = Loaded(r) /\ \A i \in 1 .. 0 : FALSE
  OBVIOUS
<1> QED BY <1>1 DEF Folded, Chain

LEMMA FoldedStep ==
  ASSUME NEW r, NEW n \in Nat, NEW d, Folded(r, n, d)
  PROVE  Folded(r, n + 1, Join(d, Piece(r, n + 1)))
<1>1. PICK c : Chain(r, c, n) /\ c[n] = d
  BY DEF Folded
<1> DEFINE new == Join(d, Piece(r, n + 1))
           e   == [i \in 0 .. n + 1 |-> IF i = n + 1 THEN new ELSE c[i]]
<1>2. e[n + 1] = new /\ \A i \in 0 .. n : e[i] = c[i]
  OBVIOUS
<1> HIDE DEF e
<1>3. e[0] = Loaded(r)
  BY <1>1, <1>2 DEF Chain
<1>4. ASSUME NEW i \in 1 .. n + 1
      PROVE  e[i] = Join(e[i - 1], Piece(r, i))
  <2>1. CASE i = n + 1
    <3>1. i - 1 = n /\ n \in 0 .. n
      BY <2>1
    <3>2. e[i - 1] = d /\ e[i] = new
      BY <1>1, <1>2, <2>1, <3>1
    <3> QED BY <2>1, <3>2
  <2>2. CASE i # n + 1
    <3>1. i \in 1 .. n /\ i \in 0 .. n /\ i - 1 \in 0 .. n
      BY <2>2
    <3>2. e[i] = c[i] /\ e[i - 1] = c[i - 1]
      BY <1>2, <3>1
    <3> QED BY <1>1, <3>1, <3>2 DEF Chain
  <2> QED BY <2>1, <2>2
<1>5. Chain(r, e, n + 1)
  BY <1>3, <1>4 DEF Chain
<1> QED BY <1>2, <1>5 DEF Folded

(* The same pieces make the same digest.                                   *)
LEMMA FoldedSame ==
  ASSUME NEW r, NEW q, NEW n \in Nat, NEW d, NEW e, Folded(r, n, d), Folded(q, n, e),
         Loaded(r) = Loaded(q), \A i \in 1 .. n : Piece(r, i) = Piece(q, i)
  PROVE  d = e
<1>1. PICK a : Chain(r, a, n) /\ a[n] = d
  BY DEF Folded
<1>2. PICK b : Chain(q, b, n) /\ b[n] = e
  BY DEF Folded
<1> DEFINE S == {i \in Nat : i <= n => a[i] = b[i]}
<1>3. 0 \in S
  BY <1>1, <1>2 DEF Chain
<1>4. ASSUME NEW i \in Nat, i \in S
      PROVE  i + 1 \in S
  <2> SUFFICES ASSUME i + 1 <= n PROVE a[i + 1] = b[i + 1]
    OBVIOUS
  <2>1. i + 1 \in 1 .. n /\ (i + 1) - 1 = i /\ i <= n
    OBVIOUS
  <2>2. a[i + 1] = Join(a[i], Piece(r, i + 1)) /\ b[i + 1] = Join(b[i], Piece(q, i + 1))
    BY <1>1, <1>2, <2>1 DEF Chain
  <2>3. a[i] = b[i]
    BY <1>4, <2>1
  <2> QED BY <2>1, <2>2, <2>3
<1> HIDE DEF S
<1>5. n \in S
  BY <1>3, <1>4, Induction
<1> QED BY <1>1, <1>2, <1>5 DEF S

-----------------------------------------------------------------------------
(* What the pieces are made of.                                            *)
Launchable(r) ==
  /\ r.mode \in Modes /\ r.vmm \in Vmms
  /\ r.ovmf \in DOMAIN Firmware /\ r.svsm \in DOMAIN Firmware \cup {None}
  /\ r.vcpus \in Nat /\ r.varsPages \in Nat
  /\ r.seed = None \/ (IsSeq(r.seed) /\ \A p \in ToSet(r.seed) : p.gpa \in Nat)

Pages(s)   == IsSeq(s) /\ \A p \in ToSet(s) : p.gpa \in Int
NoSaves(s) == \A p \in ToSet(s) : p.type # "vmsa"

LEMMA OnePages ==
  ASSUME NEW p, p.gpa \in Int
  PROVE  Pages(<<p>>) /\ ToSet(<<p>>) = {p}
BY OnePage DEF Pages, ToSet

LEMMA NoPages == Pages(<<>>) /\ NoSaves(<<>>) /\ HashesIn(<<>>) = {} /\ ToSet(<<>>) = {}
<1>1. IsSeq(<<>>) /\ ToSet(<<>>) = {}
  BY EmptyFacts DEF ToSet
<1> QED BY <1>1 DEF Pages, NoSaves, HashesIn

LEMMA JoinPages ==
  ASSUME NEW s, NEW t, Pages(s), Pages(t)
  PROVE  Pages(Join(s, t)) /\ (NoSaves(s) /\ NoSaves(t) => NoSaves(Join(s, t)))
         /\ HashesIn(Join(s, t)) = HashesIn(s) \cup HashesIn(t)
BY JoinFacts DEF Pages, NoSaves, HashesIn

LEMMA FilePagesAre ==
  ASSUME NEW f \in DOMAIN Firmware, NEW end \in Int
  PROVE  /\ Pages(FilePages(f, end)) /\ NoSaves(FilePages(f, end))
         /\ HashesIn(FilePages(f, end)) = {}
         /\ Len(FilePages(f, end)) = Firmware[f].pages
         /\ Firmware[f].pages # 0 =>
              /\ 1 \in DOMAIN FilePages(f, end)
              /\ FilePages(f, end)[1].contents = [file |-> f, page |-> 1]
<1> DEFINE n == Firmware[f].pages
           page(i) == PageInfo("normal", end - n + i - 1, [file |-> f, page |-> i])
<1>1. n \in Nat
  BY FirmwareAssumption
<1>2. FilePages(f, end) = [i \in 1 .. n |-> page(i)]
  BY DEF FilePages
<1>3. \A i \in 1 .. n : page(i).gpa \in Int /\ page(i).type # "vmsa"
  BY <1>1 DEF PageInfo
<1>4. page(1).contents = [file |-> f, page |-> 1]
  BY DEF PageInfo
<1> HIDE DEF page, n
<1>5. FilePages(f, end) = [i \in 1 .. n |-> FilePages(f, end)[i]]
  BY <1>2
<1>6. IsSeq(FilePages(f, end)) /\ Len(FilePages(f, end)) = n
  BY <1>1, <1>5, FunIsSeq
<1>7. DOMAIN FilePages(f, end) = 1 .. n /\ \A i \in 1 .. n : FilePages(f, end)[i] = page(i)
  BY <1>2
<1>8. Pages(FilePages(f, end)) /\ NoSaves(FilePages(f, end))
  BY <1>3, <1>6, <1>7 DEF Pages, NoSaves, ToSet
<1>9. n # 0 => 1 \in DOMAIN FilePages(f, end)
                 /\ FilePages(f, end)[1].contents = [file |-> f, page |-> 1]
  BY <1>1, <1>4, <1>7
<1> QED BY <1>6, <1>8, <1>9, FilePagesFacts DEF n

LEMMA UnhashedAre ==
  ASSUME NEW type, type \notin {"normal", "vmsa"}, NEW gpa \in Nat, NEW n \in Nat
  PROVE  /\ Pages(Unhashed(type, gpa, n)) /\ NoSaves(Unhashed(type, gpa, n))
         /\ HashesIn(Unhashed(type, gpa, n)) = {}
<1> DEFINE page(i) == PageInfo(type, gpa + i - 1, Zeros)
<1>1. Unhashed(type, gpa, n) = [i \in 1 .. n |-> page(i)]
  BY DEF Unhashed
<1>2. \A i \in 1 .. n : page(i).gpa \in Int /\ page(i).type = type
  BY DEF PageInfo
<1> HIDE DEF page
<1>3. DOMAIN Unhashed(type, gpa, n) = 1 .. n
      /\ \A i \in 1 .. n : Unhashed(type, gpa, n)[i] = page(i)
  BY <1>1
<1> QED BY <1>2, <1>3, UnhashedFacts DEF Pages, NoSaves, ToSet

LEMMA SectionPagesAre ==
  ASSUME NEW r, Launchable(r), NEW s \in Section
  PROVE  /\ Pages(SectionPages(r, s)) /\ NoSaves(SectionPages(r, s))
         /\ HashesIn(SectionPages(r, s)) =
              IF s.type = "kernel hashes" /\ HashesKernel(r) THEN {Hashes(r)} ELSE {}
<1>1. s.gpa \in Nat /\ s.pages \in Nat /\ s.type \in SectionTypes /\ 1 \in Nat
  BY DEF Section
<1>2. CASE s.type = "sec mem"
  <2> DEFINE type == IF r.vmm = "gce" THEN "unmeasured" ELSE "zero"
  <2>1. SectionPages(r, s) = Unhashed(type, s.gpa, s.pages)
    BY <1>2 DEF SectionPages
  <2>2. type \notin {"normal", "vmsa"}
    OBVIOUS
  <2> HIDE DEF type
  <2> QED BY <1>1, <1>2, <2>1, <2>2, UnhashedAre
<1>3. CASE s.type = "secrets"
  <2>1. SectionPages(r, s) = Unhashed("secrets", s.gpa, 1)
    BY <1>3 DEF SectionPages
  <2> QED BY <1>1, <1>3, <2>1, UnhashedAre
<1>4. CASE s.type = "cpuid" /\ r.vmm # "ec2"
  <2>1. SectionPages(r, s) = Unhashed("cpuid", s.gpa, 1)
    BY <1>4 DEF SectionPages
  <2> QED BY <1>1, <1>4, <2>1, UnhashedAre
<1>5. CASE s.type = "cpuid" /\ r.vmm = "ec2"
  <2>1. SectionPages(r, s) = <<>>
    BY <1>5 DEF SectionPages
  <2> QED BY <1>5, <2>1, NoPages
<1>6. CASE s.type = "kernel hashes" /\ HashesKernel(r)
  <2> DEFINE p == PageInfo("normal", s.gpa, [hashes |-> Hashes(r), offset |-> HashOffset(r)])
  <2>1. SectionPages(r, s) = <<p>>
    BY <1>6 DEF SectionPages
  <2>2. p.gpa \in Int /\ p.type = "normal"
    BY <1>1 DEF PageInfo
  <2>3. HashesIn(<<p>>) = {Hashes(r)}
    BY HashPage
  <2> HIDE DEF p
  <2>4. Pages(<<p>>) /\ NoSaves(<<p>>)
    BY <2>2, OnePages DEF NoSaves
  <2> QED BY <1>6, <2>1, <2>3, <2>4
<1>7. CASE s.type = "caa" \/ (s.type = "kernel hashes" /\ ~HashesKernel(r))
  <2>1. SectionPages(r, s) = Unhashed("zero", s.gpa, s.pages)
    BY <1>7 DEF SectionPages
  <2> QED BY <1>1, <1>7, <2>1, UnhashedAre
<1> QED
  BY <1>1, <1>2, <1>3, <1>4, <1>5, <1>6, <1>7 DEF SectionTypes

LEMMA LatePagesAre ==
  ASSUME NEW s \in Section
  PROVE  /\ Pages(LatePages(s)) /\ NoSaves(LatePages(s)) /\ HashesIn(LatePages(s)) = {}
<1>1. s.gpa \in Nat /\ 1 \in Nat
  BY DEF Section
<1> QED BY <1>1, UnhashedAre, NoPages DEF LatePages

LEMMA SaveAreaIs ==
  ASSUME NEW r, NEW cpu
  PROVE  /\ Pages(<<SaveArea(r, cpu)>>) /\ HashesIn(<<SaveArea(r, cpu)>>) = {}
         /\ SaveArea(r, cpu).type = "vmsa"
<1> DEFINE p == SaveArea(r, cpu)
<1>1. p.gpa \in Int /\ p.type = "vmsa"
  BY FirmwareAssumption DEF SaveArea, PageInfo
<1> HIDE DEF p
<1>2. Pages(<<p>>)
  BY <1>1, OnePages
<1> QED BY <1>1, <1>2, SaveAreaFacts DEF p

LEMMA LaunchSectionsAre ==
  ASSUME NEW r, Launchable(r), ~LoadFails(r)
  PROVE  /\ LaunchSections(r) \in Seq(Section) /\ Len(LaunchSections(r)) \in Nat
         /\ \A i \in 1 .. Len(LaunchSections(r)) : LaunchSections(r)[i] \in Section
         /\ LateSteps(r) \in Nat /\ BeforeCpus(r) \in Nat /\ CpusOf(r) \in Nat
         /\ Steps(r) \in Nat /\ BeforeCpus(r) = Len(LaunchSections(r)) + LateSteps(r)
         /\ Steps(r) = BeforeCpus(r) + CpusOf(r)
<1> DEFINE s == LaunchSections(r)
<1>1. s \in Seq(Section)
  <2>1. CASE r.mode \in {"sev", "sev-es"}
    <3>1. s = <<>>
      BY <2>1 DEF LaunchSections
    <3> QED BY <3>1, EmptySeq
  <2>2. CASE r.mode = "snp"
    <3>1. s = Sections[r.ovmf] /\ Firmware[r.ovmf].parses /\ r.ovmf \in DOMAIN Firmware
      BY <2>2 DEF LaunchSections, LaunchFile, LoadFails, Launchable
    <3> QED BY <3>1, SectionsFacts
  <2>3. CASE r.mode = "snp:svsm"
    <3>1. s = Sections[r.svsm] /\ Firmware[r.svsm].parses /\ r.svsm \in DOMAIN Firmware
      BY <2>3 DEF LaunchSections, LaunchFile, LoadFails, Launchable
    <3> QED BY <3>1, SectionsFacts
  <2> QED BY <2>1, <2>2, <2>3 DEF Launchable, Modes
<1> HIDE DEF s
<1>2. Len(s) \in Nat /\ \A i \in 1 .. Len(s) : s[i] \in Section
  BY <1>1, LenProperties, ElementOfSeq
<1>3. CpusOf(r) \in Nat
  BY DEF CpusOf, Launchable
<1>4. LateSteps(r) \in Nat
  BY <1>2 DEF LateSteps, s
<1>5. BeforeCpus(r) \in Nat /\ BeforeCpus(r) = Len(s) + LateSteps(r)
  BY <1>2, <1>4 DEF BeforeCpus, s
<1>6. Steps(r) \in Nat /\ Steps(r) = BeforeCpus(r) + CpusOf(r)
  BY <1>3, <1>5 DEF Steps
<1> QED BY <1>1, <1>2, <1>3, <1>4, <1>5, <1>6 DEF s

(* The step that folds the hashes of a kernel in.                          *)
BindsAt(r, i) ==
  /\ i <= Len(LaunchSections(r)) /\ LaunchSections(r)[i].type = "kernel hashes"
  /\ HashesKernel(r)

LEMMA PieceIs ==
  ASSUME NEW r, Launchable(r), ~LoadFails(r), NEW i \in Nat \ {0}
  PROVE  /\ Pages(Piece(r, i))
         /\ i <= BeforeCpus(r) => NoSaves(Piece(r, i))
         /\ i > BeforeCpus(r) => Piece(r, i) = <<SaveArea(r, i - BeforeCpus(r))>>
         /\ HashesIn(Piece(r, i)) = IF BindsAt(r, i) THEN {Hashes(r)} ELSE {}
<1> DEFINE n == Len(LaunchSections(r))
           b == BeforeCpus(r)
<1>1. n \in Nat /\ b \in Nat /\ n <= b
      /\ LateSteps(r) \in {0, n} /\ b = n + LateSteps(r)
      /\ \A j \in 1 .. n : LaunchSections(r)[j] \in Section
  BY LaunchSectionsAre DEF LateSteps
<1>2. Piece(r, i) = IF i <= n THEN SectionPages(r, LaunchSections(r)[i])
                    ELSE IF i <= b THEN LatePages(LaunchSections(r)[i - n])
                    ELSE <<SaveArea(r, i - b)>>
  BY DEF Piece
<1>3. BindsAt(r, i) <=> i <= n /\ LaunchSections(r)[i].type = "kernel hashes" /\ HashesKernel(r)
  BY DEF BindsAt
<1> SUFFICES /\ Pages(Piece(r, i))
             /\ i <= b => NoSaves(Piece(r, i))
             /\ i > b => Piece(r, i) = <<SaveArea(r, i - b)>>
             /\ HashesIn(Piece(r, i)) = IF BindsAt(r, i) THEN {Hashes(r)} ELSE {}
  OBVIOUS
<1> HIDE DEF n, b
<1>4. CASE i <= n
  <2> DEFINE s == LaunchSections(r)[i]
  <2>1. i \in 1 .. n /\ i <= b /\ ~(i > b)
    BY <1>1, <1>4
  <2>2. s \in Section /\ Piece(r, i) = SectionPages(r, s)
    BY <1>1, <1>2, <1>4, <2>1
  <2>3. BindsAt(r, i) <=> s.type = "kernel hashes" /\ HashesKernel(r)
    BY <1>3, <1>4
  <2> HIDE DEF s
  <2> QED BY <2>1, <2>2, <2>3, SectionPagesAre
<1>5. CASE i > n /\ i <= b
  <2> DEFINE s == LaunchSections(r)[i - n]
  <2>1. i - n \in 1 .. n /\ ~(i <= n) /\ ~(i > b)
    BY <1>1, <1>5
  <2>2. s \in Section /\ Piece(r, i) = LatePages(s)
    BY <1>1, <1>2, <1>5, <2>1
  <2> HIDE DEF s
  <2> QED BY <1>3, <2>1, <2>2, LatePagesAre
<1>6. CASE i > b
  <2>1. ~(i <= n) /\ ~(i <= b)
    BY <1>1, <1>6
  <2>2. Piece(r, i) = <<SaveArea(r, i - b)>>
    BY <1>2, <2>1
  <2> QED BY <1>3, <1>6, <2>1, <2>2, SaveAreaIs
<1> QED BY <1>1, <1>4, <1>5, <1>6

(* What a launch begins with.                                              *)
LEMMA LoadedIs ==
  ASSUME NEW r, Launchable(r), ~LoadFails(r)
  PROVE  /\ Pages(Loaded(r))
         /\ OwnFirmware(r) => NoSaves(Loaded(r)) /\ 1 \in DOMAIN Loaded(r)
         /\ OwnFirmware(r) /\ r.mode \in {"snp", "snp:svsm"} =>
              /\ Loaded(r)[1].contents = [file |-> r.ovmf, page |-> 1]
              /\ HashesIn(Loaded(r)) = {}
<1>1. FourGB \in Int /\ r.ovmf \in DOMAIN Firmware /\ Firmware[r.ovmf].pages \in Nat
  BY FirmwareAssumption DEF Launchable
<1> DEFINE f == FilePages(r.ovmf, FourGB)
<1>2. /\ Pages(f) /\ NoSaves(f) /\ HashesIn(f) = {}
      /\ Firmware[r.ovmf].pages # 0 =>
           1 \in DOMAIN f /\ f[1].contents = [file |-> r.ovmf, page |-> 1]
  BY <1>1, FilePagesAre
<1>3. OwnFirmware(r) => Firmware[r.ovmf].pages # 0 /\ (r.seed = None \/ r.seed = f)
  BY DEF OwnFirmware, OvmfHash
<1> HIDE DEF f
<1>4. CASE r.mode = "snp:svsm"
  <2> DEFINE t == FilePages(r.svsm, SvsmEnd(r))
  <2>0. r.svsm # None /\ r.svsm \in DOMAIN Firmware \cup {None} /\ r.varsPages \in Nat
    BY <1>4 DEF LoadFails, Launchable
  <2>1. r.svsm \in DOMAIN Firmware /\ SvsmEnd(r) \in Int
    BY <1>1, <2>0 DEF SvsmEnd
  <2>2. Pages(t) /\ NoSaves(t) /\ HashesIn(t) = {}
    BY <2>1, FilePagesAre
  <2>3. Loaded(r) = Join(f, t)
    BY <1>4 DEF Loaded, OwnPages, Join, f
  <2> HIDE DEF t
  <2>4. Pages(Join(f, t)) /\ NoSaves(Join(f, t)) /\ HashesIn(Join(f, t)) = {}
    BY <1>2, <2>2, JoinPages
  <2>5. 1 \in DOMAIN f => 1 \in DOMAIN Join(f, t) /\ Join(f, t)[1] = f[1]
    BY <1>2, <2>2, JoinFacts DEF Pages
  <2> QED BY <1>2, <1>3, <2>3, <2>4, <2>5
<1>5. CASE r.mode = "snp"
  <2>1. Loaded(r) = IF r.seed = None THEN f ELSE r.seed
    BY <1>5 DEF Loaded, OwnPages, f
  <2>2. r.seed # None => Pages(r.seed)
    BY DEF Launchable, Pages
  <2>3. OwnFirmware(r) => Loaded(r) = f
    BY <1>3, <2>1
  <2>4. Pages(Loaded(r))
    BY <1>2, <2>1, <2>2
  <2> QED BY <1>2, <1>3, <2>3, <2>4
<1>6. CASE r.mode \in {"sev", "sev-es"}
  <2> DEFINE p == Bytes("data", [file |-> r.ovmf])
             q == Bytes("table", Hashes(r))
             t == IF r.kernel = None THEN <<>> ELSE <<q>>
  <2>1. Loaded(r) = Join(<<p>>, t)
    BY <1>6 DEF Loaded, OwnPages, Join
  <2>2. p.gpa \in Int /\ p.type # "vmsa" /\ q.gpa \in Int /\ q.type # "vmsa"
    BY DEF Bytes, PageInfo
  <2> HIDE DEF p, q
  <2>3. Pages(<<p>>) /\ NoSaves(<<p>>) /\ Pages(<<q>>) /\ NoSaves(<<q>>)
    BY <2>2, OnePages DEF NoSaves
  <2>4. Pages(t) /\ NoSaves(t)
    BY <2>3, NoPages
  <2> HIDE DEF t
  <2>5. 1 \in DOMAIN <<p>>
    BY OnePage
  <2>6. 1 \in DOMAIN Join(<<p>>, t)
    BY <2>3, <2>4, <2>5, JoinFacts DEF Pages
  <2>7. Pages(Join(<<p>>, t)) /\ NoSaves(Join(<<p>>, t))
    BY <2>3, <2>4, JoinPages
  <2> QED BY <1>6, <2>1, <2>6, <2>7
<1> QED BY <1>4, <1>5, <1>6 DEF Launchable, Modes

(* One page more.                                                          *)
LEMMA JoinOne ==
  ASSUME NEW s, IsSeq(s), NEW p
  PROVE  /\ Len(Join(s, <<p>>)) = Len(s) + 1 /\ Len(s) + 1 \in DOMAIN Join(s, <<p>>)
         /\ Join(s, <<p>>)[Len(s) + 1] = p
         /\ \A i \in DOMAIN s : i \in DOMAIN Join(s, <<p>>) /\ Join(s, <<p>>)[i] = s[i]
<1> DEFINE t == <<p>>
<1>0. IsSeq(t)
  BY OnePage
<1>1. 1 \in DOMAIN t /\ t[1] = p /\ Len(t) = 1
  BY OnePage
<1> HIDE DEF t
<1>2. Len(Join(s, t)) = Len(s) + Len(t)
  BY <1>0, JoinFacts
<1>3. \A i \in DOMAIN t : Len(s) + i \in DOMAIN Join(s, t) /\ Join(s, t)[Len(s) + i] = t[i]
  BY <1>0, JoinFacts
<1>4. \A i \in DOMAIN s : i \in DOMAIN Join(s, t) /\ Join(s, t)[i] = s[i]
  BY <1>0, JoinFacts
<1>5. Len(s) + 1 \in DOMAIN Join(s, t) /\ Join(s, t)[Len(s) + 1] = p
  BY <1>1, <1>3
<1> QED BY <1>1, <1>2, <1>4, <1>5 DEF t

(* SEV's two ways of hashing a file and a table.                           *)
SevStart(r) ==
  /\ 1 \in DOMAIN Loaded(r) /\ Loaded(r)[1].contents = [file |-> r.ovmf]
  /\ r.kernel = None => Len(Loaded(r)) = 1
  /\ r.kernel # None => /\ Len(Loaded(r)) = 2 /\ 2 \in DOMAIN Loaded(r)
                        /\ Loaded(r)[2].contents = Hashes(r)

LEMMA SevLoaded ==
  ASSUME NEW r, r.mode \in {"sev", "sev-es"}
  PROVE  SevStart(r)
<1> DEFINE p == Bytes("data", [file |-> r.ovmf])
           q == Bytes("table", Hashes(r))
           t == IF r.kernel = None THEN <<>> ELSE <<q>>
           u == <<p>>
<1>1. Loaded(r) = Join(u, t)
  BY DEF Loaded, OwnPages, Join
<1>p. p.contents = [file |-> r.ovmf] /\ q.contents = Hashes(r)
  BY DEF Bytes, PageInfo
<1> HIDE DEF p, q
<1>0. IsSeq(u)
  BY OnePage
<1>2. Len(u) = 1 /\ 1 \in DOMAIN u /\ u[1] = p
  BY OnePage
<1> HIDE DEF u
<1>3. CASE r.kernel = None
  <2>1. t = <<>>
    BY <1>3
  <2> HIDE DEF t
  <2>2. IsSeq(t) /\ Len(t) = 0
    BY <2>1, EmptyFacts
  <2>3. Len(Join(u, t)) = 1 /\ 1 \in DOMAIN Join(u, t) /\ Join(u, t)[1] = p
    BY <1>0, <1>2, <2>2, JoinFacts
  <2> QED BY <1>1, <1>3, <1>p, <2>3 DEF SevStart
<1>4. CASE r.kernel # None
  <2>1. t = <<q>>
    BY <1>4
  <2> HIDE DEF t
  <2>a. Len(Join(u, <<q>>)) = Len(u) + 1 /\ Len(u) + 1 \in DOMAIN Join(u, <<q>>)
    BY <1>0, JoinOne
  <2>b. Join(u, <<q>>)[Len(u) + 1] = q
    BY <1>0, JoinOne
  <2>c. \A i \in DOMAIN u : i \in DOMAIN Join(u, <<q>>) /\ Join(u, <<q>>)[i] = u[i]
    BY <1>0, JoinOne
  <2>2. 1 \in DOMAIN Join(u, <<q>>) /\ Join(u, <<q>>)[1] = p
    BY <1>2, <2>c
  <2>3. Loaded(r) = Join(u, <<q>>) /\ Len(u) + 1 = 2
    BY <1>1, <1>2, <2>1
  <2>4. /\ Len(Loaded(r)) = 2 /\ 2 \in DOMAIN Loaded(r) /\ Loaded(r)[2] = q
        /\ 1 \in DOMAIN Loaded(r) /\ Loaded(r)[1] = p
    BY <2>2, <2>3, <2>a, <2>b
  <2> QED BY <1>4, <1>p, <2>4 DEF SevStart
<1> QED BY <1>3, <1>4

-----------------------------------------------------------------------------
(* What a digest has, after each step.                                     *)
LEMMA ChainStep ==
  ASSUME NEW r, NEW c, NEW n \in Nat, Chain(r, c, n), NEW i \in Nat, i + 1 <= n
  PROVE  c[i + 1] = Join(c[i], Piece(r, i + 1))
<1>1. i + 1 \in 1 .. n /\ (i + 1) - 1 = i
  OBVIOUS
<1> QED BY <1>1 DEF Chain

LEMMA ChainPages ==
  ASSUME NEW r, Launchable(r), ~LoadFails(r), NEW n \in Nat, NEW c, Chain(r, c, n),
         NEW i \in 0 .. n
  PROVE  Pages(c[i]) /\ \A j \in DOMAIN Loaded(r) : j \in DOMAIN c[i] /\ c[i][j] = Loaded(r)[j]
<1> DEFINE S == {k \in Nat : k <= n =>
                   /\ Pages(c[k])
                   /\ \A j \in DOMAIN Loaded(r) : j \in DOMAIN c[k] /\ c[k][j] = Loaded(r)[j]}
<1>1. 0 \in S
  BY LoadedIs DEF Chain
<1>2. ASSUME NEW k \in Nat, k \in S
      PROVE  k + 1 \in S
  <2> SUFFICES ASSUME k + 1 <= n
               PROVE  /\ Pages(c[k + 1])
                      /\ \A j \in DOMAIN Loaded(r) :
                           j \in DOMAIN c[k + 1] /\ c[k + 1][j] = Loaded(r)[j]
    OBVIOUS
  <2> DEFINE new == Piece(r, k + 1)
  <2>1. k <= n /\ k + 1 \in Nat \ {0}
    OBVIOUS
  <2>2. /\ Pages(c[k])
        /\ \A j \in DOMAIN Loaded(r) : j \in DOMAIN c[k] /\ c[k][j] = Loaded(r)[j]
    BY <1>2, <2>1
  <2>3. Pages(new)
    BY <2>1, PieceIs
  <2>4. c[k + 1] = Join(c[k], new)
    BY ChainStep
  <2> HIDE DEF new, S
  <2>5. Pages(Join(c[k], new))
    BY <2>2, <2>3, JoinPages
  <2>6. \A j \in DOMAIN c[k] : j \in DOMAIN Join(c[k], new) /\ Join(c[k], new)[j] = c[k][j]
    BY <2>2, <2>3, JoinFacts DEF Pages
  <2> QED BY <2>2, <2>4, <2>5, <2>6
<1> HIDE DEF S
<1>3. i \in S
  BY <1>1, <1>2, Induction
<1> QED BY <1>3 DEF S

(* Before the CPUs' areas there are none of theirs.                        *)
LEMMA ChainNoSaves ==
  ASSUME NEW r, Launchable(r), ~LoadFails(r), OwnFirmware(r), NEW n \in Nat, NEW c, Chain(r, c, n),
         NEW i \in 0 .. n, i <= BeforeCpus(r)
  PROVE  NoSaves(c[i])
<1> DEFINE S == {k \in Nat : k <= n /\ k <= BeforeCpus(r) => NoSaves(c[k])}
<1>0. BeforeCpus(r) \in Nat
  BY LaunchSectionsAre
<1>1. 0 \in S
  BY LoadedIs DEF Chain
<1>2. ASSUME NEW k \in Nat, k \in S
      PROVE  k + 1 \in S
  <2> SUFFICES ASSUME k + 1 <= n, k + 1 <= BeforeCpus(r)
               PROVE  NoSaves(c[k + 1])
    OBVIOUS
  <2> DEFINE new == Piece(r, k + 1)
  <2>1. k <= n /\ k + 1 \in Nat \ {0} /\ k <= BeforeCpus(r) /\ k \in 0 .. n
    BY <1>0
  <2>2. Pages(c[k]) /\ NoSaves(c[k])
    BY <1>2, <2>1, ChainPages
  <2>3. Pages(new) /\ NoSaves(new)
    BY <2>1, PieceIs
  <2>4. c[k + 1] = Join(c[k], new)
    BY ChainStep
  <2> HIDE DEF new
  <2> QED BY <2>2, <2>3, <2>4, JoinPages
<1> HIDE DEF S
<1>3. i \in S
  BY <1>1, <1>2, Induction
<1> QED BY <1>3 DEF S

(* The pages of the guest's memory, then the areas of i CPUs.              *)
SavedAfter(r, c, i) ==
  /\ Len(c[BeforeCpus(r) + i]) = Len(c[BeforeCpus(r)]) + i
  /\ \A j \in 1 .. Len(c[BeforeCpus(r)]) : c[BeforeCpus(r) + i][j] = c[BeforeCpus(r)][j]
  /\ \A j \in 1 .. i :
       c[BeforeCpus(r) + i][Len(c[BeforeCpus(r)]) + j] = SaveArea(r, j)

LEMMA ChainSaves ==
  ASSUME NEW r, Launchable(r), ~LoadFails(r), NEW n \in Nat, NEW c, Chain(r, c, n),
         NEW i \in Nat, BeforeCpus(r) + i <= n
  PROVE  SavedAfter(r, c, i)
<1> DEFINE b == BeforeCpus(r)
           m == Len(c[b])
           Good(k) == /\ Len(c[b + k]) = m + k
                      /\ \A j \in 1 .. m : c[b + k][j] = c[b][j]
                      /\ \A j \in 1 .. k : c[b + k][m + j] = SaveArea(r, j)
           S == {k \in Nat : b + k <= n => Good(k)}
<1>0. b \in Nat /\ b <= n /\ b \in 0 .. n
  BY LaunchSectionsAre, SMTT(60)
<1>1. m \in Nat
  BY <1>0, ChainPages, SeqFacts DEF Pages
<1>p. \A k \in 0 .. n : Pages(c[k])
  BY ChainPages
<1>s. \A k \in Nat : b + k + 1 <= n => c[b + k + 1] = Join(c[b + k], <<SaveArea(r, k + 1)>>)
  <2> TAKE k \in Nat
  <2> HAVE b + k + 1 <= n
  <2> DEFINE l == b + k
  <2>1. l \in Nat /\ l + 1 <= n /\ l + 1 \in Nat \ {0} /\ l + 1 > b /\ (l + 1) - b = k + 1
    BY <1>0
  <2> HIDE DEF l
  <2>2. c[l + 1] = Join(c[l], Piece(r, l + 1))
    BY <2>1, ChainStep
  <2>3. Piece(r, l + 1) = <<SaveArea(r, (l + 1) - b)>>
    BY <2>1, PieceIs DEF b
  <2> QED BY <2>1, <2>2, <2>3 DEF l
<1> HIDE DEF b, Good
<1>2. 0 \in S
  <2>1. b + 0 = b /\ m + 0 = m
    BY <1>0, <1>1
  <2>2. Good(0)
    BY <2>1 DEF Good
  <2> QED BY <2>2
<1>3. ASSUME NEW k \in Nat, k \in S
      PROVE  k + 1 \in S
  <2> SUFFICES ASSUME b + (k + 1) <= n PROVE Good(k + 1)
    OBVIOUS
  <2> DEFINE s == c[b + k]
             p == SaveArea(r, k + 1)
  <2>1. b + k + 1 <= n /\ b + (k + 1) = b + k + 1 /\ b + k <= n /\ b + k \in 0 .. n
    BY <1>0
  <2>2. /\ Len(s) = m + k
        /\ \A j \in 1 .. m : s[j] = c[b][j]
        /\ \A j \in 1 .. k : s[m + j] = SaveArea(r, j)
    BY <1>3, <2>1 DEF Good
  <2>3. IsSeq(s)
    BY <1>p, <2>1 DEF Pages
  <2> DEFINE t == <<p>>
  <2>4. c[b + (k + 1)] = Join(s, t)
    BY <1>s, <2>1
  <2>5. /\ Len(Join(s, t)) = Len(s) + 1 /\ Join(s, t)[Len(s) + 1] = p
        /\ \A j \in DOMAIN s : Join(s, t)[j] = s[j]
    BY <2>3, JoinOne
  <2> HIDE DEF s, p, m, S, t
  <2>6. DOMAIN s = 1 .. m + k
    BY <2>2, <2>3, SeqFacts
  <2>7. Len(Join(s, t)) = m + k + 1 /\ Join(s, t)[m + k + 1] = p
        /\ \A j \in 1 .. m + k : Join(s, t)[j] = s[j]
    BY <2>2, <2>5, <2>6
  <2>8. \A j \in 1 .. m : Join(s, t)[j] = c[b][j]
    BY <1>1, <2>2, <2>7
  <2>9. ASSUME NEW j \in 1 .. k + 1 PROVE Join(s, t)[m + j] = SaveArea(r, j)
    <3>1. CASE j = k + 1
      <4>1. m + j = m + k + 1
        BY <1>1, <3>1
      <4> QED BY <2>7, <3>1, <4>1 DEF p
    <3>2. CASE j # k + 1
      <4>1. j \in 1 .. k /\ m + j \in 1 .. m + k
        BY <1>1, <3>2
      <4> QED BY <2>2, <2>7, <4>1
    <3> QED BY <3>1, <3>2
  <2> QED BY <1>1, <2>4, <2>7, <2>8, <2>9 DEF Good
<1> HIDE DEF S
<1>4. i \in S
  BY <1>2, <1>3, Induction
<1> QED BY <1>4 DEF S, b, Good, SavedAfter

(* The kernels bound are those that some step folded in.                   *)
LEMMA ChainBinds ==
  ASSUME NEW r, Launchable(r), ~LoadFails(r), NEW n \in Nat, NEW c, Chain(r, c, n),
         HashesIn(Loaded(r)) = {}, NEW i \in 0 .. n
  PROVE  HashesIn(c[i]) = {h \in {Hashes(r)} : \E j \in 1 .. i : BindsAt(r, j)}
<1> DEFINE Bound(k) == {h \in {Hashes(r)} : \E j \in 1 .. k : BindsAt(r, j)}
           S == {k \in Nat : k <= n => HashesIn(c[k]) = Bound(k)}
<1>1. 0 \in S
  BY DEF Chain
<1>2. ASSUME NEW k \in Nat, k \in S
      PROVE  k + 1 \in S
  <2> SUFFICES ASSUME k + 1 <= n PROVE HashesIn(c[k + 1]) = Bound(k + 1)
    OBVIOUS
  <2> DEFINE new == Piece(r, k + 1)
  <2>1. k <= n /\ k + 1 \in Nat \ {0} /\ k \in 0 .. n
    OBVIOUS
  <2>2. Pages(c[k]) /\ HashesIn(c[k]) = Bound(k)
    BY <1>2, <2>1, ChainPages
  <2>3. Pages(new) /\ HashesIn(new) = IF BindsAt(r, k + 1) THEN {Hashes(r)} ELSE {}
    BY <2>1, PieceIs
  <2>4. c[k + 1] = Join(c[k], new)
    BY ChainStep
  <2> HIDE DEF new, S
  <2>5. HashesIn(c[k + 1]) = Bound(k) \cup HashesIn(new)
    BY <2>2, <2>3, <2>4, JoinPages
  <2>6. 1 .. k + 1 = (1 .. k) \cup {k + 1}
    OBVIOUS
  <2>7. Bound(k + 1) = Bound(k) \cup IF BindsAt(r, k + 1) THEN {Hashes(r)} ELSE {}
    BY <2>6
  <2> QED BY <2>3, <2>5, <2>7
<1> HIDE DEF S
<1>3. i \in S
  BY <1>1, <1>2, Induction
<1> QED BY <1>3 DEF S

-----------------------------------------------------------------------------
(* What a digest is of, and that it is of nothing else.                    *)

(* m pages of the guest's memory, then its CPUs.                           *)
Shape(r, d, m) ==
  /\ m \in Nat /\ Len(d) = m + CpusOf(r)
  /\ \A i \in 1 .. m : d[i].type # "vmsa"
  /\ \A i \in 1 .. CpusOf(r) : d[m + i] = SaveArea(r, i)
  /\ r.mode \in {"sev", "sev-es"} => m = Len(Loaded(r))

LEMMA SevBeforeCpus ==
  ASSUME NEW r, r.mode \in {"sev", "sev-es"}
  PROVE  BeforeCpus(r) = 0
<1>1. LaunchSections(r) = <<>> /\ ~FoldsLateCpuid(r)
  BY DEF LaunchSections, FoldsLateCpuid
<1>2. Len(LaunchSections(r)) = 0
  BY <1>1, EmptyFacts
<1>3. LateSteps(r) = 0
  BY <1>1 DEF LateSteps
<1> QED BY <1>2, <1>3 DEF BeforeCpus

LEMMA DigestShape ==
  ASSUME NEW r, Launchable(r), ~LoadFails(r), OwnFirmware(r), NEW d, Folded(r, Steps(r), d)
  PROVE  /\ IsSeq(d) /\ \E m \in Nat : Shape(r, d, m)
         /\ \A i \in DOMAIN Loaded(r) : i \in DOMAIN d /\ d[i] = Loaded(r)[i]
         /\ r.mode \in {"snp", "snp:svsm"} =>
              HashesIn(d) = {h \in {Hashes(r)} : \E i \in 1 .. Steps(r) : BindsAt(r, i)}
<1> DEFINE b == BeforeCpus(r)
           k == CpusOf(r)
           n == Steps(r)
<1>1. PICK c : Chain(r, c, n) /\ c[n] = d
  BY DEF Folded
<1>2. b \in Nat /\ k \in Nat /\ n \in Nat /\ n = b + k /\ b <= n /\ b \in 0 .. n /\ n \in 0 .. n
  BY LaunchSectionsAre
<1>3. Pages(d) /\ \A i \in DOMAIN Loaded(r) : i \in DOMAIN d /\ d[i] = Loaded(r)[i]
  <2> HIDE DEF n
  <2> QED BY <1>1, <1>2, ChainPages
<1>4. r.mode \in {"snp", "snp:svsm"} =>
        HashesIn(d) = {h \in {Hashes(r)} : \E i \in 1 .. n : BindsAt(r, i)}
  <2> HAVE r.mode \in {"snp", "snp:svsm"}
  <2> HIDE DEF n
  <2>1. HashesIn(Loaded(r)) = {}
    BY LoadedIs
  <2> QED BY <1>1, <1>2, <2>1, ChainBinds
<1>5. Pages(c[b]) /\ NoSaves(c[b])
  <2> HIDE DEF n
  <2> QED BY <1>1, <1>2, ChainPages, ChainNoSaves DEF b
<1> DEFINE m == Len(c[b])
<1>6. m \in Nat /\ DOMAIN c[b] = 1 .. m
  BY <1>5, SeqFacts DEF Pages
<1>7. /\ Len(c[b + k]) = m + k
      /\ \A j \in 1 .. m : c[b + k][j] = c[b][j]
      /\ \A j \in 1 .. k : c[b + k][m + j] = SaveArea(r, j)
  <2>1. BeforeCpus(r) + k <= n /\ n \in Nat /\ k \in Nat
    BY <1>2
  <2>2. Launchable(r) /\ ~LoadFails(r) /\ Chain(r, c, n)
    BY <1>1
  <2> HIDE DEF n, k
  <2>3. SavedAfter(r, c, k)
    BY <2>1, <2>2, ChainSaves
  <2> QED BY <2>3 DEF SavedAfter
<1>8. \A j \in 1 .. m : c[b][j].type # "vmsa"
  BY <1>5, <1>6 DEF NoSaves, ToSet
<1>9. r.mode \in {"sev", "sev-es"} => m = Len(Loaded(r))
  BY <1>1, SevBeforeCpus DEF Chain
<1> HIDE DEF m
<1>10. /\ Len(d) = m + k
       /\ \A j \in 1 .. m : d[j].type # "vmsa"
       /\ \A j \in 1 .. k : d[m + j] = SaveArea(r, j)
  BY <1>1, <1>2, <1>7, <1>8
<1>11. Shape(r, d, m)
  BY <1>6, <1>9, <1>10 DEF Shape
<1> QED BY <1>3, <1>4, <1>6, <1>11 DEF Pages

(* Where the CPUs begin is in the digest.                                  *)
LEMMA ShapeUnique ==
  ASSUME NEW r, NEW q, NEW d, NEW m, NEW l, Shape(r, d, m), Shape(q, d, l),
         CpusOf(r) \in Nat, CpusOf(q) \in Nat
  PROVE  m = l /\ CpusOf(r) = CpusOf(q)
<1> DEFINE j == CpusOf(r)
           k == CpusOf(q)
<1>1. m \in Nat /\ l \in Nat /\ m + j = l + k /\ j \in Nat /\ k \in Nat
  BY DEF Shape
<1>2. \A i \in 1 .. j : d[m + i].type = "vmsa"
  BY SaveAreaIs DEF Shape
<1>3. \A i \in 1 .. k : d[l + i].type = "vmsa"
  BY SaveAreaIs, ZenonT(60) DEF Shape
<1>4. (\A i \in 1 .. m : d[i].type # "vmsa") /\ \A i \in 1 .. l : d[i].type # "vmsa"
  BY DEF Shape
<1> HIDE DEF j, k
<1>5. CASE m < l
  <2>1. 1 \in 1 .. j /\ m + 1 \in 1 .. l
    BY <1>1, <1>5
  <2> QED BY <1>2, <1>4, <2>1
<1>6. CASE l < m
  <2>1. 1 \in 1 .. k /\ l + 1 \in 1 .. m
    BY <1>1, <1>6
  <2> QED BY <1>3, <1>4, <2>1
<1>7. CASE m = l
  BY <1>1, <1>7 DEF j, k
<1> QED BY <1>1, <1>5, <1>6, <1>7

(* What a save area says of the hypervisor and the CPU.                    *)
LEMMA SaveAreaSays ==
  ASSUME NEW r, NEW q, r.mode = q.mode, NEW i, NEW j, SaveArea(r, i) = SaveArea(q, j)
  PROVE  /\ r.vmm = q.vmm /\ (r.vmm = "QEMU" => r.sig = q.sig)
         /\ r.mode = "snp" => r.features = q.features
<1>1. SaveArea(r, i).contents = SaveArea(q, j).contents
  OBVIOUS
<1>2. /\ SaveArea(r, i).contents.vmm = r.vmm /\ SaveArea(r, i).contents.rdx = Rdx(r)
      /\ SaveArea(r, i).contents.features = SevFeatures(r)
  BY DEF SaveArea, PageInfo
<1>3. /\ SaveArea(q, j).contents.vmm = q.vmm /\ SaveArea(q, j).contents.rdx = Rdx(q)
      /\ SaveArea(q, j).contents.features = SevFeatures(q)
  BY DEF SaveArea, PageInfo
<1>4. r.vmm = q.vmm /\ Rdx(r) = Rdx(q) /\ SevFeatures(r) = SevFeatures(q)
  BY <1>1, <1>2, <1>3
<1>5. r.vmm = "QEMU" => Rdx(r) = r.sig /\ Rdx(q) = q.sig
  BY <1>4 DEF Rdx
<1>6. r.mode = "snp" => SevFeatures(r) = r.features /\ SevFeatures(q) = q.features
  BY DEF SevFeatures
<1> QED BY <1>4, <1>5, <1>6

(* A launch that was measured.                                             *)
Finished(x) ==
  /\ Launchable(x.req) /\ ~LoadFails(x.req) /\ ~CpusFail(x.req)
  /\ Folded(x.req, Steps(x.req), x.ld)

KernelInputs(r) ==
  IF HashesKernel(r) THEN <<r.kernel, Given(r.initrd), Given(r.append)>> ELSE <<>>

LEMMA HashesAre ==
  ASSUME NEW r
  PROVE  /\ Hashes(r).kernel = r.kernel /\ Hashes(r).initrd = Given(r.initrd)
         /\ Hashes(r).cmdline = Given(r.append)
         /\ Hashes(r) = [kernel |-> r.kernel, initrd |-> Given(r.initrd),
                         cmdline |-> Given(r.append)]
BY DEF Hashes, Given

(* A kernel that is asked for is in the digest, or there is none.          *)
LEMMA KernelIsBound ==
  ASSUME NEW x, Finished(x), OwnFirmware(x.req), x.req.mode \in {"snp", "snp:svsm"}
  PROVE  HashesIn(x.ld) = IF HashesKernel(x.req) THEN {Hashes(x.req)} ELSE {}
<1> DEFINE r == x.req
           n == Len(LaunchSections(r))
<1>1. HashesIn(x.ld) = {h \in {Hashes(r)} : \E i \in 1 .. Steps(r) : BindsAt(r, i)}
  BY DigestShape DEF Finished
<1>2. CASE ~HashesKernel(r)
  <2>1. \A i : ~BindsAt(r, i)
    BY <1>2 DEF BindsAt
  <2> QED BY <1>1, <1>2, <2>1
<1>3. CASE HashesKernel(r)
  <2>1. r.mode = "snp" /\ r.kernel # None
    BY <1>3 DEF HashesKernel
  <2>2. HasSection(r.ovmf, "kernel hashes") /\ LaunchSections(r) = Sections[r.ovmf]
    BY <2>1 DEF Finished, CpusFail, LaunchSections, LaunchFile
  <2>3. /\ LaunchSections(r) \in Seq(Section) /\ n \in Nat
        /\ Steps(r) \in Nat /\ n <= Steps(r)
    BY LaunchSectionsAre DEF Finished
  <2>4. DOMAIN LaunchSections(r) = 1 .. n
    BY <2>3, LenProperties
  <2>5. PICK i \in 1 .. n : LaunchSections(r)[i].type = "kernel hashes"
    BY <2>2, <2>4 DEF HasSection, ToSet
  <2>6. i \in 1 .. Steps(r) /\ i <= n
    <3> DEFINE m == Steps(r)
    <3>1. n \in Nat /\ m \in Nat /\ n <= m /\ i \in 1 .. n
      BY <2>3
    <3> HIDE DEF n, m
    <3>2. i \in 1 .. m /\ i <= n
      BY <3>1
    <3> QED BY <3>2 DEF m
  <2>7. BindsAt(r, i)
    BY <1>3, <2>5, <2>6 DEF BindsAt
  <2> QED BY <1>1, <1>3, <2>6, <2>7
<1> QED BY <1>2, <1>3

LEMMA KernelTells ==
  ASSUME NEW r, NEW q, HashesKernel(r) <=> HashesKernel(q),
         HashesKernel(r) => Hashes(r) = Hashes(q)
  PROVE  KernelInputs(r) = KernelInputs(q)
<1>1. CASE HashesKernel(r)
  <2>1. /\ r.kernel = q.kernel /\ Given(r.initrd) = Given(q.initrd)
        /\ Given(r.append) = Given(q.append)
    BY <1>1, HashesAre
  <2> QED BY <1>1, <2>1 DEF KernelInputs
<1>2. CASE ~HashesKernel(r)
  BY <1>2 DEF KernelInputs
<1> QED BY <1>1, <1>2

LEMMA ToldKernel ==
  ASSUME NEW r, NEW q, KernelInputs(r) = KernelInputs(q)
  PROVE  (HashesKernel(r) <=> HashesKernel(q)) /\ (HashesKernel(r) => Hashes(r) = Hashes(q))
<1>1. \A a, b, c : <<a, b, c>> # <<>>
  OBVIOUS
<1>2. HashesKernel(r) <=> HashesKernel(q)
  BY <1>1 DEF KernelInputs
<1>3. ASSUME HashesKernel(r) PROVE Hashes(r) = Hashes(q)
  <2>1. <<r.kernel, Given(r.initrd), Given(r.append)>>
          = <<q.kernel, Given(q.initrd), Given(q.append)>>
    BY <1>2, <1>3 DEF KernelInputs
  <2>2. /\ r.kernel = q.kernel /\ Given(r.initrd) = Given(q.initrd)
        /\ Given(r.append) = Given(q.append)
    BY <2>1
  <2> QED BY <2>2, HashesAre
<1> QED BY <1>2, <1>3

LEMMA InputsAre ==
  ASSUME NEW r
  PROVE  LaunchInputs(r) =
           <<r.mode, r.ovmf, KernelInputs(r), CpusOf(r),
             IF CpusOf(r) > 0 THEN r.vmm ELSE None,
             IF CpusOf(r) > 0 /\ r.vmm = "QEMU" THEN r.sig ELSE 0,
             IF CpusOf(r) > 0 /\ r.mode = "snp" THEN r.features ELSE 0>>
BY DEF LaunchInputs, KernelInputs

(* The same digest, hence the same inputs.                                 *)
LEMMA DigestTells ==
  ASSUME NEW x, NEW y, Finished(x), Finished(y), OwnFirmware(x.req), OwnFirmware(y.req),
         x.ld = y.ld, x.req.mode = y.req.mode
  PROVE  LaunchInputs(x.req) = LaunchInputs(y.req)
<1> DEFINE r == x.req
           q == y.req
           d == x.ld
<1>1. /\ Launchable(r) /\ ~LoadFails(r) /\ Folded(r, Steps(r), d)
      /\ Launchable(q) /\ ~LoadFails(q) /\ Folded(q, Steps(q), d)
      /\ OwnFirmware(r) /\ OwnFirmware(q) /\ r.mode = q.mode /\ r.mode \in Modes
  BY DEF Finished, Launchable
<1>k. r.mode \in {"snp", "snp:svsm"} =>
        /\ HashesIn(d) = IF HashesKernel(r) THEN {Hashes(r)} ELSE {}
        /\ HashesIn(d) = IF HashesKernel(q) THEN {Hashes(q)} ELSE {}
  BY KernelIsBound
<1> HIDE DEF r, q, d
<1>2. PICK m : Shape(r, d, m)
  BY <1>1, DigestShape
<1>3. PICK l : Shape(q, d, l)
  BY <1>1, DigestShape
<1>4. CpusOf(r) \in Nat /\ CpusOf(q) \in Nat
  BY <1>1, LaunchSectionsAre
<1>5. m = l /\ CpusOf(r) = CpusOf(q) /\ m \in Nat
  BY <1>2, <1>3, <1>4, ShapeUnique, SMTT(60) DEF Shape
<1>6. /\ \A i \in DOMAIN Loaded(r) : d[i] = Loaded(r)[i]
      /\ \A i \in DOMAIN Loaded(q) : d[i] = Loaded(q)[i]
  BY <1>1, DigestShape
<1>7. 1 \in DOMAIN Loaded(r) /\ 1 \in DOMAIN Loaded(q)
  BY <1>1, LoadedIs
<1>8. Loaded(r)[1] = Loaded(q)[1]
  BY <1>6, <1>7
<1>9. r.ovmf = q.ovmf /\ KernelInputs(r) = KernelInputs(q)
  <2>1. CASE r.mode \in {"snp", "snp:svsm"}
    <3>1. /\ Loaded(r)[1].contents = [file |-> r.ovmf, page |-> 1]
          /\ Loaded(q)[1].contents = [file |-> q.ovmf, page |-> 1]
      BY <1>1, <2>1, LoadedIs
    <3>2. r.ovmf = q.ovmf
      BY <1>8, <3>1
    <3>3. HashesKernel(r) <=> HashesKernel(q)
      BY <1>k, <2>1
    <3>4. HashesKernel(r) => Hashes(r) = Hashes(q)
      BY <1>k, <2>1, <3>3
    <3> QED BY <3>2, <3>3, <3>4, KernelTells
  <2>2. CASE r.mode \in {"sev", "sev-es"}
    <3>1. q.mode \in {"sev", "sev-es"}
      BY <1>1, <2>2
    <3>s. SevStart(r) /\ SevStart(q)
      BY <2>2, <3>1, SevLoaded
    <3>2. /\ Loaded(r)[1].contents = [file |-> r.ovmf]
          /\ Loaded(q)[1].contents = [file |-> q.ovmf]
      BY <3>s DEF SevStart
    <3>3. r.ovmf = q.ovmf
      BY <1>8, <3>2
    <3>4. Len(Loaded(r)) = Len(Loaded(q))
      BY <1>2, <1>3, <1>5, <2>2, <3>1 DEF Shape
    <3>5. r.kernel = None <=> q.kernel = None
      BY <3>4, <3>s DEF SevStart
    <3>6. ASSUME r.kernel # None PROVE Hashes(r) = Hashes(q)
      <4>1. /\ 2 \in DOMAIN Loaded(r) /\ Loaded(r)[2].contents = Hashes(r)
            /\ 2 \in DOMAIN Loaded(q) /\ Loaded(q)[2].contents = Hashes(q)
        BY <3>5, <3>6, <3>s DEF SevStart
      <4> QED BY <1>6, <4>1
    <3>7. (HashesKernel(r) <=> r.kernel # None) /\ (HashesKernel(q) <=> q.kernel # None)
      BY <2>2, <3>1 DEF HashesKernel
    <3>8. (HashesKernel(r) <=> HashesKernel(q)) /\ (HashesKernel(r) => Hashes(r) = Hashes(q))
      BY <3>5, <3>6, <3>7
    <3> QED BY <3>3, <3>8, KernelTells
  <2> QED BY <1>1, <2>1, <2>2 DEF Modes
<1>10. CpusOf(r) > 0 => /\ r.vmm = q.vmm /\ (r.vmm = "QEMU" => r.sig = q.sig)
                        /\ r.mode = "snp" => r.features = q.features
  <2> HAVE CpusOf(r) > 0
  <2> DEFINE k == CpusOf(r)
  <2>1. k \in Nat /\ k > 0 /\ k = CpusOf(q)
    BY <1>4, <1>5
  <2> HIDE DEF k
  <2>2. 1 \in 1 .. k
    BY <2>1
  <2>3. d[m + 1] = SaveArea(r, 1) /\ d[m + 1] = SaveArea(q, 1)
    BY <1>2, <1>3, <1>5, <2>1, <2>2 DEF Shape, k
  <2> QED BY <1>1, <2>3, SaveAreaSays
<1>11. LaunchInputs(r) = LaunchInputs(q)
  BY <1>1, <1>5, <1>9, <1>10, InputsAre
<1> QED BY <1>11 DEF r, q

-----------------------------------------------------------------------------
(* What decides a digest: the inputs, and with an SVSM its file and place. *)
Alike(r, q) ==
  /\ r.mode = q.mode /\ r.ovmf = q.ovmf /\ r.svsm = q.svsm
  /\ r.varsPages = q.varsPages /\ r.vmm = q.vmm
  /\ KernelInputs(r) = KernelInputs(q) /\ CpusOf(r) = CpusOf(q)
  /\ CpusOf(r) > 0 /\ r.vmm = "QEMU" => r.sig = q.sig
  /\ CpusOf(r) > 0 /\ r.mode = "snp" => r.features = q.features

LEMMA AlikeIs ==
  ASSUME NEW r, NEW q, LaunchInputs(r) = LaunchInputs(q), r.svsm = q.svsm,
         r.varsPages = q.varsPages, r.vmm = q.vmm
  PROVE  Alike(r, q)
<1> DEFINE s(z) == IF CpusOf(z) > 0 /\ z.vmm = "QEMU" THEN z.sig ELSE 0
           f(z) == IF CpusOf(z) > 0 /\ z.mode = "snp" THEN z.features ELSE 0
           v(z) == IF CpusOf(z) > 0 THEN z.vmm ELSE None
<1>1. \A z : LaunchInputs(z) = <<z.mode, z.ovmf, KernelInputs(z), CpusOf(z), v(z), s(z), f(z)>>
  BY InputsAre
<1> HIDE DEF s, f, v
<1>2. <<r.mode, r.ovmf, KernelInputs(r), CpusOf(r), v(r), s(r), f(r)>>
        = <<q.mode, q.ovmf, KernelInputs(q), CpusOf(q), v(q), s(q), f(q)>>
  BY <1>1
<1>3. /\ r.mode = q.mode /\ r.ovmf = q.ovmf /\ KernelInputs(r) = KernelInputs(q)
      /\ CpusOf(r) = CpusOf(q) /\ s(r) = s(q) /\ f(r) = f(q)
  BY <1>2
<1>4. CpusOf(r) > 0 /\ r.vmm = "QEMU" => r.sig = q.sig
  BY <1>3 DEF s
<1>5. CpusOf(r) > 0 /\ r.mode = "snp" => r.features = q.features
  BY <1>3 DEF f
<1> QED BY <1>3, <1>4, <1>5 DEF Alike

LEMMA AlikeLoaded ==
  ASSUME NEW r, NEW q, Alike(r, q), Launchable(r), Launchable(q), OwnFirmware(r), OwnFirmware(q)
  PROVE  Loaded(r) = Loaded(q)
<1>1. r.mode = q.mode /\ r.ovmf = q.ovmf /\ r.svsm = q.svsm /\ r.varsPages = q.varsPages
  BY DEF Alike
<1>2. CASE r.mode = "snp:svsm"
  <2>1. SvsmEnd(r) = SvsmEnd(q)
    BY <1>1 DEF SvsmEnd
  <2>2. Loaded(r) = FilePages(r.ovmf, FourGB) \o FilePages(r.svsm, SvsmEnd(r))
    BY <1>2 DEF Loaded, OwnPages
  <2>3. Loaded(q) = FilePages(q.ovmf, FourGB) \o FilePages(q.svsm, SvsmEnd(q))
    BY <1>1, <1>2 DEF Loaded, OwnPages
  <2> QED BY <1>1, <2>1, <2>2, <2>3
<1>3. CASE r.mode = "snp"
  <2>1. Loaded(r) = OvmfHash(r.ovmf)
    BY <1>3 DEF Loaded, OwnPages, OwnFirmware, OvmfHash
  <2>2. Loaded(q) = OvmfHash(q.ovmf)
    BY <1>1, <1>3 DEF Loaded, OwnPages, OwnFirmware, OvmfHash
  <2> QED BY <1>1, <2>1, <2>2
<1>4. CASE r.mode \in {"sev", "sev-es"}
  <2>1. (HashesKernel(r) <=> HashesKernel(q)) /\ (HashesKernel(r) => Hashes(r) = Hashes(q))
    BY ToldKernel DEF Alike
  <2>2. q.mode \in {"sev", "sev-es"}
    BY <1>1, <1>4
  <2>3. (HashesKernel(r) <=> r.kernel # None) /\ (HashesKernel(q) <=> q.kernel # None)
    BY <1>4, <2>2 DEF HashesKernel
  <2>4. Loaded(r) = <<Bytes("data", [file |-> r.ovmf])>>
                      \o (IF HashesKernel(r) THEN <<Bytes("table", Hashes(r))>> ELSE <<>>)
    BY <1>4, <2>3 DEF Loaded, OwnPages
  <2>5. Loaded(q) = <<Bytes("data", [file |-> q.ovmf])>>
                      \o (IF HashesKernel(q) THEN <<Bytes("table", Hashes(q))>> ELSE <<>>)
    BY <2>2, <2>3 DEF Loaded, OwnPages
  <2> QED BY <1>1, <2>1, <2>4, <2>5
<1> QED BY <1>2, <1>3, <1>4 DEF Launchable, Modes

LEMMA AlikeSections ==
  ASSUME NEW r, NEW q, Alike(r, q)
  PROVE  /\ LaunchSections(r) = LaunchSections(q) /\ LaunchFile(r) = LaunchFile(q)
         /\ LateSteps(r) = LateSteps(q) /\ BeforeCpus(r) = BeforeCpus(q)
         /\ Steps(r) = Steps(q)
<1>1. r.mode = q.mode /\ r.ovmf = q.ovmf /\ r.svsm = q.svsm /\ r.vmm = q.vmm
      /\ CpusOf(r) = CpusOf(q)
  BY DEF Alike
<1>2. LaunchFile(r) = LaunchFile(q)
  BY <1>1 DEF LaunchFile
<1>3. LaunchSections(r) = LaunchSections(q)
  BY <1>1, <1>2 DEF LaunchSections
<1>4. LateSteps(r) = LateSteps(q)
  BY <1>1, <1>3 DEF LateSteps, FoldsLateCpuid
<1>5. BeforeCpus(r) = BeforeCpus(q)
  BY <1>3, <1>4 DEF BeforeCpus
<1> QED BY <1>1, <1>2, <1>3, <1>4, <1>5 DEF Steps

LEMMA AlikePages ==
  ASSUME NEW r, NEW q, Alike(r, q), NEW s
  PROVE  SectionPages(r, s) = SectionPages(q, s)
<1>1. r.vmm = q.vmm /\ r.ovmf = q.ovmf
  BY DEF Alike
<1>2. (HashesKernel(r) <=> HashesKernel(q)) /\ (HashesKernel(r) => Hashes(r) = Hashes(q))
  BY ToldKernel DEF Alike
<1>3. HashOffset(r) = HashOffset(q)
  BY <1>1 DEF HashOffset
<1>4. CASE s.type = "kernel hashes" /\ HashesKernel(r)
  <2>1. SectionPages(r, s) =
          <<PageInfo("normal", s.gpa, [hashes |-> Hashes(r), offset |-> HashOffset(r)])>>
    BY <1>4 DEF SectionPages
  <2>2. SectionPages(q, s) =
          <<PageInfo("normal", s.gpa, [hashes |-> Hashes(q), offset |-> HashOffset(q)])>>
    BY <1>2, <1>4 DEF SectionPages
  <2> QED BY <1>2, <1>3, <1>4, <2>1, <2>2
<1>5. CASE ~(s.type = "kernel hashes" /\ HashesKernel(r))
  BY <1>1, <1>2, <1>5 DEF SectionPages
<1> QED BY <1>4, <1>5

LEMMA AlikeAreas ==
  ASSUME NEW r, NEW q, Alike(r, q), Launchable(r), CpusOf(r) > 0, NEW cpu
  PROVE  SaveArea(r, cpu) = SaveArea(q, cpu)
<1>1. /\ r.mode = q.mode /\ r.ovmf = q.ovmf /\ r.svsm = q.svsm /\ r.vmm = q.vmm
      /\ r.varsPages = q.varsPages
      /\ r.vmm = "QEMU" => r.sig = q.sig
      /\ r.mode = "snp" => r.features = q.features
  BY DEF Alike
<1>2. Rdx(r) = Rdx(q)
  BY <1>1 DEF Rdx, Launchable, Vmms
<1>3. r.mode # "sev"
  BY DEF CpusOf
<1>4. SevFeatures(r) = SevFeatures(q)
  BY <1>1, <1>3 DEF SevFeatures, Launchable, Modes
<1>5. LaunchFile(r) = LaunchFile(q) /\ ResetGuid(r) = ResetGuid(q) /\ SvsmEnd(r) = SvsmEnd(q)
  BY <1>1 DEF LaunchFile, ResetGuid, SvsmEnd
<1>6. Eip(r, cpu) = Eip(q, cpu)
  BY <1>1, <1>5 DEF Eip
<1> QED BY <1>1, <1>2, <1>4, <1>6 DEF SaveArea

(* The same inputs, hence the same digest.                                 *)
LEMMA InputsTell ==
  ASSUME NEW x, NEW y, Finished(x), Finished(y), OwnFirmware(x.req), OwnFirmware(y.req),
         Alike(x.req, y.req)
  PROVE  x.ld = y.ld
<1> DEFINE r == x.req
           q == y.req
<1>1. /\ Launchable(r) /\ ~LoadFails(r) /\ Folded(r, Steps(r), x.ld)
      /\ Launchable(q) /\ ~LoadFails(q) /\ Folded(q, Steps(q), y.ld)
      /\ OwnFirmware(r) /\ OwnFirmware(q) /\ Alike(r, q)
  BY DEF Finished
<1> HIDE DEF r, q
<1>2. /\ LaunchSections(r) = LaunchSections(q) /\ BeforeCpus(r) = BeforeCpus(q)
      /\ Steps(r) = Steps(q)
  BY <1>1, AlikeSections
<1>3. Loaded(r) = Loaded(q)
  BY <1>1, AlikeLoaded
<1> DEFINE n == Steps(r)
           b == BeforeCpus(r)
           k == CpusOf(r)
<1>4. n \in Nat /\ b \in Nat /\ k \in Nat /\ n = b + k /\ Len(LaunchSections(r)) \in Nat
      /\ Len(LaunchSections(r)) <= b
  BY <1>1, LaunchSectionsAre
<1>5. ASSUME NEW i \in 1 .. n
      PROVE  Piece(r, i) = Piece(q, i)
  <2>1. CASE i <= Len(LaunchSections(r))
    <3>1. Piece(r, i) = SectionPages(r, LaunchSections(r)[i])
      BY <2>1 DEF Piece
    <3>2. Piece(q, i) = SectionPages(q, LaunchSections(r)[i])
      BY <1>2, <2>1 DEF Piece
    <3> QED BY <1>1, <3>1, <3>2, AlikePages
  <2>2. CASE ~(i <= Len(LaunchSections(r))) /\ i <= BeforeCpus(r)
    BY <1>2, <2>2 DEF Piece
  <2>3. CASE ~(i <= Len(LaunchSections(r))) /\ ~(i <= BeforeCpus(r))
    <3>1. Piece(r, i) = <<SaveArea(r, i - BeforeCpus(r))>>
      BY <2>3 DEF Piece
    <3>2. Piece(q, i) = <<SaveArea(q, i - BeforeCpus(r))>>
      BY <1>2, <2>3 DEF Piece
    <3>3. i \in 1 .. n /\ ~(i <= b)
      BY <1>5, <2>3
    <3> HIDE DEF n, b, k
    <3>4. k > 0
      BY <1>4, <3>3
    <3>5. SaveArea(r, i - BeforeCpus(r)) = SaveArea(q, i - BeforeCpus(r))
      BY <1>1, <3>4, AlikeAreas DEF k
    <3> QED BY <3>1, <3>2, <3>5
  <2> QED BY <2>1, <2>2, <2>3
<1>6. Folded(r, n, x.ld) /\ Folded(q, n, y.ld)
  BY <1>1, <1>2
<1> HIDE DEF n
<1> QED BY <1>3, <1>4, <1>5, <1>6, FoldedSame

LEMMA FinishedTell ==
  ASSUME \A x \in done : Finished(x)
  PROVE  DigestIsOfInputs
<1> SUFFICES ASSUME NEW a \in done, NEW b \in done, OwnFirmware(a.req), OwnFirmware(b.req)
             PROVE  /\ (a.ld = b.ld /\ a.req.mode = b.req.mode) =>
                         LaunchInputs(a.req) = LaunchInputs(b.req)
                    /\ (LaunchInputs(a.req) = LaunchInputs(b.req) /\ a.req.svsm = b.req.svsm
                        /\ a.req.varsPages = b.req.varsPages /\ a.req.vmm = b.req.vmm) =>
                         a.ld = b.ld
  BY DEF DigestIsOfInputs
<1>1. Finished(a) /\ Finished(b)
  OBVIOUS
<1> QED BY <1>1, DigestTells, AlikeIs, InputsTell

-----------------------------------------------------------------------------
(* Where a launch is, its digest is folded up to there.                    *)
LaunchInv ==
  /\ stage \in Stages /\ at \in Nat /\ Pages(ld)
  /\ stage # "idle" => Launchable(req)
  /\ stage \in {"sections", "late cpuid", "cpus", "measured"} => ~LoadFails(req) /\ at # 0
  /\ stage = "sections" =>
       at <= Len(LaunchSections(req)) + 1 /\ Folded(req, at - 1, ld)
  /\ stage = "late cpuid" =>
       /\ FoldsLateCpuid(req) /\ at <= Len(LaunchSections(req)) + 1
       /\ Folded(req, Len(LaunchSections(req)) + (at - 1), ld)
  /\ stage = "cpus" =>
       /\ ~CpusFail(req) /\ at <= CpusOf(req) + 1
       /\ Folded(req, BeforeCpus(req) + (at - 1), ld)
  /\ stage = "measured" => ~CpusFail(req) /\ Folded(req, Steps(req), ld)
  /\ \A x \in done : Finished(x)

LEMMA FoldedPages ==
  ASSUME NEW r, Launchable(r), ~LoadFails(r), NEW n \in Nat, NEW d, Folded(r, n, d)
  PROVE  Pages(d)
<1>1. PICK c : Chain(r, c, n) /\ c[n] = d
  BY DEF Folded
<1>2. n \in 0 .. n
  OBVIOUS
<1> QED BY <1>1, <1>2, ChainPages

(* One piece more.                                                         *)
LEMMA FoldOn ==
  ASSUME NEW r, Launchable(r), ~LoadFails(r), NEW n \in Nat, NEW d, Folded(r, n, d),
         NEW e, e = Join(d, Piece(r, n + 1))
  PROVE  Folded(r, n + 1, e) /\ Pages(e)
<1>1. Folded(r, n + 1, e)
  BY FoldedStep
<1>2. n + 1 \in Nat
  OBVIOUS
<1> QED BY <1>1, <1>2, FoldedPages

LEMMA BeginFolds ==
  ASSUME LaunchInv, NEW r, Launchable(r), Begin(r)
  PROVE  LaunchInv'
BY NoPages DEF LaunchInv, Begin, Stages

LEMMA LoadFolds ==
  ASSUME LaunchInv, Load
  PROVE  LaunchInv'
<1>1. /\ Launchable(req) /\ ~LoadFails(req) /\ ld' = Loaded(req) /\ stage' = "sections"
      /\ at' = 1 /\ UNCHANGED <<req, done>> /\ \A x \in done : Finished(x)
  BY DEF LaunchInv, Load
<1>2. Pages(Loaded(req)) /\ Folded(req, 0, Loaded(req)) /\ Len(LaunchSections(req)) \in Nat
  BY <1>1, LoadedIs, FoldedStart, LaunchSectionsAre
<1> DEFINE n == Len(LaunchSections(req))
<1>3. at' \in Nat /\ at' # 0 /\ at' - 1 = 0 /\ at' <= n + 1
  <2> HIDE DEF n
  <2>1. n \in Nat
    BY <1>2 DEF n
  <2> QED BY <1>1, <2>1
<1> HIDE DEF n
<1>4. Folded(req, at' - 1, ld') /\ Pages(ld')
  BY <1>1, <1>2, <1>3
<1> QED BY <1>1, <1>3, <1>4 DEF LaunchInv, n, Stages

LEMMA FoldSectionFolds ==
  ASSUME LaunchInv, FoldSection
  PROVE  LaunchInv'
<1> DEFINE n == Len(LaunchSections(req))
<1>1. /\ Launchable(req) /\ ~LoadFails(req) /\ at \in Nat /\ at # 0 /\ at <= n
      /\ Folded(req, at - 1, ld) /\ \A x \in done : Finished(x)
      /\ stage = "sections"
  BY DEF LaunchInv, FoldSection
<1>2. /\ ld' = ld \o SectionPages(req, LaunchSections(req)[at])
      /\ at' = at + 1 /\ UNCHANGED <<req, stage, done>>
  BY DEF FoldSection
<1>3. n \in Nat
  BY <1>1, LaunchSectionsAre
<1>4. ld' = Join(ld, Piece(req, at))
  BY <1>1, <1>2 DEF Join, Piece
<1> DEFINE k == at - 1
<1>5. k \in Nat /\ k + 1 = at /\ at' - 1 = at /\ at' <= n + 1 /\ at' \in Nat /\ at' # 0
  BY <1>1, <1>2, <1>3
<1> HIDE DEF k, n
<1>6. Folded(req, k, ld)
  BY <1>1 DEF k
<1>7. Folded(req, k + 1, ld') /\ Pages(ld')
  BY <1>1, <1>4, <1>5, <1>6, FoldOn
<1>8. Folded(req, at' - 1, ld')
  BY <1>5, <1>7
<1> QED BY <1>1, <1>2, <1>5, <1>7, <1>8 DEF LaunchInv, n, Stages

LEMMA SectionsEndFolds ==
  ASSUME LaunchInv, SectionsEnd
  PROVE  LaunchInv'
<1> DEFINE n == Len(LaunchSections(req))
<1>1. /\ Launchable(req) /\ ~LoadFails(req) /\ at \in Nat /\ at > n /\ at <= n + 1
      /\ Folded(req, at - 1, ld) /\ Pages(ld) /\ \A x \in done : Finished(x)
      /\ FoldsLateCpuid(req) /\ stage' = "late cpuid" /\ at' = 1
      /\ UNCHANGED <<req, ld, done>>
  BY DEF LaunchInv, SectionsEnd
<1>2. n \in Nat
  BY <1>1, LaunchSectionsAre
<1> HIDE DEF n
<1>3. /\ at - 1 = n /\ n + (at' - 1) = n
      /\ at' \in Nat /\ at' # 0 /\ at' <= n + 1
  <2>1. at \in Nat /\ at > n /\ at <= n + 1 /\ at' = 1
    BY <1>1 DEF n
  <2> QED BY <1>2, <2>1
<1>4. Folded(req, n + (at' - 1), ld')
  BY <1>1, <1>3
<1> QED BY <1>1, <1>3, <1>4 DEF LaunchInv, n, Stages

LEMMA FoldLateCpuidFolds ==
  ASSUME LaunchInv, FoldLateCpuid
  PROVE  LaunchInv'
<1> DEFINE n == Len(LaunchSections(req))
           s == LaunchSections(req)[at]
<1>1. /\ Launchable(req) /\ ~LoadFails(req) /\ at \in Nat /\ at # 0 /\ at <= n
      /\ Folded(req, n + (at - 1), ld) /\ \A x \in done : Finished(x)
      /\ Pages(ld) /\ stage = "late cpuid" /\ FoldsLateCpuid(req)
  BY DEF LaunchInv, FoldLateCpuid
<1>2. /\ ld' = IF s.type = "cpuid" THEN ld \o Unhashed("cpuid", s.gpa, 1) ELSE ld
      /\ at' = at + 1 /\ UNCHANGED <<req, stage, done>>
  BY DEF FoldLateCpuid
<1>3. n \in Nat /\ LateSteps(req) = n /\ BeforeCpus(req) = n + n
  BY <1>1, LaunchSectionsAre DEF LateSteps
<1>4. ld' = Join(ld, LatePages(s))
  <2>1. IsSeq(ld)
    BY <1>1 DEF Pages
  <2>2. Join(ld, <<>>) = ld
    BY <2>1, ConcatEmptySeq DEF Join, IsSeq
  <2> QED BY <1>2, <2>2 DEF Join, LatePages
<1> DEFINE k == n + (at - 1)
<1>5. k \in Nat /\ k + 1 = n + at /\ n + (at' - 1) = n + at /\ at' <= n + 1 /\ at' \in Nat
      /\ at' # 0 /\ ~(n + at <= n) /\ n + at <= n + n /\ (n + at) - n = at
  <2>1. n \in Nat /\ at \in Nat /\ at # 0 /\ at <= n /\ at' = at + 1
    BY <1>1, <1>2, <1>3
  <2> HIDE DEF n, s
  <2> QED BY <2>1
<1>6. Piece(req, n + at) = LatePages(s)
  BY <1>3, <1>5 DEF Piece
<1>7. Folded(req, k, ld) /\ ld' = Join(ld, Piece(req, k + 1))
  BY <1>1, <1>4, <1>5, <1>6
<1> HIDE DEF k, n, s
<1>8. Folded(req, k + 1, ld') /\ Pages(ld')
  BY <1>1, <1>5, <1>7, FoldOn
<1>9. Folded(req, n + (at' - 1), ld')
  BY <1>5, <1>8
<1> QED BY <1>1, <1>2, <1>5, <1>8, <1>9 DEF LaunchInv, n, Stages

LEMMA StartCpusFolds ==
  ASSUME LaunchInv, StartCpus
  PROVE  LaunchInv'
<1> DEFINE n == Len(LaunchSections(req))
           b == BeforeCpus(req)
<1>1. /\ Launchable(req) /\ ~LoadFails(req) /\ at \in Nat /\ at > n /\ at <= n + 1
      /\ ~CpusFail(req) /\ Pages(ld) /\ \A x \in done : Finished(x)
      /\ stage' = "cpus" /\ at' = 1 /\ UNCHANGED <<req, ld, done>>
  BY DEF LaunchInv, StartCpus, PagesEnd
<1>2. n \in Nat /\ b = n + LateSteps(req) /\ CpusOf(req) \in Nat /\ b \in Nat
  BY <1>1, LaunchSectionsAre
<1>3. at - 1 = n /\ b + (1 - 1) = b
  BY <1>1, <1>2
<1>4. Folded(req, b, ld)
  <2>1. CASE stage = "sections"
    <3>1. ~FoldsLateCpuid(req) /\ Folded(req, at - 1, ld)
      BY <2>1 DEF LaunchInv, StartCpus, PagesEnd
    <3>2. b = n
      BY <1>2, <3>1 DEF LateSteps
    <3> QED BY <1>3, <3>1, <3>2
  <2>2. CASE stage = "late cpuid"
    <3>1. FoldsLateCpuid(req) /\ Folded(req, n + (at - 1), ld)
      BY <2>2 DEF LaunchInv, StartCpus, PagesEnd
    <3>2. b = n + n
      BY <1>2, <3>1 DEF LateSteps
    <3> QED BY <1>3, <3>1, <3>2
  <2> QED BY <2>1, <2>2 DEF StartCpus, PagesEnd
<1> HIDE DEF n, b
<1> DEFINE c == CpusOf(req)
<1>5. at' \in Nat /\ at' # 0 /\ b + (at' - 1) = b /\ at' <= c + 1
  <2> HIDE DEF c
  <2>1. c \in Nat
    BY <1>2 DEF c
  <2> QED BY <1>1, <1>2, <2>1
<1> HIDE DEF c
<1>6. Folded(req, b + (at' - 1), ld')
  BY <1>1, <1>4, <1>5
<1> QED BY <1>1, <1>5, <1>6 DEF LaunchInv, b, c, Stages

LEMMA SaveCpuFolds ==
  ASSUME LaunchInv, SaveCpu
  PROVE  LaunchInv'
<1> DEFINE b == BeforeCpus(req)
           c == CpusOf(req)
<1>1. /\ Launchable(req) /\ ~LoadFails(req) /\ ~CpusFail(req) /\ at \in Nat /\ at # 0 /\ at <= c
      /\ Folded(req, b + (at - 1), ld) /\ \A x \in done : Finished(x)
      /\ Pages(ld) /\ stage = "cpus"
  BY DEF LaunchInv, SaveCpu
<1>2. /\ ld' = Append(ld, SaveArea(req, at))
      /\ at' = at + 1 /\ UNCHANGED <<req, stage, done>>
  BY DEF SaveCpu
<1>3. b \in Nat /\ c \in Nat /\ Len(LaunchSections(req)) \in Nat
      /\ Len(LaunchSections(req)) <= b
  BY <1>1, LaunchSectionsAre
<1>4. ld' = Join(ld, <<SaveArea(req, at)>>)
  BY <1>1, <1>2, AppendOne DEF Join, Pages
<1> DEFINE k == b + (at - 1)
<1>5. k \in Nat /\ k + 1 = b + at /\ b + (at' - 1) = b + at /\ at' <= c + 1 /\ at' \in Nat
      /\ at' # 0 /\ ~(b + at <= b) /\ ~(b + at <= Len(LaunchSections(req))) /\ (b + at) - b = at
  BY <1>1, <1>2, <1>3, SMTT(60)
<1>6. Piece(req, b + at) = <<SaveArea(req, at)>>
  BY <1>5 DEF Piece
<1>7. Folded(req, k, ld) /\ ld' = Join(ld, Piece(req, k + 1))
  BY <1>1, <1>4, <1>5, <1>6
<1> HIDE DEF k, b, c
<1>8. Folded(req, k + 1, ld') /\ Pages(ld')
  BY <1>1, <1>5, <1>7, FoldOn
<1>9. Folded(req, b + (at' - 1), ld')
  BY <1>5, <1>8
<1> QED BY <1>1, <1>2, <1>5, <1>8, <1>9 DEF LaunchInv, b, c, Stages

LEMMA MeasuredFolds ==
  ASSUME LaunchInv, Measured
  PROVE  LaunchInv'
<1> DEFINE b == BeforeCpus(req)
           c == CpusOf(req)
           x == [req |-> req, ld |-> ld]
<1>1. /\ Launchable(req) /\ ~LoadFails(req) /\ ~CpusFail(req) /\ at \in Nat /\ at # 0
      /\ at > c /\ at <= c + 1
      /\ Folded(req, b + (at - 1), ld) /\ Pages(ld) /\ (\A y \in done : Finished(y))
      /\ stage' = "measured" /\ done' = done \cup {x} /\ UNCHANGED <<req, ld, at>>
  BY DEF LaunchInv, Measured
<1>2. b \in Nat /\ c \in Nat /\ Steps(req) = b + c
  BY <1>1, LaunchSectionsAre
<1>3. at - 1 = c
  BY <1>1, <1>2
<1>4. Folded(req, Steps(req), ld)
  BY <1>1, <1>2, <1>3
<1>5. Finished(x)
  BY <1>1, <1>4 DEF Finished
<1> HIDE DEF x, b, c
<1>6. \A y \in done' : Finished(y)
  BY <1>1, <1>5
<1> QED BY <1>1, <1>4, <1>6 DEF LaunchInv, Stages

LEMMA ReturnFolds ==
  ASSUME LaunchInv, Return
  PROVE  LaunchInv'
BY NoPages DEF LaunchInv, Return, Stages

LEMMA LaunchingFolds ==
  ASSUME LaunchInv, Launching
  PROVE  LaunchInv'
<1>1. CASE Load          BY <1>1, LoadFolds
<1>2. CASE FoldSection   BY <1>2, FoldSectionFolds
<1>3. CASE SectionsEnd   BY <1>3, SectionsEndFolds
<1>4. CASE FoldLateCpuid BY <1>4, FoldLateCpuidFolds
<1>5. CASE StartCpus     BY <1>5, StartCpusFolds
<1>6. CASE SaveCpu       BY <1>6, SaveCpuFolds
<1>7. CASE Measured      BY <1>7, MeasuredFolds
<1>8. CASE Refuse
  BY <1>8 DEF LaunchInv, Refuse, PagesEnd, Stages
<1> QED
  BY <1>1, <1>2, <1>3, <1>4, <1>5, <1>6, <1>7, <1>8 DEF Launching

LEMMA RestFolds ==
  ASSUME LaunchInv, UNCHANGED launchVars
  PROVE  LaunchInv'
BY DEF LaunchInv, launchVars

LEMMA LaunchInit0 ==
  ASSUME LaunchInit
  PROVE  LaunchInv
BY NoPages DEF LaunchInit, LaunchInv, Stages

LEMMA CallersLaunch ==
  ASSUME KernelInv, NEW k \in DOMAIN Cpus, StartCpu(k)
  PROVE  Launchable(CpuRequest(k))
<1> DEFINE r == CpuRequest(k)
<1>1. disk["snp ovmf"] \in DOMAIN Firmware
  BY DEF StartCpu, KernelInv, OvmfOK
<1>2. /\ r.mode = "snp" /\ r.vmm = "QEMU" /\ r.vcpus = 1 /\ r.ovmf = disk["snp ovmf"]
      /\ r.seed = None /\ r.svsm = None /\ r.varsPages = 0
  BY DEF CpuRequest
<1> HIDE DEF r
<1>3. r.mode \in Modes /\ r.vmm \in Vmms
  BY <1>2 DEF Modes, Vmms
<1>4. r.ovmf \in DOMAIN Firmware /\ r.svsm \in DOMAIN Firmware \cup {None}
  BY <1>1, <1>2
<1>5. r.vcpus \in Nat /\ r.varsPages \in Nat
  <2>1. r.vcpus = 1 /\ r.varsPages = 0 /\ 1 \in Nat /\ 0 \in Nat
    BY <1>2
  <2> QED BY <2>1, Zenon
<1>6. Launchable(r)
  BY <1>2, <1>3, <1>4, <1>5 DEF Launchable
<1> QED BY <1>6 DEF r

LEMMA LibrariesLaunch ==
  ASSUME NEW r \in Requests
  PROVE  Launchable(r)
BY RequestAssumption DEF Launchable, IsSeq

LEMMA LaunchNextFolds ==
  ASSUME KernelInv, LaunchInv, [Next]_vars
  PROVE  LaunchInv'
<1>1. CASE UNCHANGED launchVars
  BY <1>1, RestFolds
<1>2. CASE \E k \in DOMAIN Cpus : StartCpu(k)
  <2>1. PICK k \in DOMAIN Cpus : StartCpu(k)
    BY <1>2
  <2>2. Launchable(CpuRequest(k)) /\ Begin(CpuRequest(k))
    BY <2>1, CallersLaunch DEF StartCpu
  <2> QED BY <2>2, BeginFolds
<1>3. CASE StartLibrary
  <2>1. PICK r \in Requests : Begin(r)
    BY <1>3 DEF StartLibrary
  <2> QED BY <2>1, LibrariesLaunch, BeginFolds
<1>4. CASE LaunchStep
  BY <1>4, LaunchingFolds DEF LaunchStep
<1>5. CASE \E k \in DOMAIN Cpus : CpuDone(k)
  BY <1>5, ReturnFolds DEF CpuDone
<1>6. CASE LibraryDone
  BY <1>6, ReturnFolds DEF LibraryDone
<1>7. CASE Start BY <1>1, <1>7 DEF Start, launchVars
<1>8. CASE NoOvmf("LAUNCH_DIGEST") \/ NoOvmf("MRTD") BY <1>1, <1>8 DEF NoOvmf
<1>9. CASE \E f \in FileNames : ReadFile(f) BY <1>1, <1>9 DEF ReadFile
<1>10. CASE \E k \in DOMAIN Cpus : NoFirmware(k) BY <1>1, <1>10 DEF NoFirmware
<1>11. CASE \E m \in Registers : MeasureTdx(m) BY <1>1, <1>11 DEF MeasureTdx
<1>12. CASE Finish BY <1>1, <1>12 DEF Finish, launchVars
<1>13. CASE \E f \in FileNames : Replace(f) BY <1>1, <1>13 DEF Replace, launchVars
<1>14. CASE UNCHANGED vars BY <1>1, <1>14 DEF vars
<1>15. CASE AllDone BY <1>1, <1>15 DEF AllDone, vars
<1> QED
  BY <1>2, <1>3, <1>4, <1>5, <1>6, <1>7, <1>8, <1>9, <1>10, <1>11, <1>12, <1>13, <1>14, <1>15
     DEF Next, Proceed

(* Equal launch digests (snp_calc_, svsm_calc_, seves_calc_ and            *)
(* sev_calc_launch_digest) are of the same firmware, kernel, initrd,       *)
(* command line, CPUs, CPU model and features, and equal inputs give equal *)
(* digests, whatever the firmware, its sections and the requests are.      *)
THEOREM DigestsAreOfInputs == Spec => []DigestIsOfInputs
<1> DEFINE Inv == KernelInv /\ LaunchInv
<1>1. Init => Inv
  BY KernelInit, LaunchInit0 DEF Init
<1>2. Inv /\ [Next]_vars => Inv'
  BY KernelNext, LaunchNextFolds
<1>3. Inv => DigestIsOfInputs
  BY FinishedTell DEF LaunchInv
<1> QED
  BY <1>1, <1>2, <1>3, PTL DEF Spec

-----------------------------------------------------------------------------
(* The names and texts of a map, and the commands that there are.          *)
Names == CpuNames \cup Registers \cup {"LAUNCH_DIGEST"}

MapOK ==
  /\ DOMAIN out \subseteq Names
  /\ \A n \in DOMAIN out : IsText(out[n]) => out[n].text \in Texts

CommandOK ==
  /\ cmd = None \/ \E s \in Sessions : <<cmd, config>> \in ToSet(s)
  /\ \E s \in Sessions : ToSet(todo) \subseteq ToSet(s)

CallerTypes == MapOK /\ CommandOK /\ changes \in 0 .. MaxChanges

LEMMA SameMap ==
  ASSUME MapOK, out' = out \/ out' = <<>>
  PROVE  MapOK'
<1>1. CASE out' = out
  BY <1>1 DEF MapOK, Names, CpuNames, Registers, Texts, IsText
<1>2. CASE out' = <<>>
  BY <1>2, EmptyFacts DEF MapOK
<1> QED BY <1>1, <1>2

LEMMA PutMap ==
  ASSUME MapOK, NEW name \in Names, NEW v, NEW rest, Put(name, v, rest),
         IsText(v) => v.text \in Texts
  PROVE  MapOK'
<1>1. /\ DOMAIN out' = DOMAIN out \cup {name}
      /\ out'[name] = v /\ \A n \in DOMAIN out \ {name} : out'[n] = out[n]
  BY PutFacts
<1> QED BY <1>1 DEF MapOK, Names, CpuNames, Registers, Texts, IsText

LEMMA SameCommand ==
  ASSUME CommandOK, cmd' = None \/ UNCHANGED <<cmd, config>>, todo' = todo
  PROVE  CommandOK'
<1>1. cmd' = None \/ \E s \in Sessions : <<cmd', config'>> \in ToSet(s)
  BY DEF CommandOK
<1>2. ToSet(todo)' = ToSet(todo)
  BY DEF ToSet
<1> QED BY <1>1, <1>2 DEF CommandOK

LEMMA TextOf == \A t : Text(t).text = t
BY DEF Text

(* A value is put into the map, or the tool stops.                         *)
LEMMA StepTypes ==
  ASSUME CallerTypes, todo' = todo, changes' = changes,
         UNCHANGED <<cmd, config>> \/ cmd' = None,
         \/ out' \in {out, <<>>}
         \/ \E name \in Names : \E v, rest :
              Put(name, v, rest) /\ (IsText(v) => v.text \in Texts)
  PROVE  CallerTypes'
<1>1. MapOK'
  BY SameMap, PutMap DEF CallerTypes
<1>2. CommandOK'
  BY SameCommand DEF CallerTypes
<1> QED BY <1>1, <1>2 DEF CallerTypes

LEMMA MeasureTdxTypes ==
  ASSUME CallerTypes, NEW m \in Registers, MeasureTdx(m)
  PROVE  CallerTypes'
<1> DEFINE missing == \E f \in Needs(m) : mem[f] = Absent
           v       == IF missing THEN Error ELSE Compute(m)
           text    == IF missing THEN Unread(m)
                      ELSE IF m = "MRTD" THEN "NOT_TDVF_FIRMWARE" ELSE "ERROR"
           rest    == IF m = "MRTD" THEN <<>> ELSE Tail(plan)
<1>1. Stop \/ Put(m, Digest(v), Tail(plan)) \/ Put(m, Text(text), rest)
  BY DEF MeasureTdx
<1>2. text \in Texts
  <2>1. m = "RTMR3" => ~missing
    BY DEF Needs
  <2>2. m # "RTMR3" => Unread(m) \in Texts
    BY DEF Registers, Unread, Texts
  <2>3. {"NOT_TDVF_FIRMWARE", "ERROR"} \subseteq Texts
    BY DEF Texts
  <2> QED BY <2>1, <2>2, <2>3
<1> HIDE DEF text, v, rest
<1>3. m \in Names
  BY DEF Names
<1>4. CASE Stop
  BY <1>4, StepTypes DEF Stop
<1>5. CASE Put(m, Digest(v), Tail(plan))
  <2>1. ~IsText(Digest(v)) /\ UNCHANGED <<cmd, config, todo, changes>>
    BY <1>5, TextsAndDigests DEF Put
  <2> QED BY <1>3, <1>5, <2>1, StepTypes
<1>6. CASE Put(m, Text(text), rest)
  <2>1. Text(text).text \in Texts /\ UNCHANGED <<cmd, config, todo, changes>>
    BY <1>2, <1>6, TextOf DEF Put
  <2> QED BY <1>3, <1>6, <2>1, StepTypes
<1> QED BY <1>1, <1>4, <1>5, <1>6

(* A text or a digest of a CPU model, or of none.                          *)
LEMMA PutTypes ==
  ASSUME CallerTypes, NEW name \in Names, NEW v, NEW rest, Put(name, v, rest),
         (\E d : v = Digest(d)) \/ v \in {Text("ERROR"), Text("REQUIRES_OVMF_PATH")}
  PROVE  CallerTypes'
<1>1. IsText(v) => v.text \in Texts
  <2>1. CASE \E d : v = Digest(d)
    BY <2>1, TextsAndDigests
  <2>2. CASE v \in {Text("ERROR"), Text("REQUIRES_OVMF_PATH")}
    BY <2>2, TextOf DEF Texts
  <2> QED BY <2>1, <2>2
<1>2. UNCHANGED <<cmd, config, todo, changes>>
  BY DEF Put
<1> QED BY <1>1, <1>2, StepTypes

LEMMA CpuNamesAre ==
  ASSUME NEW k \in DOMAIN Cpus
  PROVE  Cpus[k].name \in Names
BY DEF Names, CpuNames

LEMMA StartTypes ==
  ASSUME CallerTypes, TodoOK, Start
  PROVE  CallerTypes'
<1>1. todo \in Seq(CommandNames \X Configs) /\ todo # <<>> /\ IsSeq(todo)
  BY WidenSeq DEF TodoOK, Start
<1>2. Head(todo) \in ToSet(todo)
  BY <1>1, TailFacts DEF ToSet
<1>3. ToSet(Tail(todo)) \subseteq ToSet(todo)
  BY <1>1, TailFacts DEF ToSet
<1>4. Head(todo) \in CommandNames \X Configs
  BY <1>1, HeadTailProperties
<1>5. Head(todo) = <<cmd', config'>> /\ todo' = Tail(todo)
  BY <1>4 DEF Start
<1>6. PICK s \in Sessions : ToSet(todo) \subseteq ToSet(s)
  BY DEF CallerTypes, CommandOK
<1>7. <<cmd', config'>> \in ToSet(s) /\ ToSet(todo') \subseteq ToSet(s)
  BY <1>2, <1>3, <1>5, <1>6
<1>8. CommandOK'
  BY <1>7 DEF CommandOK, ToSet
<1>9. MapOK' /\ changes' = changes
  BY SameMap DEF Start, CallerTypes
<1> QED BY <1>8, <1>9 DEF CallerTypes

LEMMA CallerInit ==
  ASSUME Init
  PROVE  CallerTypes
<1>1. MapOK
  BY EmptyFacts DEF Init, MapOK
<1>2. CommandOK
  BY DEF Init, CommandOK
<1>3. changes \in 0 .. MaxChanges
  BY SessionsAssumption DEF Init
<1> QED BY <1>1, <1>2, <1>3 DEF CallerTypes

LEMMA CallerNext ==
  ASSUME TodoOK, CallerTypes, [Next]_vars
  PROVE  CallerTypes'
<1>0. CASE UNCHANGED <<cmd, config, out, todo, changes>>
  BY <1>0, StepTypes
<1>1. CASE Start BY <1>1, StartTypes
<1>2. CASE NoOvmf("LAUNCH_DIGEST") \/ NoOvmf("MRTD")
  <2>1. {"LAUNCH_DIGEST", "MRTD"} \subseteq Names
    BY DEF Names, Registers
  <2> QED BY <1>2, <2>1, PutTypes DEF NoOvmf
<1>3. CASE \E f \in FileNames : ReadFile(f)
  BY <1>3, StepTypes DEF ReadFile, Stop
<1>4. CASE \E k \in DOMAIN Cpus : StartCpu(k) BY <1>0, <1>4 DEF StartCpu, callerVars
<1>5. CASE \E k \in DOMAIN Cpus : NoFirmware(k)
  <2>1. CASE Stop
    BY <2>1, StepTypes DEF Stop
  <2>2. CASE \E k \in DOMAIN Cpus : Put(Cpus[k].name, Text("ERROR"), Tail(plan))
    BY <2>2, CpuNamesAre, PutTypes
  <2> QED BY <1>5, <2>1, <2>2 DEF NoFirmware
<1>6. CASE \E k \in DOMAIN Cpus : CpuDone(k)
  <2>1. CASE Stop
    BY <2>1, StepTypes DEF Stop
  <2>2. CASE \E k \in DOMAIN Cpus : Put(Cpus[k].name, Text("ERROR"), Tail(plan))
    BY <2>2, CpuNamesAre, PutTypes
  <2>3. CASE \E k \in DOMAIN Cpus : Put(Cpus[k].name, Digest(ld), Tail(plan))
    BY <2>3, CpuNamesAre, PutTypes
  <2> QED BY <1>6, <2>1, <2>2, <2>3 DEF CpuDone
<1>7. CASE StartLibrary BY <1>0, <1>7 DEF StartLibrary, callerVars
<1>8. CASE LibraryDone BY <1>0, <1>8 DEF LibraryDone
<1>9. CASE LaunchStep BY <1>0, <1>9 DEF LaunchStep, callerVars
<1>10. CASE \E m \in Registers : MeasureTdx(m) BY <1>10, MeasureTdxTypes
<1>11. CASE Finish BY <1>11, StepTypes DEF Finish
<1>12. CASE \E f \in FileNames : Replace(f)
  <2>1. /\ UNCHANGED <<cmd, config, out, todo>> /\ changes < MaxChanges /\ changes' = changes + 1
    BY <1>12 DEF Replace
  <2>2. changes' \in 0 .. MaxChanges
    BY <2>1, SessionsAssumption DEF CallerTypes
  <2> QED BY <2>1, <2>2, SameMap, SameCommand DEF CallerTypes
<1>13. CASE UNCHANGED vars BY <1>0, <1>13 DEF vars, callerVars
<1>14. CASE AllDone BY <1>0, <1>14 DEF AllDone, vars, callerVars
<1> QED
  BY <1>1, <1>2, <1>3, <1>4, <1>5, <1>6, <1>7, <1>8, <1>9, <1>10, <1>11, <1>12, <1>13, <1>14
     DEF Next, Proceed

(* The types of the state: every page of a digest has an address, a map has*)
(* the names and texts of measure.rs only, and a launch runs only under a  *)
(* command, for any firmware, files, CPU models, requests and sessions.    *)
THEOREM MeasurementsTypeCorrect == Spec => []TypeOK
<1> DEFINE Inv == KernelInv /\ ManifestOK /\ LaunchInv /\ CallerTypes
<1>1. Init => Inv
  BY KernelInit, ManifestInit, LaunchInit0, CallerInit DEF Init
<1>2. Inv /\ [Next]_vars => Inv'
  BY KernelNext, ManifestNext, LaunchNextFolds, CallerNext DEF KernelInv
<1>3. Inv => TypeOK
  <2> SUFFICES ASSUME KernelInv, ManifestOK, LaunchInv, CallerTypes PROVE TypeOK
    OBVIOUS
  <2>1. stage \in Stages /\ at \in Nat /\ \A i \in DOMAIN ld : ld[i].gpa \in Int
    BY DEF LaunchInv, Pages, ToSet
  <2>2. DOMAIN disk = FileNames /\ DOMAIN mem = FileNames
    BY DEF KernelInv, OvmfOK, ManifestOK, MemOK
  <2>3. cmd = None \/ \E s \in Sessions : <<cmd, config>> \in ToSet(s)
    BY DEF CallerTypes, CommandOK
  <2>4. /\ DOMAIN out \subseteq CpuNames \cup Registers \cup {"LAUNCH_DIGEST"}
        /\ \A n \in DOMAIN out : IsText(out[n]) => out[n].text \in Texts
    BY DEF CallerTypes, MapOK, Names
  <2>5. changes \in 0 .. MaxChanges
    BY DEF CallerTypes
  <2>6. stage # "idle" => cmd # None
    BY DEF KernelInv, IdleOK
  <2> QED BY <2>1, <2>2, <2>3, <2>4, <2>5, <2>6 DEF TypeOK
<1> QED
  BY <1>1, <1>2, <1>3, PTL DEF Spec
-----------------------------------------------------------------------------
(***************************************************************************)
(* A launch measures a guest: the pages of its pieces against the layout.  *)
(***************************************************************************)
FirstPages(r) == ToSet(OwnPages(r))

(* The turn of section i, and that of step i of a launch.                  *)
SectionTurn(r, i) ==
  IF FoldsLateCpuid(r) /\ LaunchSections(r)[i].type = "cpuid" THEN Len(LaunchSections(r)) + 1 ELSE i

StepTurn(r, i) == IF i <= Len(LaunchSections(r)) THEN i ELSE Len(LaunchSections(r)) + 1

SectionOf(r, i) == IF i <= Len(LaunchSections(r)) THEN i ELSE i - Len(LaunchSections(r))

Once(s) == \A i, j \in DOMAIN s : s[i] = s[j] => i = j

LEMMA UnhashedPages ==
  ASSUME NEW type, NEW gpa \in Nat, NEW n \in Nat
  PROVE  /\ IsSeq(Unhashed(type, gpa, n)) /\ Once(Unhashed(type, gpa, n))
         /\ ToSet(Unhashed(type, gpa, n)) = {PageInfo(type, gpa + k, Zeros) : k \in 0 .. n - 1}
<1> DEFINE page(i) == PageInfo(type, gpa + i - 1, Zeros)
           u == Unhashed(type, gpa, n)
<1>1. u = [i \in 1 .. n |-> page(i)]
  BY DEF Unhashed
<1>2. \A i \in 1 .. n : page(i).gpa = gpa + i - 1
  BY DEF PageInfo
<1>3. \A i \in 1 .. n : i - 1 \in 0 .. n - 1 /\ page(i) = PageInfo(type, gpa + (i - 1), Zeros)
  <2> SUFFICES ASSUME NEW i \in 1 .. n
               PROVE  i - 1 \in 0 .. n - 1 /\ page(i) = PageInfo(type, gpa + (i - 1), Zeros)
    OBVIOUS
  <2>1. gpa + i - 1 = gpa + (i - 1) /\ i - 1 \in 0 .. n - 1
    OBVIOUS
  <2> QED BY <2>1
<1>4. \A k \in 0 .. n - 1 : k + 1 \in 1 .. n /\ page(k + 1) = PageInfo(type, gpa + k, Zeros)
  <2> SUFFICES ASSUME NEW k \in 0 .. n - 1
               PROVE  k + 1 \in 1 .. n /\ page(k + 1) = PageInfo(type, gpa + k, Zeros)
    OBVIOUS
  <2>1. gpa + (k + 1) - 1 = gpa + k /\ k + 1 \in 1 .. n
    OBVIOUS
  <2> QED BY <2>1
<1> HIDE DEF page, u
<1>5. DOMAIN u = 1 .. n /\ (\A i \in 1 .. n : u[i] = page(i)) /\ u = [i \in 1 .. n |-> u[i]]
  BY <1>1
<1>6. IsSeq(u)
  BY <1>5, FunIsSeq
<1>7. Once(u)
  <2> SUFFICES ASSUME NEW i \in 1 .. n, NEW j \in 1 .. n, page(i) = page(j) PROVE i = j
    BY <1>5 DEF Once
  <2>1. gpa + i - 1 = gpa + j - 1
    BY <1>2
  <2> QED BY <2>1
<1>8. ToSet(u) = {PageInfo(type, gpa + k, Zeros) : k \in 0 .. n - 1}
  BY <1>3, <1>4, <1>5 DEF ToSet
<1> QED BY <1>6, <1>7, <1>8 DEF u

LEMMA OncePage ==
  ASSUME NEW p
  PROVE  IsSeq(<<p>>) /\ Once(<<p>>) /\ ToSet(<<p>>) = {p}
BY OnePage DEF Once, ToSet

LEMMA OnceEmpty == IsSeq(<<>>) /\ Once(<<>>) /\ ToSet(<<>>) = {}
BY EmptyFacts DEF Once, ToSet

(* The firmware's sections, if the launch has any.                         *)
LEMMA ApartSections ==
  ASSUME SectionsApart, NEW r, Launchable(r), ~LoadFails(r)
  PROVE  /\ \A i \in DOMAIN LaunchSections(r) :
              LaunchSections(r)[i].type \in {"secrets", "cpuid"} => LaunchSections(r)[i].pages = 1
         /\ \A i, j \in DOMAIN LaunchSections(r) : i # j =>
              \/ LaunchSections(r)[i].gpa + LaunchSections(r)[i].pages <= LaunchSections(r)[j].gpa
              \/ LaunchSections(r)[j].gpa + LaunchSections(r)[j].pages <= LaunchSections(r)[i].gpa
         /\ DOMAIN LaunchSections(r) = 1 .. Len(LaunchSections(r))
         /\ LaunchSections(r) # <<>> => r.mode \in {"snp", "snp:svsm"}
<1> DEFINE f == LaunchFile(r)
<1>0. DOMAIN LaunchSections(r) = 1 .. Len(LaunchSections(r))
  BY LaunchSectionsAre, LenProperties
<1>1. CASE r.mode \in {"sev", "sev-es"}
  <2>1. LaunchSections(r) = <<>>
    BY <1>1 DEF LaunchSections
  <2> QED BY <1>0, <2>1, EmptyFacts
<1>2. CASE r.mode \in {"snp", "snp:svsm"}
  <2>1. LaunchSections(r) = Sections[f]
    BY <1>2 DEF LaunchSections
  <2>2. f \in DOMAIN Firmware /\ Firmware[f].parses
    BY <1>2 DEF LaunchFile, LoadFails, Launchable
  <2> HIDE DEF f
  <2> QED BY <1>0, <1>2, <2>1, <2>2 DEF SectionsApart
<1> QED BY <1>1, <1>2 DEF Launchable, Modes

(* Where the pages of a section are, and of what kind they are.            *)
LEMMA GuestPagesAre ==
  ASSUME NEW r, NEW s \in Section, NEW p \in GuestPages(r, s)
  PROVE  /\ p.gpa \in Nat /\ s.gpa <= p.gpa /\ p.gpa < s.gpa + s.pages
         /\ p.type # "normal" \/ p.contents = [hashes |-> Hashes(r), offset |-> HashOffset(r)]
<1> DEFINE type == CASE s.type \in {"secrets", "cpuid"} -> s.type
                     [] s.type = "sec mem" /\ r.vmm = "gce" -> "unmeasured"
                     [] s.type = "kernel hashes" /\ HashesKernel(r) -> "normal"
                     [] OTHER -> "zero"
           contents == IF type = "normal" THEN [hashes |-> Hashes(r), offset |-> HashOffset(r)]
                                          ELSE Zeros
<1>0. GuestPages(r, s) = {PageInfo(type, s.gpa + k, contents) : k \in 0 .. s.pages - 1}
  BY DEF GuestPages
<1>a. type = "normal" => contents = [hashes |-> Hashes(r), offset |-> HashOffset(r)]
  OBVIOUS
<1> HIDE DEF type, contents
<1>1. PICK k \in 0 .. s.pages - 1 : p = PageInfo(type, s.gpa + k, contents)
  BY <1>0
<1>2. s.gpa \in Nat /\ s.pages \in Nat
  BY DEF Section
<1>3. p.gpa = s.gpa + k /\ p.type = type /\ p.contents = contents
  BY <1>1 DEF PageInfo
<1> QED BY <1>a, <1>1, <1>2, <1>3

LEMMA GuestsApart ==
  ASSUME SectionsApart, NEW r, Launchable(r), ~LoadFails(r),
         NEW i \in 1 .. Len(LaunchSections(r)), NEW j \in 1 .. Len(LaunchSections(r)), i # j
  PROVE  GuestPages(r, LaunchSections(r)[i]) \cap GuestPages(r, LaunchSections(r)[j]) = {}
<1> DEFINE s == LaunchSections(r)[i]
           t == LaunchSections(r)[j]
<1>1. s \in Section /\ t \in Section
  BY LaunchSectionsAre
<1>2. s.gpa + s.pages <= t.gpa \/ t.gpa + t.pages <= s.gpa
  BY ApartSections
<1>3. s.gpa \in Nat /\ s.pages \in Nat /\ t.gpa \in Nat /\ t.pages \in Nat
  BY <1>1 DEF Section
<1> HIDE DEF s, t
<1>4. ASSUME NEW p \in GuestPages(r, s), p \in GuestPages(r, t)
      PROVE  FALSE
  <2>1. /\ p.gpa \in Nat /\ s.gpa <= p.gpa /\ p.gpa < s.gpa + s.pages
        /\ t.gpa <= p.gpa /\ p.gpa < t.gpa + t.pages
    BY <1>1, <1>4, GuestPagesAre
  <2> QED BY <1>2, <1>3, <2>1, SMTT(60)
<1> QED BY <1>4 DEF s, t

OfFile(p) == p.type = "normal" /\ \E f, n : p.contents = [file |-> f, page |-> n]

LEMMA PagesOfFile ==
  ASSUME NEW f, NEW end
  PROVE  \A p \in ToSet(FilePages(f, end)) : OfFile(p)
<1> SUFFICES ASSUME NEW j \in DOMAIN FilePages(f, end) PROVE OfFile(FilePages(f, end)[j])
  BY DEF ToSet
<1>1. \E gpa : FilePages(f, end)[j] = PageInfo("normal", gpa, [file |-> f, page |-> j])
  BY DEF FilePages
<1>2. PICK gpa : FilePages(f, end)[j] = PageInfo("normal", gpa, [file |-> f, page |-> j])
  BY <1>1
<1>3. /\ FilePages(f, end)[j].type = "normal"
      /\ FilePages(f, end)[j].contents = [file |-> f, page |-> j]
  BY <1>2 DEF PageInfo
<1> QED BY <1>3 DEF OfFile

LEMMA GuestsNotFirst ==
  ASSUME SectionsApart, NEW r, Launchable(r), ~LoadFails(r), NEW i \in 1 .. Len(LaunchSections(r))
  PROVE  GuestPages(r, LaunchSections(r)[i]) \cap FirstPages(r) = {}
<1> DEFINE s == LaunchSections(r)[i]
<1>1. s \in Section /\ r.mode \in {"snp", "snp:svsm"}
  <2>1. LaunchSections(r) # <<>>
    BY EmptyFacts
  <2> QED BY <2>1, LaunchSectionsAre, ApartSections
<1> HIDE DEF s
<1>3. \A p \in FirstPages(r) : OfFile(p)
  <2>1. CASE r.mode = "snp"
    <3>1. OwnPages(r) = FilePages(r.ovmf, FourGB)
      BY <2>1 DEF OwnPages
    <3> QED BY <3>1, PagesOfFile DEF FirstPages
  <2>2. CASE r.mode = "snp:svsm"
    <3> DEFINE a == FilePages(r.ovmf, FourGB)
               b == FilePages(r.svsm, SvsmEnd(r))
    <3>1. OwnPages(r) = Join(a, b)
      BY <2>2 DEF OwnPages, Join
    <3>2. r.svsm # None /\ r.svsm \in DOMAIN Firmware \cup {None} /\ r.ovmf \in DOMAIN Firmware
      BY <2>2 DEF LoadFails, Launchable
    <3>3. IsSeq(a) /\ IsSeq(b)
      BY <3>2, FilePagesFacts
    <3>4. (\A p \in ToSet(a) : OfFile(p)) /\ (\A p \in ToSet(b) : OfFile(p))
      BY PagesOfFile
    <3> HIDE DEF a, b
    <3>5. ToSet(Join(a, b)) = ToSet(a) \cup ToSet(b)
      BY <3>3, JoinFacts
    <3> QED BY <3>1, <3>4, <3>5 DEF FirstPages
  <2> QED BY <1>1, <2>1, <2>2
<1>4. ASSUME NEW p \in GuestPages(r, s), OfFile(p)
      PROVE  FALSE
  <2>0. p.type = "normal"
    BY <1>4 DEF OfFile
  <2>1. p.contents = [hashes |-> Hashes(r), offset |-> HashOffset(r)]
    BY <1>1, <2>0, GuestPagesAre
  <2>2. PICK f, n : p.contents = [file |-> f, page |-> n]
    BY <1>4 DEF OfFile
  <2>3. "hashes" \in DOMAIN p.contents
    BY <2>1
  <2>4. DOMAIN p.contents = {"file", "page"}
    BY <2>2
  <2>5. "hashes" \notin {"file", "page"}
    OBVIOUS
  <2> QED BY <2>3, <2>4, <2>5
<1> QED BY <1>3, <1>4 DEF s

(* The layout: what it has and when.                                       *)
LEMMA LayoutIs ==
  ASSUME SectionsApart, NEW r, Launchable(r), ~LoadFails(r)
  PROVE  LET n == Len(LaunchSections(r)) IN
         /\ DOMAIN Layout(r) = FirstPages(r)
              \cup UNION {GuestPages(r, LaunchSections(r)[i]) : i \in 1 .. n}
         /\ \A p \in FirstPages(r) : Layout(r)[p] = 0
         /\ \A i \in 1 .. n : \A p \in GuestPages(r, LaunchSections(r)[i]) :
              Layout(r)[p] = SectionTurn(r, i)
<1> DEFINE sections == LaunchSections(r)
           n        == Len(LaunchSections(r))
           late     == Len(sections) + 1
           turn(i)  == IF FoldsLateCpuid(r) /\ sections[i].type = "cpuid" THEN late ELSE i
           first    == ToSet(OwnPages(r))
           pages    == UNION {GuestPages(r, sections[i]) : i \in DOMAIN sections}
           choice(p) == CHOOSE i \in DOMAIN sections : p \in GuestPages(r, sections[i])
<1>1. DOMAIN sections = 1 .. n
  BY ApartSections
<1>2. Layout(r) = [p \in first \cup pages |-> IF p \in first THEN 0 ELSE turn(choice(p))]
  BY DEF Layout
<1>3. first = FirstPages(r)
  BY DEF FirstPages
<1>4. \A i : turn(i) = SectionTurn(r, i)
  BY DEF SectionTurn
<1> HIDE DEF first, turn
<1>5. ASSUME NEW i \in 1 .. n, NEW p \in GuestPages(r, sections[i])
      PROVE  p \in pages /\ p \notin first /\ choice(p) = i
  <2>1. i \in DOMAIN sections /\ p \in GuestPages(r, sections[i])
    BY <1>1, <1>5
  <2>2. choice(p) \in DOMAIN sections /\ p \in GuestPages(r, sections[choice(p)])
    BY <2>1
  <2> HIDE DEF choice
  <2>3. choice(p) = i
    BY <1>1, <1>5, <2>2, GuestsApart
  <2>4. p \notin first
    BY <1>3, <1>5, GuestsNotFirst
  <2> QED BY <2>1, <2>3, <2>4
<1> HIDE DEF pages, choice
<1>6. DOMAIN Layout(r) = first \cup pages
  BY <1>2
<1>7. \A p \in first : Layout(r)[p] = 0
  BY <1>2
<1>8. \A i \in 1 .. n : \A p \in GuestPages(r, sections[i]) : Layout(r)[p] = SectionTurn(r, i)
  BY <1>2, <1>4, <1>5
<1>9. pages = UNION {GuestPages(r, sections[i]) : i \in 1 .. n}
  BY <1>1 DEF pages
<1> QED BY <1>3, <1>6, <1>7, <1>8, <1>9

(* A section puts its pages in place, but EC2's CPUID page.                *)
LEMMA SectionsPlace ==
  ASSUME SectionsApart, NEW r, Launchable(r), ~LoadFails(r), NEW i \in 1 .. Len(LaunchSections(r)),
         ~SectionFails(r, LaunchSections(r)[i])
  PROVE  LET s == LaunchSections(r)[i]
             d == SectionPages(r, s)
         IN  /\ IsSeq(d) /\ Once(d)
             /\ ToSet(d) = IF FoldsLateCpuid(r) /\ s.type = "cpuid" THEN {} ELSE GuestPages(r, s)
<1> DEFINE s == LaunchSections(r)[i]
           d == SectionPages(r, s)
<1>1. s \in Section /\ r.mode \in {"snp", "snp:svsm"}
  <2>1. LaunchSections(r) # <<>>
    BY EmptyFacts
  <2> QED BY <2>1, LaunchSectionsAre, ApartSections
<1>2. s.gpa \in Nat /\ s.pages \in Nat /\ s.type \in SectionTypes
  BY <1>1 DEF Section
<1>3. s.type \in {"secrets", "cpuid"} => s.pages = 1
  BY ApartSections
<1>4. FoldsLateCpuid(r) <=> r.vmm = "ec2"
  BY <1>1 DEF FoldsLateCpuid, LoadFails
<1>5. s.type = "kernel hashes" /\ HashesKernel(r) => s.pages = 1
  BY DEF SectionFails
<1> SUFFICES /\ IsSeq(d) /\ Once(d)
             /\ ToSet(d) = IF r.vmm = "ec2" /\ s.type = "cpuid" THEN {} ELSE GuestPages(r, s)
  BY <1>4
<1> DEFINE Zeroed(type) == {PageInfo(type, s.gpa + k, Zeros) : k \in 0 .. s.pages - 1}
<1> HIDE DEF s, d
<1>6. ASSUME NEW type, d = Unhashed(type, s.gpa, s.pages), GuestPages(r, s) = Zeroed(type),
             ~(r.vmm = "ec2" /\ s.type = "cpuid")
      PROVE  /\ IsSeq(d) /\ Once(d)
             /\ ToSet(d) = IF r.vmm = "ec2" /\ s.type = "cpuid" THEN {} ELSE GuestPages(r, s)
  BY <1>2, <1>6, UnhashedPages, ZenonT(60)
<1>7. CASE s.type = "sec mem"
  <2> DEFINE type == IF r.vmm = "gce" THEN "unmeasured" ELSE "zero"
  <2>1. d = Unhashed(type, s.gpa, s.pages)
    BY <1>7 DEF SectionPages, d
  <2>2. GuestPages(r, s) = Zeroed(type)
    BY <1>7 DEF GuestPages
  <2> HIDE DEF type
  <2> QED BY <1>6, <1>7, <2>1, <2>2
<1>8. CASE s.type = "secrets"
  <2>1. d = Unhashed("secrets", s.gpa, s.pages)
    BY <1>3, <1>8 DEF SectionPages, d
  <2>2. GuestPages(r, s) = Zeroed("secrets")
    BY <1>8 DEF GuestPages
  <2> QED BY <1>6, <1>8, <2>1, <2>2
<1>9. CASE s.type = "cpuid" /\ r.vmm # "ec2"
  <2>1. d = Unhashed("cpuid", s.gpa, s.pages)
    BY <1>3, <1>9 DEF SectionPages, d
  <2>2. GuestPages(r, s) = Zeroed("cpuid")
    BY <1>9 DEF GuestPages
  <2> QED BY <1>6, <1>9, <2>1, <2>2
<1>10. CASE s.type = "cpuid" /\ r.vmm = "ec2"
  <2>1. d = <<>>
    BY <1>10 DEF SectionPages, d
  <2> QED BY <1>10, <2>1, OnceEmpty
<1>11. CASE s.type = "kernel hashes" /\ HashesKernel(r)
  <2> DEFINE c == [hashes |-> Hashes(r), offset |-> HashOffset(r)]
             p == PageInfo("normal", s.gpa, c)
  <2>1. d = <<p>>
    BY <1>11 DEF SectionPages, d
  <2>2. GuestPages(r, s) = {PageInfo("normal", s.gpa + k, c) : k \in 0 .. s.pages - 1}
    BY <1>11 DEF GuestPages
  <2>3. 0 .. s.pages - 1 = {0} /\ s.gpa + 0 = s.gpa
    <3>1. s.pages = 1
      BY <1>5, <1>11
    <3>2. s.gpa + 0 = s.gpa
      BY <1>2
    <3>3. 0 \in 0 .. s.pages - 1 /\ \A k \in 0 .. s.pages - 1 : k = 0
      BY <3>1
    <3> QED BY <3>2, <3>3
  <2> HIDE DEF c
  <2>4. GuestPages(r, s) = {p}
    BY <2>2, <2>3
  <2> HIDE DEF p
  <2> QED BY <1>11, <2>1, <2>4, OncePage
<1>12. CASE s.type = "caa" \/ (s.type = "kernel hashes" /\ ~HashesKernel(r))
  <2>1. d = Unhashed("zero", s.gpa, s.pages)
    BY <1>12 DEF SectionPages, d
  <2>2. GuestPages(r, s) = Zeroed("zero")
    BY <1>12 DEF GuestPages
  <2> QED BY <1>6, <1>12, <2>1, <2>2
<1> QED BY <1>2, <1>7, <1>8, <1>9, <1>10, <1>11, <1>12 DEF SectionTypes

(* The second loop puts EC2's CPUID page in place.                         *)
LEMMA LatePlace ==
  ASSUME SectionsApart, NEW r, Launchable(r), ~LoadFails(r), NEW i \in 1 .. Len(LaunchSections(r))
  PROVE  LET s == LaunchSections(r)[i]
             d == LatePages(s)
         IN  /\ IsSeq(d) /\ Once(d)
             /\ ToSet(d) = IF s.type = "cpuid" THEN GuestPages(r, s) ELSE {}
<1> DEFINE s == LaunchSections(r)[i]
           d == LatePages(s)
<1>1. s \in Section
  BY LaunchSectionsAre
<1>2. s.gpa \in Nat /\ s.pages \in Nat
  BY <1>1 DEF Section
<1>3. s.type = "cpuid" => s.pages = 1
  BY ApartSections
<1> HIDE DEF s, d
<1>4. CASE s.type = "cpuid"
  <2>1. d = Unhashed("cpuid", s.gpa, s.pages)
    BY <1>3, <1>4 DEF LatePages, d
  <2>2. GuestPages(r, s) = {PageInfo("cpuid", s.gpa + k, Zeros) : k \in 0 .. s.pages - 1}
    BY <1>4 DEF GuestPages
  <2>3. IsSeq(d) /\ Once(d) /\ ToSet(d) = GuestPages(r, s)
    BY <1>2, <2>1, <2>2, UnhashedPages, ZenonT(60)
  <2> QED BY <1>4, <2>3 DEF s, d
<1>5. CASE s.type # "cpuid"
  <2>1. d = <<>>
    BY <1>5 DEF LatePages, d
  <2>2. IsSeq(d) /\ Once(d) /\ ToSet(d) = {}
    BY <2>1, OnceEmpty
  <2> QED BY <1>5, <2>2 DEF s, d
<1> QED BY <1>4, <1>5

(* No section that the launch has folded by then stopped it.               *)
NoneFailed(r, m) ==
  \A i \in 1 .. Len(LaunchSections(r)) : i <= m => ~SectionFails(r, LaunchSections(r)[i])

(* The pages of step i: those of a section, or none, in their turn.        *)
LEMMA PiecesPlace ==
  ASSUME SectionsApart, NEW r, Launchable(r), ~LoadFails(r), NEW i \in Nat \ {0},
         i <= BeforeCpus(r), NoneFailed(r, i)
  PROVE  LET n == Len(LaunchSections(r)) IN
         /\ IsSeq(Piece(r, i)) /\ Once(Piece(r, i)) /\ SectionOf(r, i) \in 1 .. n
         /\ ToSet(Piece(r, i)) = IF i > n <=> SectionTurn(r, SectionOf(r, i)) = n + 1
                                 THEN GuestPages(r, LaunchSections(r)[SectionOf(r, i)]) ELSE {}
         /\ ToSet(Piece(r, i)) # {} => SectionTurn(r, SectionOf(r, i)) = StepTurn(r, i)
<1> DEFINE n == Len(LaunchSections(r))
           b == BeforeCpus(r)
           k == SectionOf(r, i)
           s == LaunchSections(r)[k]
<1>1. n \in Nat /\ b \in Nat /\ LateSteps(r) \in {0, n} /\ b = n + LateSteps(r)
      /\ (LateSteps(r) # 0 => FoldsLateCpuid(r))
  BY LaunchSectionsAre DEF LateSteps
<1>2. CASE i <= n
  <2>1. k = i /\ i \in 1 .. n /\ ~(i > n) /\ i # n + 1 /\ StepTurn(r, i) = i
    <3>1. k = i /\ StepTurn(r, i) = i
      BY <1>2 DEF SectionOf, StepTurn
    <3> HIDE DEF n, k
    <3> QED BY <1>1, <1>2, <3>1
  <2>2. Piece(r, i) = SectionPages(r, s) /\ ~SectionFails(r, s)
    BY <1>2, <2>1 DEF Piece, NoneFailed
  <2>3. SectionTurn(r, k) = IF FoldsLateCpuid(r) /\ s.type = "cpuid" THEN n + 1 ELSE k
    BY DEF SectionTurn
  <2>4. /\ IsSeq(Piece(r, i)) /\ Once(Piece(r, i))
        /\ ToSet(Piece(r, i)) = IF FoldsLateCpuid(r) /\ s.type = "cpuid" THEN {} ELSE GuestPages(r, s)
    BY <2>1, <2>2, SectionsPlace
  <2> HIDE DEF n, b, s, k
  <2>5. ToSet(Piece(r, i)) = IF i > n <=> SectionTurn(r, k) = n + 1 THEN GuestPages(r, s) ELSE {}
    BY <2>1, <2>3, <2>4
  <2>6. ToSet(Piece(r, i)) # {} => SectionTurn(r, k) = StepTurn(r, i)
    BY <2>1, <2>3, <2>4
  <2> QED BY <2>1, <2>4, <2>5, <2>6 DEF n, s, k
<1>3. CASE i > n
  <2>1. k = i - n /\ k \in 1 .. n /\ ~(i <= n) /\ k # n + 1 /\ FoldsLateCpuid(r)
        /\ StepTurn(r, i) = n + 1
    <3>1. i <= b
      OBVIOUS
    <3>2. i > n => ~(i <= n)
      <4> HIDE DEF n
      <4> QED BY <1>1
    <3>3. k = i - n /\ StepTurn(r, i) = n + 1
      BY <1>3, <3>2 DEF SectionOf, StepTurn
    <3> HIDE DEF n, b, k
    <3> QED BY <1>1, <1>3, <3>1, <3>3
  <2>2. Piece(r, i) = LatePages(s)
    BY <2>1 DEF Piece
  <2>3. SectionTurn(r, k) = IF s.type = "cpuid" THEN n + 1 ELSE k
    BY <2>1 DEF SectionTurn
  <2>4. /\ IsSeq(Piece(r, i)) /\ Once(Piece(r, i))
        /\ ToSet(Piece(r, i)) = IF s.type = "cpuid" THEN GuestPages(r, s) ELSE {}
    BY <2>1, <2>2, LatePlace
  <2> HIDE DEF n, b, s, k
  <2>5. ToSet(Piece(r, i)) = IF i > n <=> SectionTurn(r, k) = n + 1 THEN GuestPages(r, s) ELSE {}
    BY <1>3, <2>1, <2>3, <2>4
  <2>6. ToSet(Piece(r, i)) # {} => SectionTurn(r, k) = StepTurn(r, i)
    BY <2>1, <2>3, <2>4
  <2> QED BY <2>1, <2>4, <2>5, <2>6 DEF n, s, k
<1>4. i <= n \/ i > n
  <2> HIDE DEF n
  <2> QED BY <1>1
<1> QED BY <1>2, <1>3, <1>4

(* The steps of a launch have different pages, in the order of their turns.*)
LEMMA PiecesApart ==
  ASSUME SectionsApart, NEW r, Launchable(r), ~LoadFails(r), NEW i \in Nat \ {0}, NEW j \in Nat \ {0},
         i < j, j <= BeforeCpus(r), NoneFailed(r, j)
  PROVE  ToSet(Piece(r, i)) \cap ToSet(Piece(r, j)) = {} /\ StepTurn(r, i) <= StepTurn(r, j)
<1> DEFINE n == Len(LaunchSections(r))
           k == SectionOf(r, i)
           l == SectionOf(r, j)
           P(q) == GuestPages(r, LaunchSections(r)[q])
<1>1. n \in Nat /\ BeforeCpus(r) \in Nat /\ i <= BeforeCpus(r)
  BY LaunchSectionsAre
<1>2. NoneFailed(r, i)
  BY <1>1 DEF NoneFailed
<1>3. /\ k \in 1 .. n /\ l \in 1 .. n
      /\ ToSet(Piece(r, i)) = IF i > n <=> SectionTurn(r, k) = n + 1 THEN P(k) ELSE {}
      /\ ToSet(Piece(r, j)) = IF j > n <=> SectionTurn(r, l) = n + 1 THEN P(l) ELSE {}
  BY <1>1, <1>2, PiecesPlace
<1>4. k # l => P(k) \cap P(l) = {}
  BY <1>3, GuestsApart
<1>5. k = IF i <= n THEN i ELSE i - n
  BY DEF SectionOf
<1>6. l = IF j <= n THEN j ELSE j - n
  BY DEF SectionOf
<1>7. StepTurn(r, i) = IF i <= n THEN i ELSE n + 1
  BY DEF StepTurn
<1>8. StepTurn(r, j) = IF j <= n THEN j ELSE n + 1
  BY DEF StepTurn
<1> HIDE DEF n, k, l, P
<1>9. StepTurn(r, i) <= StepTurn(r, j)
  BY <1>1, <1>7, <1>8
<1>10. k = l => i <= n /\ ~(i > n) /\ j > n
  BY <1>1, <1>5, <1>6
<1> QED BY <1>3, <1>4, <1>9, <1>10

Placed(r, d, m) ==
  /\ IsSeq(d) /\ Once(d)
  /\ ToSet(d) = FirstPages(r) \cup UNION {ToSet(Piece(r, i)) : i \in 1 .. m}
  /\ \A i, j \in DOMAIN d : i < j => Layout(r)[d[i]] <= Layout(r)[d[j]]

(* One step more.                                                          *)
LEMMA PlacedOn ==
  ASSUME SectionsApart, NEW r, Launchable(r), ~LoadFails(r), NEW m \in Nat, NEW d, Placed(r, d, m),
         m + 1 <= BeforeCpus(r), NoneFailed(r, m + 1)
  PROVE  Placed(r, Join(d, Piece(r, m + 1)), m + 1)
<1> DEFINE n == Len(LaunchSections(r))
           w == Piece(r, m + 1)
           e == Join(d, w)
           T(p) == Layout(r)[p]
<1>0. m + 1 \in Nat \ {0} /\ n \in Nat
  BY LaunchSectionsAre
<1>1. IsSeq(d) /\ Once(d) /\ IsSeq(w) /\ Once(w)
  BY <1>0, PiecesPlace DEF Placed
<1>2. ASSUME NEW i \in 1 .. m + 1
      PROVE  /\ \A p \in ToSet(Piece(r, i)) : T(p) = StepTurn(r, i)
             /\ ToSet(Piece(r, i)) \cap FirstPages(r) = {}
             /\ i # m + 1 => /\ ToSet(Piece(r, i)) \cap ToSet(w) = {}
                             /\ StepTurn(r, i) <= StepTurn(r, m + 1)
             /\ StepTurn(r, i) \in Nat
  <2> DEFINE k == SectionOf(r, i)
             s == LaunchSections(r)[k]
  <2>1. BeforeCpus(r) \in Nat
    BY LaunchSectionsAre
  <2>2. i \in Nat \ {0} /\ i <= BeforeCpus(r) /\ NoneFailed(r, i)
    BY <1>0, <2>1 DEF NoneFailed
  <2>3. k \in 1 .. n /\ (ToSet(Piece(r, i)) = {} \/ ToSet(Piece(r, i)) = GuestPages(r, s))
        /\ (ToSet(Piece(r, i)) # {} => SectionTurn(r, k) = StepTurn(r, i))
    BY <2>2, PiecesPlace
  <2>4. \A p \in GuestPages(r, s) : T(p) = SectionTurn(r, k)
    BY <2>3, LayoutIs
  <2>5. GuestPages(r, s) \cap FirstPages(r) = {}
    BY <2>3, GuestsNotFirst
  <2>6. i # m + 1 => i < m + 1
    OBVIOUS
  <2>7. i # m + 1 => /\ ToSet(Piece(r, i)) \cap ToSet(w) = {}
                     /\ StepTurn(r, i) <= StepTurn(r, m + 1)
    BY <1>0, <2>2, <2>6, PiecesApart
  <2>8. StepTurn(r, i) \in Nat
    <3>1. StepTurn(r, i) = IF i <= n THEN i ELSE n + 1
      BY DEF StepTurn
    <3> HIDE DEF n
    <3> QED BY <1>0, <2>2, <3>1
  <2> HIDE DEF k, s, w
  <2> QED BY <2>3, <2>4, <2>5, <2>7, <2>8
<1>3. m + 1 \in 1 .. m + 1 /\ 1 .. m + 1 = 1 .. m \cup {m + 1} /\ \A i \in 1 .. m : i # m + 1
  BY <1>0
<1>4. ToSet(d) = FirstPages(r) \cup UNION {ToSet(Piece(r, i)) : i \in 1 .. m}
  BY DEF Placed
<1>5. ToSet(d) \cap ToSet(w) = {}
  BY <1>2, <1>3, <1>4
<1>6. ASSUME NEW p \in ToSet(d) PROVE T(p) \in Nat /\ T(p) <= StepTurn(r, m + 1)
  <2>1. StepTurn(r, m + 1) \in Nat
    BY <1>2, <1>3
  <2>2. CASE p \in FirstPages(r)
    <3>1. T(p) = 0
      BY <2>2, LayoutIs
    <3> HIDE DEF T
    <3> QED BY <2>1, <3>1
  <2>3. ASSUME NEW i \in 1 .. m, p \in ToSet(Piece(r, i))
        PROVE  T(p) \in Nat /\ T(p) <= StepTurn(r, m + 1)
    <3>1. i \in 1 .. m + 1 /\ i # m + 1
      BY <1>3
    <3> HIDE DEF T
    <3> QED BY <1>2, <2>3, <3>1
  <2> QED BY <1>4, <2>2, <2>3
<1>7. \A p \in ToSet(w) : T(p) = StepTurn(r, m + 1) /\ T(p) \in Nat
  BY <1>2, <1>3
<1>8. StepTurn(r, m + 1) \in Nat
  BY <1>2, <1>3
<1> DEFINE k == Len(d)
<1>9. /\ IsSeq(e) /\ ToSet(e) = ToSet(d) \cup ToSet(w)
      /\ k \in Nat /\ DOMAIN d = 1 .. k
      /\ DOMAIN w \subseteq Nat \ {0}
      /\ \A i \in DOMAIN d : e[i] = d[i]
      /\ \A i \in DOMAIN w : e[k + i] = w[i]
      /\ \A i \in DOMAIN e : i \in DOMAIN d \/ \E j \in DOMAIN w : i = k + j
  <2>1. DOMAIN w = 1 .. Len(w) /\ Len(w) \in Nat
    BY <1>1, SeqFacts
  <2>2. DOMAIN w \subseteq Nat \ {0}
    BY <2>1
  <2> HIDE DEF w
  <2> QED BY <1>1, <2>2, SeqFacts, JoinFacts
<1> HIDE DEF e, w, k, T
<1>10. ASSUME NEW i \in DOMAIN e, NEW j \in DOMAIN e
       PROVE  (e[i] = e[j] => i = j) /\ (i < j => T(e[i]) <= T(e[j]))
  <2>1. CASE i \in DOMAIN d /\ j \in DOMAIN d
    <3>1. e[i] = d[i] /\ e[j] = d[j]
      BY <1>9, <2>1
    <3>2. i < j => T(d[i]) <= T(d[j])
      BY <2>1 DEF Placed, T
    <3> QED BY <1>1, <2>1, <3>1, <3>2 DEF Once
  <2>2. ASSUME i \in DOMAIN d, NEW q \in DOMAIN w, j = k + q
        PROVE  (e[i] = e[j] => i = j) /\ (i < j => T(e[i]) <= T(e[j]))
    <3>1. e[i] = d[i] /\ e[j] = w[q] /\ d[i] \in ToSet(d) /\ w[q] \in ToSet(w)
      BY <1>9, <2>2 DEF ToSet
    <3>2. e[i] # e[j]
      BY <1>5, <3>1
    <3>3. T(e[i]) <= T(e[j])
      BY <1>6, <1>7, <3>1
    <3> QED BY <3>2, <3>3
  <2>3. ASSUME j \in DOMAIN d, NEW q \in DOMAIN w, i = k + q
        PROVE  (e[i] = e[j] => i = j) /\ (i < j => T(e[i]) <= T(e[j]))
    <3>1. e[j] = d[j] /\ e[i] = w[q] /\ d[j] \in ToSet(d) /\ w[q] \in ToSet(w)
      BY <1>9, <2>3 DEF ToSet
    <3>2. e[i] # e[j]
      BY <1>5, <3>1
    <3>3. ~(i < j)
      BY <1>9, <2>3
    <3> QED BY <3>2, <3>3
  <2>4. ASSUME NEW p \in DOMAIN w, NEW q \in DOMAIN w, i = k + p, j = k + q
        PROVE  (e[i] = e[j] => i = j) /\ (i < j => T(e[i]) <= T(e[j]))
    <3>1. e[i] = w[p] /\ e[j] = w[q] /\ w[p] \in ToSet(w) /\ w[q] \in ToSet(w)
      BY <1>9, <2>4 DEF ToSet
    <3>2. w[p] = w[q] => p = q
      BY <1>1 DEF Once
    <3>3. T(e[i]) <= T(e[j])
      BY <1>7, <1>8, <3>1
    <3> QED BY <2>4, <3>1, <3>2, <3>3
  <2> QED BY <1>9, <2>1, <2>2, <2>3, <2>4
<1>11. ToSet(e) = FirstPages(r) \cup UNION {ToSet(Piece(r, i)) : i \in 1 .. m + 1}
  BY <1>3, <1>4, <1>9 DEF w
<1>12. Placed(r, e, m + 1)
  BY <1>9, <1>10, <1>11 DEF Placed, Once, T
<1> QED BY <1>12 DEF e, w

(* The files' pages, each once.                                            *)
LEMMA FilePagesOnce ==
  ASSUME NEW f \in DOMAIN Firmware, NEW end \in Int
  PROVE  /\ IsSeq(FilePages(f, end)) /\ Once(FilePages(f, end)) /\ NoSaves(FilePages(f, end))
         /\ \A p \in ToSet(FilePages(f, end)) :
              p.gpa \in Int /\ end - Firmware[f].pages <= p.gpa /\ p.gpa < end
<1> DEFINE n == Firmware[f].pages
           page(i) == PageInfo("normal", end - n + i - 1, [file |-> f, page |-> i])
           d == FilePages(f, end)
<1>1. n \in Nat
  BY FirmwareAssumption
<1>2. IsSeq(d) /\ NoSaves(d)
  BY FilePagesAre DEF Pages
<1>3. DOMAIN d = 1 .. n /\ \A i \in 1 .. n : d[i] = page(i)
  BY DEF FilePages
<1>4. \A i \in 1 .. n : page(i).gpa = end - n + i - 1
  BY DEF PageInfo
<1> HIDE DEF page, d, n
<1>5. ASSUME NEW i \in 1 .. n
      PROVE  d[i].gpa = end - n + i - 1 /\ d[i].gpa \in Int /\ end - n <= d[i].gpa /\ d[i].gpa < end
  <2>1. d[i].gpa = end - n + i - 1
    BY <1>3, <1>4
  <2> QED BY <1>1, <2>1
<1>6. Once(d)
  <2> SUFFICES ASSUME NEW i \in 1 .. n, NEW j \in 1 .. n, d[i] = d[j] PROVE i = j
    BY <1>3 DEF Once
  <2>1. end - n + i - 1 = end - n + j - 1
    BY <1>5
  <2> QED BY <1>1, <2>1
<1>7. \A p \in ToSet(d) : p.gpa \in Int /\ end - n <= p.gpa /\ p.gpa < end
  BY <1>3, <1>5 DEF ToSet
<1> QED BY <1>2, <1>6, <1>7 DEF d, n

LEMMA OnceJoin ==
  ASSUME NEW s, NEW t, IsSeq(s), IsSeq(t), Once(s), Once(t), ToSet(s) \cap ToSet(t) = {}
  PROVE  Once(Join(s, t))
<1> DEFINE e == Join(s, t)
           k == Len(s)
<1>1. /\ k \in Nat
      /\ DOMAIN t \subseteq Nat
      /\ \A i \in DOMAIN s : e[i] = s[i] /\ s[i] \in ToSet(s)
      /\ \A i \in DOMAIN t : e[k + i] = t[i] /\ t[i] \in ToSet(t)
      /\ \A i \in DOMAIN e : i \in DOMAIN s \/ \E j \in DOMAIN t : i = k + j
  <2>1. DOMAIN t \subseteq Nat
    BY SeqFacts
  <2> QED BY <2>1, SeqFacts, JoinFacts DEF ToSet
<1> HIDE DEF e, k
<1>2. ASSUME NEW i \in DOMAIN e, NEW j \in DOMAIN e, e[i] = e[j]
      PROVE  i = j
  <2>1. CASE i \in DOMAIN s /\ j \in DOMAIN s
    BY <1>1, <1>2, <2>1 DEF Once
  <2>2. ASSUME NEW p \in DOMAIN t, NEW q \in DOMAIN t, i = k + p, j = k + q
        PROVE  i = j
    BY <1>1, <1>2, <2>2 DEF Once
  <2>3. i \in DOMAIN s => j \in DOMAIN s
    BY <1>1, <1>2
  <2>4. j \in DOMAIN s => i \in DOMAIN s
    BY <1>1, <1>2
  <2> QED BY <1>1, <2>1, <2>2, <2>3, <2>4
<1> QED BY <1>2 DEF Once, e

LEMMA OwnPagesAre ==
  ASSUME NEW r, Launchable(r), ~LoadFails(r)
  PROVE  IsSeq(OwnPages(r)) /\ Once(OwnPages(r)) /\ NoSaves(OwnPages(r))
<1>1. /\ FourGB \in Nat /\ r.ovmf \in DOMAIN Firmware /\ Firmware[r.ovmf].pages \in Nat
      /\ r.varsPages \in Nat
  BY FirmwareAssumption DEF Launchable
<1>2. CASE r.mode = "snp"
  <2>1. OwnPages(r) = FilePages(r.ovmf, FourGB) /\ FourGB \in Int
    BY <1>1, <1>2 DEF OwnPages
  <2> QED BY <1>1, <2>1, FilePagesOnce
<1>3. CASE r.mode = "snp:svsm"
  <2> DEFINE a == FilePages(r.ovmf, FourGB)
             b == FilePages(r.svsm, SvsmEnd(r))
  <2>1. OwnPages(r) = Join(a, b)
    BY <1>3 DEF OwnPages, Join
  <2>2. r.svsm \in DOMAIN Firmware
    BY <1>3 DEF LoadFails, Launchable
  <2>3. FourGB \in Int /\ SvsmEnd(r) \in Int /\ SvsmEnd(r) <= FourGB - Firmware[r.ovmf].pages
    BY <1>1 DEF SvsmEnd
  <2>4. /\ IsSeq(a) /\ Once(a) /\ NoSaves(a)
        /\ \A p \in ToSet(a) : p.gpa \in Int /\ FourGB - Firmware[r.ovmf].pages <= p.gpa
    BY <1>1, <2>3, FilePagesOnce
  <2>5. /\ IsSeq(b) /\ Once(b) /\ NoSaves(b)
        /\ \A p \in ToSet(b) : p.gpa \in Int /\ p.gpa < SvsmEnd(r)
    BY <2>2, <2>3, FilePagesOnce
  <2> HIDE DEF a, b
  <2>6. ToSet(a) \cap ToSet(b) = {}
    <3> SUFFICES ASSUME NEW p \in ToSet(a), p \in ToSet(b) PROVE FALSE
      OBVIOUS
    <3>1. p.gpa \in Int /\ FourGB - Firmware[r.ovmf].pages <= p.gpa /\ p.gpa < SvsmEnd(r)
      BY <2>4, <2>5
    <3> QED BY <1>1, <2>3, <3>1
  <2>7. Once(Join(a, b))
    BY <2>4, <2>5, <2>6, OnceJoin
  <2>8. IsSeq(Join(a, b)) /\ ToSet(Join(a, b)) = ToSet(a) \cup ToSet(b)
    BY <2>4, <2>5, JoinFacts
  <2> QED BY <2>1, <2>4, <2>5, <2>7, <2>8 DEF NoSaves
<1>4. CASE r.mode \in {"sev", "sev-es"}
  <2> DEFINE p == Bytes("data", [file |-> r.ovmf])
             q == Bytes("table", Hashes(r))
             t == IF r.kernel = None THEN <<>> ELSE <<q>>
  <2>1. OwnPages(r) = Join(<<p>>, t)
    BY <1>4 DEF OwnPages, Join
  <2>2. p.type = "data" /\ q.type = "table"
    BY DEF Bytes, PageInfo
  <2> HIDE DEF p, q
  <2>3. /\ IsSeq(<<p>>) /\ Once(<<p>>) /\ ToSet(<<p>>) = {p}
        /\ IsSeq(<<q>>) /\ Once(<<q>>) /\ ToSet(<<q>>) = {q}
    BY OncePage
  <2> DEFINE s == <<p>>
  <2>4. IsSeq(t) /\ Once(t) /\ ToSet(t) \subseteq {q}
    BY <2>3, OnceEmpty
  <2>5. IsSeq(s) /\ Once(s) /\ ToSet(s) = {p} /\ OwnPages(r) = Join(s, t)
    BY <2>1, <2>3
  <2> HIDE DEF s, t
  <2>6. ToSet(s) \cap ToSet(t) = {}
    BY <2>2, <2>4, <2>5
  <2>7. Once(Join(s, t)) /\ IsSeq(Join(s, t)) /\ ToSet(Join(s, t)) = ToSet(s) \cup ToSet(t)
    BY <2>4, <2>5, <2>6, OnceJoin, JoinFacts
  <2> QED BY <2>2, <2>4, <2>5, <2>7 DEF NoSaves
<1> QED BY <1>2, <1>3, <1>4 DEF Launchable, Modes

(* The caller brings no pages of its own.                                  *)
OwnSeed(r) == r.seed \in {None, OvmfHash(r.ovmf)}

LEMMA OwnLoaded ==
  ASSUME NEW r, OwnSeed(r)
  PROVE  Loaded(r) = OwnPages(r)
BY DEF Loaded, OwnPages, OwnSeed, OvmfHash

LEMMA PlacedStart ==
  ASSUME SectionsApart, NEW r, Launchable(r), ~LoadFails(r)
  PROVE  Placed(r, OwnPages(r), 0)
<1>1. IsSeq(OwnPages(r)) /\ Once(OwnPages(r)) /\ ToSet(OwnPages(r)) = FirstPages(r)
  BY OwnPagesAre DEF FirstPages
<1>2. \A i \in DOMAIN OwnPages(r) : Layout(r)[OwnPages(r)[i]] = 0
  <2>1. \A i \in DOMAIN OwnPages(r) : OwnPages(r)[i] \in FirstPages(r)
    BY DEF FirstPages, ToSet
  <2> QED BY <2>1, LayoutIs
<1>3. UNION {ToSet(Piece(r, i)) : i \in 1 .. 0} = {}
  OBVIOUS
<1> QED BY <1>1, <1>2, <1>3 DEF Placed

LEMMA ChainPlaced ==
  ASSUME SectionsApart, NEW r, Launchable(r), ~LoadFails(r), OwnSeed(r), NEW n \in Nat, NEW c,
         Chain(r, c, n), NEW m \in 0 .. n, m <= BeforeCpus(r), NoneFailed(r, m)
  PROVE  Placed(r, c[m], m)
<1> DEFINE S == {k \in Nat : k <= m => Placed(r, c[k], k)}
<1>0. BeforeCpus(r) \in Nat
  BY LaunchSectionsAre
<1>1. 0 \in S
  BY OwnLoaded, PlacedStart DEF Chain
<1>2. ASSUME NEW k \in Nat, k \in S PROVE k + 1 \in S
  <2> SUFFICES ASSUME k + 1 <= m PROVE Placed(r, c[k + 1], k + 1)
    OBVIOUS
  <2>1. k <= m /\ k + 1 <= n /\ k + 1 <= BeforeCpus(r)
    BY <1>0
  <2>2. Placed(r, c[k], k)
    BY <1>2, <2>1
  <2>3. NoneFailed(r, k + 1)
    <3>1. \A i \in 1 .. Len(LaunchSections(r)) : i <= k + 1 => i <= m
      BY LaunchSectionsAre
    <3> QED BY <3>1 DEF NoneFailed
  <2>4. c[k + 1] = Join(c[k], Piece(r, k + 1))
    BY <2>1, ChainStep
  <2> HIDE DEF S
  <2> QED BY <2>1, <2>2, <2>3, <2>4, PlacedOn
<1> HIDE DEF S
<1>3. m \in S
  BY <1>1, <1>2, Induction
<1> QED BY <1>3 DEF S

(* All steps up to the CPUs put all pages in place.                        *)
LEMMA AllPlaced ==
  ASSUME SectionsApart, NEW r, Launchable(r), ~LoadFails(r), NEW d, Placed(r, d, BeforeCpus(r)),
         NoneFailed(r, BeforeCpus(r))
  PROVE  ToSet(d) = DOMAIN Layout(r)
<1> DEFINE n == Len(LaunchSections(r))
           b == BeforeCpus(r)
           P(i) == GuestPages(r, LaunchSections(r)[i])
<1>0. n \in Nat /\ b \in Nat /\ LateSteps(r) = (IF FoldsLateCpuid(r) THEN n ELSE 0)
      /\ b = n + LateSteps(r)
  BY LaunchSectionsAre DEF LateSteps
<1>1. DOMAIN Layout(r) = FirstPages(r) \cup UNION {P(i) : i \in 1 .. n}
  BY LayoutIs
<1>2. ToSet(d) = FirstPages(r) \cup UNION {ToSet(Piece(r, i)) : i \in 1 .. b}
  BY DEF Placed
<1>3. ASSUME NEW i \in 1 .. b
      PROVE  /\ SectionOf(r, i) \in 1 .. n
             /\ ToSet(Piece(r, i)) = IF i > n <=> SectionTurn(r, SectionOf(r, i)) = n + 1
                                     THEN P(SectionOf(r, i)) ELSE {}
  <2>1. i \in Nat \ {0} /\ i <= b /\ NoneFailed(r, i)
    BY <1>0 DEF NoneFailed
  <2> QED BY <2>1, PiecesPlace
<1>4. ASSUME NEW i \in 1 .. n
      PROVE  \E j \in 1 .. b : ToSet(Piece(r, j)) = P(i)
  <2>0. SectionTurn(r, i) = IF FoldsLateCpuid(r) /\ LaunchSections(r)[i].type = "cpuid"
                            THEN n + 1 ELSE i
    BY DEF SectionTurn
  <2>1. CASE SectionTurn(r, i) = n + 1
    <3>1. FoldsLateCpuid(r)
      <4> HIDE DEF n
      <4> QED BY <1>0, <2>0, <2>1
    <3>2. i + n \in 1 .. b /\ i + n > n /\ ~(i + n <= n) /\ (i + n) - n = i
      <4> HIDE DEF n, b
      <4> QED BY <1>0, <3>1
    <3>3. SectionOf(r, i + n) = i
      BY <3>2 DEF SectionOf
    <3> HIDE DEF n, b, P
    <3> QED BY <1>3, <2>1, <3>2, <3>3
  <2>2. CASE SectionTurn(r, i) # n + 1
    <3>1. i \in 1 .. b /\ ~(i > n) /\ i <= n
      <4> HIDE DEF n, b
      <4> QED BY <1>0
    <3>2. SectionOf(r, i) = i
      BY <3>1 DEF SectionOf
    <3> HIDE DEF n, b, P
    <3> QED BY <1>3, <2>2, <3>1, <3>2
  <2> QED BY <2>1, <2>2
<1> HIDE DEF n, b, P
<1> QED BY <1>1, <1>2, <1>3, <1>4

(***************************************************************************)
(* The guest of a state: its pages are those before the first save area.   *)
(***************************************************************************)
GuestLog(d) == SubSeq(d, 1, Len(d) - Cardinality(Saves(d)))

gLayout == IF Running /\ ~LoadFails(req) THEN Layout(req) ELSE <<>>
gCpus   == IF Running THEN CpusOf(req) ELSE 0
gLog    == IF Running THEN GuestLog(ld) ELSE <<>>
gSaved  == IF Running THEN Cardinality(Saves(ld)) ELSE 0
gState  == CASE stage = "load" -> "idle"
             [] stage \in {"idle", "measured", "refused"} -> stage
             [] OTHER -> "measuring"

LEMMA PrefixFacts ==
  ASSUME NEW d, IsSeq(d), NEW k \in Nat, k <= Len(d)
  PROVE  /\ IsSeq(SubSeq(d, 1, k)) /\ Len(SubSeq(d, 1, k)) = k
         /\ \A i \in 1 .. k : SubSeq(d, 1, k)[i] = d[i]
<1>1. Len(d) \in Nat /\ DOMAIN d = 1 .. Len(d) /\ d \in Seq(ToSet(d))
  BY SeqFacts DEF IsSeq
<1>2. \A i \in 1 .. k : d[i] \in ToSet(d)
  BY <1>1 DEF ToSet
<1>3. /\ SubSeq(d, 1, k) \in Seq(ToSet(d)) /\ Len(SubSeq(d, 1, k)) = k
      /\ \A i \in 1 .. k : SubSeq(d, 1, k)[i] = d[i]
  <2>1. /\ SubSeq(d, 1, k) \in Seq(ToSet(d))
        /\ Len(SubSeq(d, 1, k)) = IF 1 <= k THEN k - 1 + 1 ELSE 0
        /\ \A i \in 1 .. k - 1 + 1 : SubSeq(d, 1, k)[i] = d[1 + i - 1]
    BY <1>1, <1>2, SubSeqProperties
  <2>2. k - 1 + 1 = k /\ \A i \in 1 .. k : 1 + i - 1 = i
    OBVIOUS
  <2> QED BY <2>1, <2>2
<1> QED BY <1>3, WidenSeq

LEMMA LogOfPages ==
  ASSUME NEW d, IsSeq(d), NoSaves(d)
  PROVE  Cardinality(Saves(d)) = 0 /\ GuestLog(d) = d
<1>1. Saves(d) = {}
  BY DEF Saves, NoSaves, ToSet
<1>2. Cardinality(Saves(d)) = 0
  BY <1>1, FS_EmptySet
<1>3. Len(d) \in Nat /\ Len(d) - 0 = Len(d) /\ DOMAIN d = 1 .. Len(d)
  BY SeqFacts
<1> DEFINE e == SubSeq(d, 1, Len(d))
<1>4. IsSeq(e) /\ Len(e) = Len(d) /\ \A i \in 1 .. Len(d) : e[i] = d[i]
  BY <1>3, PrefixFacts
<1> HIDE DEF e
<1>5. e = d
  <2>1. e \in Seq(ToSet(e)) /\ d \in Seq(ToSet(d))
    BY <1>4 DEF IsSeq
  <2>2. e \in Seq(ToSet(e) \cup ToSet(d)) /\ d \in Seq(ToSet(e) \cup ToSet(d))
    BY <2>1, SeqMonotonic
  <2> QED BY <1>3, <1>4, <2>2, SeqEqual
<1> QED BY <1>2, <1>3, <1>5 DEF GuestLog, e

(* A save area leaves the pages as they are.                               *)
LEMMA LogOfSave ==
  ASSUME NEW d, IsSeq(d), NEW p, p.type = "vmsa", NEW e, e = Append(d, p),
         IsFiniteSet(Saves(d)), Cardinality(Saves(d)) <= Len(d)
  PROVE  /\ IsSeq(e) /\ IsFiniteSet(Saves(e)) /\ Cardinality(Saves(e)) <= Len(e)
         /\ Cardinality(Saves(e)) = Cardinality(Saves(d)) + 1 /\ GuestLog(e) = GuestLog(d)
<1> DEFINE n == Len(d)
           k == Cardinality(Saves(d))
<1>1. n \in Nat /\ DOMAIN d = 1 .. n /\ k \in Nat
  BY SeqFacts, FS_CardinalityType
<1>2. e = Join(d, <<p>>)
  BY AppendOne DEF Join
<1>3. IsSeq(<<p>>) /\ Len(<<p>>) = 1
  BY OnePage
<1>4. /\ IsSeq(e) /\ Len(e) = n + 1 /\ e[n + 1] = p
      /\ \A i \in 1 .. n : e[i] = d[i]
  BY <1>1, <1>2, <1>3, JoinFacts, JoinOne, SMTT(60)
<1>5. DOMAIN e = 1 .. n + 1
  BY <1>4, SeqFacts
<1>6. Saves(e) = Saves(d) \cup {n + 1} /\ n + 1 \notin Saves(d)
  <2> HIDE DEF n
  <2> QED BY <1>1, <1>4, <1>5 DEF Saves
<1>7. IsFiniteSet(Saves(e)) /\ Cardinality(Saves(e)) = k + 1
  <2> HIDE DEF n
  <2> QED BY <1>6, FS_AddElement
<1>8. n - k \in Nat /\ n - k <= n /\ n - k <= n + 1 /\ (n + 1) - (k + 1) = n - k /\ k + 1 <= n + 1
  <2>1. k <= n
    OBVIOUS
  <2> HIDE DEF n, k
  <2> QED BY <1>1, <2>1
<1>9. GuestLog(e) = SubSeq(e, 1, n - k) /\ GuestLog(d) = SubSeq(d, 1, n - k)
  BY <1>4, <1>7, <1>8 DEF GuestLog
<1> DEFINE a == SubSeq(e, 1, n - k)
           b == SubSeq(d, 1, n - k)
<1>10. /\ IsSeq(a) /\ IsSeq(b) /\ Len(a) = n - k /\ Len(b) = n - k
       /\ \A i \in 1 .. n - k : a[i] = e[i] /\ b[i] = d[i] /\ i \in 1 .. n
  <2>1. \A i \in 1 .. n - k : i \in 1 .. n
    <3> HIDE DEF n, k
    <3> QED BY <1>1, <1>8
  <2> QED BY <1>4, <1>8, <2>1, PrefixFacts
<1>11. a = b
  <2> DEFINE m == n - k
  <2>1. /\ IsSeq(a) /\ IsSeq(b) /\ Len(a) = m /\ Len(b) = m
        /\ \A i \in 1 .. m : a[i] = b[i]
    BY <1>4, <1>10
  <2> HIDE DEF m, a, b
  <2>2. a \in Seq(ToSet(a) \cup ToSet(b)) /\ b \in Seq(ToSet(a) \cup ToSet(b))
    BY <2>1, SeqMonotonic DEF IsSeq
  <2> QED BY <2>1, <2>2, SeqEqual
<1> QED BY <1>4, <1>7, <1>8, <1>9, <1>11

LEMMA JoinPrefix ==
  ASSUME NEW d, NEW w, IsSeq(d), IsSeq(w)
  PROVE  Len(Join(d, w)) >= Len(d) /\ SubSeq(Join(d, w), 1, Len(d)) = d
<1> DEFINE e == Join(d, w)
           k == Len(d)
           a == SubSeq(e, 1, k)
<1>1. k \in Nat /\ Len(w) \in Nat /\ DOMAIN d = 1 .. k
  BY SeqFacts
<1>2. IsSeq(e) /\ Len(e) = k + Len(w) /\ \A i \in 1 .. k : e[i] = d[i]
  BY <1>1, JoinFacts
<1>3. k <= Len(e)
  BY <1>1, <1>2
<1> HIDE DEF e
<1>4. IsSeq(a) /\ Len(a) = k /\ \A i \in 1 .. k : a[i] = d[i]
  BY <1>1, <1>2, <1>3, PrefixFacts
<1> HIDE DEF a
<1>5. a \in Seq(ToSet(a) \cup ToSet(d)) /\ d \in Seq(ToSet(a) \cup ToSet(d))
  BY <1>4, SeqMonotonic DEF IsSeq
<1>6. a = d
  BY <1>4, <1>5, SeqEqual
<1> QED BY <1>1, <1>3, <1>6 DEF a, e

(* The pages of the first m steps.                                         *)
LEMMA PagesInPlace ==
  ASSUME SectionsApart, NEW r, Launchable(r), ~LoadFails(r), OwnSeed(r), NEW m \in Nat,
         m <= BeforeCpus(r), NoneFailed(r, m), NEW d, Folded(r, m, d)
  PROVE  /\ IsSeq(d) /\ Placed(r, d, m) /\ Cardinality(Saves(d)) = 0 /\ IsFiniteSet(Saves(d))
         /\ GuestLog(d) = d /\ Guest!InPlace(d, Layout(r))
<1>1. PICK c : Chain(r, c, m) /\ c[m] = d
  BY DEF Folded
<1>2. Placed(r, d, m)
  <2>1. m \in 0 .. m
    OBVIOUS
  <2> QED BY <1>1, <2>1, ChainPlaced
<1>3. ASSUME NEW i \in 1 .. m
      PROVE  NoSaves(Piece(r, i)) /\ ToSet(Piece(r, i)) \subseteq DOMAIN Layout(r)
  <2>1. i \in Nat \ {0} /\ i <= BeforeCpus(r) /\ NoneFailed(r, i)
    <3>1. BeforeCpus(r) \in Nat /\ Len(LaunchSections(r)) \in Nat
      BY LaunchSectionsAre
    <3> QED BY <3>1 DEF NoneFailed
  <2>2. NoSaves(Piece(r, i))
    BY <2>1, PieceIs
  <2>3. /\ SectionOf(r, i) \in 1 .. Len(LaunchSections(r))
        /\ ToSet(Piece(r, i)) \subseteq GuestPages(r, LaunchSections(r)[SectionOf(r, i)])
    BY <2>1, PiecesPlace
  <2>4. ToSet(Piece(r, i)) \subseteq DOMAIN Layout(r)
    BY <2>3, LayoutIs, ZenonT(60)
  <2> QED BY <2>2, <2>4
<1>4. ToSet(d) = FirstPages(r) \cup UNION {ToSet(Piece(r, i)) : i \in 1 .. m}
  BY <1>2 DEF Placed
<1>5. NoSaves(d)
  <2>1. \A p \in FirstPages(r) : p.type # "vmsa"
    BY OwnPagesAre DEF FirstPages, NoSaves
  <2> QED BY <1>3, <1>4, <2>1 DEF NoSaves
<1>6. ToSet(d) \subseteq DOMAIN Layout(r)
  <2>1. FirstPages(r) \subseteq DOMAIN Layout(r)
    BY LayoutIs
  <2> QED BY <1>3, <1>4, <2>1
<1>7. IsSeq(d) /\ Cardinality(Saves(d)) = 0 /\ GuestLog(d) = d
  BY <1>2, <1>5, LogOfPages DEF Placed
<1>8. IsFiniteSet(Saves(d))
  <2>1. Saves(d) = {}
    BY <1>5 DEF Saves, NoSaves, ToSet
  <2> QED BY <2>1, FS_EmptySet
<1>9. Guest!InPlace(d, Layout(r))
  BY <1>2, <1>6 DEF Guest!InPlace, Guest!Range, Guest!IsInjective, Placed, Once, ToSet
<1> QED BY <1>2, <1>7, <1>8, <1>9

(* How far the pages of a launch are in place.                             *)
GuestInv ==
  /\ stage # "idle" => OwnSeed(req)
  /\ stage = "sections" => NoneFailed(req, at - 1)
  /\ stage = "late cpuid" => NoneFailed(req, Len(LaunchSections(req)))
  /\ stage \in {"cpus", "measured"} =>
       /\ IsFiniteSet(Saves(ld)) /\ Cardinality(Saves(ld)) <= Len(ld)
       /\ Cardinality(Saves(ld)) = at - 1 /\ at <= CpusOf(req) + 1
       /\ ToSet(GuestLog(ld)) = DOMAIN Layout(req)

(* The number of steps made while pages are put in place.                  *)
PageSteps == IF stage = "sections" THEN at - 1 ELSE Len(LaunchSections(req)) + (at - 1)

LEMMA StepBounds ==
  ASSUME NEW n \in Nat, NEW l \in Nat, NEW a \in Nat, a # 0, a <= n + 1
  PROVE  /\ a - 1 \in Nat /\ a - 1 <= n + l /\ n <= n + l
         /\ n + (a - 1) \in Nat /\ (l = n => n + (a - 1) <= n + l)
         /\ \A i \in 1 .. n : i <= n
OBVIOUS

LEMMA PagesSoFar ==
  ASSUME SectionsApart, LaunchInv, GuestInv, stage \in {"sections", "late cpuid"}
  PROVE  /\ PageSteps \in Nat /\ PageSteps <= BeforeCpus(req) /\ NoneFailed(req, PageSteps)
         /\ Folded(req, PageSteps, ld)
<1> DEFINE n == Len(LaunchSections(req))
           l == LateSteps(req)
<1>1. /\ Launchable(req) /\ ~LoadFails(req) /\ at \in Nat /\ at # 0 /\ at <= n + 1
  BY DEF LaunchInv
<1>2. n \in Nat /\ l \in Nat /\ BeforeCpus(req) = n + l
  BY <1>1, LaunchSectionsAre
<1>3. stage = "late cpuid" => l = n
  BY DEF LateSteps, LaunchInv
<1>4. /\ at - 1 \in Nat /\ at - 1 <= n + l
      /\ n + (at - 1) \in Nat /\ (l = n => n + (at - 1) <= n + l)
      /\ \A i \in 1 .. n : i <= n
  BY <1>1, <1>2, StepBounds
<1>5. CASE stage = "sections"
  <2>1. PageSteps = at - 1
    BY <1>5 DEF PageSteps
  <2> QED BY <1>2, <1>4, <1>5, <2>1 DEF LaunchInv, GuestInv
<1>6. CASE stage = "late cpuid"
  <2>1. PageSteps = n + (at - 1)
    BY <1>6 DEF PageSteps
  <2>2. NoneFailed(req, n + (at - 1))
    BY <1>4, <1>6 DEF GuestInv, NoneFailed
  <2> QED BY <1>2, <1>3, <1>4, <1>6, <2>1, <2>2 DEF LaunchInv
<1> QED BY <1>5, <1>6

LEMMA PagesNow ==
  ASSUME SectionsApart, LaunchInv, GuestInv, stage \in {"sections", "late cpuid"}
  PROVE  /\ IsSeq(ld) /\ Placed(req, ld, PageSteps) /\ Cardinality(Saves(ld)) = 0
         /\ IsFiniteSet(Saves(ld))
         /\ GuestLog(ld) = ld /\ Guest!InPlace(ld, Layout(req))
         /\ gLayout = Layout(req) /\ gCpus = CpusOf(req) /\ gLog = ld /\ gSaved = 0
         /\ gState = "measuring"
<1>1. Launchable(req) /\ ~LoadFails(req) /\ OwnSeed(req)
  BY DEF LaunchInv, GuestInv
<1> DEFINE m == PageSteps
<1>2. m \in Nat /\ m <= BeforeCpus(req) /\ NoneFailed(req, m) /\ Folded(req, m, ld)
  BY PagesSoFar
<1> HIDE DEF m
<1>3. /\ IsSeq(ld) /\ Placed(req, ld, m) /\ Cardinality(Saves(ld)) = 0 /\ IsFiniteSet(Saves(ld))
      /\ GuestLog(ld) = ld /\ Guest!InPlace(ld, Layout(req))
  BY <1>1, <1>2, PagesInPlace
<1>4. Running
  BY DEF Running
<1>5. gState = "measuring"
  BY DEF gState
<1> QED BY <1>1, <1>3, <1>4, <1>5 DEF gLayout, gCpus, gLog, gSaved, m

(* The guest's actions in the terms of the launch.                         *)
LEMMA GuestBegins ==
  ASSUME gState = "idle", gState' = "measuring", Guest!InPlace(gLog', gLayout'), gSaved' = 0
  PROVE  Guest!Begin
BY DEF Guest!Begin, gState, gLog, gLayout, gSaved, GuestLog

LEMMA GuestPlaces ==
  ASSUME gState = "measuring", gSaved = 0, Len(gLog') >= Len(gLog),
         SubSeq(gLog', 1, Len(gLog)) = gLog, Guest!InPlace(gLog', gLayout),
         UNCHANGED <<gLayout, gCpus, gSaved, gState>>
  PROVE  Guest!Place
BY DEF Guest!Place, gState, gLog, gLayout, gSaved, gCpus, GuestLog

LEMMA GuestSaves ==
  ASSUME gState = "measuring", ToSet(gLog) = DOMAIN gLayout, gSaved < gCpus, gSaved' = gSaved + 1,
         UNCHANGED <<gLayout, gCpus, gLog, gState>>
  PROVE  Guest!Save
BY DEF Guest!Save, Guest!Complete, Guest!Range, ToSet, gState, gLog, gLayout, gSaved, gCpus, GuestLog

LEMMA GuestFinishes ==
  ASSUME gState = "measuring", ToSet(gLog) = DOMAIN gLayout, gSaved = gCpus, gState' = "measured",
         UNCHANGED <<gLayout, gCpus, gLog, gSaved>>
  PROVE  Guest!Finish
BY DEF Guest!Finish, Guest!Complete, Guest!Range, ToSet, gState, gLog, gLayout, gSaved, gCpus,
       GuestLog

LEMMA GuestGivesUp ==
  ASSUME gState \in {"idle", "measuring"}, gState' = "refused"
  PROVE  Guest!GiveUp
BY DEF Guest!GiveUp, gState

LEMMA GuestReturns ==
  ASSUME gState \in {"measured", "refused"}, gState' = "idle"
  PROVE  Guest!Return
BY DEF Guest!Return, gState

LEMMA GuestStutters ==
  ASSUME UNCHANGED <<gLayout, gCpus, gLog, gSaved, gState>>
  PROVE  UNCHANGED Guest!vars
BY DEF Guest!vars, gLayout, gCpus, gLog, gSaved, gState, GuestLog

(* The guest while a launch runs, now and after a step.                    *)
LEMMA GuestRuns ==
  ASSUME Running
  PROVE  gCpus = CpusOf(req) /\ gLog = GuestLog(ld) /\ gSaved = Cardinality(Saves(ld))
         /\ (~LoadFails(req) => gLayout = Layout(req))
BY DEF gLayout, gCpus, gLog, gSaved

LEMMA GuestRunsNext ==
  ASSUME Running'
  PROVE  gCpus' = CpusOf(req') /\ gLog' = GuestLog(ld') /\ gSaved' = Cardinality(Saves(ld'))
         /\ (~LoadFails(req') => gLayout' = Layout(req'))
BY DEF gLayout, gCpus, gLog, gSaved

LEMMA GuestRests ==
  ASSUME UNCHANGED <<req, ld, stage>>
  PROVE  UNCHANGED <<gLayout, gCpus, gLog, gSaved, gState>>
BY DEF gLayout, gCpus, gLog, gSaved, gState, Running

LEMMA LoadStep ==
  ASSUME SectionsApart, LaunchInv, LaunchInv', GuestInv, Load
  PROVE  GuestInv' /\ Guest!Begin
<1>1. /\ Launchable(req) /\ ~LoadFails(req) /\ OwnSeed(req) /\ stage = "load"
      /\ ld' = Loaded(req) /\ stage' = "sections" /\ at' = 1 /\ req' = req
  BY DEF LaunchInv, GuestInv, Load
<1>2. Len(LaunchSections(req)) \in Nat /\ BeforeCpus(req) \in Nat
  BY <1>1, LaunchSectionsAre
<1>3. NoneFailed(req, 0) /\ 0 <= BeforeCpus(req)
  BY <1>2 DEF NoneFailed
<1>4. Folded(req, 0, ld')
  BY <1>1, FoldedStart
<1>5. /\ Cardinality(Saves(ld')) = 0 /\ GuestLog(ld') = ld' /\ Guest!InPlace(ld', Layout(req))
  <2> DEFINE d == ld'
  <2>1. Folded(req, 0, d)
    BY <1>4
  <2> HIDE DEF d
  <2>2. Cardinality(Saves(d)) = 0 /\ GuestLog(d) = d /\ Guest!InPlace(d, Layout(req))
    BY <1>1, <1>3, <2>1, PagesInPlace
  <2> QED BY <2>2 DEF d
<1>6. Running' /\ gState = "idle" /\ gState' = "measuring"
  BY <1>1 DEF Running, gState
<1>7. gLog' = ld' /\ gSaved' = 0 /\ gLayout' = Layout(req)
  <2>1. gLog' = GuestLog(ld') /\ gSaved' = Cardinality(Saves(ld')) /\ gLayout' = Layout(req')
    BY <1>1, <1>6, GuestRunsNext
  <2> QED BY <1>1, <1>5, <2>1
<1>8. Guest!InPlace(gLog', gLayout')
  BY <1>5, <1>7
<1>9. Guest!Begin
  BY <1>6, <1>7, <1>8, GuestBegins
<1>10. GuestInv'
  <2>1. OwnSeed(req)' /\ NoneFailed(req, at - 1)'
    <3>1. at' - 1 = 0
      BY <1>1
    <3> QED BY <1>1, <1>3, <3>1
  <2> QED BY <1>1, <2>1 DEF GuestInv
<1> QED BY <1>9, <1>10

(* A step that folds pages in.                                             *)
LEMMA PlaceStep ==
  ASSUME SectionsApart, LaunchInv, GuestInv, UNCHANGED req,
         stage \in {"sections", "late cpuid"}, stage' = stage,
         NEW m \in Nat, m <= BeforeCpus(req), NoneFailed(req, m), Folded(req, m, ld'),
         NEW w, IsSeq(w), ld' = Join(ld, w)
  PROVE  Guest!Place
<1>1. /\ IsSeq(ld) /\ gLayout = Layout(req) /\ gCpus = CpusOf(req) /\ gLog = ld /\ gSaved = 0
      /\ gState = "measuring"
  BY PagesNow
<1>2. /\ Cardinality(Saves(ld')) = 0 /\ GuestLog(ld') = ld' /\ Guest!InPlace(ld', Layout(req))
  <2> DEFINE d == ld'
  <2>1. Launchable(req) /\ ~LoadFails(req) /\ OwnSeed(req) /\ Folded(req, m, d)
    BY DEF LaunchInv, GuestInv
  <2> HIDE DEF d
  <2>2. Cardinality(Saves(d)) = 0 /\ GuestLog(d) = d /\ Guest!InPlace(d, Layout(req))
    BY <2>1, PagesInPlace
  <2> QED BY <2>2 DEF d
<1>3. /\ gLayout' = Layout(req) /\ gCpus' = CpusOf(req) /\ gLog' = ld' /\ gSaved' = 0
      /\ gState' = "measuring"
  <2>1. Running' /\ gState' = "measuring" /\ ~LoadFails(req')
    BY DEF Running, gState, LaunchInv
  <2>2. gCpus' = CpusOf(req') /\ gLog' = GuestLog(ld') /\ gSaved' = Cardinality(Saves(ld'))
        /\ gLayout' = Layout(req')
    BY <2>1, GuestRunsNext
  <2> QED BY <1>2, <2>1, <2>2
<1>4. Len(ld') >= Len(ld) /\ SubSeq(ld', 1, Len(ld)) = ld
  BY <1>1, JoinPrefix
<1>5. UNCHANGED <<gLayout, gCpus, gSaved, gState>>
  BY <1>1, <1>3
<1>6. Len(gLog') >= Len(gLog) /\ SubSeq(gLog', 1, Len(gLog)) = gLog
      /\ Guest!InPlace(gLog', gLayout)
  BY <1>1, <1>2, <1>3, <1>4
<1> QED BY <1>1, <1>5, <1>6, GuestPlaces

LEMMA FoldSectionStep ==
  ASSUME SectionsApart, LaunchInv, LaunchInv', GuestInv, FoldSection
  PROVE  GuestInv' /\ Guest!Place
<1> DEFINE n == Len(LaunchSections(req))
           w == SectionPages(req, LaunchSections(req)[at])
<1>1. /\ Launchable(req) /\ ~LoadFails(req) /\ at \in Nat /\ at # 0 /\ at <= n
      /\ stage = "sections" /\ NoneFailed(req, at - 1) /\ OwnSeed(req)
      /\ ~SectionFails(req, LaunchSections(req)[at])
      /\ ld' = ld \o w /\ at' = at + 1 /\ UNCHANGED <<req, stage, done>>
  BY DEF LaunchInv, GuestInv, FoldSection
<1>2. n \in Nat /\ LateSteps(req) \in Nat /\ BeforeCpus(req) = n + LateSteps(req)
      /\ \A i \in 1 .. n : LaunchSections(req)[i] \in Section
  BY <1>1, LaunchSectionsAre
<1>3. at \in 1 .. n /\ at <= BeforeCpus(req) /\ at' - 1 = at
      /\ \A i \in 1 .. n : i <= at => i <= at - 1 \/ i = at
  <2>1. ASSUME NEW a \in Nat, a # 0, NEW k \in Nat, a <= k, NEW l \in Nat
        PROVE  a \in 1 .. k /\ a <= k + l /\ (a + 1) - 1 = a
               /\ \A i \in 1 .. k : i <= a => i <= a - 1 \/ i = a
    BY <2>1
  <2> QED BY <1>1, <1>2, <2>1
<1>4. NoneFailed(req, at)
  BY <1>1, <1>3 DEF NoneFailed
<1>5. IsSeq(w) /\ ld' = Join(ld, w)
  BY <1>1, <1>2, <1>3, SectionPagesAre DEF Join, Pages
<1>6. Folded(req, at, ld')
  <2>1. stage' = "sections" /\ req' = req
    BY <1>1
  <2>2. Folded(req', at' - 1, ld')
    BY <2>1 DEF LaunchInv
  <2> QED BY <1>3, <2>1, <2>2
<1> HIDE DEF w, n
<1>7. Guest!Place
  BY <1>1, <1>3, <1>4, <1>5, <1>6, PlaceStep
<1>8. GuestInv'
  <2>1. OwnSeed(req)' /\ NoneFailed(req, at - 1)'
    BY <1>1, <1>3, <1>4
  <2> QED BY <1>1, <2>1 DEF GuestInv
<1> QED BY <1>7, <1>8

LEMMA FoldLateCpuidStep ==
  ASSUME SectionsApart, LaunchInv, LaunchInv', GuestInv, FoldLateCpuid
  PROVE  GuestInv' /\ Guest!Place
<1> DEFINE n == Len(LaunchSections(req))
           w == LatePages(LaunchSections(req)[at])
<1>1. /\ Launchable(req) /\ ~LoadFails(req) /\ at \in Nat /\ at # 0 /\ at <= n
      /\ stage = "late cpuid" /\ NoneFailed(req, n) /\ OwnSeed(req) /\ Pages(ld)
      /\ FoldsLateCpuid(req) /\ at' = at + 1 /\ UNCHANGED <<req, stage, done>>
  BY DEF LaunchInv, GuestInv, FoldLateCpuid
<1>2. n \in Nat /\ LateSteps(req) = n /\ BeforeCpus(req) = n + n
      /\ \A i \in 1 .. n : LaunchSections(req)[i] \in Section
  BY <1>1, LaunchSectionsAre DEF LateSteps
<1>3. /\ at \in 1 .. n /\ n + at <= BeforeCpus(req) /\ n + (at' - 1) = n + at
      /\ n + at \in Nat /\ \A i \in 1 .. n : i <= n
  <2>1. at \in 1 .. n /\ n + at <= n + n /\ n + at \in Nat /\ (\A i \in 1 .. n : i <= n)
        /\ (at + 1) - 1 = at
    <3>1. ASSUME NEW a \in Nat, a # 0, NEW k \in Nat, a <= k
          PROVE  a \in 1 .. k /\ k + a <= k + k /\ k + a \in Nat /\ (\A i \in 1 .. k : i <= k)
                 /\ (a + 1) - 1 = a
      BY <3>1
    <3> QED BY <1>1, <1>2, <3>1
  <2>2. at' - 1 = at
    BY <1>1, <2>1
  <2> HIDE DEF n
  <2> QED BY <1>2, <2>1, <2>2
<1>4. NoneFailed(req, n + at)
  BY <1>1, <1>3 DEF NoneFailed
<1>5. IsSeq(w) /\ ld' = Join(ld, w)
  <2>1. ld' = IF LaunchSections(req)[at].type = "cpuid"
              THEN ld \o Unhashed("cpuid", LaunchSections(req)[at].gpa, 1) ELSE ld
    BY DEF FoldLateCpuid
  <2>2. Join(ld, <<>>) = ld
    BY <1>1, ConcatEmptySeq DEF Join, IsSeq, Pages
  <2>3. IsSeq(w)
    BY <1>2, <1>3, LatePagesAre DEF Pages
  <2> QED BY <2>1, <2>2, <2>3 DEF Join, LatePages
<1>6. Folded(req, n + at, ld')
  <2>1. stage' = "late cpuid" /\ req' = req
    BY <1>1
  <2>2. Folded(req', Len(LaunchSections(req')) + (at' - 1), ld')
    BY <2>1 DEF LaunchInv
  <2> QED BY <1>3, <2>1, <2>2
<1>7. Guest!Place
  <2> HIDE DEF w, n
  <2> QED BY <1>1, <1>3, <1>4, <1>5, <1>6, PlaceStep
<1>8. GuestInv'
  <2>1. OwnSeed(req)' /\ NoneFailed(req, Len(LaunchSections(req)))'
    BY <1>1
  <2> QED BY <1>1, <2>1 DEF GuestInv
<1> QED BY <1>7, <1>8

(* The steps that leave the guest's memory alone.                          *)
LEMMA SectionsEndStep ==
  ASSUME SectionsApart, LaunchInv, GuestInv, SectionsEnd
  PROVE  GuestInv' /\ UNCHANGED Guest!vars
<1> DEFINE n == Len(LaunchSections(req))
<1>1. /\ Launchable(req) /\ ~LoadFails(req) /\ at \in Nat /\ at > n /\ at <= n + 1
      /\ stage = "sections" /\ NoneFailed(req, at - 1) /\ OwnSeed(req)
      /\ stage' = "late cpuid" /\ UNCHANGED <<req, ld, done>>
  BY DEF LaunchInv, GuestInv, SectionsEnd
<1>2. n \in Nat
  BY <1>1, LaunchSectionsAre
<1>3. NoneFailed(req, n)
  <2>1. at - 1 = n
    <3>1. ASSUME NEW a \in Nat, NEW k \in Nat, a > k, a <= k + 1 PROVE a - 1 = k
      BY <3>1
    <3> QED BY <1>1, <1>2, <3>1
  <2> QED BY <1>1, <2>1
<1>4. GuestInv'
  <2>1. OwnSeed(req)' /\ NoneFailed(req, Len(LaunchSections(req)))'
    BY <1>1, <1>3
  <2> QED BY <1>1, <2>1 DEF GuestInv
<1>5. UNCHANGED <<gLayout, gCpus, gLog, gSaved, gState>>
  BY <1>1 DEF gLayout, gCpus, gLog, gSaved, gState, Running
<1> QED BY <1>4, <1>5, GuestStutters

LEMMA StartCpusStep ==
  ASSUME SectionsApart, LaunchInv, GuestInv, StartCpus
  PROVE  GuestInv' /\ UNCHANGED Guest!vars
<1> DEFINE n == Len(LaunchSections(req))
<1>1. /\ Launchable(req) /\ ~LoadFails(req) /\ at \in Nat /\ at > n /\ at <= n + 1
      /\ stage \in {"sections", "late cpuid"} /\ (stage = "late cpuid" <=> FoldsLateCpuid(req))
      /\ OwnSeed(req) /\ stage' = "cpus" /\ at' = 1 /\ UNCHANGED <<req, ld, done>>
  BY DEF LaunchInv, GuestInv, StartCpus, PagesEnd
<1>2. n \in Nat /\ BeforeCpus(req) = n + LateSteps(req) /\ CpusOf(req) \in Nat
  BY <1>1, LaunchSectionsAre
<1>3. PageSteps = BeforeCpus(req)
  <2>1. at - 1 = n /\ n + 0 = n
    <3>1. ASSUME NEW a \in Nat, NEW k \in Nat, a > k, a <= k + 1 PROVE a - 1 = k /\ k + 0 = k
      BY <3>1
    <3> QED BY <1>1, <1>2, <3>1
  <2>2. CASE stage = "sections"
    BY <1>1, <1>2, <2>1, <2>2 DEF PageSteps, LateSteps
  <2>3. CASE stage = "late cpuid"
    BY <1>1, <1>2, <2>1, <2>3 DEF PageSteps, LateSteps
  <2> QED BY <1>1, <2>2, <2>3
<1>4. /\ IsSeq(ld) /\ Placed(req, ld, BeforeCpus(req)) /\ Cardinality(Saves(ld)) = 0
      /\ IsFiniteSet(Saves(ld)) /\ GuestLog(ld) = ld /\ NoneFailed(req, BeforeCpus(req))
  BY <1>1, <1>3, PagesNow, PagesSoFar
<1>5. ToSet(GuestLog(ld)) = DOMAIN Layout(req)
  <2> DEFINE d == ld
  <2>1. Placed(req, d, BeforeCpus(req))
    BY <1>4
  <2> HIDE DEF d
  <2>2. ToSet(d) = DOMAIN Layout(req)
    BY <1>1, <1>4, <2>1, AllPlaced
  <2> QED BY <1>4, <2>2 DEF d
<1>6. 0 <= Len(ld) /\ at' - 1 = 0 /\ at' <= CpusOf(req) + 1
  <2>1. Len(ld) \in Nat
    BY <1>4, SeqFacts
  <2>2. ASSUME NEW c \in Nat, NEW k \in Nat PROVE 1 <= c + 1 /\ 1 - 1 = 0 /\ 0 <= k
    BY <2>2
  <2>3. 1 <= CpusOf(req) + 1 /\ 1 - 1 = 0 /\ 0 <= Len(ld)
    BY <1>2, <2>1, <2>2
  <2> QED BY <1>1, <2>3
<1>7. GuestInv'
  BY <1>1, <1>4, <1>5, <1>6 DEF GuestInv
<1>8. UNCHANGED <<gLayout, gCpus, gLog, gSaved, gState>>
  BY <1>1 DEF gLayout, gCpus, gLog, gSaved, gState, Running
<1> QED BY <1>7, <1>8, GuestStutters

(* A step that saves a CPU, and the steps that end a launch.               *)
LEMMA SaveCpuStep ==
  ASSUME LaunchInv, GuestInv, SaveCpu
  PROVE  GuestInv' /\ Guest!Save
<1> DEFINE p == SaveArea(req, at)
<1>1. /\ Launchable(req) /\ ~LoadFails(req) /\ at \in Nat /\ at # 0 /\ at <= CpusOf(req)
      /\ stage = "cpus" /\ Pages(ld) /\ OwnSeed(req) /\ CpusOf(req) \in Nat
      /\ ld' = Append(ld, p) /\ at' = at + 1 /\ UNCHANGED <<req, stage, done>>
  BY LaunchSectionsAre DEF LaunchInv, GuestInv, SaveCpu
<1>2. /\ IsFiniteSet(Saves(ld)) /\ Cardinality(Saves(ld)) <= Len(ld)
      /\ Cardinality(Saves(ld)) = at - 1 /\ ToSet(GuestLog(ld)) = DOMAIN Layout(req)
  BY <1>1 DEF GuestInv
<1>3. p.type = "vmsa" /\ IsSeq(ld)
  BY <1>1, SaveAreaIs DEF Pages
<1>4. /\ IsFiniteSet(Saves(ld')) /\ Cardinality(Saves(ld')) <= Len(ld')
      /\ Cardinality(Saves(ld')) = Cardinality(Saves(ld)) + 1 /\ GuestLog(ld') = GuestLog(ld)
  <2> DEFINE e == ld'
  <2>1. e = Append(ld, p)
    BY <1>1
  <2> HIDE DEF e, p
  <2>2. /\ IsFiniteSet(Saves(e)) /\ Cardinality(Saves(e)) <= Len(e)
        /\ Cardinality(Saves(e)) = Cardinality(Saves(ld)) + 1 /\ GuestLog(e) = GuestLog(ld)
    BY <1>2, <1>3, <2>1, LogOfSave
  <2> QED BY <2>2 DEF e
<1>5. /\ at - 1 < CpusOf(req) /\ (at - 1) + 1 = at' - 1 /\ at' <= CpusOf(req) + 1
  <2>1. ASSUME NEW a \in Nat, NEW c \in Nat, a <= c
        PROVE  a - 1 < c /\ (a - 1) + 1 = (a + 1) - 1 /\ a + 1 <= c + 1
    BY <2>1
  <2> QED BY <1>1, <2>1
<1>6. GuestInv'
  BY <1>1, <1>2, <1>4, <1>5 DEF GuestInv
<1>7. Running /\ Running' /\ gState = "measuring" /\ gState' = "measuring"
  BY <1>1 DEF Running, gState
<1>8. /\ gLayout = Layout(req) /\ gCpus = CpusOf(req) /\ gLog = GuestLog(ld)
      /\ gSaved = Cardinality(Saves(ld))
      /\ gLayout' = Layout(req) /\ gCpus' = CpusOf(req) /\ gLog' = GuestLog(ld')
      /\ gSaved' = Cardinality(Saves(ld'))
  <2>1. ~LoadFails(req) /\ ~LoadFails(req') /\ req' = req
    BY <1>1
  <2> QED BY <1>7, <2>1, GuestRuns, GuestRunsNext
<1>9. /\ ToSet(gLog) = DOMAIN gLayout /\ gSaved < gCpus /\ gSaved' = gSaved + 1
      /\ UNCHANGED <<gLayout, gCpus, gLog, gState>>
  BY <1>2, <1>4, <1>5, <1>7, <1>8
<1>10. Guest!Save
  BY <1>7, <1>9, GuestSaves
<1> QED BY <1>6, <1>10

LEMMA MeasuredStep ==
  ASSUME LaunchInv, GuestInv, Measured
  PROVE  GuestInv' /\ Guest!Finish
<1>1. /\ Launchable(req) /\ ~LoadFails(req) /\ at \in Nat /\ at > CpusOf(req)
      /\ at <= CpusOf(req) + 1 /\ stage = "cpus" /\ OwnSeed(req) /\ CpusOf(req) \in Nat
      /\ stage' = "measured" /\ UNCHANGED <<req, ld, at>>
  BY LaunchSectionsAre DEF LaunchInv, GuestInv, Measured
<1>2. /\ IsFiniteSet(Saves(ld)) /\ Cardinality(Saves(ld)) <= Len(ld)
      /\ Cardinality(Saves(ld)) = at - 1 /\ ToSet(GuestLog(ld)) = DOMAIN Layout(req)
  BY <1>1 DEF GuestInv
<1>3. at - 1 = CpusOf(req)
  <2>1. ASSUME NEW a \in Nat, NEW c \in Nat, a > c, a <= c + 1 PROVE a - 1 = c
    BY <2>1
  <2> QED BY <1>1, <2>1
<1>4. GuestInv'
  BY <1>1, <1>2 DEF GuestInv
<1>5. Running /\ Running' /\ gState = "measuring" /\ gState' = "measured"
  BY <1>1 DEF Running, gState
<1>6. UNCHANGED <<gLayout, gCpus, gLog, gSaved>>
  BY <1>1, <1>5 DEF gLayout, gCpus, gLog, gSaved
<1>7. ToSet(gLog) = DOMAIN gLayout /\ gSaved = gCpus
  BY <1>1, <1>2, <1>3, <1>5, GuestRuns
<1> QED BY <1>4, <1>5, <1>6, <1>7, GuestFinishes

LEMMA RefuseStep ==
  ASSUME GuestInv, Refuse
  PROVE  GuestInv' /\ Guest!GiveUp
<1>1. stage \in {"load", "sections", "late cpuid"} /\ stage' = "refused"
      /\ UNCHANGED <<req, ld, at, done>>
  BY DEF Refuse, PagesEnd
<1>2. gState \in {"idle", "measuring"} /\ gState' = "refused"
  BY <1>1 DEF gState
<1>3. GuestInv'
  BY <1>1 DEF GuestInv
<1> QED BY <1>2, <1>3, GuestGivesUp

LEMMA ReturnStep ==
  ASSUME Return
  PROVE  GuestInv' /\ Guest!Return
<1>1. gState \in {"measured", "refused"} /\ gState' = "idle"
  BY DEF Return, gState
<1>2. GuestInv'
  BY DEF Return, GuestInv
<1> QED BY <1>1, <1>2, GuestReturns

LEMMA BeginStep ==
  ASSUME NEW r, OwnSeed(r), Begin(r)
  PROVE  GuestInv' /\ UNCHANGED Guest!vars
<1>1. stage = "idle" /\ stage' = "load" /\ req' = r
  BY DEF Begin
<1>2. UNCHANGED <<gLayout, gCpus, gLog, gSaved, gState>>
  BY <1>1 DEF gLayout, gCpus, gLog, gSaved, gState, Running
<1>3. GuestInv'
  BY <1>1 DEF GuestInv
<1> QED BY <1>2, <1>3, GuestStutters

LEMMA RestStep ==
  ASSUME GuestInv, UNCHANGED launchVars
  PROVE  GuestInv' /\ UNCHANGED Guest!vars
<1>1. UNCHANGED <<req, ld, stage, at>>
  BY DEF launchVars
<1>2. GuestInv'
  BY <1>1 DEF GuestInv
<1> QED BY <1>1, <1>2, GuestRests, GuestStutters

LEMMA LaunchingGuest ==
  ASSUME SectionsApart, LaunchInv, LaunchInv', GuestInv, Launching
  PROVE  GuestInv' /\ [Guest!Next]_(Guest!vars)
<1>1. CASE Load          BY <1>1, LoadStep DEF Guest!Next
<1>2. CASE FoldSection   BY <1>2, FoldSectionStep DEF Guest!Next
<1>3. CASE SectionsEnd   BY <1>3, SectionsEndStep
<1>4. CASE FoldLateCpuid BY <1>4, FoldLateCpuidStep DEF Guest!Next
<1>5. CASE StartCpus     BY <1>5, StartCpusStep
<1>6. CASE SaveCpu       BY <1>6, SaveCpuStep DEF Guest!Next
<1>7. CASE Measured      BY <1>7, MeasuredStep DEF Guest!Next
<1>8. CASE Refuse        BY <1>8, RefuseStep DEF Guest!Next
<1> QED
  BY <1>1, <1>2, <1>3, <1>4, <1>5, <1>6, <1>7, <1>8 DEF Launching

(* The callers begin launches and end them; what else they do leaves the   *)
(* guest alone.                                                            *)
LEMMA GuestNext ==
  ASSUME SectionsApart, SeedsAreHashes, LaunchInv, LaunchInv', GuestInv, [Next]_vars
  PROVE  GuestInv' /\ [Guest!Next]_(Guest!vars)
<1>1. CASE UNCHANGED launchVars
  BY <1>1, RestStep
<1>2. CASE \E k \in DOMAIN Cpus : StartCpu(k)
  <2>1. PICK k \in DOMAIN Cpus : StartCpu(k)
    BY <1>2
  <2>2. OwnSeed(CpuRequest(k)) /\ Begin(CpuRequest(k))
    BY <2>1 DEF StartCpu, OwnSeed, CpuRequest
  <2> QED BY <2>2, BeginStep
<1>3. CASE StartLibrary
  <2>1. PICK r \in Requests : Begin(r)
    BY <1>3 DEF StartLibrary
  <2>2. OwnSeed(r)
    BY <2>1 DEF SeedsAreHashes, OwnSeed
  <2> QED BY <2>1, <2>2, BeginStep
<1>4. CASE LaunchStep
  BY <1>4, LaunchingGuest DEF LaunchStep
<1>5. CASE \E k \in DOMAIN Cpus : CpuDone(k)
  BY <1>5, ReturnStep DEF CpuDone, Guest!Next
<1>6. CASE LibraryDone
  BY <1>6, ReturnStep DEF LibraryDone, Guest!Next
<1>7. CASE Start BY <1>1, <1>7 DEF Start, launchVars
<1>8. CASE NoOvmf("LAUNCH_DIGEST") \/ NoOvmf("MRTD") BY <1>1, <1>8 DEF NoOvmf
<1>9. CASE \E f \in FileNames : ReadFile(f) BY <1>1, <1>9 DEF ReadFile
<1>10. CASE \E k \in DOMAIN Cpus : NoFirmware(k) BY <1>1, <1>10 DEF NoFirmware
<1>11. CASE \E m \in Registers : MeasureTdx(m) BY <1>1, <1>11 DEF MeasureTdx
<1>12. CASE Finish BY <1>1, <1>12 DEF Finish, launchVars
<1>13. CASE \E f \in FileNames : Replace(f) BY <1>1, <1>13 DEF Replace, launchVars
<1>14. CASE UNCHANGED vars BY <1>1, <1>14 DEF vars
<1>15. CASE AllDone BY <1>1, <1>15 DEF AllDone, vars
<1> QED
  BY <1>2, <1>3, <1>4, <1>5, <1>6, <1>7, <1>8, <1>9, <1>10, <1>11, <1>12, <1>13, <1>14, <1>15
     DEF Next, Proceed

(* A launch (snp_calc_, svsm_calc_, seves_calc_ and                        *)
(* sev_calc_launch_digest) measures each page of the firmware and of its   *)
(* sections once and in its turn, then each CPU's save area, or refuses,   *)
(* for all firmware whose sections lie apart and every caller whose hash   *)
(* is the firmware's.                                                      *)
THEOREM LaunchesMeasureGuests ==
  ASSUME SectionsApart, SeedsAreHashes
  PROVE  Spec => LaunchMeasuresGuest
<1> DEFINE Inv == KernelInv /\ LaunchInv /\ GuestInv
<1>1. Init => Inv
  <2>1. ASSUME Init PROVE GuestInv
    BY <2>1 DEF Init, LaunchInit, GuestInv
  <2> QED BY <2>1, KernelInit, LaunchInit0 DEF Init
<1>2. Init => Guest!Init
  BY DEF Init, LaunchInit, Guest!Init
<1>3. Inv /\ [Next]_vars => Inv'
  BY KernelNext, LaunchNextFolds, GuestNext
<1>4. Inv /\ Inv' /\ [Next]_vars => [Guest!Next]_(Guest!vars)
  BY GuestNext
<1> HIDE DEF Inv
<1> QED
  BY <1>1, <1>2, <1>3, <1>4, PTL DEF Spec, LaunchMeasuresGuest, Guest!Spec

-----------------------------------------------------------------------------
(* The concatenations of FlattenSeq, one after the other.                  *)
Flattens(ss, f, m) ==
  f[1] = ss[1] /\ \A i \in 2 .. m : f[i] = Join(f[i - 1], ss[i])

LEMMA FlattensExist ==
  ASSUME NEW ss
  PROVE  \A m \in Nat : \E f : Flattens(ss, f, m)
<1> DEFINE S == {m \in Nat : \E f : Flattens(ss, f, m)}
<1>1. 0 \in S
  <2> DEFINE f == [i \in {1} |-> ss[1]]
  <2>1. f[1] = ss[1] /\ \A i \in 2 .. 0 : FALSE
    OBVIOUS
  <2> QED BY <2>1 DEF Flattens
<1>2. ASSUME NEW m \in Nat, m \in S
      PROVE  m + 1 \in S
  <2>1. PICK f : Flattens(ss, f, m)
    BY <1>2
  <2> DEFINE new == IF m = 0 THEN ss[1] ELSE Join(f[m], ss[m + 1])
             e   == [i \in 1 .. m + 1 |-> IF i = m + 1 THEN new ELSE f[i]]
  <2>2. e[m + 1] = new /\ \A i \in 1 .. m : e[i] = f[i]
    OBVIOUS
  <2> HIDE DEF e
  <2>3. e[1] = ss[1]
    <3>1. CASE m = 0
      BY <2>2, <3>1
    <3>2. CASE m # 0
      <4>1. 1 \in 1 .. m
        BY <3>2
      <4> QED BY <2>1, <2>2, <4>1 DEF Flattens
    <3> QED BY <3>1, <3>2
  <2>4. ASSUME NEW i \in 2 .. m + 1
        PROVE  e[i] = Join(e[i - 1], ss[i])
    <3>1. CASE i = m + 1
      <4>1. m # 0 /\ i - 1 = m /\ m \in 1 .. m
        BY <3>1
      <4>2. e[i - 1] = f[m] /\ e[i] = Join(f[m], ss[m + 1])
        BY <2>2, <3>1, <4>1
      <4> QED BY <3>1, <4>2
    <3>2. CASE i # m + 1
      <4>1. i \in 2 .. m /\ i \in 1 .. m /\ i - 1 \in 1 .. m
        BY <3>2
      <4>2. e[i] = f[i] /\ e[i - 1] = f[i - 1]
        BY <2>2, <4>1
      <4> QED BY <2>1, <4>1, <4>2 DEF Flattens
    <3> QED BY <3>1, <3>2
  <2>5. Flattens(ss, e, m + 1)
    BY <2>3, <2>4 DEF Flattens
  <2> QED BY <2>5
<1> HIDE DEF S
<1>3. Nat \subseteq S
  BY <1>1, <1>2, Induction
<1> QED BY <1>3 DEF S

LEMMA FlattenIs ==
  ASSUME NEW ss, NEW n \in Nat, n # 0, Len(ss) = n
  PROVE  \E f : Flattens(ss, f, n) /\ FlattenSeq(ss) = f[n]
<1> DEFINE g == CHOOSE g : g = [i \in 1 .. n |-> IF i = 1 THEN ss[i] ELSE g[i - 1] \o ss[i]]
<1>1. FlattenSeq(ss) = g[n]
  BY DEF FlattenSeq
<1>2. PICK f : Flattens(ss, f, n)
  BY FlattensExist
<1> DEFINE h == [i \in 1 .. n |-> f[i]]
<1>3. ASSUME NEW i \in 1 .. n
      PROVE  h[i] = IF i = 1 THEN ss[i] ELSE h[i - 1] \o ss[i]
  <2>1. CASE i = 1
    BY <1>2, <2>1 DEF Flattens
  <2>2. CASE i # 1
    <3>1. i \in 2 .. n /\ i - 1 \in 1 .. n
      BY <2>2
    <3> QED BY <1>2, <2>2, <3>1 DEF Flattens, Join
  <2> QED BY <2>1, <2>2
<1>4. h = [i \in 1 .. n |-> IF i = 1 THEN ss[i] ELSE h[i - 1] \o ss[i]]
  BY <1>3, ZenonT(30)
<1> HIDE DEF h
<1>5. g = [i \in 1 .. n |-> IF i = 1 THEN ss[i] ELSE g[i - 1] \o ss[i]]
  BY <1>4, ZenonT(30)
<1> HIDE DEF g
<1>6. Flattens(ss, g, n)
  <2>1. g[1] = ss[1]
    <3>1. 1 \in 1 .. n
      OBVIOUS
    <3> QED BY <1>5, <3>1
  <2>2. ASSUME NEW i \in 2 .. n
        PROVE  g[i] = Join(g[i - 1], ss[i])
    <3>1. i \in 1 .. n /\ i # 1
      OBVIOUS
    <3> QED BY <1>5, <3>1 DEF Join
  <2> QED BY <2>1, <2>2 DEF Flattens
<1> QED BY <1>1, <1>6

(* Block b is in w, behind the first o elements.                           *)
Within(w, b, o) == \A j \in DOMAIN b : o + j \in DOMAIN w /\ w[o + j] = b[j]

Apart(ss, m) == \A i, j \in 1 .. m : i # j => ToSet(ss[i]) \cap ToSet(ss[j]) = {}

(* The first m blocks, one after the other.                                *)
Blocks(ss, m, w) ==
  /\ IsSeq(w) /\ ToSet(w) = UNION {ToSet(ss[i]) : i \in 1 .. m}
  /\ \A i \in DOMAIN w : \E k \in 1 .. m : \E o \in Nat :
       Within(w, ss[k], o) /\ i - o \in DOMAIN ss[k]
  /\ (\A i \in 1 .. m : Once(ss[i])) /\ Apart(ss, m) => Once(w)

LEMMA BlocksOn ==
  ASSUME NEW ss, NEW m \in Nat, NEW w, Blocks(ss, m, w), IsSeq(ss[m + 1])
  PROVE  Blocks(ss, m + 1, Join(w, ss[m + 1]))
<1> DEFINE b == ss[m + 1]
           v == Join(w, b)
           l == Len(w)
<1>0. IsSeq(w) /\ IsSeq(b) /\ l \in Nat
  BY SeqFacts DEF Blocks
<1>1. /\ IsSeq(v) /\ ToSet(v) = ToSet(w) \cup ToSet(b)
      /\ \A i \in DOMAIN w : i \in DOMAIN v /\ v[i] = w[i]
      /\ \A j \in DOMAIN b : l + j \in DOMAIN v /\ v[l + j] = b[j]
      /\ \A i \in DOMAIN v : i \in DOMAIN w \/ \E j \in DOMAIN b : i = l + j
  BY <1>0, JoinFacts
<1> HIDE DEF v, l
<1>2. m + 1 \in 1 .. m + 1 /\ \A i \in 1 .. m : i \in 1 .. m + 1
  OBVIOUS
<1>3. ToSet(v) = UNION {ToSet(ss[i]) : i \in 1 .. m + 1}
  <2>1. \A i \in 1 .. m + 1 : i \in 1 .. m \/ i = m + 1
    OBVIOUS
  <2> QED BY <1>1, <1>2, <2>1 DEF Blocks
<1>4. ASSUME NEW i \in DOMAIN v
      PROVE  \E k \in 1 .. m + 1 : \E o \in Nat : Within(v, ss[k], o) /\ i - o \in DOMAIN ss[k]
  <2>1. CASE i \in DOMAIN w
    <3>1. PICK k \in 1 .. m, o \in Nat : Within(w, ss[k], o) /\ i - o \in DOMAIN ss[k]
      BY <2>1 DEF Blocks
    <3>2. Within(v, ss[k], o)
      BY <1>1, <3>1 DEF Within
    <3> QED BY <1>2, <3>1, <3>2
  <2>2. CASE i \notin DOMAIN w
    <3>1. PICK j \in DOMAIN b : i = l + j
      BY <1>1, <2>2
    <3>2. Within(v, b, l)
      BY <1>1 DEF Within
    <3>3. i - l = j
      <4>1. j \in Nat
        BY <1>0, SeqFacts
      <4> QED BY <1>0, <3>1, <4>1 DEF l
    <3> QED BY <1>0, <1>2, <3>1, <3>2, <3>3 DEF l
  <2> QED BY <2>1, <2>2
<1>5. ASSUME \A i \in 1 .. m + 1 : Once(ss[i]), Apart(ss, m + 1)
      PROVE  Once(v)
  <2>1. Once(w) /\ Once(b)
    BY <1>2, <1>5 DEF Blocks, Apart
  <2>2. ToSet(w) \cap ToSet(b) = {}
    <3>1. \A i \in 1 .. m : ToSet(ss[i]) \cap ToSet(b) = {}
      <4>1. \A i \in 1 .. m : i # m + 1
        OBVIOUS
      <4> QED BY <1>2, <1>5, <4>1 DEF Apart
    <3> QED BY <3>1 DEF Blocks
  <2>3. ASSUME NEW i \in DOMAIN v, NEW j \in DOMAIN v, v[i] = v[j]
        PROVE  i = j
    <3>1. CASE i \in DOMAIN w /\ j \in DOMAIN w
      BY <1>1, <2>1, <2>3, <3>1 DEF Once
    <3>2. CASE i \notin DOMAIN w /\ j \notin DOMAIN w
      BY <1>1, <2>1, <2>3, <3>2 DEF Once
    <3>3. CASE i \in DOMAIN w /\ j \notin DOMAIN w
      <4>1. v[i] \in ToSet(w) /\ v[j] \in ToSet(b)
        BY <1>1, <3>3 DEF ToSet
      <4> QED BY <2>2, <2>3, <4>1
    <3>4. CASE i \notin DOMAIN w /\ j \in DOMAIN w
      <4>1. v[j] \in ToSet(w) /\ v[i] \in ToSet(b)
        BY <1>1, <3>4 DEF ToSet
      <4> QED BY <2>2, <2>3, <4>1
    <3> QED BY <3>1, <3>2, <3>3, <3>4
  <2> QED BY <2>3 DEF Once
<1> HIDE DEF b
<1>6. Blocks(ss, m + 1, v)
  BY <1>1, <1>3, <1>4, <1>5 DEF Blocks
<1> QED BY <1>6 DEF v, b

(* A flattened sequence has the blocks of its parts.                       *)
LEMMA FlattenBlocks ==
  ASSUME NEW ss, NEW n \in Nat, IsSeq(ss), Len(ss) = n, \A i \in 1 .. n : IsSeq(ss[i])
  PROVE  Blocks(ss, n, FlattenSeq(ss))
<1>0. Blocks(ss, 0, <<>>)
  <2>1. IsSeq(<<>>) /\ ToSet(<<>>) = {} /\ DOMAIN <<>> = {} /\ Once(<<>>)
    BY EmptyFacts, OnceEmpty
  <2>2. UNION {ToSet(ss[i]) : i \in 1 .. 0} = {}
    OBVIOUS
  <2> QED BY <2>1, <2>2 DEF Blocks
<1>1. CASE n = 0
  <2>1. FlattenSeq(ss) = ss /\ ss = <<>>
    BY <1>1, EmptySeq DEF FlattenSeq, IsSeq
  <2> QED BY <1>0, <1>1, <2>1
<1>2. CASE n # 0
  <2>1. PICK f : Flattens(ss, f, n) /\ FlattenSeq(ss) = f[n]
    BY <1>2, FlattenIs
  <2> DEFINE S == {i \in Nat : i + 1 <= n => Blocks(ss, i + 1, f[i + 1])}
  <2>2. 0 \in S
    <3>1. IsSeq(ss[1]) /\ 0 + 1 = 1 /\ f[1] = ss[1]
      BY <1>2, <2>1 DEF Flattens
    <3>2. Join(<<>>, ss[1]) = ss[1]
      BY <3>1, ConcatEmptySeq DEF Join, IsSeq
    <3>3. Blocks(ss, 0 + 1, Join(<<>>, ss[0 + 1]))
      BY <1>0, <3>1, BlocksOn
    <3> QED BY <3>1, <3>2, <3>3
  <2>3. ASSUME NEW i \in Nat, i \in S PROVE i + 1 \in S
    <3> SUFFICES ASSUME (i + 1) + 1 <= n PROVE Blocks(ss, (i + 1) + 1, f[(i + 1) + 1])
      OBVIOUS
    <3> DEFINE m == i + 1
    <3>1. m + 1 \in 2 .. n /\ (m + 1) - 1 = m /\ m <= n /\ m + 1 \in 1 .. n /\ m \in Nat
      OBVIOUS
    <3>2. f[m + 1] = Join(f[m], ss[m + 1])
      <4>1. \A k \in 2 .. n : f[k] = Join(f[k - 1], ss[k])
        BY <2>1 DEF Flattens
      <4> HIDE DEF m
      <4> QED BY <3>1, <4>1
    <3>3. Blocks(ss, m, f[m])
      BY <2>3, <3>1
    <3> HIDE DEF m
    <3>4. IsSeq(ss[m + 1])
      BY <3>1
    <3>5. Blocks(ss, m + 1, f[m + 1])
      BY <3>1, <3>2, <3>3, <3>4, BlocksOn
    <3> QED BY <3>5 DEF m
  <2>4. n - 1 \in S /\ (n - 1) + 1 = n
    <3>1. n - 1 \in Nat /\ (n - 1) + 1 = n
      BY <1>2
    <3> HIDE DEF S
    <3> QED BY <2>2, <2>3, <3>1, Induction
  <2> QED BY <2>1, <2>4
<1> QED BY <1>1, <1>2

-----------------------------------------------------------------------------
(* What goes into an MRTD.                                                 *)
IsAdd(x) == x.op = "MEM.PAGE.ADD"

(* Whatever is extended comes after its page was added.                    *)
AddedFirst(w) ==
  \A i \in DOMAIN w : ~IsAdd(w[i]) =>
    \E j \in DOMAIN w : j < i /\ IsAdd(w[j]) /\ w[j].page = w[i].page

LEMMA BlocksAdded ==
  ASSUME NEW ss, NEW n \in Nat, NEW w, Blocks(ss, n, w),
         \A i \in 1 .. n : IsSeq(ss[i]) /\ AddedFirst(ss[i])
  PROVE  AddedFirst(w)
<1> SUFFICES ASSUME NEW i \in DOMAIN w, ~IsAdd(w[i])
             PROVE  \E j \in DOMAIN w : j < i /\ IsAdd(w[j]) /\ w[j].page = w[i].page
  BY DEF AddedFirst
<1>1. PICK k \in 1 .. n, o \in Nat : Within(w, ss[k], o) /\ i - o \in DOMAIN ss[k]
  BY DEF Blocks
<1> DEFINE b == ss[k]
           h == i - o
<1>2. h \in DOMAIN b /\ IsSeq(b) /\ AddedFirst(b) /\ Within(w, b, o)
  BY <1>1
<1>3. i \in Nat /\ o + h = i
  <2>1. i \in Nat
    BY SeqFacts DEF Blocks
  <2> QED BY <2>1
<1> HIDE DEF b, h
<1>4. w[i] = b[h]
  BY <1>2, <1>3 DEF Within
<1>5. PICK j \in DOMAIN b : j < h /\ IsAdd(b[j]) /\ b[j].page = b[h].page
  BY <1>2, <1>4 DEF AddedFirst
<1>6. o + j \in DOMAIN w /\ w[o + j] = b[j]
  BY <1>2 DEF Within
<1>7. o + j < i
  <2>1. j \in Nat /\ h \in Nat
    BY <1>2, SeqFacts
  <2> QED BY <1>3, <1>5, <2>1
<1> QED BY <1>4, <1>5, <1>6, <1>7

(* A page of a section.                                                    *)
PageEntries(s, p) ==
  <<PageAdd(s.at + p - 1)>> \o
    (IF s.extend THEN [c \in 1 .. ChunksPerPage |-> Extend(s.at + p - 1, c, ChunkOf(s, p, c))]
     ELSE <<>>)

PageExtends(s, p) == {Extend(s.at + p - 1, c, ChunkOf(s, p, c)) : c \in 1 .. ChunksPerPage}

LEMMA PageEntriesAre ==
  ASSUME NEW s, NEW p
  PROVE  /\ IsSeq(PageEntries(s, p)) /\ Once(PageEntries(s, p)) /\ AddedFirst(PageEntries(s, p))
         /\ ToSet(PageEntries(s, p)) =
              {PageAdd(s.at + p - 1)} \cup (IF s.extend THEN PageExtends(s, p) ELSE {})
<1> DEFINE g == s.at + p - 1
           a == PageAdd(g)
           x(c) == Extend(g, c, ChunkOf(s, p, c))
           t == IF s.extend THEN [c \in 1 .. ChunksPerPage |-> x(c)] ELSE <<>>
           w == Join(<<a>>, t)
<1>1. PageEntries(s, p) = w
  BY DEF PageEntries, Join
<1>2. IsAdd(a) /\ a.page = g /\ \A c : ~IsAdd(x(c)) /\ x(c).page = g /\ x(c).chunk = c
  BY DEF IsAdd, PageAdd, Extend
<1>3. IsSeq(<<a>>) /\ DOMAIN <<a>> = {1} /\ <<a>>[1] = a /\ Once(<<a>>) /\ ToSet(<<a>>) = {a}
      /\ Len(<<a>>) = 1
  BY OnePage, OncePage
<1> HIDE DEF a, x
<1>4. /\ IsSeq(t) /\ ToSet(t) = (IF s.extend THEN {x(c) : c \in 1 .. ChunksPerPage} ELSE {})
      /\ Once(t) /\ \A i \in DOMAIN t : ~IsAdd(t[i]) /\ t[i].page = g
  <2>1. CASE s.extend
    <3> DEFINE u == [c \in 1 .. ChunksPerPage |-> x(c)]
    <3>1. t = u
      BY <2>1
    <3>2. DOMAIN u = 1 .. ChunksPerPage /\ (\A c \in 1 .. ChunksPerPage : u[c] = x(c))
          /\ u = [c \in 1 .. ChunksPerPage |-> u[c]]
      OBVIOUS
    <3> HIDE DEF u
    <3>3. IsSeq(u)
      BY <3>2, UnitsAssumption, FunIsSeq
    <3>4. Once(u)
      BY <1>2, <3>2 DEF Once
    <3>5. ToSet(u) = {x(c) : c \in 1 .. ChunksPerPage}
      BY <3>2 DEF ToSet
    <3>6. \A i \in DOMAIN u : ~IsAdd(u[i]) /\ u[i].page = g
      BY <1>2, <3>2
    <3> HIDE DEF t
    <3> QED BY <2>1, <3>1, <3>3, <3>4, <3>5, <3>6
  <2>2. CASE ~s.extend
    <3>1. t = <<>>
      BY <2>2
    <3> QED BY <2>2, <3>1, OnceEmpty, EmptyFacts
  <2> QED BY <2>1, <2>2
<1> HIDE DEF t
<1>5. /\ IsSeq(w) /\ ToSet(w) = {a} \cup ToSet(t)
      /\ 1 \in DOMAIN w /\ w[1] = a
      /\ \A i \in DOMAIN w : i = 1 \/ \E j \in DOMAIN t : i = 1 + j /\ w[i] = t[j]
  <2> DEFINE u == <<a>>
  <2>1. IsSeq(u) /\ DOMAIN u = {1} /\ u[1] = a /\ ToSet(u) = {a} /\ Len(u) = 1 /\ w = Join(u, t)
    BY <1>3
  <2> HIDE DEF u, w
  <2>2. /\ IsSeq(w) /\ ToSet(w) = ToSet(u) \cup ToSet(t)
        /\ \A i \in DOMAIN u : i \in DOMAIN w /\ w[i] = u[i]
        /\ \A i \in DOMAIN t : Len(u) + i \in DOMAIN w /\ w[Len(u) + i] = t[i]
        /\ \A i \in DOMAIN w : i \in DOMAIN u \/ \E j \in DOMAIN t : i = Len(u) + j
    BY <1>4, <2>1, JoinFacts, SMTT(60)
  <2> QED BY <2>1, <2>2, SMTT(30)
<1> HIDE DEF w
<1>6. \A i \in DOMAIN w : i # 1 => ~IsAdd(w[i]) /\ w[i].page = g /\ i > 1
  <2>1. DOMAIN t \subseteq Nat \ {0}
    BY <1>4, SeqFacts
  <2> QED BY <1>4, <1>5, <2>1
<1>7. Once(w)
  <2> SUFFICES ASSUME NEW i \in DOMAIN w, NEW j \in DOMAIN w, w[i] = w[j] PROVE i = j
    BY DEF Once
  <2>1. CASE i = 1 \/ j = 1
    BY <1>2, <1>5, <1>6, <2>1
  <2>2. CASE i # 1 /\ j # 1
    <3>1. PICK k \in DOMAIN t : i = 1 + k /\ w[i] = t[k]
      BY <1>5, <2>2
    <3>2. PICK l \in DOMAIN t : j = 1 + l /\ w[j] = t[l]
      BY <1>5, <2>2
    <3> QED BY <1>4, <3>1, <3>2 DEF Once
  <2> QED BY <2>1, <2>2
<1>8. AddedFirst(w)
  BY <1>2, <1>5, <1>6 DEF AddedFirst
<1> QED BY <1>1, <1>4, <1>5, <1>7, <1>8 DEF a, x, PageExtends

(* A section.                                                              *)
Tdvfs(f) == Tdvf(Firmware[f])

LEMMA PageBounds ==
  ASSUME NEW a \in Nat, NEW n \in Nat, NEW p \in 1 .. n
  PROVE  /\ a + p - 1 \in a .. a + n - 1
         /\ \A q \in 1 .. n : a + p - 1 = a + q - 1 => p = q
OBVIOUS

LEMMA RegionIs ==
  ASSUME NEW s, s.at \in Nat, s.pages \in Nat
  PROVE  /\ IsSeq(Region(s)) /\ Once(Region(s)) /\ AddedFirst(Region(s))
         /\ ToSet(Region(s)) = UNION {ToSet(PageEntries(s, p)) : p \in 1 .. s.pages}
         /\ \A x \in ToSet(Region(s)) : x.page \in s.at .. s.at + s.pages - 1
<1> DEFINE n == s.pages
           ss == [p \in 1 .. n |-> PageEntries(s, p)]
<1>1. Region(s) = FlattenSeq(ss)
  BY DEF Region, PageEntries
<1>2. DOMAIN ss = 1 .. n /\ (\A p \in 1 .. n : ss[p] = PageEntries(s, p))
      /\ ss = [p \in 1 .. n |-> ss[p]]
  OBVIOUS
<1> HIDE DEF ss
<1>3. IsSeq(ss) /\ Len(ss) = n
  BY <1>2, FunIsSeq
<1>4. \A p \in 1 .. n : IsSeq(ss[p]) /\ Once(ss[p]) /\ AddedFirst(ss[p])
  BY <1>2, PageEntriesAre
<1>5. \A p \in 1 .. n : \A x \in ToSet(ss[p]) : x.page = s.at + p - 1
  <2>1. ASSUME NEW p \in 1 .. n, NEW x \in ToSet(ss[p])
        PROVE  x.page = s.at + p - 1
    <3>1. x = PageAdd(s.at + p - 1) \/ x \in PageExtends(s, p)
      <4>1. ToSet(PageEntries(s, p)) =
              {PageAdd(s.at + p - 1)} \cup (IF s.extend THEN PageExtends(s, p) ELSE {})
        BY PageEntriesAre
      <4>2. x \in ToSet(PageEntries(s, p))
        BY <1>2, <2>1
      <4> QED BY <4>1, <4>2
    <3> QED BY <3>1 DEF PageAdd, PageExtends, Extend
  <2> QED BY <2>1
<1>6. Apart(ss, n)
  <2>1. ASSUME NEW i \in 1 .. n, NEW j \in 1 .. n, i # j,
               NEW x \in ToSet(ss[i]), x \in ToSet(ss[j])
        PROVE  FALSE
    <3>1. s.at + i - 1 = s.at + j - 1
      BY <1>5, <2>1
    <3> QED BY <2>1, <3>1, PageBounds
  <2> QED BY <2>1 DEF Apart
<1>7. Blocks(ss, n, FlattenSeq(ss))
  BY <1>3, <1>4, FlattenBlocks
<1> DEFINE w == FlattenSeq(ss)
<1> HIDE DEF w
<1>8. IsSeq(w) /\ Once(w) /\ ToSet(w) = UNION {ToSet(ss[p]) : p \in 1 .. n}
  BY <1>4, <1>6, <1>7 DEF Blocks, w
<1>9. AddedFirst(w)
  BY <1>4, <1>7, BlocksAdded DEF w
<1>10. \A x \in ToSet(w) : x.page \in s.at .. s.at + n - 1
  <2>1. \A p \in 1 .. n : s.at + p - 1 \in s.at .. s.at + n - 1
    BY PageBounds
  <2> QED BY <1>5, <1>8, <2>1
<1>11. ToSet(w) = UNION {ToSet(PageEntries(s, p)) : p \in 1 .. n}
  BY <1>2, <1>8
<1> HIDE DEF n
<1> QED BY <1>1, <1>8, <1>9, <1>10, <1>11 DEF w, n

(* All sections, which lie apart.                                          *)
LEMMA MrtdIs ==
  ASSUME TdvfApart, NEW f \in DOMAIN Firmware, Mrtd(Firmware[f]) # Error
  PROVE  /\ Tdvfs(f) # Error /\ IsSeq(Tdvfs(f))
         /\ \A i \in DOMAIN Tdvfs(f) : Tdvfs(f)[i].at \in Nat /\ Tdvfs(f)[i].pages \in Nat
         /\ IsSeq(Mrtd(Firmware[f])) /\ Once(Mrtd(Firmware[f])) /\ AddedFirst(Mrtd(Firmware[f]))
         /\ ToSet(Mrtd(Firmware[f])) = UNION {ToSet(Region(Tdvfs(f)[i])) : i \in DOMAIN Tdvfs(f)}
<1> DEFINE t == Tdvfs(f)
           n == Len(t)
           ss == [i \in DOMAIN t |-> Region(t[i])]
<1>1. t # Error /\ Mrtd(Firmware[f]) = FlattenSeq(ss)
  BY DEF Mrtd, Tdvfs
<1>2. IsSeq(t) /\ \A i \in DOMAIN t : t[i].at \in Nat /\ t[i].pages \in Nat
  <2>1. t = Firmware[f].tdvf /\ t # Absent
    BY <1>1 DEF Tdvfs, Tdvf
  <2> QED BY <2>1, TdvfAssumption DEF IsSeq, ToSet
<1>3. n \in Nat /\ DOMAIN t = 1 .. n
  BY <1>2, SeqFacts
<1>4. DOMAIN ss = 1 .. n /\ (\A i \in 1 .. n : ss[i] = Region(t[i]))
      /\ ss = [i \in 1 .. n |-> ss[i]]
  BY <1>3
<1>5. \A i, j \in DOMAIN t : i # j =>
        t[i].at + t[i].pages <= t[j].at \/ t[j].at + t[j].pages <= t[i].at
  BY <1>1 DEF TdvfApart, Tdvfs
<1> HIDE DEF ss, n, t
<1>6. IsSeq(ss) /\ Len(ss) = n
  BY <1>3, <1>4, FunIsSeq
<1>7. \A i \in 1 .. n : IsSeq(ss[i]) /\ Once(ss[i]) /\ AddedFirst(ss[i])
        /\ \A x \in ToSet(ss[i]) : x.page \in t[i].at .. t[i].at + t[i].pages - 1
  BY <1>2, <1>3, <1>4, RegionIs
<1>8. Apart(ss, n)
  <2>1. ASSUME NEW i \in 1 .. n, NEW j \in 1 .. n, i # j,
               NEW x \in ToSet(ss[i]), x \in ToSet(ss[j])
        PROVE  FALSE
    <3>1. x.page \in t[i].at .. t[i].at + t[i].pages - 1
          /\ x.page \in t[j].at .. t[j].at + t[j].pages - 1
      BY <1>7, <2>1
    <3>2. t[i].at + t[i].pages <= t[j].at \/ t[j].at + t[j].pages <= t[i].at
      BY <1>3, <1>5, <2>1
    <3>3. {t[i].at, t[i].pages, t[j].at, t[j].pages} \subseteq Nat
      BY <1>2, <1>3
    <3> QED BY <3>1, <3>2, <3>3
  <2> QED BY <2>1 DEF Apart
<1>9. Blocks(ss, n, FlattenSeq(ss))
  BY <1>3, <1>6, <1>7, FlattenBlocks
<1> DEFINE w == FlattenSeq(ss)
<1> HIDE DEF w
<1>10. IsSeq(w) /\ Once(w) /\ ToSet(w) = UNION {ToSet(ss[i]) : i \in 1 .. n}
  BY <1>7, <1>8, <1>9 DEF Blocks, w
<1>11. AddedFirst(w)
  BY <1>3, <1>7, <1>9, BlocksAdded DEF w
<1>12. ToSet(w) = UNION {ToSet(Region(t[i])) : i \in DOMAIN t}
  BY <1>3, <1>4, <1>10
<1> QED BY <1>1, <1>2, <1>10, <1>11, <1>12 DEF w, t

(* The chunks of n pages of q chunks, by page and chunk.                   *)
LEMMA ChunkAt ==
  ASSUME NEW q \in Nat, NEW n \in Nat, NEW p \in 1 .. n, NEW c \in 1 .. q
  PROVE  (p - 1) * q + c \in 1 .. n * q
<1>1. PICK d \in Nat : n = p + d
  <2>1. n - p \in Nat /\ n = p + (n - p)
    OBVIOUS
  <2> QED BY <2>1
<1>2. PICK e \in Nat : p = e + 1
  <2>1. p - 1 \in Nat /\ p = (p - 1) + 1
    OBVIOUS
  <2> QED BY <2>1
<1>3. p - 1 = e /\ n * q = ((e * q) + q) + (d * q)
  BY <1>1, <1>2
<1>4. e * q \in Nat /\ d * q \in Nat
  OBVIOUS
<1> DEFINE x == e * q
           y == d * q
<1>5. n * q = (x + q) + y /\ (p - 1) * q + c = x + c /\ x \in Nat /\ y \in Nat
  BY <1>3, <1>4
<1> HIDE DEF x, y
<1> QED BY <1>5

LEMMA ChunkOfPages ==
  ASSUME NEW q \in Nat \ {0}
  PROVE  \A n \in Nat : \A k \in 1 .. n * q : \E p \in 1 .. n : \E c \in 1 .. q :
           k = (p - 1) * q + c
<1> DEFINE Good(n) == \A k \in 1 .. n * q : \E p \in 1 .. n : \E c \in 1 .. q :
                        k = (p - 1) * q + c
           S == {n \in Nat : Good(n)}
<1>1. 0 \in S
  <2>1. 0 * q = 0
    OBVIOUS
  <2> QED BY <2>1
<1>2. ASSUME NEW n \in Nat, n \in S PROVE n + 1 \in S
  <2> SUFFICES ASSUME NEW k \in 1 .. (n + 1) * q
               PROVE  \E p \in 1 .. n + 1 : \E c \in 1 .. q : k = (p - 1) * q + c
    OBVIOUS
  <2> DEFINE m == n * q
  <2>1. m \in Nat /\ (n + 1) * q = m + q /\ ((n + 1) - 1) * q = m
    OBVIOUS
  <2>2. CASE k \in 1 .. m
    <3>1. PICK p \in 1 .. n, c \in 1 .. q : k = (p - 1) * q + c
      BY <1>2, <2>2
    <3>2. p \in 1 .. n + 1
      OBVIOUS
    <3> QED BY <3>1, <3>2
  <2>3. CASE k \notin 1 .. m
    <3>1. k - m \in 1 .. q /\ k = m + (k - m) /\ n + 1 \in 1 .. n + 1
      <4>1. k \in 1 .. m + q
        BY <2>1
      <4> HIDE DEF m
      <4> QED BY <2>1, <2>3, <4>1
    <3>2. k = ((n + 1) - 1) * q + (k - m)
      BY <2>1, <3>1
    <3> HIDE DEF m
    <3> QED BY <3>1, <3>2
  <2> QED BY <2>2, <2>3
<1> HIDE DEF S
<1>3. Nat \subseteq S
  BY <1>1, <1>2, Induction
<1> QED BY <1>3 DEF S

LEMMA AddressIs ==
  ASSUME NEW a \in Nat, NEW p \in Nat \ {0}, NEW q \in Nat, NEW c \in Nat
  PROVE  (a + p - 1) * q + c - 1 = a * q + ((p - 1) * q + c) - 1
<1>1. PICK e \in Nat : p = e + 1
  <2>1. p - 1 \in Nat /\ p = (p - 1) + 1
    OBVIOUS
  <2> QED BY <2>1
<1>2. a + p - 1 = a + e /\ p - 1 = e /\ (a + e) * q = (a * q) + (e * q)
  BY <1>1
<1>3. a * q \in Nat /\ e * q \in Nat
  OBVIOUS
<1> DEFINE x == a * q
           y == e * q
<1>4. (a + p - 1) * q = x + y /\ (p - 1) * q = y /\ a * q = x /\ x \in Nat /\ y \in Nat
  BY <1>2, <1>3
<1> HIDE DEF x, y
<1>5. x + y + c - 1 = x + (y + c) - 1
  BY <1>4
<1> QED BY <1>4, <1>5

(* The entries of an MRTD, by page.                                        *)
LEMMA MrtdEntries ==
  ASSUME TdvfApart, NEW f \in DOMAIN Firmware, Mrtd(Firmware[f]) # Error
  PROVE  LET t == Tdvfs(f)
             d == Mrtd(Firmware[f])
         IN  \A x : x \in ToSet(d) <=>
               \E i \in DOMAIN t : \E p \in 1 .. t[i].pages :
                 x = PageAdd(t[i].at + p - 1) \/ (t[i].extend /\ x \in PageExtends(t[i], p))
<1> DEFINE t == Tdvfs(f)
           d == Mrtd(Firmware[f])
<1>1. /\ \A i \in DOMAIN t : t[i].at \in Nat /\ t[i].pages \in Nat
      /\ ToSet(d) = UNION {ToSet(Region(t[i])) : i \in DOMAIN t}
  BY MrtdIs
<1> HIDE DEF t, d
<1>2. ASSUME NEW i \in DOMAIN t, NEW x
      PROVE  x \in ToSet(Region(t[i])) <=>
               \E p \in 1 .. t[i].pages :
                 x = PageAdd(t[i].at + p - 1) \/ (t[i].extend /\ x \in PageExtends(t[i], p))
  <2> DEFINE s == t[i]
  <2>1. s.at \in Nat /\ s.pages \in Nat
    BY <1>1
  <2> HIDE DEF s
  <2>2. ToSet(Region(s)) = UNION {ToSet(PageEntries(s, p)) : p \in 1 .. s.pages}
    BY <2>1, RegionIs
  <2>3. ASSUME NEW p \in 1 .. s.pages
        PROVE  x \in ToSet(PageEntries(s, p)) <=>
                 x = PageAdd(s.at + p - 1) \/ (s.extend /\ x \in PageExtends(s, p))
    <3>1. ToSet(PageEntries(s, p)) =
            {PageAdd(s.at + p - 1)} \cup (IF s.extend THEN PageExtends(s, p) ELSE {})
      BY PageEntriesAre
    <3>2. CASE s.extend
      BY <3>1, <3>2
    <3>3. CASE ~s.extend
      BY <3>1, <3>3
    <3> QED BY <3>2, <3>3
  <2>4. x \in ToSet(Region(s)) <=> \E p \in 1 .. s.pages : x \in ToSet(PageEntries(s, p))
    BY <2>2
  <2>5. x \in ToSet(Region(s)) <=>
          \E p \in 1 .. s.pages :
            x = PageAdd(s.at + p - 1) \/ (s.extend /\ x \in PageExtends(s, p))
    BY <2>3, <2>4
  <2> QED BY <2>5 DEF s
<1>3. \A x : x \in ToSet(d) <=> \E i \in DOMAIN t : x \in ToSet(Region(t[i]))
  BY <1>1
<1>4. \A x : x \in ToSet(d) <=>
        \E i \in DOMAIN t : \E p \in 1 .. t[i].pages :
          x = PageAdd(t[i].at + p - 1) \/ (t[i].extend /\ x \in PageExtends(t[i], p))
  BY <1>2, <1>3
<1> QED BY <1>4 DEF t, d

(* MrtdIsLoadedImage, for one firmware.                                    *)
Address(x) == x.page * ChunksPerPage + x.chunk - 1

LoadsImage(fw, d) ==
  LET added  == {i \in DOMAIN d : d[i].op = "MEM.PAGE.ADD"}
      chunks == DOMAIN d \ added
  IN
  /\ IsInjective(d)
  /\ {d[i].page : i \in added} = AddedPages(fw)
  /\ {<<Address(d[i]), d[i].data>> : i \in chunks} = LoadedChunks(fw)
  /\ \A i \in chunks : \E j \in added : j < i /\ d[j].page = d[i].page

(* The chunks that a section loads.                                        *)
SectionChunks(s) ==
  {<<s.at * ChunksPerPage + k - 1, IF k <= Len(s.data) THEN s.data[k] ELSE ZeroUnit>> :
     k \in 1 .. s.pages * ChunksPerPage}

LEMMA ExtendsAre ==
  ASSUME NEW s, s.at \in Nat, s.pages \in Nat
  PROVE  SectionChunks(s) =
           {<<Address(x), x.data>> : x \in UNION {PageExtends(s, p) : p \in 1 .. s.pages}}
<1> DEFINE q == ChunksPerPage
           unit(k) == IF k <= Len(s.data) THEN s.data[k] ELSE ZeroUnit
           pair(k) == <<s.at * q + k - 1, unit(k)>>
           page(p, c) == Extend(s.at + p - 1, c, ChunkOf(s, p, c))
<1>1. q \in Nat \ {0}
  BY UnitsAssumption
<1>2. ASSUME NEW p \in 1 .. s.pages, NEW c \in 1 .. q
      PROVE  /\ <<Address(page(p, c)), page(p, c).data>> = pair((p - 1) * q + c)
             /\ (p - 1) * q + c \in 1 .. s.pages * q
  <2>1. page(p, c).page = s.at + p - 1 /\ page(p, c).chunk = c
        /\ page(p, c).data = unit((p - 1) * q + c)
    BY DEF Extend, ChunkOf
  <2>2. (s.at + p - 1) * q + c - 1 = s.at * q + ((p - 1) * q + c) - 1
    <3>1. p \in Nat \ {0} /\ c \in Nat /\ q \in Nat
      BY <1>1
    <3> QED BY <3>1, AddressIs
  <2>3. (p - 1) * q + c \in 1 .. s.pages * q
    BY <1>1, ChunkAt
  <2>4. Address(page(p, c)) = (s.at + p - 1) * q + c - 1
    BY <2>1 DEF Address
  <2> HIDE DEF q, unit, page
  <2> QED BY <2>1, <2>2, <2>3, <2>4
<1>3. \A k \in 1 .. s.pages * q : \E p \in 1 .. s.pages : \E c \in 1 .. q : k = (p - 1) * q + c
  BY <1>1, ChunkOfPages
<1>4. SectionChunks(s) = {pair(k) : k \in 1 .. s.pages * q}
  BY DEF SectionChunks
<1>5. \A p : PageExtends(s, p) = {page(p, c) : c \in 1 .. q}
  BY DEF PageExtends
<1> DEFINE found == {<<Address(x), x.data>> : x \in UNION {PageExtends(s, p) : p \in 1 .. s.pages}}
<1>6. found = {<<Address(page(p, c)), page(p, c).data>> : p \in 1 .. s.pages, c \in 1 .. q}
  <2> HIDE DEF page, q
  <2>1. \A x : x \in UNION {PageExtends(s, p) : p \in 1 .. s.pages} <=>
          \E p \in 1 .. s.pages : \E c \in 1 .. q : x = page(p, c)
    BY <1>5
  <2> QED BY <2>1
<1>7. found = {pair((p - 1) * q + c) : p \in 1 .. s.pages, c \in 1 .. q}
  <2> HIDE DEF pair, page, q, found
  <2> QED BY <1>2, <1>6
<1> HIDE DEF pair, page, q, found
<1>8. {pair(k) : k \in 1 .. s.pages * q} = found
  BY <1>2, <1>3, <1>7
<1> QED BY <1>4, <1>8 DEF found

LEMMA MrtdLoads ==
  ASSUME TdvfApart, NEW f \in DOMAIN Firmware, Mrtd(Firmware[f]) # Error
  PROVE  LoadsImage(Firmware[f], Mrtd(Firmware[f]))
<1> DEFINE t == Tdvfs(f)
           d == Mrtd(Firmware[f])
           added  == {i \in DOMAIN d : d[i].op = "MEM.PAGE.ADD"}
           chunks == DOMAIN d \ added
<1>1. /\ t # Error /\ IsSeq(d) /\ Once(d) /\ AddedFirst(d)
      /\ \A i \in DOMAIN t : t[i].at \in Nat /\ t[i].pages \in Nat
  BY MrtdIs
<1>2. \A x : x \in ToSet(d) <=>
        \E i \in DOMAIN t : \E p \in 1 .. t[i].pages :
          x = PageAdd(t[i].at + p - 1) \/ (t[i].extend /\ x \in PageExtends(t[i], p))
  BY MrtdEntries
<1>3. AddedPages(Firmware[f]) = UNION {t[i].at .. t[i].at + t[i].pages - 1 : i \in DOMAIN t}
  BY DEF AddedPages, Tdvfs
<1>4. LoadedChunks(Firmware[f]) = UNION {SectionChunks(t[i]) : i \in {j \in DOMAIN t : t[j].extend}}
  BY DEF LoadedChunks, SectionChunks, Tdvfs
<1> HIDE DEF t, d
<1>5. IsInjective(d)
  BY <1>1 DEF IsInjective, Once
<1>6. /\ \A g : IsAdd(PageAdd(g)) /\ PageAdd(g).page = g
      /\ \A s, p : \A x \in PageExtends(s, p) : ~IsAdd(x)
  BY DEF IsAdd, PageAdd, PageExtends, Extend
<1>7. {d[i].page : i \in added} = AddedPages(Firmware[f])
  <2>1. ASSUME NEW i \in added PROVE d[i].page \in AddedPages(Firmware[f])
    <3>1. d[i] \in ToSet(d) /\ IsAdd(d[i])
      BY <2>1 DEF ToSet, IsAdd
    <3>2. PICK j \in DOMAIN t : \E p \in 1 .. t[j].pages : d[i] = PageAdd(t[j].at + p - 1)
      BY <1>2, <1>6, <3>1
    <3>3. PICK p \in 1 .. t[j].pages : d[i] = PageAdd(t[j].at + p - 1)
      BY <3>2
    <3>4. t[j].at + p - 1 \in t[j].at .. t[j].at + t[j].pages - 1
      BY <1>1, PageBounds
    <3> QED BY <1>3, <1>6, <3>3, <3>4
  <2>2. ASSUME NEW g \in AddedPages(Firmware[f]) PROVE \E i \in added : d[i].page = g
    <3>1. PICK j \in DOMAIN t : g \in t[j].at .. t[j].at + t[j].pages - 1
      BY <1>3
    <3>2. (g - t[j].at) + 1 \in 1 .. t[j].pages /\ t[j].at + ((g - t[j].at) + 1) - 1 = g
      BY <1>1, <3>1
    <3>3. PageAdd(g) \in ToSet(d)
      BY <1>2, <3>2
    <3>4. PICK i \in DOMAIN d : d[i] = PageAdd(g)
      BY <3>3 DEF ToSet
    <3> QED BY <1>6, <3>4 DEF IsAdd
  <2> QED BY <2>1, <2>2
<1>8. {<<Address(d[i]), d[i].data>> : i \in chunks} = LoadedChunks(Firmware[f])
  <2>0. ASSUME NEW j \in DOMAIN t
        PROVE  SectionChunks(t[j]) =
                 {<<Address(x), x.data>> : x \in UNION {PageExtends(t[j], p) : p \in 1 .. t[j].pages}}
    <3>1. t[j].at \in Nat /\ t[j].pages \in Nat
      BY <1>1
    <3> QED BY <3>1, ExtendsAre
  <2>1. ASSUME NEW i \in chunks
        PROVE  <<Address(d[i]), d[i].data>> \in LoadedChunks(Firmware[f])
    <3>1. d[i] \in ToSet(d) /\ ~IsAdd(d[i])
      BY <2>1 DEF ToSet, IsAdd
    <3>2. PICK j \in DOMAIN t :
            t[j].extend /\ \E p \in 1 .. t[j].pages : d[i] \in PageExtends(t[j], p)
      BY <1>2, <1>6, <3>1
    <3>3. <<Address(d[i]), d[i].data>> \in SectionChunks(t[j])
      BY <2>0, <3>2
    <3> QED BY <1>4, <3>2, <3>3
  <2>2. ASSUME NEW y \in LoadedChunks(Firmware[f])
        PROVE  \E i \in chunks : <<Address(d[i]), d[i].data>> = y
    <3>1. PICK j \in DOMAIN t : t[j].extend /\ y \in SectionChunks(t[j])
      BY <1>4
    <3>2. PICK x \in UNION {PageExtends(t[j], p) : p \in 1 .. t[j].pages} :
            y = <<Address(x), x.data>>
      BY <2>0, <3>1
    <3>3. x \in ToSet(d) /\ ~IsAdd(x)
      BY <1>2, <1>6, <3>1, <3>2
    <3>4. PICK i \in DOMAIN d : d[i] = x
      BY <3>3 DEF ToSet
    <3> QED BY <3>2, <3>3, <3>4 DEF IsAdd
  <2> QED BY <2>1, <2>2
<1>9. \A i \in chunks : \E j \in added : j < i /\ d[j].page = d[i].page
  BY <1>1 DEF AddedFirst, IsAdd
<1> QED BY <1>5, <1>7, <1>8, <1>9 DEF LoadsImage, d

-----------------------------------------------------------------------------
(* What the registers were computed from.                                  *)
TdxFilesOK ==
  /\ disk["tdx ovmf"] \in DOMAIN Firmware \cup {Absent}
  /\ mem["tdx ovmf"] \in DOMAIN Firmware \cup {Absent}

MrtdOK(r) ==
  r.name = "MRTD" =>
    LET f == r.read["tdx ovmf"] IN
    f \in DOMAIN Firmware /\ Mrtd(Firmware[f]) # Error /\ r.digest = Mrtd(Firmware[f])

RegistersOK == TdxFilesOK /\ \A r \in registers : MrtdOK(r)

LEMMA TdxFilesNext ==
  ASSUME OvmfOK, MemOK, TdxFilesOK, [Next]_vars
  PROVE  TdxFilesOK'
<1>0. CASE mem' = mem /\ disk' = disk
  BY <1>0 DEF TdxFilesOK
<1>1. CASE Start
  <2>1. mem' = mem /\ (disk' = disk \/ disk' \in Disks)
    BY <1>1 DEF Start
  <2> QED BY <2>1, FilesAssumption DEF TdxFilesOK
<1>2. CASE \E f \in FileNames : ReadFile(f)
  <2>1. PICK f \in FileNames : ReadFile(f)
    BY <1>2
  <2>2. disk' = disk /\ (mem' = mem \/ mem' = [mem EXCEPT ![f] = disk[f]])
    BY <2>1 DEF ReadFile, Stop
  <2>3. "tdx ovmf" \in DOMAIN mem
    BY DEF MemOK, FileNames
  <2> QED BY <2>2, <2>3 DEF TdxFilesOK
<1>3. CASE Finish
  <2>1. disk' = disk /\ mem' = [f \in FileNames |-> Absent] /\ "tdx ovmf" \in FileNames
    BY <1>3 DEF Finish, FileNames
  <2> QED BY <2>1 DEF TdxFilesOK
<1>4. CASE \E f \in FileNames : Replace(f)
  <2>1. PICK f \in FileNames : Replace(f)
    BY <1>4
  <2>2. PICK new \in NewContents[f] : disk' = [disk EXCEPT ![f] = new]
    BY <2>1 DEF Replace
  <2>3. mem' = mem /\ "tdx ovmf" \in DOMAIN disk
    BY <2>1 DEF Replace, OvmfOK, FileNames
  <2>4. f = "tdx ovmf" => new \in DOMAIN Firmware \cup {Absent}
    BY <2>2, FilesAssumption
  <2> QED BY <2>2, <2>3, <2>4 DEF TdxFilesOK
<1>5. CASE NoOvmf("LAUNCH_DIGEST") \/ NoOvmf("MRTD") BY <1>0, <1>5 DEF NoOvmf, Put
<1>6. CASE \E k \in DOMAIN Cpus : StartCpu(k) BY <1>0, <1>6 DEF StartCpu, callerVars
<1>7. CASE \E k \in DOMAIN Cpus : NoFirmware(k) BY <1>0, <1>7 DEF NoFirmware, Stop, Put
<1>8. CASE \E k \in DOMAIN Cpus : CpuDone(k) BY <1>0, <1>8 DEF CpuDone, Stop, Put
<1>9. CASE StartLibrary BY <1>0, <1>9 DEF StartLibrary, callerVars
<1>10. CASE LibraryDone BY <1>0, <1>10 DEF LibraryDone
<1>11. CASE LaunchStep BY <1>0, <1>11 DEF LaunchStep, callerVars
<1>12. CASE \E m \in Registers : MeasureTdx(m) BY <1>0, <1>12 DEF MeasureTdx, Stop, Put
<1>13. CASE AllDone BY <1>0, <1>13 DEF AllDone, vars, callerVars
<1>14. CASE UNCHANGED vars BY <1>0, <1>14 DEF vars, callerVars
<1> QED
  BY <1>1, <1>2, <1>3, <1>4, <1>5, <1>6, <1>7, <1>8, <1>9, <1>10, <1>11, <1>12, <1>13, <1>14
     DEF Next, Proceed

LEMMA MeasureTdxMrtd ==
  ASSUME RegistersOK, NEW m \in Registers, MeasureTdx(m)
  PROVE  \A r \in registers' : MrtdOK(r)
<1> DEFINE missing == \E f \in Needs(m) : mem[f] = Absent
           v       == IF missing THEN Error ELSE Compute(m)
           new     == [name |-> m, digest |-> v, cmdline |-> config.cmdline,
                       read |-> [f \in Needs(m) |-> mem[f]]]
<1>1. registers' = registers \/ (v # Error /\ registers' = registers \cup {new})
  BY DEF MeasureTdx, Stop
<1>2. v # Error => MrtdOK(new)
  <2> SUFFICES ASSUME v # Error, m = "MRTD" PROVE MrtdOK(new)
    BY DEF MrtdOK
  <2>1. ~missing /\ v = Compute(m) /\ Needs(m) = {"tdx ovmf"}
    BY DEF Needs
  <2>2. mem["tdx ovmf"] \in DOMAIN Firmware
    BY <2>1 DEF RegistersOK, TdxFilesOK
  <2>3. Compute(m) = Mrtd(Firmware[mem["tdx ovmf"]])
    BY DEF Compute
  <2>4. new.read["tdx ovmf"] = mem["tdx ovmf"] /\ new.digest = v
    BY <2>1
  <2> HIDE DEF new, v
  <2> QED BY <2>1, <2>2, <2>3, <2>4 DEF MrtdOK
<1> HIDE DEF new, v
<1> QED BY <1>1, <1>2 DEF RegistersOK

LEMMA RegistersNext ==
  ASSUME OvmfOK, MemOK, RegistersOK, [Next]_vars
  PROVE  RegistersOK'
<1>1. TdxFilesOK'
  BY TdxFilesNext DEF RegistersOK
<1>0. CASE registers' = registers
  <2>1. \A r \in registers' : MrtdOK(r)
    BY <1>0 DEF RegistersOK
  <2> QED BY <1>1, <2>1 DEF RegistersOK
<1>2. CASE \E m \in Registers : MeasureTdx(m)
  BY <1>1, <1>2, MeasureTdxMrtd DEF RegistersOK
<1>3. CASE Start BY <1>0, <1>3 DEF Start
<1>4. CASE \E f \in FileNames : ReadFile(f) BY <1>0, <1>4 DEF ReadFile, Stop
<1>5. CASE NoOvmf("LAUNCH_DIGEST") \/ NoOvmf("MRTD") BY <1>0, <1>5 DEF NoOvmf
<1>6. CASE \E k \in DOMAIN Cpus : StartCpu(k) BY <1>0, <1>6 DEF StartCpu, callerVars
<1>7. CASE \E k \in DOMAIN Cpus : NoFirmware(k) BY <1>0, <1>7 DEF NoFirmware, Stop
<1>8. CASE \E k \in DOMAIN Cpus : CpuDone(k) BY <1>0, <1>8 DEF CpuDone
<1>9. CASE StartLibrary BY <1>0, <1>9 DEF StartLibrary, callerVars
<1>10. CASE LibraryDone BY <1>0, <1>10 DEF LibraryDone
<1>11. CASE LaunchStep BY <1>0, <1>11 DEF LaunchStep, callerVars
<1>12. CASE Finish BY <1>0, <1>12 DEF Finish
<1>13. CASE \E f \in FileNames : Replace(f) BY <1>0, <1>13 DEF Replace
<1>14. CASE AllDone BY <1>0, <1>14 DEF AllDone, vars, callerVars
<1>15. CASE UNCHANGED vars BY <1>0, <1>15 DEF vars, callerVars
<1> QED
  BY <1>2, <1>3, <1>4, <1>5, <1>6, <1>7, <1>8, <1>9, <1>10, <1>11, <1>12, <1>13, <1>14, <1>15
     DEF Next, Proceed

(* MRTD (calculate_mrtd, write_region) adds each page that the firmware's  *)
(* sections are loaded to and extends each measured chunk with what is     *)
(* loaded there, once and after its page was added, for all firmware whose *)
(* sections lie apart, though files be replaced meanwhile.                 *)
THEOREM MrtdsAreLoadedImages ==
  ASSUME TdvfApart
  PROVE  Spec => []MrtdIsLoadedImage
<1> DEFINE Inv == KernelInv /\ ManifestOK /\ RegistersOK
<1>1. Init => Inv
  <2>1. ASSUME Init PROVE RegistersOK
    <3>1. "tdx ovmf" \in FileNames
      BY DEF FileNames
    <3> QED BY <2>1, <3>1 DEF Init, RegistersOK, TdxFilesOK
  <2> QED BY <2>1, KernelInit, ManifestInit DEF Init
<1>2. Inv /\ [Next]_vars => Inv'
  BY KernelNext, ManifestNext, RegistersNext DEF KernelInv, ManifestOK
<1>3. Inv => MrtdIsLoadedImage
  <2> SUFFICES ASSUME RegistersOK, NEW r \in registers, r.name = "MRTD"
               PROVE  LoadsImage(Firmware[r.read["tdx ovmf"]], r.digest)
    BY DEF MrtdIsLoadedImage, LoadsImage, Address
  <2>1. MrtdOK(r)
    BY DEF RegistersOK
  <2> QED BY <2>1, MrtdLoads DEF MrtdOK
<1> QED
  BY <1>1, <1>2, <1>3, PTL DEF Spec

-----------------------------------------------------------------------------
(* What pe_authenticode_hash hashes of a PE file that is laid out as such  *)
(* files are: all of it, but for two fields and the certificates.          *)
Slice(s, a, b) == SubSeq(s, a + 1, b)

LEMMA SliceFacts ==
  ASSUME NEW s, IsSeq(s), NEW a \in Nat, NEW b \in Nat, a <= b, b <= Len(s)
  PROVE  /\ IsSeq(Slice(s, a, b)) /\ Len(Slice(s, a, b)) = b - a
         /\ \A i \in 1 .. b - a : Slice(s, a, b)[i] = s[a + i]
<1>1. Len(s) \in Nat /\ DOMAIN s = 1 .. Len(s)
  BY SeqFacts
<1>2. \A i \in a + 1 .. b : s[i] \in ToSet(s)
  BY <1>1 DEF ToSet
<1>3. a + 1 \in Int /\ b \in Int
  OBVIOUS
<1> DEFINE t == SubSeq(s, a + 1, b)
<1>4. /\ t \in Seq(ToSet(s)) /\ Len(t) = IF a + 1 <= b THEN b - (a + 1) + 1 ELSE 0
      /\ \A i \in 1 .. b - (a + 1) + 1 : t[i] = s[a + 1 + i - 1]
  BY <1>2, <1>3, SubSeqProperties
<1>5. IsSeq(t)
  BY <1>4, WidenSeq
<1> HIDE DEF t
<1>6. Len(t) = b - a /\ \A i \in 1 .. b - a : t[i] = s[a + i]
  BY <1>4
<1> QED BY <1>5, <1>6 DEF t, Slice

LEMMA SlicesJoin ==
  ASSUME NEW s, IsSeq(s), NEW a \in Nat, NEW b \in Nat, NEW c \in Nat,
         a <= b, b <= c, c <= Len(s)
  PROVE  Join(Slice(s, a, b), Slice(s, b, c)) = Slice(s, a, c)
<1> DEFINE x == Slice(s, a, b)
           y == Slice(s, b, c)
           z == Slice(s, a, c)
<1>1. Len(s) \in Nat
  BY SeqFacts
<1>2. b <= Len(s) /\ a <= c
  BY <1>1
<1>3. IsSeq(x) /\ Len(x) = b - a /\ \A i \in 1 .. b - a : x[i] = s[a + i]
  BY <1>2, SliceFacts
<1>4. IsSeq(y) /\ Len(y) = c - b /\ \A i \in 1 .. c - b : y[i] = s[b + i]
  BY SliceFacts
<1>5. IsSeq(z) /\ Len(z) = c - a /\ \A i \in 1 .. c - a : z[i] = s[a + i]
  BY <1>2, SliceFacts
<1> HIDE DEF x, y, z
<1>6. /\ IsSeq(Join(x, y)) /\ Len(Join(x, y)) = Len(x) + Len(y)
      /\ \A i \in DOMAIN x : Join(x, y)[i] = x[i]
      /\ \A i \in DOMAIN y : Join(x, y)[Len(x) + i] = y[i]
  <2>1. IsSeq(x) /\ IsSeq(y)
    BY <1>3, <1>4
  <2> QED BY <2>1, JoinFacts
<1>7. DOMAIN x = 1 .. b - a /\ DOMAIN y = 1 .. c - b
  BY <1>3, <1>4, SeqFacts
<1>8. ASSUME NEW i \in 1 .. c - a PROVE Join(x, y)[i] = z[i]
  <2>1. CASE i <= b - a
    <3>1. i \in 1 .. b - a
      BY <2>1
    <3> QED BY <1>3, <1>5, <1>6, <1>7, <3>1
  <2>2. CASE ~(i <= b - a)
    <3> DEFINE j == i - (b - a)
    <3>1. j \in 1 .. c - b /\ i = (b - a) + j /\ b + j = a + i
      BY <2>2
    <3> HIDE DEF j
    <3>2. Join(x, y)[i] = y[j]
      BY <1>3, <1>6, <1>7, <3>1
    <3> QED BY <1>4, <1>5, <3>1, <3>2
  <2> QED BY <2>1, <2>2
<1>9. Len(Join(x, y)) = c - a
  BY <1>3, <1>4, <1>6
<1>10. Join(x, y) \in Seq(ToSet(Join(x, y))) /\ z \in Seq(ToSet(z))
  BY <1>5, <1>6 DEF IsSeq
<1>11. Join(x, y) = z
  <2> DEFINE S == ToSet(Join(x, y)) \cup ToSet(z)
  <2>1. ToSet(Join(x, y)) \subseteq S /\ ToSet(z) \subseteq S
    OBVIOUS
  <2>2. Join(x, y) \in Seq(S) /\ z \in Seq(S)
    BY <1>10, <2>1, SeqMonotonic
  <2> HIDE DEF S
  <2> QED BY <1>5, <1>8, <1>9, <2>2, SeqEqual
<1> QED BY <1>11 DEF x, y, z

LEMMA JoinAssociative ==
  ASSUME NEW s, NEW t, NEW u, IsSeq(s), IsSeq(t), IsSeq(u)
  PROVE  Join(Join(s, t), u) = Join(s, Join(t, u))
<1> DEFINE S == ToSet(s) \cup ToSet(t) \cup ToSet(u)
<1>1. ToSet(s) \subseteq S /\ ToSet(t) \subseteq S /\ ToSet(u) \subseteq S
  OBVIOUS
<1> HIDE DEF S
<1>2. s \in Seq(S) /\ t \in Seq(S) /\ u \in Seq(S)
  BY <1>1 DEF IsSeq
<1> QED BY <1>2, ConcatAssociative, SMTT(60) DEF Join

(* Where the first i sections end.                                         *)
Ends(pe, i) == IF i = 0 THEN pe.headers ELSE End(RawSections(pe)[i])

LEMMA SectionsFollow ==
  ASSUME NEW pe, LaidOut(pe), NEW i \in DOMAIN RawSections(pe)
  PROVE  /\ RawSections(pe)[i].offset = Ends(pe, i - 1)
         /\ RawSections(pe)[i].offset \in Nat /\ RawSections(pe)[i].size \in Nat
         /\ Ends(pe, i) = Ends(pe, i - 1) + RawSections(pe)[i].size
<1> DEFINE raw == RawSections(pe)
<1>1. IsSeq(raw)
  BY DEF LaidOut, IsSeq
<1>2. DOMAIN raw = 1 .. Len(raw) /\ Len(raw) \in Nat
  BY <1>1, SeqFacts
<1>3. /\ {raw[i].offset, raw[i].size} \subseteq Nat
      /\ raw[i].offset = IF i = 1 THEN pe.headers ELSE End(raw[i - 1])
  BY DEF LaidOut
<1> HIDE DEF raw
<1>4. i # 0 /\ i \in Nat /\ (i - 1 = 0 <=> i = 1)
  <2>1. i \in 1 .. Len(raw)
    BY <1>2 DEF raw
  <2> QED BY <1>2, <2>1
<1>5. raw[i].offset = IF i - 1 = 0 THEN pe.headers ELSE End(raw[i - 1])
  BY <1>3, <1>4
<1>6. raw[i].offset = Ends(pe, i - 1)
  BY <1>5 DEF Ends, raw
<1>7. Ends(pe, i) = raw[i].offset + raw[i].size
  BY <1>4 DEF Ends, End, raw
<1> QED BY <1>3, <1>6, <1>7 DEF raw

LEMMA EndsAre ==
  ASSUME NEW pe, LaidOut(pe)
  PROVE  \A i \in 0 .. Len(RawSections(pe)) : Ends(pe, i) \in Nat /\ pe.headers <= Ends(pe, i)
<1> DEFINE raw == RawSections(pe)
           n == Len(raw)
           S == {i \in Nat : i <= n => Ends(pe, i) \in Nat /\ pe.headers <= Ends(pe, i)}
<1>1. IsSeq(raw)
  BY DEF LaidOut, IsSeq
<1>2. DOMAIN raw = 1 .. n /\ n \in Nat
  BY <1>1, SeqFacts
<1>3. pe.headers \in Nat
  BY DEF LaidOut
<1>4. 0 \in S
  BY <1>3 DEF Ends
<1>5. ASSUME NEW i \in Nat, i \in S PROVE i + 1 \in S
  <2> SUFFICES ASSUME i + 1 <= n PROVE Ends(pe, i + 1) \in Nat /\ pe.headers <= Ends(pe, i + 1)
    OBVIOUS
  <2>1. i + 1 \in DOMAIN raw /\ (i + 1) - 1 = i /\ i <= n
    BY <1>2
  <2>2. raw[i + 1].size \in Nat /\ Ends(pe, i + 1) = Ends(pe, i) + raw[i + 1].size
    BY <2>1, SectionsFollow
  <2>3. Ends(pe, i) \in Nat /\ pe.headers <= Ends(pe, i)
    BY <1>5, <2>1
  <2> HIDE DEF raw
  <2> QED BY <1>3, <2>2, <2>3
<1> HIDE DEF S
<1>6. Nat \subseteq S
  BY <1>4, <1>5, Induction
<1> HIDE DEF n
<1>7. \A i \in 0 .. n : i \in Nat /\ i <= n
  BY <1>2
<1> QED BY <1>6, <1>7 DEF S, n

LEMMA EndsGrow ==
  ASSUME NEW pe, LaidOut(pe)
  PROVE  \A i \in 0 .. Len(RawSections(pe)) : Ends(pe, i) <= Ends(pe, Len(RawSections(pe)))
<1> DEFINE raw == RawSections(pe)
           n == Len(raw)
           S == {i \in Nat : i <= n => Ends(pe, n - i) <= Ends(pe, n)}
<1>1. IsSeq(raw)
  BY DEF LaidOut, IsSeq
<1>2. DOMAIN raw = 1 .. n /\ n \in Nat
  BY <1>1, SeqFacts
<1>3. \A i \in 0 .. n : Ends(pe, i) \in Nat
  BY EndsAre
<1>4. 0 \in S
  <2>1. n - 0 = n /\ n \in 0 .. n
    BY <1>2
  <2>2. Ends(pe, n) \in Nat
    BY <1>3, <2>1
  <2> HIDE DEF n
  <2>3. Ends(pe, n - 0) <= Ends(pe, n)
    BY <2>1, <2>2
  <2> QED BY <2>3
<1>5. ASSUME NEW i \in Nat, i \in S PROVE i + 1 \in S
  <2> SUFFICES ASSUME i + 1 <= n PROVE Ends(pe, n - (i + 1)) <= Ends(pe, n)
    OBVIOUS
  <2> DEFINE j == n - i
  <2>1. j \in DOMAIN raw /\ j - 1 = n - (i + 1) /\ i <= n /\ {j, j - 1, n} \subseteq 0 .. n
    BY <1>2
  <2> HIDE DEF j
  <2>2. raw[j].size \in Nat /\ Ends(pe, j) = Ends(pe, j - 1) + raw[j].size
    BY <2>1, SectionsFollow
  <2>3. Ends(pe, j) <= Ends(pe, n)
    BY <1>5, <2>1 DEF j
  <2>4. {Ends(pe, j), Ends(pe, j - 1), Ends(pe, n)} \subseteq Nat
    BY <1>3, <2>1
  <2> HIDE DEF raw, n
  <2>5. Ends(pe, j - 1) <= Ends(pe, n)
    BY <2>2, <2>3, <2>4
  <2> QED BY <2>1, <2>5
<1> HIDE DEF S
<1>6. Nat \subseteq S
  BY <1>4, <1>5, Induction
<1>7. ASSUME NEW i \in 0 .. n PROVE Ends(pe, i) <= Ends(pe, n)
  <2>1. n - i \in Nat /\ n - i <= n /\ n - (n - i) = i
    BY <1>2
  <2>2. n - i \in S
    BY <1>6, <2>1
  <2> HIDE DEF n
  <2>3. Ends(pe, n - (n - i)) <= Ends(pe, n)
    BY <2>1, <2>2 DEF S
  <2> QED BY <2>1, <2>3
<1> QED BY <1>7

(* All sections end where the code looks for extra data.                   *)
LEMMA HashedIs ==
  ASSUME NEW pe, LaidOut(pe)
  PROVE  BytesHashed(pe) = Ends(pe, Len(RawSections(pe)))
<1> DEFINE raw == RawSections(pe)
           n == Len(raw)
           g == CHOOSE g : g = [i \in 0 .. n |-> IF i = 0 THEN pe.headers ELSE g[i - 1] + raw[i].size]
           h == [i \in 0 .. n |-> Ends(pe, i)]
<1>1. BytesHashed(pe) = g[n]
  BY DEF BytesHashed
<1>2. DOMAIN raw = 1 .. n /\ n \in Nat
  <2>1. IsSeq(raw)
    BY DEF LaidOut, IsSeq
  <2> QED BY <2>1, SeqFacts
<1>3. ASSUME NEW i \in 0 .. n
      PROVE  h[i] = IF i = 0 THEN pe.headers ELSE h[i - 1] + raw[i].size
  <2>1. CASE i = 0
    BY <2>1 DEF Ends
  <2>2. CASE i # 0
    <3>1. i \in DOMAIN raw /\ i - 1 \in 0 .. n
      BY <1>2, <2>2
    <3>2. Ends(pe, i) = Ends(pe, i - 1) + raw[i].size
      BY <3>1, SectionsFollow
    <3>3. h[i] = Ends(pe, i) /\ h[i - 1] = Ends(pe, i - 1)
      BY <3>1
    <3> HIDE DEF h
    <3> QED BY <2>2, <3>2, <3>3
  <2> QED BY <2>1, <2>2
<1>4. h = [i \in 0 .. n |-> IF i = 0 THEN pe.headers ELSE h[i - 1] + raw[i].size]
  BY <1>3, ZenonT(30)
<1>5. h[n] = Ends(pe, n)
  BY <1>2
<1> HIDE DEF h
<1>6. g = [i \in 0 .. n |-> IF i = 0 THEN pe.headers ELSE g[i - 1] + raw[i].size]
  BY <1>4, ZenonT(30)
<1> HIDE DEF g
<1> DEFINE S == {i \in Nat : i <= n => g[i] = Ends(pe, i)}
<1>7. 0 \in S
  <2>1. 0 \in 0 .. n
    BY <1>2
  <2>2. g[0] = pe.headers
    BY <1>6, <2>1
  <2> QED BY <2>2 DEF Ends
<1>8. ASSUME NEW i \in Nat, i \in S PROVE i + 1 \in S
  <2> SUFFICES ASSUME i + 1 <= n PROVE g[i + 1] = Ends(pe, i + 1)
    OBVIOUS
  <2>1. i + 1 \in 0 .. n /\ i + 1 # 0 /\ (i + 1) - 1 = i /\ i + 1 \in DOMAIN raw /\ i <= n
    BY <1>2
  <2>2. g[i + 1] = g[(i + 1) - 1] + raw[i + 1].size
    BY <1>6, <2>1
  <2>3. Ends(pe, i + 1) = Ends(pe, (i + 1) - 1) + raw[i + 1].size
    BY <2>1, SectionsFollow
  <2>4. g[i] = Ends(pe, i)
    BY <1>8, <2>1
  <2> QED BY <2>1, <2>2, <2>3, <2>4
<1> HIDE DEF S
<1>9. n \in S
  BY <1>2, <1>7, <1>8, Induction
<1> QED BY <1>1, <1>2, <1>9 DEF S

SectionParts(pe) ==
  [i \in DOMAIN RawSections(pe) |->
     Part(pe, RawSections(pe)[i].offset, RawSections(pe)[i].offset + RawSections(pe)[i].size)]

LEMMA SectionsSlice ==
  ASSUME NEW pe, LaidOut(pe)
  PROVE  FlattenSeq(SectionParts(pe)) = Slice(pe.units, pe.headers, BytesHashed(pe))
<1> DEFINE raw == RawSections(pe)
           n  == Len(raw)
           ss == SectionParts(pe)
           u  == pe.units
           Reach(i) == Slice(u, pe.headers, Ends(pe, i))
<1>1. DOMAIN raw = 1 .. n /\ n \in Nat
  <2>1. IsSeq(raw)
    BY DEF LaidOut, IsSeq
  <2> QED BY <2>1, SeqFacts
<1>2. BytesHashed(pe) = Ends(pe, n)
  BY HashedIs
<1>3. IsSeq(u) /\ pe.headers \in Nat /\ Len(u) \in Nat /\ Ends(pe, n) <= Len(u)
  <2>1. IsSeq(u) /\ pe.headers \in Nat /\ pe.certSize \in Nat
    BY DEF LaidOut, IsSeq
  <2>2. BytesHashed(pe) <= Len(u) - pe.certSize
    BY DEF LaidOut
  <2>3. Len(u) \in Nat /\ Ends(pe, n) \in Nat
    <3>1. n \in 0 .. n
      BY <1>1
    <3> QED BY <2>1, <3>1, SeqFacts, EndsAre
  <2> HIDE DEF u, n
  <2> QED BY <1>2, <2>1, <2>2, <2>3
<1>4. ASSUME NEW i \in 0 .. n
      PROVE  Ends(pe, i) \in Nat /\ pe.headers <= Ends(pe, i) /\ Ends(pe, i) <= Len(u)
  <2>1. Ends(pe, i) \in Nat /\ pe.headers <= Ends(pe, i) /\ Ends(pe, i) <= Ends(pe, n)
    BY EndsAre, EndsGrow
  <2>2. Ends(pe, n) \in Nat
    <3>1. n \in 0 .. n
      BY <1>1
    <3> QED BY <3>1, EndsAre
  <2> HIDE DEF u, n
  <2> QED BY <1>3, <2>1, <2>2
<1>5. ASSUME NEW i \in 1 .. n
      PROVE  /\ i - 1 \in 0 .. n /\ i \in 0 .. n
             /\ ss[i] = Slice(u, Ends(pe, i - 1), Ends(pe, i)) /\ Ends(pe, i - 1) <= Ends(pe, i)
  <2>1. i \in DOMAIN raw /\ i - 1 \in 0 .. n /\ i \in 0 .. n
    BY <1>1
  <2>2. /\ raw[i].offset = Ends(pe, i - 1) /\ raw[i].size \in Nat
        /\ Ends(pe, i) = Ends(pe, i - 1) + raw[i].size
    BY <2>1, SectionsFollow
  <2>3. ss[i] = Part(pe, raw[i].offset, raw[i].offset + raw[i].size)
    BY <2>1 DEF SectionParts
  <2>4. Ends(pe, i - 1) \in Nat
    BY <1>4, <2>1
  <2>5. ss[i] = Slice(u, Ends(pe, i - 1), Ends(pe, i))
    BY <2>2, <2>3 DEF Part, Slice
  <2> HIDE DEF n, raw, ss, u
  <2> QED BY <2>1, <2>2, <2>4, <2>5
<1>6. CASE n = 0
  <2>1. FlattenSeq(ss) = ss /\ ss = <<>>
    <3>1. DOMAIN ss = {} /\ ss = [i \in 1 .. n |-> ss[i]]
      BY <1>1, <1>6 DEF SectionParts
    <3>2. IsSeq(ss) /\ Len(ss) = n
      BY <1>1, <3>1, FunIsSeq
    <3> QED BY <1>6, <3>2, EmptySeq DEF FlattenSeq, IsSeq
  <2>2. Slice(u, pe.headers, Ends(pe, n)) = <<>>
    <3>1. Ends(pe, n) = pe.headers /\ pe.headers + 1 \in Int /\ pe.headers \in Int
          /\ pe.headers < pe.headers + 1
      BY <1>3, <1>6 DEF Ends
    <3> HIDE DEF n, u
    <3> QED BY <3>1, SubSeqEmpty DEF Slice
  <2> QED BY <1>2, <2>1, <2>2
<1>7. CASE n # 0
  <2>1. Len(ss) = n
    <3>1. ss = [i \in 1 .. n |-> ss[i]]
      BY <1>1 DEF SectionParts
    <3> HIDE DEF ss, n
    <3> QED BY <1>1, <3>1, FunIsSeq
  <2>2. PICK f : Flattens(ss, f, n) /\ FlattenSeq(ss) = f[n]
    BY <1>1, <1>7, <2>1, FlattenIs
  <2> DEFINE S == {i \in Nat : i + 1 <= n => f[i + 1] = Reach(i + 1)}
  <2>3. 0 \in S
    <3>1. 1 \in 1 .. n /\ 1 - 1 = 0 /\ 0 + 1 = 1
      BY <1>1, <1>7
    <3>2. f[1] = ss[1] /\ ss[1] = Slice(u, Ends(pe, 1 - 1), Ends(pe, 1))
      BY <1>5, <2>2, <3>1 DEF Flattens
    <3>3. Ends(pe, 0) = pe.headers
      BY DEF Ends
    <3> HIDE DEF ss, u
    <3> QED BY <3>1, <3>2, <3>3
  <2>4. ASSUME NEW i \in Nat, i \in S PROVE i + 1 \in S
    <3> SUFFICES ASSUME (i + 1) + 1 <= n PROVE f[(i + 1) + 1] = Reach((i + 1) + 1)
      OBVIOUS
    <3> DEFINE m == i + 1
               k == m + 1
    <3>1. /\ k \in 2 .. n /\ k - 1 = m /\ k \in 1 .. n /\ m \in 0 .. n /\ k \in 0 .. n
          /\ m <= n /\ m = i + 1
      BY <1>1
    <3>2. f[m] = Reach(m)
      BY <2>4, <3>1
    <3> HIDE DEF m, k, S
    <3>3. f[k] = Join(f[m], ss[k])
      BY <2>2, <3>1 DEF Flattens
    <3>4. ss[k] = Slice(u, Ends(pe, m), Ends(pe, k)) /\ Ends(pe, m) <= Ends(pe, k)
      BY <1>5, <3>1
    <3>5. /\ Ends(pe, m) \in Nat /\ Ends(pe, k) \in Nat /\ pe.headers <= Ends(pe, m)
          /\ Ends(pe, k) <= Len(u) /\ pe.headers \in Nat /\ IsSeq(u)
      BY <1>3, <1>4, <3>1
    <3> HIDE DEF u, ss, n
    <3>6. Join(Slice(u, pe.headers, Ends(pe, m)), Slice(u, Ends(pe, m), Ends(pe, k)))
            = Slice(u, pe.headers, Ends(pe, k))
      BY <3>4, <3>5, SlicesJoin
    <3>7. f[k] = Reach(k)
      BY <3>2, <3>3, <3>4, <3>6
    <3> QED BY <3>7 DEF k, m
  <2>5. n - 1 \in Nat /\ (n - 1) + 1 = n /\ n <= n
    BY <1>1, <1>7
  <2> HIDE DEF S
  <2>6. n - 1 \in S
    BY <2>3, <2>4, <2>5, Induction
  <2> HIDE DEF n
  <2>7. f[n] = Reach(n)
    BY <2>5, <2>6 DEF S
  <2> QED BY <1>2, <2>2, <2>7
<1> QED BY <1>6, <1>7

LEMMA PaddingIs == \A n \in Nat : Padding(n) \in Nat
BY UnitsAssumption DEF Padding

Fill(n) == [i \in 1 .. n |-> ZeroUnit]

LEMMA FillFacts ==
  ASSUME NEW n \in Nat
  PROVE  IsSeq(Fill(n)) /\ Len(Fill(n)) = n /\ \A i \in 1 .. n : Fill(n)[i] = ZeroUnit
<1>1. Fill(n) = [i \in 1 .. n |-> Fill(n)[i]] /\ \A i \in 1 .. n : Fill(n)[i] = ZeroUnit
  BY DEF Fill
<1> QED BY <1>1, FunIsSeq

(* h is u without its units c + 1 and e + 1, which are zero.               *)
TakenOut(h, u, c, e) ==
  /\ IsSeq(h) /\ IsSeq(u) /\ Len(u) = Len(h) + 2
  /\ c \in Nat /\ e \in Nat /\ c < e /\ e < Len(u)
  /\ u[c + 1] = ZeroUnit /\ u[e + 1] = ZeroUnit
  /\ \A i \in 1 .. Len(h) : h[i] = u[IF i <= c THEN i ELSE IF i < e THEN i + 1 ELSE i + 2]

LEMMA LayoutFacts ==
  ASSUME NEW pe, LaidOut(pe)
  PROVE  /\ IsSeq(pe.units) /\ Len(pe.units) \in Nat
         /\ pe.checksum \in Nat /\ pe.certEntry \in Nat /\ pe.headers \in Nat /\ pe.certSize \in Nat
         /\ pe.checksum < pe.certEntry /\ pe.certEntry < pe.headers
         /\ BytesHashed(pe) \in Nat /\ pe.headers <= BytesHashed(pe)
         /\ Len(pe.units) - pe.certSize \in Nat
         /\ BytesHashed(pe) <= Len(pe.units) - pe.certSize
<1> DEFINE n == Len(RawSections(pe))
<1>1. IsSeq(pe.units) /\ IsSeq(RawSections(pe))
  BY DEF LaidOut, IsSeq
<1>2. Len(pe.units) \in Nat /\ n \in 0 .. n
  BY <1>1, SeqFacts
<1>3. BytesHashed(pe) \in Nat /\ pe.headers <= BytesHashed(pe)
  <2>1. BytesHashed(pe) = Ends(pe, n)
    BY HashedIs
  <2> QED BY <1>2, <2>1, EndsAre
<1>4. /\ pe.checksum \in Nat /\ pe.certEntry \in Nat /\ pe.headers \in Nat /\ pe.certSize \in Nat
      /\ pe.checksum < pe.certEntry /\ pe.certEntry < pe.headers
      /\ BytesHashed(pe) <= Len(pe.units) - pe.certSize
  BY DEF LaidOut
<1> QED BY <1>1, <1>2, <1>3, <1>4

(* The hash as three parts of the file and the padding.                    *)
LEMMA HashParts ==
  ASSUME NEW pe, LaidOut(pe), pe.valid
  PROVE  AuthenticodeHash(pe) =
           Join(Join(Join(Slice(pe.units, 0, pe.checksum),
                          Slice(pe.units, pe.checksum + 1, pe.certEntry)),
                     Slice(pe.units, pe.certEntry + 1, Len(pe.units) - pe.certSize)),
                Fill(Padding(Len(pe.units))))
<1> DEFINE u == pe.units
           e == pe.certEntry + 1
           h == pe.headers
           b == BytesHashed(pe)
           n == Len(u) - pe.certSize
           front == Join(Slice(u, 0, pe.checksum), Slice(u, pe.checksum + 1, pe.certEntry))
           fill  == Fill(Padding(Len(u)))
<1>1. AuthenticodeHash(pe) =
        Join(Join(Join(Join(front, Slice(u, e, h)), FlattenSeq(SectionParts(pe))),
                  Slice(u, b, n)), fill)
  <2>1. pe.valid
    OBVIOUS
  <2> QED BY <2>1, Zenon DEF AuthenticodeHash, Part, Slice, Join, SectionParts, Fill
<1>2. FlattenSeq(SectionParts(pe)) = Slice(u, h, b)
  BY SectionsSlice
<1>3. /\ IsSeq(u) /\ Len(u) \in Nat /\ e \in Nat /\ h \in Nat /\ b \in Nat /\ n \in Nat
      /\ e <= h /\ h <= b /\ b <= n /\ n <= Len(u)
      /\ 0 <= pe.checksum /\ pe.checksum + 1 <= pe.certEntry /\ pe.certEntry <= Len(u)
      /\ pe.checksum \in Nat /\ pe.checksum + 1 \in Nat /\ pe.certEntry \in Nat
      /\ pe.checksum <= Len(u)
  BY LayoutFacts, SMTT(60)
<1> HIDE DEF u, e, h, b, n, fill
<1>4. IsSeq(front)
  <2>1. IsSeq(Slice(u, 0, pe.checksum)) /\ IsSeq(Slice(u, pe.checksum + 1, pe.certEntry))
    BY <1>3, SliceFacts
  <2> QED BY <2>1, JoinFacts
<1>5. IsSeq(Slice(u, e, h)) /\ IsSeq(Slice(u, h, b)) /\ IsSeq(Slice(u, b, n))
      /\ IsSeq(Slice(u, e, b))
  <2>1. h <= Len(u) /\ b <= Len(u) /\ e <= b
    BY <1>3
  <2> QED BY <1>3, <2>1, SliceFacts
<1> HIDE DEF front
<1>6. Join(Join(front, Slice(u, e, h)), Slice(u, h, b)) = Join(front, Slice(u, e, b))
  <2>1. Join(Slice(u, e, h), Slice(u, h, b)) = Slice(u, e, b)
    <3>1. b <= Len(u)
      BY <1>3
    <3> QED BY <1>3, <3>1, SlicesJoin
  <2> QED BY <1>4, <1>5, <2>1, JoinAssociative
<1>7. Join(Join(front, Slice(u, e, b)), Slice(u, b, n)) = Join(front, Slice(u, e, n))
  <2>1. Join(Slice(u, e, b), Slice(u, b, n)) = Slice(u, e, n)
    <3>1. e <= b
      BY <1>3
    <3> QED BY <1>3, <3>1, SlicesJoin
  <2> QED BY <1>4, <1>5, <2>1, JoinAssociative
<1>8. AuthenticodeHash(pe) = Join(Join(front, Slice(u, e, n)), fill)
  BY <1>1, <1>2, <1>6, <1>7
<1> QED BY <1>8 DEF front, u, e, n, fill

LEMMA UnsignedIs ==
  ASSUME NEW pe, LaidOut(pe)
  PROVE  LET n == Len(pe.units) - pe.certSize
             f == Padding(Len(pe.units))
             u == Unsigned(pe)
         IN
         /\ IsSeq(u) /\ Len(u) = n + f /\ n \in Nat /\ f \in Nat
         /\ u[pe.checksum + 1] = ZeroUnit /\ u[pe.certEntry + 1] = ZeroUnit
         /\ \A i \in 1 .. n : i \notin {pe.checksum + 1, pe.certEntry + 1} => u[i] = pe.units[i]
         /\ \A i \in 1 .. f : u[n + i] = ZeroUnit
<1> DEFINE n == Len(pe.units) - pe.certSize
           f == Padding(Len(pe.units))
           bytes == Slice(pe.units, 0, n)
           full  == Join(bytes, Fill(f))
           c == pe.checksum + 1
           e == pe.certEntry + 1
           u == [full EXCEPT ![c] = ZeroUnit, ![e] = ZeroUnit]
<1>1. /\ IsSeq(pe.units) /\ Len(pe.units) \in Nat /\ n \in Nat /\ n <= Len(pe.units)
      /\ c \in 1 .. n /\ e \in 1 .. n /\ c # e
  BY LayoutFacts, SMTT(60)
<1>2. f = Padding(n) /\ f \in Nat
  <2>1. Padding(Len(pe.units)) = Padding(n)
    BY DEF LaidOut
  <2> QED BY <1>1, <2>1, PaddingIs
<1> HIDE DEF n
<1>3. IsSeq(bytes) /\ Len(bytes) = n - 0 /\ \A i \in 1 .. n - 0 : bytes[i] = pe.units[0 + i]
  <2>1. IsSeq(pe.units) /\ n \in Nat /\ 0 \in Nat /\ 0 <= n /\ n <= Len(pe.units)
    BY <1>1
  <2> QED BY <2>1, SliceFacts
<1>4. Len(bytes) = n /\ \A i \in 1 .. n : bytes[i] = pe.units[i]
  BY <1>1, <1>3
<1>5. Unsigned(pe) = u
  <2>1. bytes = Part(pe, 0, Len(pe.units) - pe.certSize)
    BY DEF Part, Slice, n
  <2>2. Fill(f) = [i \in 1 .. Padding(Len(bytes)) |-> ZeroUnit]
    BY <1>2, <1>4 DEF Fill
  <2> HIDE DEF bytes
  <2> QED BY <2>1, <2>2 DEF Unsigned, Join
<1> HIDE DEF bytes, f, c, e
<1>6. IsSeq(Fill(f)) /\ Len(Fill(f)) = f /\ \A i \in 1 .. f : Fill(f)[i] = ZeroUnit
  BY <1>2, FillFacts
<1>7. DOMAIN bytes = 1 .. n /\ DOMAIN Fill(f) = 1 .. f
  BY <1>3, <1>4, <1>6, SeqFacts
<1>8. /\ IsSeq(full) /\ Len(full) = Len(bytes) + Len(Fill(f))
      /\ DOMAIN full = 1 .. Len(bytes) + Len(Fill(f))
      /\ \A i \in DOMAIN bytes : full[i] = bytes[i]
      /\ \A i \in DOMAIN Fill(f) : full[Len(bytes) + i] = Fill(f)[i]
  <2>1. IsSeq(bytes) /\ IsSeq(Fill(f))
    BY <1>3, <1>6
  <2> QED BY <2>1, JoinFacts
<1>9. /\ DOMAIN full = 1 .. n + f /\ \A i \in 1 .. n : full[i] = pe.units[i]
      /\ \A i \in 1 .. f : full[n + i] = ZeroUnit
  BY <1>4, <1>6, <1>7, <1>8
<1> HIDE DEF full
<1>10. /\ DOMAIN u = 1 .. n + f /\ u[c] = ZeroUnit /\ u[e] = ZeroUnit
       /\ \A i \in 1 .. n + f : i \notin {c, e} => u[i] = full[i]
  <2>1. c \in DOMAIN full /\ e \in DOMAIN full /\ c # e /\ DOMAIN full = 1 .. n + f
    BY <1>1, <1>2, <1>9
  <2> DEFINE once == [full EXCEPT ![c] = ZeroUnit]
  <2>2. u = [once EXCEPT ![e] = ZeroUnit]
    OBVIOUS
  <2>3. /\ DOMAIN once = 1 .. n + f /\ once[c] = ZeroUnit
        /\ \A i \in 1 .. n + f : i # c => once[i] = full[i]
    BY <2>1
  <2> HIDE DEF once, u
  <2>4. /\ DOMAIN u = 1 .. n + f /\ u[e] = ZeroUnit
        /\ \A i \in 1 .. n + f : i # e => u[i] = once[i]
    BY <2>1, <2>2, <2>3
  <2> QED BY <2>1, <2>3, <2>4
<1>11. u = [i \in 1 .. n + f |-> u[i]]
  BY <1>9
<1> HIDE DEF u
<1>12. IsSeq(u) /\ Len(u) = n + f
  BY <1>1, <1>2, <1>11, FunIsSeq
<1>13. \A i \in 1 .. n : i \notin {c, e} => u[i] = pe.units[i]
  BY <1>1, <1>2, <1>9, <1>10
<1>14. \A i \in 1 .. f : u[n + i] = ZeroUnit
  BY <1>1, <1>2, <1>9, <1>10
<1> QED BY <1>1, <1>2, <1>5, <1>10, <1>12, <1>13, <1>14 DEF n, f, c, e

LEMMA HashIsUnsigned ==
  ASSUME NEW pe, LaidOut(pe), pe.valid
  PROVE  TakenOut(AuthenticodeHash(pe), Unsigned(pe), pe.checksum, pe.certEntry)
<1> DEFINE n == Len(pe.units) - pe.certSize
           f == Padding(Len(pe.units))
           c == pe.checksum
           e == pe.certEntry
           s == pe.units
           u == Unsigned(pe)
           one   == Slice(s, 0, c)
           two   == Slice(s, c + 1, e)
           three == Slice(s, e + 1, n)
           start == Join(one, two)
           most  == Join(start, three)
           all   == Join(most, Fill(f))
<1>1. AuthenticodeHash(pe) = all
  BY HashParts
<1>2. /\ IsSeq(s) /\ Len(s) \in Nat /\ c \in Nat /\ e \in Nat /\ n \in Nat
      /\ c < e /\ e < n /\ n <= Len(s)
  BY LayoutFacts
<1>3. /\ IsSeq(u) /\ Len(u) = n + f /\ f \in Nat
      /\ u[c + 1] = ZeroUnit /\ u[e + 1] = ZeroUnit
      /\ \A i \in 1 .. n : i \notin {c + 1, e + 1} => u[i] = s[i]
      /\ \A i \in 1 .. f : u[n + i] = ZeroUnit
  BY UnsignedIs
<1> HIDE DEF n, f, c, e, s, u
<1>4. /\ IsSeq(one) /\ Len(one) = c - 0 /\ \A i \in 1 .. c - 0 : one[i] = s[0 + i]
  <2>1. 0 <= c /\ c <= Len(s)
    BY <1>2
  <2> QED BY <1>2, <2>1, SliceFacts, ZenonT(60)
<1>5. /\ IsSeq(two) /\ Len(two) = e - (c + 1) /\ \A i \in 1 .. e - (c + 1) : two[i] = s[c + 1 + i]
  <2>1. c + 1 <= e /\ e <= Len(s) /\ c + 1 \in Nat
    BY <1>2
  <2> QED BY <1>2, <2>1, SliceFacts
<1>6. /\ IsSeq(three) /\ Len(three) = n - (e + 1)
      /\ \A i \in 1 .. n - (e + 1) : three[i] = s[e + 1 + i]
  <2>1. e + 1 <= n /\ e + 1 \in Nat
    BY <1>2
  <2> QED BY <1>2, <2>1, SliceFacts, ZenonT(60)
<1>7. IsSeq(Fill(f)) /\ Len(Fill(f)) = f /\ \A i \in 1 .. f : Fill(f)[i] = ZeroUnit
  BY <1>3, FillFacts
<1>8. DOMAIN one = 1 .. Len(one) /\ DOMAIN two = 1 .. Len(two) /\ DOMAIN three = 1 .. Len(three)
      /\ DOMAIN Fill(f) = 1 .. Len(Fill(f))
  BY <1>4, <1>5, <1>6, <1>7, SeqFacts
<1> HIDE DEF one, two, three
<1>9. /\ IsSeq(start) /\ Len(start) = Len(one) + Len(two)
      /\ \A i \in DOMAIN one : start[i] = one[i]
      /\ \A i \in DOMAIN two : start[Len(one) + i] = two[i]
  <2>1. IsSeq(one) /\ IsSeq(two)
    BY <1>4, <1>5
  <2> QED BY <2>1, JoinFacts
<1>10. DOMAIN start = 1 .. Len(start)
  BY <1>9, SeqFacts
<1>11. Len(start) = e - 1 /\ \A i \in 1 .. e - 1 : start[i] = s[IF i <= c THEN i ELSE i + 1]
  <2>1. ASSUME NEW i \in 1 .. e - 1 PROVE start[i] = s[IF i <= c THEN i ELSE i + 1]
    <3>1. CASE i <= c
      <4>1. i \in 1 .. c - 0 /\ 0 + i = i
        BY <1>2, <3>1
      <4> HIDE DEF start
      <4> QED BY <1>4, <1>8, <1>9, <3>1, <4>1
    <3>2. CASE ~(i <= c)
      <4> DEFINE j == i - c
      <4>1. j \in 1 .. e - (c + 1) /\ c + j = i /\ c + 1 + j = i + 1 /\ c - 0 = c
        BY <1>2, <3>2
      <4> HIDE DEF start, j
      <4>2. start[c + j] = two[j]
        BY <1>4, <1>5, <1>8, <1>9, <4>1, ZenonT(60)
      <4> QED BY <1>5, <3>2, <4>1, <4>2
    <3> QED BY <3>1, <3>2
  <2>2. Len(start) = e - 1
    BY <1>2, <1>4, <1>5, <1>9
  <2> QED BY <2>1, <2>2
<1> HIDE DEF start
<1>12. /\ IsSeq(most) /\ Len(most) = Len(start) + Len(three)
       /\ \A i \in DOMAIN start : most[i] = start[i]
       /\ \A i \in DOMAIN three : most[Len(start) + i] = three[i]
  <2>1. IsSeq(start) /\ IsSeq(three)
    BY <1>6, <1>9
  <2> QED BY <2>1, JoinFacts
<1>13. DOMAIN most = 1 .. Len(most)
  BY <1>12, SeqFacts
<1>14. /\ Len(most) = n - 2
       /\ \A i \in 1 .. n - 2 : most[i] = s[IF i <= c THEN i ELSE IF i < e THEN i + 1 ELSE i + 2]
  <2>1. ASSUME NEW i \in 1 .. n - 2
        PROVE  most[i] = s[IF i <= c THEN i ELSE IF i < e THEN i + 1 ELSE i + 2]
    <3>1. CASE i < e
      <4>1. i \in 1 .. e - 1
        BY <1>2, <3>1
      <4> HIDE DEF most
      <4>2. most[i] = start[i]
        BY <1>10, <1>11, <1>12, <4>1
      <4> QED BY <1>11, <3>1, <4>1, <4>2
    <3>2. CASE ~(i < e)
      <4> DEFINE j == i - (e - 1)
      <4>1. /\ j \in 1 .. n - (e + 1) /\ (e - 1) + j = i /\ e + 1 + j = i + 2
            /\ ~(i <= c)
        BY <1>2, <3>2
      <4> HIDE DEF most, j
      <4>2. most[(e - 1) + j] = three[j]
        BY <1>6, <1>8, <1>11, <1>12, <4>1
      <4> QED BY <1>6, <3>2, <4>1, <4>2
    <3> QED BY <3>1, <3>2
  <2>2. Len(most) = n - 2
    BY <1>2, <1>6, <1>11, <1>12
  <2> QED BY <2>1, <2>2
<1> HIDE DEF most
<1>15. /\ IsSeq(all) /\ Len(all) = Len(most) + Len(Fill(f))
       /\ \A i \in DOMAIN most : all[i] = most[i]
       /\ \A i \in DOMAIN Fill(f) : all[Len(most) + i] = Fill(f)[i]
  <2>1. IsSeq(most) /\ IsSeq(Fill(f))
    BY <1>7, <1>12
  <2> QED BY <2>1, JoinFacts
<1>16. Len(all) = n - 2 + f
  BY <1>7, <1>14, <1>15
<1>17. ASSUME NEW i \in 1 .. Len(all)
       PROVE  all[i] = u[IF i <= c THEN i ELSE IF i < e THEN i + 1 ELSE i + 2]
  <2> DEFINE k == IF i <= c THEN i ELSE IF i < e THEN i + 1 ELSE i + 2
  <2>1. CASE i <= n - 2
    <3>1. i \in 1 .. n - 2 /\ k \in 1 .. n /\ k \notin {c + 1, e + 1}
      BY <1>2, <2>1
    <3> HIDE DEF all
    <3>2. all[i] = most[i]
      BY <1>13, <1>14, <1>15, <3>1
    <3>3. most[i] = s[k]
      BY <1>14, <3>1
    <3> HIDE DEF k
    <3>4. u[k] = s[k]
      BY <1>3, <3>1
    <3>5. all[i] = u[k]
      BY <3>2, <3>3, <3>4
    <3> QED BY <3>5 DEF k
  <2>2. CASE ~(i <= n - 2)
    <3> DEFINE j == i - (n - 2)
    <3>1. /\ j \in 1 .. f /\ (n - 2) + j = i /\ n + j = i + 2 /\ ~(i <= c) /\ ~(i < e)
      BY <1>2, <1>3, <1>16, <2>2
    <3> HIDE DEF all, j
    <3>2. all[(n - 2) + j] = ZeroUnit
      BY <1>7, <1>8, <1>14, <1>15, <3>1, SMTT(60)
    <3>3. u[n + j] = ZeroUnit
      BY <1>3, <3>1
    <3> QED BY <3>1, <3>2, <3>3
  <2> QED BY <2>1, <2>2
<1> HIDE DEF all
<1>18. TakenOut(all, u, c, e)
  <2>1. Len(u) = Len(all) + 2 /\ e < Len(u)
    BY <1>2, <1>3, <1>16
  <2> QED BY <1>2, <1>3, <1>15, <1>17, <2>1 DEF TakenOut
<1> QED BY <1>1, <1>18 DEF u, c, e

(* What is left of two files is the same exactly if they are.              *)
LEMMA TakenOutTells ==
  ASSUME NEW h, NEW u, NEW g, NEW v, NEW c, NEW e, TakenOut(h, u, c, e), TakenOut(g, v, c, e)
  PROVE  h = g <=> u = v
<1>0. /\ Len(h) \in Nat /\ Len(u) \in Nat /\ Len(g) \in Nat /\ Len(v) \in Nat
      /\ DOMAIN h = 1 .. Len(h) /\ DOMAIN g = 1 .. Len(g) /\ DOMAIN u = 1 .. Len(u)
      /\ DOMAIN v = 1 .. Len(v) /\ c \in Nat /\ e \in Nat /\ c < e
  <2>1. IsSeq(h) /\ IsSeq(u) /\ IsSeq(g) /\ IsSeq(v)
    BY DEF TakenOut
  <2> QED BY <2>1, SeqFacts DEF TakenOut
<1>1. ASSUME h = g PROVE u = v
  <2>1. Len(u) = Len(v) /\ e < Len(u)
    BY <1>1 DEF TakenOut
  <2>2. ASSUME NEW i \in 1 .. Len(u) PROVE u[i] = v[i]
    <3>1. CASE i = c + 1 \/ i = e + 1
      BY <3>1 DEF TakenOut
    <3>2. CASE i # c + 1 /\ i # e + 1
      <4> DEFINE j == IF i <= c THEN i ELSE IF i <= e THEN i - 1 ELSE i - 2
                 k == IF j <= c THEN j ELSE IF j < e THEN j + 1 ELSE j + 2
      <4>1. Len(u) = Len(h) + 2 /\ Len(v) = Len(g) + 2
        BY DEF TakenOut
      <4>2. j \in 1 .. Len(h) /\ k = i
        BY <1>0, <2>1, <3>2, <4>1
      <4>3. \A n \in 1 .. Len(h) :
              h[n] = u[IF n <= c THEN n ELSE IF n < e THEN n + 1 ELSE n + 2]
        BY DEF TakenOut
      <4>4. \A n \in 1 .. Len(g) :
              g[n] = v[IF n <= c THEN n ELSE IF n < e THEN n + 1 ELSE n + 2]
        BY DEF TakenOut
      <4> HIDE DEF j
      <4>5. h[j] = u[k] /\ g[j] = v[k]
        BY <1>1, <4>2, <4>3, <4>4
      <4> HIDE DEF k
      <4> QED BY <1>1, <4>2, <4>5
    <3> QED BY <3>1, <3>2
  <2>3. u = [i \in 1 .. Len(u) |-> u[i]] /\ v = [i \in 1 .. Len(u) |-> v[i]]
    <3>1. u \in Seq(ToSet(u)) /\ v \in Seq(ToSet(v))
      BY DEF TakenOut, IsSeq
    <3> QED BY <2>1, <3>1, LenProperties
  <2> QED BY <2>2, <2>3
<1>2. ASSUME u = v PROVE h = g
  <2>1. Len(h) = Len(g)
    <3>1. Len(u) = Len(h) + 2 /\ Len(v) = Len(g) + 2
      BY DEF TakenOut
    <3>2. Len(u) = Len(v)
      BY <1>2
    <3>3. Len(h) \in Nat /\ Len(g) \in Nat
      BY <1>0
    <3> QED BY <3>1, <3>2, <3>3
  <2>2. \A i \in 1 .. Len(h) : h[i] = g[i]
    BY <1>2, <2>1 DEF TakenOut
  <2>3. h = [i \in 1 .. Len(h) |-> h[i]] /\ g = [i \in 1 .. Len(h) |-> g[i]]
    <3>1. h \in Seq(ToSet(h)) /\ g \in Seq(ToSet(g))
      BY DEF TakenOut, IsSeq
    <3> QED BY <2>1, <3>1, LenProperties
  <2> QED BY <2>2, <2>3
<1> QED BY <1>1, <1>2

(* The units before the checksum, which say where the fields are, are in   *)
(* what is hashed and in what a signature leaves.                          *)
LEMMA HeadersAreLeft ==
  ASSUME NEW pe, LaidOut(pe), pe.valid, NEW i \in 1 .. pe.checksum
  PROVE  /\ i \in DOMAIN pe.units
         /\ AuthenticodeHash(pe)[i] = pe.units[i] /\ Unsigned(pe)[i] = pe.units[i]
<1> DEFINE n == Len(pe.units) - pe.certSize
           h == AuthenticodeHash(pe)
           u == Unsigned(pe)
           c == pe.checksum
           e == pe.certEntry
<1>1. /\ IsSeq(pe.units) /\ Len(pe.units) \in Nat /\ c \in Nat /\ e \in Nat /\ n \in Nat
      /\ c < e /\ e < n /\ n <= Len(pe.units)
  BY LayoutFacts
<1>2. TakenOut(h, u, c, e)
  BY HashIsUnsigned
<1>3. /\ Len(u) = n + Padding(Len(pe.units)) /\ Padding(Len(pe.units)) \in Nat
      /\ \A j \in 1 .. n : j \notin {c + 1, e + 1} => u[j] = pe.units[j]
  BY UnsignedIs
<1> HIDE DEF n, u, h
<1>4. i \in 1 .. n /\ i \notin {c + 1, e + 1} /\ i <= c /\ i \in 1 .. Len(pe.units)
  BY <1>1
<1>5. u[i] = pe.units[i]
  BY <1>3, <1>4
<1>6. Len(u) = Len(h) + 2 /\ Len(h) \in Nat
  <2>1. IsSeq(h)
    BY <1>2 DEF TakenOut
  <2> QED BY <1>2, <2>1, SeqFacts DEF TakenOut
<1>7. i \in 1 .. Len(h)
  BY <1>1, <1>3, <1>4, <1>6
<1>8. h[i] = u[IF i <= c THEN i ELSE IF i < e THEN i + 1 ELSE i + 2]
  BY <1>2, <1>7 DEF TakenOut
<1>9. h[i] = u[i]
  BY <1>4, <1>8
<1>10. i \in DOMAIN pe.units
  BY <1>1, <1>4, SeqFacts
<1> QED BY <1>5, <1>9, <1>10 DEF h, u

LEMMA SameFields ==
  ASSUME NEW a, NEW b, LaidOut(a), LaidOut(b), a.valid, b.valid,
         FieldsFollow(a, b), FieldsFollow(b, a),
         AuthenticodeHash(a) = AuthenticodeHash(b) \/ Unsigned(a) = Unsigned(b)
  PROVE  a.checksum = b.checksum /\ a.certEntry = b.certEntry
<1>1. a.checksum \in Nat /\ b.checksum \in Nat
  BY LayoutFacts
<1>2. CASE a.checksum <= b.checksum
  <2>1. ASSUME NEW i \in 1 .. a.checksum
        PROVE  i \in DOMAIN b.units /\ b.units[i] = a.units[i]
    <3>1. i \in 1 .. b.checksum
      BY <1>1, <1>2
    <3>2. AuthenticodeHash(a)[i] = a.units[i] /\ Unsigned(a)[i] = a.units[i]
      BY HeadersAreLeft
    <3>3. /\ i \in DOMAIN b.units
          /\ AuthenticodeHash(b)[i] = b.units[i] /\ Unsigned(b)[i] = b.units[i]
      BY <3>1, HeadersAreLeft
    <3> QED BY <3>2, <3>3
  <2> QED BY <2>1 DEF FieldsFollow
<1>3. CASE ~(a.checksum <= b.checksum)
  <2>1. ASSUME NEW i \in 1 .. b.checksum
        PROVE  i \in DOMAIN a.units /\ a.units[i] = b.units[i]
    <3>1. i \in 1 .. a.checksum
      BY <1>1, <1>3
    <3>2. AuthenticodeHash(b)[i] = b.units[i] /\ Unsigned(b)[i] = b.units[i]
      BY HeadersAreLeft
    <3>3. /\ i \in DOMAIN a.units
          /\ AuthenticodeHash(a)[i] = a.units[i] /\ Unsigned(a)[i] = a.units[i]
      BY <3>1, HeadersAreLeft
    <3> QED BY <3>2, <3>3
  <2> QED BY <2>1 DEF FieldsFollow
<1> QED BY <1>2, <1>3

(* Two PE files have the same Authenticode hash exactly if they are the    *)
(* same but for what a signature changes: checksum, the entry of the       *)
(* certificates and these, with the padding before them.                   *)
LEMMA HashTellsKernel ==
  ASSUME KernelsLaidOut, NEW k \in DOMAIN Kernel, NEW l \in DOMAIN Kernel,
         Kernel[k].valid, Kernel[l].valid
  PROVE  AuthenticodeHash(Kernel[k]) = AuthenticodeHash(Kernel[l])
           <=> Unsigned(Kernel[k]) = Unsigned(Kernel[l])
<1> DEFINE a == Kernel[k]
           b == Kernel[l]
<1>1. /\ LaidOut(a) /\ LaidOut(b) /\ FieldsFollow(a, b) /\ FieldsFollow(b, a)
      /\ a.valid /\ b.valid
  BY DEF KernelsLaidOut
<1> HIDE DEF a, b
<1>2. TakenOut(AuthenticodeHash(a), Unsigned(a), a.checksum, a.certEntry)
  BY <1>1, HashIsUnsigned
<1>3. TakenOut(AuthenticodeHash(b), Unsigned(b), b.checksum, b.certEntry)
  BY <1>1, HashIsUnsigned
<1> SUFFICES ASSUME AuthenticodeHash(a) = AuthenticodeHash(b) \/ Unsigned(a) = Unsigned(b)
             PROVE  AuthenticodeHash(a) = AuthenticodeHash(b) <=> Unsigned(a) = Unsigned(b)
  BY DEF a, b
<1>4. a.checksum = b.checksum /\ a.certEntry = b.certEntry
  BY <1>1, SameFields
<1>5. TakenOut(AuthenticodeHash(b), Unsigned(b), a.checksum, a.certEntry)
  BY <1>3, <1>4
<1> QED BY <1>2, <1>5, TakenOutTells

-----------------------------------------------------------------------------
(* What the RTMRs were computed from.                                      *)
KernelFileOK ==
  /\ disk["kernel"] \in DOMAIN Kernel \cup {Absent}
  /\ mem["kernel"] \in DOMAIN Kernel \cup {Absent}

RtmrOK(r) ==
  /\ r.name = "RTMR0" =>
       \E v : r.digest = Rtmr0(Firmware[r.read["tdx ovmf"]], r.read["dsdt"], v) /\ r.digest # Error
  /\ r.name = "RTMR1" =>
       /\ r.read["kernel"] \in DOMAIN Kernel
       /\ r.digest = Rtmr1(Kernel[r.read["kernel"]]) /\ r.digest # Error
  /\ r.name = "RTMR2" => r.digest = Rtmr2(r.cmdline, r.read["initrd"])

RtmrsOK == KernelFileOK /\ \A r \in registers : RtmrOK(r)

LEMMA KernelFileNext ==
  ASSUME OvmfOK, MemOK, KernelFileOK, [Next]_vars
  PROVE  KernelFileOK'
<1>0. CASE mem' = mem /\ disk' = disk
  BY <1>0 DEF KernelFileOK
<1>1. CASE Start
  <2>1. mem' = mem /\ (disk' = disk \/ disk' \in Disks)
    BY <1>1 DEF Start
  <2> QED BY <2>1, FilesAssumption DEF KernelFileOK
<1>2. CASE \E f \in FileNames : ReadFile(f)
  <2>1. PICK f \in FileNames : ReadFile(f)
    BY <1>2
  <2>2. disk' = disk /\ (mem' = mem \/ mem' = [mem EXCEPT ![f] = disk[f]])
    BY <2>1 DEF ReadFile, Stop
  <2>3. "kernel" \in DOMAIN mem
    BY DEF MemOK, FileNames
  <2> QED BY <2>2, <2>3 DEF KernelFileOK
<1>3. CASE Finish
  <2>1. disk' = disk /\ mem' = [f \in FileNames |-> Absent] /\ "kernel" \in FileNames
    BY <1>3 DEF Finish, FileNames
  <2> QED BY <2>1 DEF KernelFileOK
<1>4. CASE \E f \in FileNames : Replace(f)
  <2>1. PICK f \in FileNames : Replace(f)
    BY <1>4
  <2>2. PICK new \in NewContents[f] : disk' = [disk EXCEPT ![f] = new]
    BY <2>1 DEF Replace
  <2>3. mem' = mem /\ "kernel" \in DOMAIN disk
    BY <2>1 DEF Replace, OvmfOK, FileNames
  <2>4. f = "kernel" => new \in DOMAIN Kernel \cup {Absent}
    BY <2>2, FilesAssumption
  <2> QED BY <2>2, <2>3, <2>4 DEF KernelFileOK
<1>5. CASE NoOvmf("LAUNCH_DIGEST") \/ NoOvmf("MRTD") BY <1>0, <1>5 DEF NoOvmf, Put
<1>6. CASE \E k \in DOMAIN Cpus : StartCpu(k) BY <1>0, <1>6 DEF StartCpu, callerVars
<1>7. CASE \E k \in DOMAIN Cpus : NoFirmware(k) BY <1>0, <1>7 DEF NoFirmware, Stop, Put
<1>8. CASE \E k \in DOMAIN Cpus : CpuDone(k) BY <1>0, <1>8 DEF CpuDone, Stop, Put
<1>9. CASE StartLibrary BY <1>0, <1>9 DEF StartLibrary, callerVars
<1>10. CASE LibraryDone BY <1>0, <1>10 DEF LibraryDone
<1>11. CASE LaunchStep BY <1>0, <1>11 DEF LaunchStep, callerVars
<1>12. CASE \E m \in Registers : MeasureTdx(m) BY <1>0, <1>12 DEF MeasureTdx, Stop, Put
<1>13. CASE AllDone BY <1>0, <1>13 DEF AllDone, vars, callerVars
<1>14. CASE UNCHANGED vars BY <1>0, <1>14 DEF vars, callerVars
<1> QED
  BY <1>1, <1>2, <1>3, <1>4, <1>5, <1>6, <1>7, <1>8, <1>9, <1>10, <1>11, <1>12, <1>13, <1>14
     DEF Next, Proceed

LEMMA MeasureTdxRtmr ==
  ASSUME RtmrsOK, NEW m \in Registers, MeasureTdx(m)
  PROVE  \A r \in registers' : RtmrOK(r)
<1> DEFINE missing == \E f \in Needs(m) : mem[f] = Absent
           v       == IF missing THEN Error ELSE Compute(m)
           new     == [name |-> m, digest |-> v, cmdline |-> config.cmdline,
                       read |-> [f \in Needs(m) |-> mem[f]]]
<1>1. registers' = registers \/ (v # Error /\ registers' = registers \cup {new})
  BY DEF MeasureTdx, Stop
<1>2. ASSUME v # Error PROVE RtmrOK(new)
  <2>0. ~missing /\ v = Compute(m)
    BY <1>2
  <2>1. /\ new.name = m /\ new.digest = v /\ new.cmdline = config.cmdline
        /\ new.read = [f \in Needs(m) |-> mem[f]]
    OBVIOUS
  <2> HIDE DEF new, v
  <2>2. CASE m = "RTMR0"
    <3>1. new.read["tdx ovmf"] = mem["tdx ovmf"] /\ new.read["dsdt"] = mem["dsdt"]
      BY <2>1, <2>2 DEF Needs
    <3>2. v = Rtmr0(Firmware[mem["tdx ovmf"]], mem["dsdt"], mem["dsdt"] \in DsdtValid)
      BY <2>0, <2>2 DEF Compute
    <3> QED BY <1>2, <2>1, <2>2, <3>1, <3>2 DEF RtmrOK
  <2>3. CASE m = "RTMR1"
    <3>1. Needs(m) = {"kernel"}
      BY <2>3 DEF Needs
    <3>2. new.read["kernel"] = mem["kernel"] /\ mem["kernel"] \in DOMAIN Kernel
      BY <2>0, <2>1, <3>1 DEF RtmrsOK, KernelFileOK
    <3>3. v = Rtmr1(Kernel[mem["kernel"]])
      BY <2>0, <2>3 DEF Compute
    <3> QED BY <1>2, <2>1, <2>3, <3>2, <3>3 DEF RtmrOK
  <2>4. CASE m = "RTMR2"
    <3>1. new.read["initrd"] = mem["initrd"]
      BY <2>1, <2>4 DEF Needs
    <3>2. v = Rtmr2(config.cmdline, mem["initrd"])
      BY <2>0, <2>4 DEF Compute
    <3> QED BY <2>1, <2>4, <3>1, <3>2 DEF RtmrOK
  <2>5. CASE m \notin {"RTMR0", "RTMR1", "RTMR2"}
    BY <2>1, <2>5, ZenonT(60) DEF RtmrOK
  <2> QED BY <2>2, <2>3, <2>4, <2>5
<1> HIDE DEF new, v
<1> QED BY <1>1, <1>2 DEF RtmrsOK

LEMMA RtmrsNext ==
  ASSUME OvmfOK, MemOK, RtmrsOK, [Next]_vars
  PROVE  RtmrsOK'
<1>1. KernelFileOK'
  BY KernelFileNext DEF RtmrsOK
<1>0. CASE registers' = registers
  <2>1. \A r \in registers' : RtmrOK(r)
    BY <1>0 DEF RtmrsOK
  <2> QED BY <1>1, <2>1 DEF RtmrsOK
<1>2. CASE \E m \in Registers : MeasureTdx(m)
  BY <1>1, <1>2, MeasureTdxRtmr DEF RtmrsOK
<1>3. CASE Start BY <1>0, <1>3 DEF Start
<1>4. CASE \E f \in FileNames : ReadFile(f) BY <1>0, <1>4 DEF ReadFile, Stop
<1>5. CASE NoOvmf("LAUNCH_DIGEST") \/ NoOvmf("MRTD") BY <1>0, <1>5 DEF NoOvmf
<1>6. CASE \E k \in DOMAIN Cpus : StartCpu(k) BY <1>0, <1>6 DEF StartCpu, callerVars
<1>7. CASE \E k \in DOMAIN Cpus : NoFirmware(k) BY <1>0, <1>7 DEF NoFirmware, Stop
<1>8. CASE \E k \in DOMAIN Cpus : CpuDone(k) BY <1>0, <1>8 DEF CpuDone
<1>9. CASE StartLibrary BY <1>0, <1>9 DEF StartLibrary, callerVars
<1>10. CASE LibraryDone BY <1>0, <1>10 DEF LibraryDone
<1>11. CASE LaunchStep BY <1>0, <1>11 DEF LaunchStep, callerVars
<1>12. CASE Finish BY <1>0, <1>12 DEF Finish
<1>13. CASE \E f \in FileNames : Replace(f) BY <1>0, <1>13 DEF Replace
<1>14. CASE AllDone BY <1>0, <1>14 DEF AllDone, vars, callerVars
<1>15. CASE UNCHANGED vars BY <1>0, <1>15 DEF vars, callerVars
<1> QED
  BY <1>2, <1>3, <1>4, <1>5, <1>6, <1>7, <1>8, <1>9, <1>10, <1>11, <1>12, <1>13, <1>14, <1>15
     DEF Next, Proceed

(* Digests tell what went into them: each register by itself.              *)
LEMMA RtmrsTell ==
  ASSUME KernelsLaidOut, NEW a, NEW b, RtmrOK(a), RtmrOK(b), a.name = b.name,
         a.name \in {"RTMR0", "RTMR1", "RTMR2"}
  PROVE  a.digest = b.digest <=> SameMeasured(a, b)
<1>1. CASE a.name = "RTMR0"
  <2> DEFINE f == Firmware[a.read["tdx ovmf"]]
             g == Firmware[b.read["tdx ovmf"]]
             x == a.read["dsdt"]
             y == b.read["dsdt"]
  <2>1. PICK v : a.digest = Rtmr0(f, x, v) /\ a.digest # Error
    BY <1>1 DEF RtmrOK
  <2>2. PICK w : b.digest = Rtmr0(g, y, w) /\ b.digest # Error
    BY <1>1 DEF RtmrOK
  <2>3. SameMeasured(a, b) <=> Cfv(f) = Cfv(g) /\ x = y
    BY <1>1 DEF SameMeasured
  <2> HIDE DEF f, g, x, y
  <2> DEFINE Log(c, d) ==
        <<Event("cfv", c), Fixed("BootMenu"), Fixed("BootOrder"), Fixed("SecureBoot"),
          Fixed("PK"), Fixed("KEK"), Fixed("db"), Fixed("dbx"), Fixed("separator"),
          Event("dsdt", <<d>>)>>
  <2>4. a.digest = Log(Cfv(f), x) /\ b.digest = Log(Cfv(g), y)
    BY <2>1, <2>2 DEF Rtmr0
  <2>5. ASSUME NEW c, NEW d PROVE Log(c, d)[1].data = c /\ Log(c, d)[10].data[1] = d
    BY DEF Event
  <2> HIDE DEF Log
  <2>6. a.digest = b.digest <=> Cfv(f) = Cfv(g) /\ x = y
    <3>1. ASSUME a.digest = b.digest PROVE Cfv(f) = Cfv(g) /\ x = y
      <4>1. Log(Cfv(f), x) = Log(Cfv(g), y)
        BY <2>4, <3>1
      <4>2. Log(Cfv(f), x)[1].data = Cfv(f) /\ Log(Cfv(f), x)[10].data[1] = x
        BY <2>5
      <4>3. Log(Cfv(g), y)[1].data = Cfv(g) /\ Log(Cfv(g), y)[10].data[1] = y
        BY <2>5
      <4> QED BY <4>1, <4>2, <4>3
    <3> QED BY <2>4, <3>1
  <2> QED BY <2>3, <2>6
<1>2. CASE a.name = "RTMR1"
  <2> DEFINE k == a.read["kernel"]
             l == b.read["kernel"]
             x == AuthenticodeHash(Kernel[k])
             y == AuthenticodeHash(Kernel[l])
  <2>1. /\ k \in DOMAIN Kernel /\ a.digest = Rtmr1(Kernel[k]) /\ a.digest # Error
        /\ l \in DOMAIN Kernel /\ b.digest = Rtmr1(Kernel[l]) /\ b.digest # Error
    BY <1>2 DEF RtmrOK
  <2>2. SameMeasured(a, b) <=> Unsigned(Kernel[k]) = Unsigned(Kernel[l])
    BY <1>2 DEF SameMeasured
  <2> HIDE DEF k, l
  <2>3. x # Error /\ y # Error
    BY <2>1, ZenonT(60) DEF Rtmr1
  <2>4. Kernel[k].valid /\ Kernel[l].valid
    BY <2>3 DEF AuthenticodeHash
  <2>5. x = y <=> Unsigned(Kernel[k]) = Unsigned(Kernel[l])
    BY <2>1, <2>4, HashTellsKernel
  <2> HIDE DEF x, y
  <2> DEFINE Log(h) ==
        <<Event("authenticode", h), Fixed("Calling EFI Application"), Fixed("separator"),
          Fixed("Exit Boot Services Invocation"), Fixed("Exit Boot Services Returned")>>
  <2>6. a.digest = Log(x) /\ b.digest = Log(y)
    BY <2>1, <2>3 DEF Rtmr1, x, y
  <2>7. ASSUME NEW h PROVE Log(h)[1].data = h
    BY DEF Event
  <2> HIDE DEF Log
  <2>8. a.digest = b.digest <=> x = y
    <3>1. Log(x)[1].data = x /\ Log(y)[1].data = y
      BY <2>7
    <3> QED BY <2>6, <3>1
  <2> QED BY <2>2, <2>5, <2>8
<1>3. CASE a.name = "RTMR2"
  <2> DEFINE x == a.read["initrd"]
             y == b.read["initrd"]
  <2>1. a.digest = Rtmr2(a.cmdline, x) /\ b.digest = Rtmr2(b.cmdline, y)
    BY <1>3 DEF RtmrOK
  <2>2. SameMeasured(a, b) <=> a.cmdline = b.cmdline /\ x = y
    BY <1>3 DEF SameMeasured
  <2> HIDE DEF x, y
  <2>3. ASSUME NEW c, NEW d
        PROVE  Rtmr2(c, d)[1].data[1] = c /\ Rtmr2(c, d)[2].data[1] = d
    BY DEF Rtmr2, Event
  <2>4. /\ Rtmr2(a.cmdline, x)[1].data[1] = a.cmdline /\ Rtmr2(a.cmdline, x)[2].data[1] = x
        /\ Rtmr2(b.cmdline, y)[1].data[1] = b.cmdline /\ Rtmr2(b.cmdline, y)[2].data[1] = y
    BY <2>3
  <2> QED BY <2>1, <2>2, <2>4
<1> QED BY <1>1, <1>2, <1>3

(* Two RTMRs are equal exactly if what they measure is, whichever commands *)
(* computed them and whatever was replaced in between, for all kernels     *)
(* that are laid out as PE files are: RTMR1 (calc_rtmr1,                   *)
(* pe_authenticode_hash) tells any two kernels that differ in more than a  *)
(* signature apart, and no two that differ in less.                        *)
THEOREM RegistersTellInputs ==
  ASSUME KernelsLaidOut
  PROVE  Spec => []SameRegisterSameInput
<1> DEFINE Inv == KernelInv /\ ManifestOK /\ RtmrsOK
<1>1. Init => Inv
  <2>1. ASSUME Init PROVE RtmrsOK
    <3>1. "kernel" \in FileNames
      BY DEF FileNames
    <3> QED BY <2>1, <3>1 DEF Init, RtmrsOK, KernelFileOK
  <2> QED BY <2>1, KernelInit, ManifestInit DEF Init
<1>2. Inv /\ [Next]_vars => Inv'
  BY KernelNext, ManifestNext, RtmrsNext DEF KernelInv, ManifestOK
<1>3. Inv => SameRegisterSameInput
  <2> SUFFICES ASSUME RtmrsOK, NEW a \in registers, NEW b \in registers, a.name = b.name,
                      a.name \in {"RTMR0", "RTMR1", "RTMR2"}
               PROVE  a.digest = b.digest <=> SameMeasured(a, b)
    BY DEF SameRegisterSameInput
  <2>1. RtmrOK(a) /\ RtmrOK(b)
    BY DEF RtmrsOK
  <2> QED BY <2>1, RtmrsTell
<1> QED
  BY <1>1, <1>2, <1>3, PTL DEF Spec
=============================================================================
