--------------------------- MODULE AccountsProofs ---------------------------
(***************************************************************************)
(* Proofs about the account pass: its types, that ids stay distinct, that  *)
(* a reused tree keeps its entries, and that users join their group.       *)
(***************************************************************************)
EXTENDS Accounts, TLAPS

(* The unit that lets a user have the line e: its user is e's name, and    *)
(* its group, if the config declares it, has e's group id.                 *)
JoinedFor(e) ==
  \E i \in 1..Len(cfg.units) :
    LET unit == cfg.units[i] IN
    /\ unit.user = e.name
    /\ (\E j \in 1..Len(cfg.groups) : cfg.groups[j] = unit.group) =>
         \E g \in group : g.name = unit.group /\ g.gid = e.gid

(* The lines for /etc/group: those of the file and new ones, each with an  *)
(* id above every id still to be given; the next one is free.              *)
GroupPass ==
  step \in {"groups", "write group"} =>
    /\ group \subseteq buf
    /\ \/ ranOut
       \/ /\ GidsDiffer(buf)
          /\ next \notin used
          /\ \A e \in buf : e.gid \in used \/ next < e.gid

(* The groups the pass has been through have a line.                       *)
GroupsSeen ==
  step = "groups" => \A j \in 1..Len(cfg.groups) :
                       j < k => cfg.groups[j] \in NamesOf(buf)
GroupsReady ==
  step = "write group" =>
    \A j \in 1..Len(cfg.groups) : cfg.groups[j] \in NamesOf(buf)
GroupsDeclared ==
  step \in {"gshadow", "read users", "users", "write passwd"} =>
    \A j \in 1..Len(cfg.groups) : cfg.groups[j] \in NamesOf(group)

(* The lines for /etc/passwd, likewise.                                    *)
UserPass ==
  step \in {"users", "write passwd"} =>
    /\ passwd \subseteq buf
    /\ \A e \in buf : e.name \in NamesOf(passwd) \/ JoinedFor(e)
    /\ \/ ranOut
       \/ /\ UidsDiffer(buf)
          /\ \A e \in buf : e.uid \in used \/ next < e.uid

IInv ==
  /\ AccountsTypeOK
  /\ IdsDistinct
  /\ GroupPass
  /\ GroupsSeen /\ GroupsReady /\ GroupsDeclared
  /\ UserPass

-----------------------------------------------------------------------------

(* What a search returns: an id of the set, or the fallback.               *)
LEMMA FoundIn ==
  ASSUME NEW S, NEW fallback, NEW x \in Found(S, fallback)
  PROVE  IF S = {} THEN x = fallback ELSE x \in S
  BY DEF Found

LEMMA PredNat ==
  ASSUME NEW n \in Nat
  PROVE  Pred(n) \in Nat /\ (n # 0 => Pred(n) < n)
  BY DEF Pred

(* The id PrimaryGid finds is a number, and the group's if it has a line.  *)
LEMMA PrimaryGidOfGroup ==
  ASSUME group \subseteq GroupLine, NEW unit, NEW uid \in Nat
  PROVE  /\ PrimaryGid(unit, uid) \in Nat
         /\ unit.group \in NamesOf(group) =>
              \E g \in group : g.name = unit.group
                               /\ g.gid = PrimaryGid(unit, uid)
<1>1. CASE unit.group \in NamesOf(group)
  <2> DEFINE g == CHOOSE g \in group : g.name = unit.group
  <2>1. \E h \in group : h.name = unit.group
    BY <1>1 DEF NamesOf
  <2>2. g \in group /\ g.name = unit.group
    BY <2>1
  <2>3. PrimaryGid(unit, uid) = g.gid
    BY <1>1 DEF PrimaryGid
  <2>4. g.gid \in Nat
    BY <2>2 DEF GroupLine
  <2> QED BY <2>2, <2>3, <2>4
<1>2. CASE unit.group \notin NamesOf(group)
  BY <1>2 DEF PrimaryGid
<1> QED BY <1>1, <1>2

(* Every step but the first reads the account part of the config.          *)
LEMMA ConfigTypes ==
  ASSUME cfg \in Configs
  PROVE  /\ \A j \in 1..Len(cfg.groups) : cfg.groups[j] \in Names
         /\ \A j \in 1..Len(cfg.units) :
              cfg.units[j].user \in Names \cup {NoName}
         /\ Len(cfg.groups) \in Nat
  BY ConfigsAssumption

(* The types of the files and of the config.                               *)
FileTypes ==
  /\ group \subseteq GroupLine
  /\ passwd \subseteq UserLine
  /\ gshadow = Absent \/ gshadow \subseteq Names
  /\ shadow = Absent \/ shadow \subseteq Names
  /\ cfg \in Configs
  /\ ranOut \in BOOLEAN

LEMMA FileTypesHold == AccountsTypeOK => FileTypes
  BY DEF AccountsTypeOK, FileTypes

(* A pass that has not started, or is over, holds nothing.                 *)
LEMMA ResetTypes ==
  ASSUME FileTypes', step' \in {"idle", "ready", "done"}, LocalsReset
  PROVE  AccountsTypeOK'
<1>1. k' \in Nat \ {0}
  BY DEF LocalsReset
<1>2. sbuf' \subseteq Names /\ used' \subseteq Nat
  BY DEF LocalsReset
<1>3. next' \in Nat
  BY DEF LocalsReset
<1>4. /\ step' \in Steps
      /\ step' \notin {"groups", "write group"}
      /\ step' \notin {"users", "write passwd"}
  BY DEF Steps
<1> QED BY <1>1, <1>2, <1>3, <1>4 DEF AccountsTypeOK, FileTypes

LEMMA InitIInv == AccountsInit => IInv
<1> SUFFICES ASSUME AccountsInit PROVE IInv
  OBVIOUS
<1>1. step = "idle"
  BY DEF AccountsInit
<1>2. AccountsTypeOK
  <2>1. k \in Nat \ {0} /\ sbuf \subseteq Names
    BY DEF AccountsInit
  <2>2. used \subseteq Nat /\ next \in Nat
    BY DEF AccountsInit
  <2>3. /\ step \in Steps /\ step \notin {"groups", "write group"}
        /\ step \notin {"users", "write passwd"}
    BY <1>1 DEF Steps
  <2>4. FileTypes
    BY BaseAssumption DEF AccountsInit, FileTypes
  <2> QED BY <2>1, <2>2, <2>3, <2>4 DEF AccountsTypeOK, FileTypes
<1>3. IdsDistinct
  BY BaseAssumption DEF AccountsInit, IdsDistinct
<1>4. /\ GroupPass /\ GroupsSeen /\ GroupsReady /\ GroupsDeclared
      /\ UserPass
  BY <1>1 DEF GroupPass, GroupsSeen, GroupsReady, GroupsDeclared, UserPass
<1> QED BY <1>2, <1>3, <1>4 DEF IInv

(* Outside the two passes only the types and the ids are at stake.         *)
LEMMA BetweenPasses ==
  ASSUME AccountsTypeOK', IdsDistinct', step' \in {"idle", "ready", "done"}
  PROVE  IInv'
  BY DEF IInv, GroupPass, GroupsSeen, GroupsReady, GroupsDeclared, UserPass

LEMMA BeginIInv ==
  ASSUME IInv, NEW c \in Configs, NEW fresh \in BOOLEAN, Begin(c, fresh)
  PROVE  IInv'
<1>1. AccountsTypeOK /\ IdsDistinct
  BY DEF IInv
<1>2. cfg' = c /\ step' = "ready" /\ LocalsReset
  BY DEF Begin
<1>3. CASE fresh
  <2>1. /\ group' = BaseGroup /\ gshadow' = BaseGshadow
        /\ passwd' = BasePasswd /\ shadow' = BaseShadow /\ ranOut' = FALSE
    BY <1>3 DEF Begin
  <2>2. AccountsTypeOK'
    BY <1>2, <2>1, BaseAssumption, ResetTypes DEF FileTypes
  <2>3. IdsDistinct'
    BY <2>1, BaseAssumption DEF IdsDistinct
  <2> QED BY <1>2, <2>2, <2>3, BetweenPasses
<1>4. CASE ~fresh
  <2>1. /\ group' = group /\ gshadow' = gshadow
        /\ passwd' = passwd /\ shadow' = shadow /\ ranOut' = ranOut
    BY <1>4 DEF Begin, files
  <2>2. AccountsTypeOK'
    BY <1>1, <1>2, <2>1, FileTypesHold, ResetTypes DEF FileTypes
  <2>3. IdsDistinct'
    BY <1>1, <2>1 DEF IdsDistinct
  <2> QED BY <1>2, <2>2, <2>3, BetweenPasses
<1> QED BY <1>3, <1>4

LEMMA ReadGroupIInv == ASSUME IInv, ReadGroup PROVE IInv'
<1> DEFINE free == (GidLow..GidTop) \ GidsOf(group)
<1>1. next' \in Found(free, GidFallback)
  BY DEF ReadGroup
<1>2. IF free = {} THEN next' = GidFallback ELSE next' \in free
  BY <1>1, FoundIn
<1>3. next' \in Nat
  BY <1>2, RangesAssumption
<1>4. \A e \in group : e.gid \in used'
  BY DEF ReadGroup, GidsOf
<1>5. used' \subseteq Nat
  BY DEF ReadGroup, GidsOf, IInv, AccountsTypeOK, GroupLine
<1>6. AccountsTypeOK' /\ IdsDistinct'
  BY <1>3, <1>5
  DEF ReadGroup, files, IInv, AccountsTypeOK, Steps, IdsDistinct
<1>7. GroupPass'
  <2>1. ranOut' \/ (free # {} /\ ~ranOut)
    BY DEF ReadGroup, IInv, AccountsTypeOK
  <2>2. free # {} => next' \notin used'
    BY <1>2 DEF ReadGroup
  <2>3. ~ranOut => GidsDiffer(buf')
    BY DEF ReadGroup, IInv, IdsDistinct
  <2>4. buf' = group /\ group' = group
    BY DEF ReadGroup, files
  <2> QED BY <1>4, <2>1, <2>2, <2>3, <2>4 DEF GroupPass, GidsDiffer
<1>8. GroupsSeen' /\ GroupsReady' /\ GroupsDeclared' /\ UserPass'
  BY ConfigTypes
  DEF ReadGroup, files, GroupsSeen, GroupsReady, GroupsDeclared, UserPass,
      IInv, AccountsTypeOK
<1> QED BY <1>6, <1>7, <1>8 DEF IInv

LEMMA NoGroupsIInv == ASSUME IInv, NoGroups PROVE IInv'
<1>1. /\ cfg.groups = <<>> /\ step' = "read users"
      /\ UNCHANGED <<files, cfg, locals, ranOut>>
  BY DEF NoGroups
<1>2. AccountsTypeOK' /\ IdsDistinct'
  <2>1. /\ step = "ready" /\ step' = "read users"
        /\ UNCHANGED <<files, cfg, locals, ranOut>>
    BY DEF NoGroups
  <2> QED BY <2>1
       DEF files, locals, IInv, AccountsTypeOK, Steps, IdsDistinct
<1>3. \A j \in 1..Len(cfg'.groups) : FALSE
  <2>1. cfg'.groups = <<>>
    BY <1>1
  <2>2. Len(<<>>) = 0
    OBVIOUS
  <2> QED BY <2>1, <2>2
<1>4. GroupsDeclared'
  BY <1>1, <1>3 DEF GroupsDeclared
<1>5. GroupPass' /\ GroupsSeen' /\ GroupsReady' /\ UserPass'
  BY <1>1 DEF GroupPass, GroupsSeen, GroupsReady, UserPass
<1> QED BY <1>2, <1>4, <1>5 DEF IInv

LEMMA AddGroupIInv == ASSUME IInv, AddGroup PROVE IInv'
<1> DEFINE g    == cfg.groups[k]
           free == (IdMin..Pred(next)) \ used
           line == [name |-> g, gid |-> next]
<1>1. /\ step = "groups" /\ step' = "groups" /\ k \in 1..Len(cfg.groups)
      /\ k' = k + 1 /\ cfg' = cfg /\ used' = used /\ sbuf' = sbuf
      /\ group' = group /\ gshadow' = gshadow
      /\ passwd' = passwd /\ shadow' = shadow
  BY DEF AddGroup, files, IInv, AccountsTypeOK
<1>0. cfg \in Configs
  BY DEF IInv, AccountsTypeOK
<1>2. /\ Len(cfg.groups) \in Nat
      /\ g \in Names /\ next \in Nat /\ buf \subseteq GroupLine
      /\ used \subseteq Nat /\ ranOut \in BOOLEAN /\ k \in Nat \ {0}
  BY <1>0, <1>1, ConfigTypes DEF IInv, AccountsTypeOK
<1>3. GroupPass /\ GroupsSeen /\ IdsDistinct
  BY DEF IInv
<1>4. CASE g \in NamesOf(buf)
  <2>1. buf' = buf /\ next' = next /\ ranOut' = ranOut
    BY <1>4 DEF AddGroup
  <2>2. AccountsTypeOK' /\ IdsDistinct'
    BY <1>1, <1>2, <1>3, <2>1
    DEF IInv, AccountsTypeOK, Steps, IdsDistinct
  <2>3. GroupPass'
    BY <1>1, <1>3, <2>1 DEF GroupPass
  <2>4. GroupsSeen'
    <3>1. \A j \in 1..Len(cfg.groups) : j < k + 1 => j < k \/ j = k
      BY <1>2
    <3> QED BY <1>1, <1>3, <1>4, <2>1, <3>1 DEF GroupsSeen
  <2> QED BY <1>1, <2>2, <2>3, <2>4
       DEF IInv, GroupsReady, GroupsDeclared, UserPass
<1>5. CASE g \notin NamesOf(buf)
  <2>1. /\ buf' = buf \cup {line}
        /\ next' \in Found(free, Pred(next))
        /\ ranOut' = (ranOut \/ free = {})
    BY <1>5 DEF AddGroup
  <2>2. IF free = {} THEN next' = Pred(next) ELSE next' \in free
    BY <2>1, FoundIn
  <2>3. next' \in Nat
    <3>1. free \subseteq Nat
      BY <1>2, PredNat, RangesAssumption
    <3> QED BY <1>2, <2>2, <3>1, PredNat
  <2>4. line \in GroupLine
    BY <1>2 DEF GroupLine
  <2>5. AccountsTypeOK' /\ IdsDistinct'
    BY <1>1, <1>2, <1>3, <2>1, <2>3, <2>4, SMTT(60)
    DEF IInv, AccountsTypeOK, Steps, IdsDistinct
  <2>6. GroupPass'
    <3>1. group' \subseteq buf'
      BY <1>1, <1>3, <2>1 DEF GroupPass
    <3>2. CASE ranOut'
      BY <3>1, <3>2 DEF GroupPass
    <3>3. CASE ~ranOut'
      <4>1. ~ranOut /\ free # {} /\ next' \in free
        BY <2>1, <2>2, <3>3
      <4>2. /\ GidsDiffer(buf) /\ next \notin used
            /\ \A e \in buf : e.gid \in used \/ next < e.gid
        BY <1>1, <1>3, <4>1 DEF GroupPass
      <4>3. next' \notin used' /\ next' < next
        <5>1. next' \in IdMin..Pred(next) /\ next' \notin used
          BY <4>1
        <5>2. next # 0
          BY <5>1, RangesAssumption DEF Pred
        <5> QED BY <1>1, <1>2, <5>1, <5>2, PredNat, RangesAssumption
      <4>4. \A e \in buf : e.gid \in Nat /\ e.gid # next
        BY <1>2, <4>2 DEF GroupLine
      <4>5. GidsDiffer(buf')
        BY <2>1, <4>2, <4>4 DEF GidsDiffer
      <4>6. \A e \in buf' : e.gid \in used' \/ next' < e.gid
        <5> SUFFICES ASSUME NEW e \in buf'
                     PROVE  e.gid \in used' \/ next' < e.gid
          OBVIOUS
        <5>1. CASE e = line
          BY <4>3, <5>1
        <5>2. CASE e \in buf
          BY <1>1, <1>2, <2>3, <4>2, <4>3, <4>4, <5>2
        <5> QED BY <2>1, <5>1, <5>2
      <4> QED BY <3>1, <4>3, <4>5, <4>6 DEF GroupPass
    <3> QED BY <3>2, <3>3
  <2>7. GroupsSeen'
    <3>1. \A j \in 1..Len(cfg.groups) : j < k + 1 => j < k \/ j = k
      BY <1>2
    <3>2. NamesOf(buf') = NamesOf(buf) \cup {g}
      <4>1. line.name = g
        OBVIOUS
      <4> QED BY <2>1, <4>1 DEF NamesOf
    <3> QED BY <1>1, <1>3, <3>1, <3>2 DEF GroupsSeen
  <2> QED BY <1>1, <2>5, <2>6, <2>7
       DEF IInv, GroupsReady, GroupsDeclared, UserPass
<1> QED BY <1>4, <1>5

LEMMA GroupsAddedIInv == ASSUME IInv, GroupsAdded PROVE IInv'
<1>1. cfg \in Configs /\ k \in Nat
  BY DEF IInv, AccountsTypeOK
<1>2. Len(cfg.groups) \in Nat
  BY <1>1, ConfigTypes
<1>3. /\ step = "groups" /\ k > Len(cfg.groups) /\ step' = "write group"
      /\ UNCHANGED <<files, cfg, locals, ranOut>>
  BY DEF GroupsAdded
<1>4. \A j \in 1..Len(cfg.groups) : j < k
  <2>1. k > Len(cfg.groups)
    BY <1>3
  <2> QED BY <1>1, <1>2, <2>1
<1>5. AccountsTypeOK' /\ IdsDistinct'
  BY <1>3 DEF files, locals, IInv, AccountsTypeOK, Steps, IdsDistinct
<1>6. GroupPass' /\ GroupsReady'
  BY <1>3, <1>4 DEF files, locals, IInv, GroupPass, GroupsSeen, GroupsReady
<1>7. GroupsSeen' /\ GroupsDeclared' /\ UserPass'
  BY <1>3 DEF GroupsSeen, GroupsDeclared, UserPass
<1> QED BY <1>5, <1>6, <1>7 DEF IInv

LEMMA WriteGroupIInv == ASSUME IInv, WriteGroup PROVE IInv'
<1>1. /\ step = "write group" /\ step' = "gshadow" /\ group' = buf
      /\ UNCHANGED <<gshadow, passwd, shadow, cfg, locals, ranOut>>
  BY DEF WriteGroup
<1>2. AccountsTypeOK'
  BY <1>1 DEF locals, IInv, AccountsTypeOK, Steps
<1>3. IdsDistinct' /\ GroupsDeclared'
  BY <1>1 DEF locals, IInv, IdsDistinct, GroupPass, GroupsReady,
              GroupsDeclared
<1>4. GroupPass' /\ GroupsSeen' /\ GroupsReady' /\ UserPass'
  BY <1>1 DEF GroupPass, GroupsSeen, GroupsReady, UserPass
<1> QED BY <1>2, <1>3, <1>4 DEF IInv

LEMMA WriteGshadowIInv == ASSUME IInv, WriteGshadow PROVE IInv'
<1>1. /\ step = "gshadow" /\ step' = "read users"
      /\ UNCHANGED <<group, passwd, shadow, cfg, locals, ranOut>>
  BY DEF WriteGshadow
<1>2. cfg \in Configs
  BY DEF IInv, AccountsTypeOK
<1>3. gshadow' = Absent \/ gshadow' \subseteq Names
  BY <1>2, ConfigTypes DEF WriteGshadow, IInv, AccountsTypeOK
<1>4. AccountsTypeOK'
  BY <1>1, <1>3 DEF locals, IInv, AccountsTypeOK, Steps
<1>5. IdsDistinct' /\ GroupsDeclared'
  BY <1>1 DEF locals, IInv, IdsDistinct, GroupsDeclared
<1>6. GroupPass' /\ GroupsSeen' /\ GroupsReady' /\ UserPass'
  BY <1>1 DEF GroupPass, GroupsSeen, GroupsReady, UserPass
<1> QED BY <1>4, <1>5, <1>6 DEF IInv

LEMMA ReadUsersIInv == ASSUME IInv, ReadUsers PROVE IInv'
<1>1. /\ step = "read users" /\ step' = "users" /\ buf' = passwd
      /\ sbuf' = (IF shadow = Absent THEN {} ELSE shadow)
      /\ used' = UidsOf(passwd) /\ next' = UidTop /\ k' = 1
      /\ UNCHANGED <<files, cfg, ranOut>>
  BY DEF ReadUsers
<1>2. used' \subseteq Nat /\ \A e \in passwd : e.uid \in used'
  BY <1>1 DEF UidsOf, IInv, AccountsTypeOK, UserLine
<1>3. AccountsTypeOK'
  <2>1. next' \in Nat /\ k' \in Nat \ {0}
    <3>1. next' = UidTop /\ k' = 1
      BY DEF ReadUsers
    <3>2. UidTop \in Nat
      BY RangesAssumption
    <3> QED BY <3>1, <3>2
  <2>2. FileTypes' /\ FileTypes
    BY <1>1 DEF FileTypes, files, IInv, AccountsTypeOK
  <2>3. buf' \subseteq UserLine /\ sbuf' \subseteq Names
    BY <1>1, <2>2 DEF FileTypes
  <2>4. step' \in Steps /\ step' \notin {"groups", "write group"}
    BY <1>1 DEF Steps
  <2> QED BY <1>2, <2>1, <2>2, <2>3, <2>4 DEF AccountsTypeOK, FileTypes
<1>4. IdsDistinct' /\ GroupsDeclared'
  BY <1>1 DEF files, IInv, IdsDistinct, GroupsDeclared
<1>5. UserPass'
  <2>1. \A e \in passwd : e.name \in NamesOf(passwd)
    BY DEF NamesOf
  <2>2. ranOut \/ UidsDiffer(passwd)
    BY DEF IInv, IdsDistinct
  <2> QED BY <1>1, <1>2, <2>1, <2>2 DEF UserPass, files
<1>6. GroupPass' /\ GroupsSeen' /\ GroupsReady'
  BY <1>1 DEF GroupPass, GroupsSeen, GroupsReady
<1> QED BY <1>3, <1>4, <1>5, <1>6 DEF IInv

LEMMA AddUserIInv == ASSUME IInv, AddUser PROVE IInv'
<1> DEFINE unit == cfg.units[k]
           free == (IdMin..next) \ used
           line(uid) == [name |-> unit.user, uid |-> uid,
                         gid |-> PrimaryGid(unit, uid), login |-> FALSE]
<1>1. /\ step = "users" /\ step' = "users" /\ k <= Len(cfg.units)
      /\ k' = k + 1
      /\ group' = group /\ gshadow' = gshadow
      /\ passwd' = passwd /\ shadow' = shadow /\ cfg' = cfg /\ used' = used
  BY DEF AddUser, files
<1>2. /\ cfg \in Configs /\ k \in Nat \ {0} /\ next \in Nat
      /\ buf \subseteq UserLine /\ used \subseteq Nat /\ ranOut \in BOOLEAN
      /\ group \subseteq GroupLine /\ sbuf \subseteq Names
  BY <1>1 DEF IInv, AccountsTypeOK
<1>3. GroupsDeclared /\ UserPass /\ IdsDistinct
  BY DEF IInv
<1>4. Len(cfg.units) \in Nat /\ unit.user \in Names \cup {NoName}
  BY <1>1, <1>2, ConfigTypes
<1>5. IdsDistinct' /\ GroupsDeclared' /\ (ranOut => ranOut')
  BY <1>1, <1>3 DEF AddUser, IdsDistinct, GroupsDeclared
<1>6. GroupPass' /\ GroupsSeen' /\ GroupsReady'
  BY <1>1 DEF GroupPass, GroupsSeen, GroupsReady
<1>7. \A e : JoinedFor(e)' <=> JoinedFor(e)
  BY <1>1 DEF JoinedFor
<1>8. NamesOf(passwd)' = NamesOf(passwd)
  BY <1>1 DEF NamesOf
<1>9. CASE unit.user = NoName \/ unit.user \in NamesOf(buf)
  <2>1. buf' = buf /\ sbuf' = sbuf /\ next' = next /\ ranOut' = ranOut
    BY <1>9 DEF AddUser
  <2>2. AccountsTypeOK'
    BY <1>1, <1>2, <2>1 DEF IInv, AccountsTypeOK, Steps
  <2>3. UserPass'
    BY <1>1, <1>3, <1>7, <1>8, <2>1 DEF UserPass
  <2> QED BY <1>5, <1>6, <2>2, <2>3 DEF IInv
<1>10. CASE ~(unit.user = NoName \/ unit.user \in NamesOf(buf))
  <2>1. PICK uid \in Found(free, next) :
          buf' = buf \cup {line(uid)} /\ next' = Pred(uid)
    BY <1>10 DEF AddUser
  <2>2. sbuf' = sbuf \cup {unit.user} /\ ranOut' = (ranOut \/ free = {})
    BY <1>10 DEF AddUser
  <2>3. IF free = {} THEN uid = next ELSE uid \in free
    BY FoundIn
  <2>4. uid \in Nat /\ uid <= next
    BY <1>2, <2>3, RangesAssumption
  <2>5. unit.user \in Names
    BY <1>4, <1>10
  <2>6. line(uid) \in UserLine
    BY <1>2, <2>4, <2>5, PrimaryGidOfGroup DEF UserLine
  <2>7. next' \in Nat /\ (uid # 0 => next' < uid)
    BY <2>1, <2>4, PredNat
  <2>8. AccountsTypeOK'
    <3>1. buf' \subseteq UserLine /\ sbuf' \subseteq Names
      BY <1>2, <2>1, <2>2, <2>5, <2>6
    <3>2. ranOut' \in BOOLEAN
      BY <1>2, <2>2
    <3>3. k' \in Nat \ {0}
      BY <1>1, <1>2
    <3> QED BY <1>1, <2>7, <3>1, <3>2, <3>3 DEF IInv, AccountsTypeOK, Steps
  <2>9. JoinedFor(line(uid))
    <3>1. k \in 1..Len(cfg.units)
      BY <1>1, <1>2, <1>4
    <3>2. ASSUME \E j \in 1..Len(cfg.groups) : cfg.groups[j] = unit.group
          PROVE  \E g \in group : g.name = unit.group
                                  /\ g.gid = PrimaryGid(unit, uid)
      <4>1. unit.group \in NamesOf(group)
        BY <1>1, <1>3, <3>2 DEF GroupsDeclared
      <4> QED BY <1>2, <2>4, <4>1, PrimaryGidOfGroup
    <3> QED BY <3>1, <3>2 DEF JoinedFor
  <2>10. UserPass'
    <3>1. passwd' \subseteq buf'
      BY <1>1, <1>3, <2>1 DEF UserPass
    <3>2. \A e \in buf' : e.name \in NamesOf(passwd)' \/ JoinedFor(e)'
      BY <1>1, <1>3, <1>7, <1>8, <2>1, <2>9 DEF UserPass
    <3>3. CASE ranOut'
      BY <3>1, <3>2, <3>3 DEF UserPass
    <3>4. CASE ~ranOut'
      <4>1. ~ranOut /\ uid \in free
        BY <2>2, <2>3, <3>4
      <4>2. UidsDiffer(buf) /\ \A e \in buf : e.uid \in used \/ next < e.uid
        BY <1>1, <1>3, <4>1 DEF UserPass
      <4>3. uid \notin used /\ uid # 0 /\ next' < uid
        BY <2>4, <2>7, <4>1, RangesAssumption
      <4>4. \A e \in buf : e.uid \in Nat /\ e.uid # uid
        BY <1>2, <2>4, <4>2, <4>3 DEF UserLine
      <4>5. line(uid).uid = uid
        OBVIOUS
      <4>6. UidsDiffer(buf')
        BY <2>1, <4>2, <4>4, <4>5 DEF UidsDiffer
      <4>7. \A e \in buf' : e.uid \in used' \/ next' < e.uid
        <5> SUFFICES ASSUME NEW e \in buf'
                     PROVE  e.uid \in used' \/ next' < e.uid
          OBVIOUS
        <5>1. CASE e = line(uid)
          BY <4>3, <4>5, <5>1
        <5>2. CASE e \in buf
          BY <1>1, <1>2, <2>4, <2>7, <4>2, <4>3, <4>4, <5>2
        <5> QED BY <2>1, <5>1, <5>2
      <4> QED BY <3>1, <3>2, <4>6, <4>7 DEF UserPass
    <3> QED BY <3>3, <3>4
  <2> QED BY <1>5, <1>6, <2>8, <2>10 DEF IInv
<1> QED BY <1>9, <1>10

LEMMA UsersAddedIInv == ASSUME IInv, UsersAdded PROVE IInv'
<1>1. /\ step = "users" /\ step' = "write passwd"
      /\ UNCHANGED <<files, cfg, locals, ranOut>>
  BY DEF UsersAdded
<1>2. AccountsTypeOK'
  BY <1>1 DEF files, locals, IInv, AccountsTypeOK, Steps
<1>3. IdsDistinct' /\ GroupsDeclared'
  BY <1>1 DEF files, locals, IInv, IdsDistinct, GroupsDeclared
<1>4. UserPass'
  BY <1>1, ZenonT(60) DEF files, locals, IInv, UserPass, JoinedFor, NamesOf
<1>5. GroupPass' /\ GroupsSeen' /\ GroupsReady'
  BY <1>1 DEF GroupPass, GroupsSeen, GroupsReady
<1> QED BY <1>2, <1>3, <1>4, <1>5 DEF IInv

LEMMA WritePasswdIInv == ASSUME IInv, WritePasswd PROVE IInv'
<1>1. /\ step = "write passwd" /\ step' = "write shadow" /\ passwd' = buf
      /\ UNCHANGED <<group, gshadow, shadow, cfg, locals, ranOut>>
  BY DEF WritePasswd
<1>2. AccountsTypeOK'
  BY <1>1 DEF locals, IInv, AccountsTypeOK, Steps
<1>3. IdsDistinct'
  BY <1>1 DEF IInv, IdsDistinct, UserPass
<1>4. /\ GroupPass' /\ GroupsSeen' /\ GroupsReady' /\ GroupsDeclared'
      /\ UserPass'
  BY <1>1 DEF GroupPass, GroupsSeen, GroupsReady, GroupsDeclared, UserPass
<1> QED BY <1>2, <1>3, <1>4 DEF IInv

LEMMA WriteShadowIInv == ASSUME IInv, WriteShadow PROVE IInv'
<1>1. /\ step' = "done"
      /\ shadow' = IF shadow = Absent THEN Absent ELSE sbuf
      /\ UNCHANGED <<group, gshadow, passwd, cfg, ranOut>>
  BY DEF WriteShadow
<1>2. AccountsTypeOK'
  <2>1. FileTypes'
    BY <1>1 DEF FileTypes, IInv, AccountsTypeOK
  <2> QED BY <1>1, <2>1, ResetTypes DEF WriteShadow
<1>3. IdsDistinct'
  BY <1>1 DEF IInv, IdsDistinct
<1> QED BY <1>1, <1>2, <1>3, BetweenPasses

(* Rewriting the shells keeps every name and every id.                     *)
LEMMA ShellsKeepIds ==
  ASSUME passwd \subseteq UserLine, RewriteShells
  PROVE  /\ passwd' \subseteq UserLine
         /\ \A f \in passwd' : \E e \in passwd :
              f = [e EXCEPT !.login = FALSE] /\ f.name = e.name
              /\ f.uid = e.uid /\ f.gid = e.gid
         /\ \A e \in passwd : \E f \in passwd' :
              f.name = e.name /\ f.uid = e.uid /\ f.gid = e.gid
<1>1. passwd' = {[e EXCEPT !.login = FALSE] : e \in passwd}
  BY DEF RewriteShells
<1>2. \A e \in passwd :
        LET f == [e EXCEPT !.login = FALSE] IN
        /\ f \in UserLine
        /\ f.name = e.name /\ f.uid = e.uid /\ f.gid = e.gid
  BY DEF UserLine
<1> QED BY <1>1, <1>2, ZenonT(60)

LEMMA RewriteShellsIInv == ASSUME IInv, RewriteShells PROVE IInv'
<1>1. /\ step' = "idle"
      /\ UNCHANGED <<group, gshadow, shadow, cfg, locals, ranOut>>
  BY DEF RewriteShells
<1>2. passwd \subseteq UserLine
  BY DEF IInv, AccountsTypeOK
<1>3. AccountsTypeOK'
  BY <1>1, <1>2, ShellsKeepIds DEF locals, IInv, AccountsTypeOK, Steps
<1>4. UidsDiffer(passwd) => UidsDiffer(passwd')
  <2> SUFFICES ASSUME UidsDiffer(passwd), NEW e \in passwd',
                      NEW f \in passwd', e.uid = f.uid
               PROVE  e = f
    BY DEF UidsDiffer
  <2>1. PICK d \in passwd : e = [d EXCEPT !.login = FALSE] /\ e.uid = d.uid
    BY <1>2, ShellsKeepIds
  <2>2. PICK g \in passwd : f = [g EXCEPT !.login = FALSE] /\ f.uid = g.uid
    BY <1>2, ShellsKeepIds
  <2>3. d = g
    BY <2>1, <2>2 DEF UidsDiffer
  <2> QED BY <2>1, <2>2, <2>3
<1>5. IdsDistinct'
  BY <1>1, <1>4 DEF IInv, IdsDistinct
<1> QED BY <1>1, <1>3, <1>5, BetweenPasses

LEMMA StopIInv == ASSUME IInv, Stop PROVE IInv'
<1>1. step' = "idle" /\ UNCHANGED <<files, cfg, ranOut>> /\ LocalsReset
  BY DEF Stop
<1>2. AccountsTypeOK'
  BY <1>1, ResetTypes DEF files, IInv, AccountsTypeOK, FileTypes
<1>3. IdsDistinct'
  BY <1>1 DEF files, IInv, IdsDistinct
<1> QED BY <1>1, <1>2, <1>3, BetweenPasses

LEMMA TearIInv == ASSUME IInv, Tear PROVE IInv'
<1>1. step' = "idle" /\ UNCHANGED <<cfg, ranOut>> /\ LocalsReset
  BY DEF Tear
<1>2. /\ group' \in {group, {}} /\ gshadow' \in {gshadow, {}}
      /\ passwd' \in {passwd, {}} /\ shadow' \in {shadow, {}}
  BY DEF Tear
<1>3. AccountsTypeOK'
  <2>1. FileTypes'
    BY <1>1, <1>2 DEF IInv, AccountsTypeOK, FileTypes
  <2> QED BY <1>1, <2>1, ResetTypes
<1>4. IdsDistinct'
  <2>1. GidsDiffer(group) => GidsDiffer(group')
    BY <1>2 DEF GidsDiffer
  <2>2. UidsDiffer(passwd) => UidsDiffer(passwd')
    BY <1>2 DEF UidsDiffer
  <2> QED BY <1>1, <2>1, <2>2 DEF IInv, IdsDistinct
<1> QED BY <1>1, <1>3, <1>4, BetweenPasses

LEMMA NextIInv == ASSUME IInv, [AccountsNext]_accountVars PROVE IInv'
<1>1. CASE UNCHANGED accountVars
  <2>1. /\ UNCHANGED <<group, gshadow, passwd, shadow, cfg, step>>
        /\ UNCHANGED <<k, buf, sbuf, used, next, ranOut>>
    BY <1>1 DEF accountVars, files, locals
  <2>2. AccountsTypeOK' /\ IdsDistinct'
    BY <2>1 DEF IInv, AccountsTypeOK, IdsDistinct
  <2>3. GroupPass' /\ GroupsSeen' /\ GroupsReady' /\ GroupsDeclared'
    BY <2>1 DEF IInv, GroupPass, GroupsSeen, GroupsReady, GroupsDeclared
  <2>4. \A e : JoinedFor(e)' <=> JoinedFor(e)
    BY <2>1 DEF JoinedFor
  <2>5. UserPass'
    BY <2>1, <2>4 DEF IInv, UserPass, NamesOf
  <2> QED BY <2>2, <2>3, <2>5 DEF IInv
<1>2. CASE AccountsNext
  BY <1>2, BeginIInv, ReadGroupIInv, NoGroupsIInv, AddGroupIInv,
     GroupsAddedIInv, WriteGroupIInv, WriteGshadowIInv, ReadUsersIInv,
     AddUserIInv, UsersAddedIInv, WritePasswdIInv, WriteShadowIInv,
     RewriteShellsIInv, StopIInv, TearIInv
  DEF AccountsNext, AccountStep
<1> QED BY <1>1, <1>2

(* The strengthening holds in every reachable state.                       *)
THEOREM PassInvariant == AccountsSpec => []IInv
  BY InitIInv, NextIInv, PTL DEF AccountsSpec

(* The account files and the pass's memory keep their types, for every     *)
(* image, every set of configs and every id range.                         *)
THEOREM AccountsTypesHold == AccountsSpec => []AccountsTypeOK
<1>1. IInv => AccountsTypeOK
  BY DEF IInv
<1> QED BY <1>1, PassInvariant, PTL

(* Group ids and user ids stay distinct over any number of applies, with   *)
(* any configs, stopped anywhere, while the searches find free ids.        *)
THEOREM IdsStayDistinct == AccountsSpec => []IdsDistinct
<1>1. IInv => IdsDistinct
  BY DEF IInv
<1> QED BY <1>1, PassInvariant, PTL

-----------------------------------------------------------------------------

(* A step keeps the entries of the tree, except a new build's first step,  *)
(* which may extract the image again, and a crash inside a write.          *)
LEMMA StepKeepsEntries ==
  ASSUME IInv, AccountsNext
  PROVE  \/ step = "idle" \/ Tear
         \/ /\ group \subseteq group'
            /\ \A e \in passwd : \E f \in passwd' :
                 f.name = e.name /\ f.uid = e.uid /\ f.gid = e.gid
<1>1. CASE \E c \in Configs, fresh \in BOOLEAN : Begin(c, fresh)
  BY <1>1 DEF Begin
<1>2. CASE Tear
  BY <1>2
<1>3. CASE WriteGroup
  BY <1>3 DEF WriteGroup, IInv, GroupPass
<1>4. CASE WritePasswd
  BY <1>4 DEF WritePasswd, IInv, UserPass
<1>5. CASE RewriteShells
  <2>1. passwd \subseteq UserLine /\ group' = group
    BY <1>5 DEF RewriteShells, IInv, AccountsTypeOK
  <2> QED BY <1>5, <2>1, ShellsKeepIds
<1>6. CASE group' = group /\ passwd' = passwd
  BY <1>6
<1> QED
  BY <1>1, <1>2, <1>3, <1>4, <1>5, <1>6
  DEF AccountsNext, AccountStep, ReadGroup, NoGroups, AddGroup, GroupsAdded,
      WriteGshadow, ReadUsers, AddUser, UsersAdded, WriteShadow, Stop, files

(* No entry of a reused tree loses its line or its id, whatever the        *)
(* configs, unless a crash truncates the file.                             *)
THEOREM EntriesAreKept == AccountsSpec => EntriesKept
<1>1. ASSUME IInv, [AccountsNext]_accountVars
      PROVE  [step = "idle" \/ Tear
              \/ /\ group \subseteq group'
                 /\ \A e \in passwd : \E f \in passwd' :
                      f.name = e.name /\ f.uid = e.uid
                      /\ f.gid = e.gid]_accountVars
  BY <1>1, StepKeepsEntries
<1> QED BY <1>1, PassInvariant, PTL DEF AccountsSpec, EntriesKept

(* Only the write of /etc/passwd gives it a name it did not have, and the  *)
(* line was added for a unit whose declared group had its line by then.    *)
LEMMA StepJoinsGroup ==
  ASSUME IInv, AccountsNext, step # "idle",
         NEW e \in passwd', e.name \notin NamesOf(passwd)
  PROVE  JoinedFor(e)
<1>1. CASE \E c \in Configs, fresh \in BOOLEAN : Begin(c, fresh)
  BY <1>1 DEF Begin
<1>2. CASE Tear
  BY <1>2 DEF Tear, NamesOf
<1>3. CASE WritePasswd
  BY <1>3 DEF WritePasswd, IInv, UserPass
<1>4. CASE RewriteShells
  <2>1. passwd \subseteq UserLine
    BY DEF IInv, AccountsTypeOK
  <2>2. PICK d \in passwd : e.name = d.name
    BY <1>4, <2>1, ShellsKeepIds
  <2> QED BY <2>2 DEF NamesOf
<1>5. CASE passwd' = passwd
  BY <1>5 DEF NamesOf
<1> QED
  BY <1>1, <1>2, <1>3, <1>4, <1>5
  DEF AccountsNext, AccountStep, ReadGroup, NoGroups, AddGroup, GroupsAdded,
      WriteGroup, WriteGshadow, ReadUsers, AddUser, UsersAdded, WriteShadow,
      Stop, files

(* A new user of a unit has the id of the unit's declared group as its     *)
(* primary group, on every path, for every image and config.               *)
THEOREM UsersJoin == AccountsSpec => UsersJoinTheirGroup
<1> DEFINE Joins ==
      step # "idle" =>
        \A e \in passwd' : e.name \notin NamesOf(passwd) =>
          \E i \in 1..Len(cfg.units) :
            LET unit == cfg.units[i] IN
            /\ unit.user = e.name
            /\ (\E j \in 1..Len(cfg.groups) : cfg.groups[j] = unit.group) =>
                 \E g \in group : g.name = unit.group /\ g.gid = e.gid
<1>1. ASSUME IInv, [AccountsNext]_accountVars PROVE [Joins]_accountVars
  BY <1>1, StepJoinsGroup DEF JoinedFor
<1> QED BY <1>1, PassInvariant, PTL DEF AccountsSpec, UsersJoinTheirGroup

=============================================================================
