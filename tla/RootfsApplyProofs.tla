------------------------- MODULE RootfsApplyProofs -------------------------
(***************************************************************************)
(* RootfsApply's handling of the account files implements Accounts: the    *)
(* order of the plan, the failures and the crashes of an apply allow no    *)
(* step of the account pass that Accounts does not have.  What is proved   *)
(* of Accounts therefore holds while whole builds apply their configs.     *)
(*                                                                         *)
(* The rest is about the tree.  An operation of a plan belongs to a phase  *)
(* of it, and every plan has its operations in the order of the phases     *)
(* (PlanShapes).  What an operation has done is undone by none of a later  *)
(* phase (the Kept lemmas), so that an apply that reaches the end of its   *)
(* plan leaves all of it in place.                                         *)
(*                                                                         *)
(* The last part is about applying a config again: what its operations     *)
(* have shown by not failing (Shown) stays true of the tree as long as     *)
(* operations of the same config are all that happens to it, finished or   *)
(* not.                                                                    *)
(***************************************************************************)
EXTENDS RootfsApply, AccountsProofs, SequenceTheorems, WellFoundedInduction

(* Outside the account pass nothing is remembered of it, so that an apply  *)
(* that stops there takes no step of Accounts.                             *)
Forgotten ==
  step \in {"idle", "done"} =>
    k = 1 /\ buf = {} /\ sbuf = {} /\ used = {} /\ next = 0

LEMMA InitForgotten == Init => Forgotten
  BY DEF Init, AccountsInit, Forgotten

LEMMA StopForgets ==
  ASSUME LocalsReset
  PROVE  Forgotten'
  BY DEF LocalsReset, Forgotten

LEMMA PassForgets ==
  ASSUME Forgotten, AccountStep
  PROVE  Forgotten'
<1>1. CASE WriteShadow
  BY <1>1, StopForgets DEF WriteShadow
<1>2. CASE step' \notin {"idle", "done"}
  BY <1>2 DEF Forgotten
<1> QED
  BY <1>1, <1>2
  DEF AccountStep, ReadGroup, NoGroups, AddGroup, GroupsAdded, WriteGroup,
      WriteGshadow, ReadUsers, AddUser, UsersAdded, WritePasswd

(* What a step of an apply does to the account files and to the pass.      *)
LEMMA StepOfAccounts ==
  ASSUME Next
  PROVE  \/ \E c \in Configs, fresh \in BOOLEAN : Begin(c, fresh)
         \/ AccountStep \/ RewriteShells \/ Stop \/ Tear
         \/ UNCHANGED accountVars
<1>1. CASE \E c \in Configs, fresh \in BOOLEAN : StartApply(c, fresh)
  BY <1>1 DEF StartApply
<1>2. CASE Account
  BY <1>2 DEF Account
<1>3. CASE NoLogin
  BY <1>3 DEF NoLogin
<1>4. CASE Fail
  BY <1>4 DEF Fail
<1>5. CASE Crash
  BY <1>5 DEF Crash
<1>6. CASE \/ CopyOverlay \/ WriteFile \/ Unlink \/ Symlink \/ Pass
           \/ RemoveBinary \/ RemoveDir \/ StripSuid \/ Finish
  BY <1>6
  DEF CopyOverlay, WriteFile, Unlink, Symlink, Pass, RemoveBinary, RemoveDir,
      StripSuid, Finish
<1> QED BY <1>1, <1>2, <1>3, <1>4, <1>5, <1>6 DEF Next

(* Every step of an apply is one of Accounts, or none.                     *)
LEMMA StepImplements ==
  ASSUME Forgotten, [Next]_vars
  PROVE  Forgotten' /\ [AccountsNext]_accountVars
<1>1. CASE UNCHANGED accountVars
  <2>1. UNCHANGED <<step, k, buf, sbuf, used, next>>
    BY <1>1 DEF accountVars, locals
  <2> QED BY <1>1, <2>1 DEF Forgotten
<1>2. CASE \E c \in Configs, fresh \in BOOLEAN : Begin(c, fresh)
  BY <1>2, StopForgets DEF Begin, AccountsNext
<1>3. CASE AccountStep
  BY <1>3, PassForgets DEF AccountsNext
<1>4. CASE RewriteShells
  BY <1>4 DEF RewriteShells, locals, Forgotten, AccountsNext
<1>5. CASE Stop
  <2>1. Forgotten'
    BY <1>5, StopForgets DEF Stop
  <2>2. CASE step = "idle"
    BY <1>5, <2>2 DEF Stop, LocalsReset, Forgotten, accountVars, locals
  <2>3. CASE step # "idle"
    BY <1>5, <2>1, <2>3 DEF AccountsNext
  <2> QED BY <2>1, <2>2, <2>3
<1>6. CASE Tear
  BY <1>6, StopForgets DEF Tear, AccountsNext
<1>7. CASE UNCHANGED vars
  BY <1>7, <1>1 DEF vars
<1> QED BY <1>1, <1>2, <1>3, <1>4, <1>5, <1>6, <1>7, StepOfAccounts

(* Applying whole configs, over and over, on extracted or reused trees,    *)
(* stopped and crashing anywhere, implements the account pass.             *)
THEOREM ApplyImplementsAccounts == Spec => AccountsSpec
<1>1. Init => AccountsInit /\ Forgotten
  BY InitForgotten DEF Init
<1> QED BY <1>1, StepImplements, PTL DEF Spec, AccountsSpec

(* Two groups never share a group id and two users never a user id, for    *)
(* every image, every set of configs and every order of builds.            *)
THEOREM ApplyKeepsIdsDistinct == Spec => []IdsDistinct
  BY ApplyImplementsAccounts, IdsStayDistinct, PTL

(* An apply takes no entry's line or id away, except by a crash inside the *)
(* write of its file.                                                      *)
THEOREM ApplyKeepsEntries == Spec => EntriesKept
  BY ApplyImplementsAccounts, EntriesAreKept, PTL

(* A user that an apply adds joins the group its unit declares.            *)
THEOREM ApplyJoinsUsers == Spec => UsersJoinTheirGroup
  BY ApplyImplementsAccounts, UsersJoin, PTL

-----------------------------------------------------------------------------
(* Induction.                                                              *)
LEMMA LeastElement ==
  ASSUME NEW T, T \subseteq Nat, T # {}
  PROVE  \E m \in T : \A n \in T : m <= n
<1> DEFINE R == OpToRel(<, Nat)
<1>1. IsWellFoundedOn(R, Nat)
  BY NatLessThanWellFounded
<1>2. \A x, y \in Nat : x < y => <<x, y>> \in R
  BY DEF OpToRel
<1> HIDE DEF R
<1>3. PICK x \in T : \A y \in T : ~ (<<y, x>> \in R)
  BY <1>1, WFMin
<1>4. ASSUME NEW y \in T PROVE x <= y
  <2>1. x \in Nat /\ y \in Nat
    OBVIOUS
  <2>2. ~(y < x)
    BY <1>2, <1>3, <2>1
  <2> QED BY <2>1, <2>2
<1> QED BY <1>3, <1>4

(* A set of numbers with 0 and every member's successor has all of them.   *)
LEMMA Induction ==
  ASSUME NEW S, 0 \in S, \A n \in Nat : n \in S => n + 1 \in S
  PROVE  Nat \subseteq S
<1> DEFINE T == Nat \ S
<1> SUFFICES ASSUME T # {} PROVE FALSE
  OBVIOUS
<1>1. T \subseteq Nat
  OBVIOUS
<1> HIDE DEF T
<1>2. PICK m \in T : \A n \in T : m <= n
  BY <1>1, LeastElement
<1>3. m \in Nat /\ m # 0 /\ m \notin S
  BY <1>1 DEF T
<1>4. m - 1 \in Nat /\ m - 1 \notin T /\ (m - 1) + 1 = m
  BY <1>1, <1>2, <1>3
<1>5. m - 1 \in S
  BY <1>4 DEF T
<1> QED BY <1>3, <1>4, <1>5

-----------------------------------------------------------------------------
(* Sequences of whatever elements.                                         *)
LEMMA WidenSeq ==
  ASSUME NEW S, NEW s \in Seq(S)
  PROVE  Lists(s) /\ Range(s) \subseteq S
<1>1. Len(s) \in Nat /\ DOMAIN s = 1 .. Len(s) /\ s \in [1 .. Len(s) -> S]
  BY LenProperties
<1>2. s \in [1 .. Len(s) -> Range(s)] /\ Range(s) \subseteq S
  BY <1>1 DEF Range
<1> QED
  BY <1>1, <1>2, SeqDef DEF Lists

LEMMA SeqFacts ==
  ASSUME NEW s, Lists(s)
  PROVE  Len(s) \in Nat /\ DOMAIN s = 1 .. Len(s)
BY LenProperties DEF Lists

LEMMA FunIsSeq ==
  ASSUME NEW f, NEW n \in Nat, f = [i \in 1 .. n |-> f[i]]
  PROVE  Lists(f) /\ Len(f) = n
<1>1. f \in [1 .. n -> Range(f)] /\ DOMAIN f = 1 .. n
  BY DEF Range
<1>2. f \in Seq(Range(f))
  BY <1>1, SeqDef
<1> QED
  BY <1>1, <1>2, LenProperties DEF Lists

LEMMA EmptyFacts == Lists(<<>>) /\ Len(<<>>) = 0 /\ DOMAIN <<>> = {} /\ Range(<<>>) = {}
<1>1. Lists(<<>>) /\ Len(<<>>) = 0
  BY EmptySeq DEF Lists
<1>2. DOMAIN <<>> = {}
  BY <1>1, SeqFacts
<1> QED BY <1>1, <1>2 DEF Range

LEMMA NoElements ==
  ASSUME NEW s, Lists(s), Len(s) = 0
  PROVE  s = <<>>
BY EmptySeq DEF Lists

(* A concatenation, which the provers know by the following lemma only.    *)
Join(s, t) == s \o t

LEMMA JoinFacts ==
  ASSUME NEW s, NEW t, Lists(s), Lists(t)
  PROVE  /\ Lists(Join(s, t)) /\ Len(Join(s, t)) = Len(s) + Len(t)
         /\ DOMAIN Join(s, t) = 1 .. Len(s) + Len(t)
         /\ \A i \in DOMAIN s : i \in DOMAIN Join(s, t) /\ Join(s, t)[i] = s[i]
         /\ \A i \in DOMAIN t :
              Len(s) + i \in DOMAIN Join(s, t) /\ Join(s, t)[Len(s) + i] = t[i]
         /\ \A i \in DOMAIN Join(s, t) :
              i \in DOMAIN s \/ \E j \in DOMAIN t : i = Len(s) + j
         /\ Range(Join(s, t)) = Range(s) \cup Range(t)
<1> DEFINE S == Range(s) \cup Range(t)
<1>1. s \in Seq(S) /\ t \in Seq(S)
  <2>1. Range(s) \subseteq S /\ Range(t) \subseteq S
    OBVIOUS
  <2> QED BY <2>1 DEF Lists
<1>2. /\ Join(s, t) \in Seq(S) /\ Len(Join(s, t)) = Len(s) + Len(t)
      /\ \A i \in 1 .. Len(s) + Len(t) :
           Join(s, t)[i] = IF i <= Len(s) THEN s[i] ELSE t[i - Len(s)]
  BY <1>1, ConcatProperties DEF Join
<1>3. Len(s) \in Nat /\ Len(t) \in Nat /\ DOMAIN s = 1 .. Len(s) /\ DOMAIN t = 1 .. Len(t)
  BY SeqFacts
<1>4. DOMAIN Join(s, t) = 1 .. Len(s) + Len(t)
  BY <1>2, LenProperties
<1>5. Lists(Join(s, t))
  BY <1>2, WidenSeq
<1> HIDE DEF S
<1>6. ASSUME NEW i \in DOMAIN s
      PROVE  i \in DOMAIN Join(s, t) /\ Join(s, t)[i] = s[i]
  BY <1>2, <1>3, <1>4
<1>7. ASSUME NEW i \in DOMAIN t
      PROVE  Len(s) + i \in DOMAIN Join(s, t) /\ Join(s, t)[Len(s) + i] = t[i]
  BY <1>2, <1>3, <1>4
<1>8. ASSUME NEW i \in DOMAIN Join(s, t), i \notin DOMAIN s
      PROVE  \E j \in DOMAIN t : i = Len(s) + j
  <2>1. i - Len(s) \in DOMAIN t /\ i = Len(s) + (i - Len(s))
    BY <1>3, <1>4, <1>8
  <2> QED BY <2>1
<1>9. Range(Join(s, t)) = Range(s) \cup Range(t)
  BY <1>6, <1>7, <1>8 DEF Range
<1> QED
  BY <1>2, <1>4, <1>5, <1>6, <1>7, <1>8, <1>9

LEMMA OneFacts ==
  ASSUME NEW o
  PROVE  Lists(<<o>>) /\ DOMAIN <<o>> = {1} /\ <<o>>[1] = o /\ Range(<<o>>) = {o}
<1>1. <<o>> \in Seq({o})
  OBVIOUS
<1>2. Lists(<<o>>)
  BY <1>1, WidenSeq
<1>3. DOMAIN <<o>> = {1} /\ <<o>>[1] = o
  OBVIOUS
<1> QED BY <1>2, <1>3 DEF Range

LEMMA TwoFacts ==
  ASSUME NEW o, NEW q
  PROVE  /\ Lists(<<o, q>>) /\ DOMAIN <<o, q>> = {1, 2} /\ <<o, q>>[1] = o /\ <<o, q>>[2] = q
         /\ Range(<<o, q>>) = {o, q}
<1>1. <<o, q>> \in Seq({o, q})
  OBVIOUS
<1>2. Lists(<<o, q>>)
  BY <1>1, WidenSeq
<1>3. DOMAIN <<o, q>> = {1, 2} /\ <<o, q>>[1] = o /\ <<o, q>>[2] = q
  OBVIOUS
<1> QED BY <1>2, <1>3 DEF Range

-----------------------------------------------------------------------------
(* The concatenations of FlattenSeq, one after the other.                  *)
Flattens(ss, f, m) ==
  f[1] = ss[1] /\ \A i \in 2 .. m : f[i] = Join(f[i - 1], ss[i])

LEMMA FlattensExist ==
  ASSUME NEW ss
  PROVE  \A m \in Nat : \E f : Flattens(ss, f, m)
<1> DEFINE S == {m \in Nat : \E f : Flattens(ss, f, m)}
<1>1. 0 \in S
  <2> DEFINE f == [i \in {1} |-> ss[1]]
  <2>1. f[1] = ss[1] /\ \A i \in 2 .. 0 : FALSE
    OBVIOUS
  <2> QED BY <2>1 DEF Flattens
<1>2. ASSUME NEW m \in Nat, m \in S
      PROVE  m + 1 \in S
  <2>1. PICK f : Flattens(ss, f, m)
    BY <1>2
  <2> DEFINE new == IF m = 0 THEN ss[1] ELSE Join(f[m], ss[m + 1])
             e   == [i \in 1 .. m + 1 |-> IF i = m + 1 THEN new ELSE f[i]]
  <2>2. e[m + 1] = new /\ \A i \in 1 .. m : e[i] = f[i]
    OBVIOUS
  <2> HIDE DEF e
  <2>3. e[1] = ss[1]
    <3>1. CASE m = 0
      BY <2>2, <3>1
    <3>2. CASE m # 0
      <4>1. 1 \in 1 .. m
        BY <3>2
      <4> QED BY <2>1, <2>2, <4>1 DEF Flattens
    <3> QED BY <3>1, <3>2
  <2>4. ASSUME NEW i \in 2 .. m + 1
        PROVE  e[i] = Join(e[i - 1], ss[i])
    <3>1. CASE i = m + 1
      <4>1. m # 0 /\ i - 1 = m /\ m \in 1 .. m
        BY <3>1
      <4>2. e[i - 1] = f[m] /\ e[i] = Join(f[m], ss[m + 1])
        BY <2>2, <3>1, <4>1
      <4> QED BY <3>1, <4>2
    <3>2. CASE i # m + 1
      <4>1. i \in 2 .. m /\ i \in 1 .. m /\ i - 1 \in 1 .. m
        BY <3>2
      <4>2. e[i] = f[i] /\ e[i - 1] = f[i - 1]
        BY <2>2, <4>1
      <4> QED BY <2>1, <4>1, <4>2 DEF Flattens
    <3> QED BY <3>1, <3>2
  <2>5. Flattens(ss, e, m + 1)
    BY <2>3, <2>4 DEF Flattens
  <2> QED BY <2>5
<1> HIDE DEF S
<1>3. Nat \subseteq S
  BY <1>1, <1>2, Induction
<1> QED BY <1>3 DEF S

LEMMA FlattenIs ==
  ASSUME NEW ss, NEW n \in Nat, n # 0, Len(ss) = n
  PROVE  \E f : Flattens(ss, f, n) /\ FlattenSeq(ss) = f[n]
<1> DEFINE g == CHOOSE g : g = [i \in 1 .. n |-> IF i = 1 THEN ss[i] ELSE g[i - 1] \o ss[i]]
<1>1. FlattenSeq(ss) = g[n]
  BY DEF FlattenSeq
<1>2. PICK f : Flattens(ss, f, n)
  BY FlattensExist
<1> DEFINE h == [i \in 1 .. n |-> f[i]]
<1>3. ASSUME NEW i \in 1 .. n
      PROVE  h[i] = IF i = 1 THEN ss[i] ELSE h[i - 1] \o ss[i]
  <2>1. CASE i = 1
    BY <1>2, <2>1 DEF Flattens
  <2>2. CASE i # 1
    <3>1. i \in 2 .. n /\ i - 1 \in 1 .. n
      BY <2>2
    <3> QED BY <1>2, <2>2, <3>1 DEF Flattens, Join
  <2> QED BY <2>1, <2>2
<1>4. h = [i \in 1 .. n |-> IF i = 1 THEN ss[i] ELSE h[i - 1] \o ss[i]]
  BY <1>3
<1> HIDE DEF h
<1>5. g = [i \in 1 .. n |-> IF i = 1 THEN ss[i] ELSE g[i - 1] \o ss[i]]
  BY <1>4
<1> HIDE DEF g
<1>6. Flattens(ss, g, n)
  <2>1. g[1] = ss[1]
    <3>1. 1 \in 1 .. n
      BY SMTT(60)
    <3> QED BY <1>5, <3>1
  <2>2. ASSUME NEW i \in 2 .. n
        PROVE  g[i] = Join(g[i - 1], ss[i])
    <3>1. i \in 1 .. n /\ i # 1
      OBVIOUS
    <3> QED BY <1>5, <3>1 DEF Join
  <2> QED BY <2>1, <2>2 DEF Flattens
<1> QED BY <1>1, <1>6

-----------------------------------------------------------------------------
(* The phases of a plan.                                                   *)
Late(o) == o.path \in HardeningFiles /\ (o.path = Journald => o.data = "volatile")

UnitDir == "etc/systemd/system"

Checks == {"accounts", "audit", "zero-shell", "strip-suid", "shells", "validate-nftables"}

(* The first and the last phase that an operation can be of.  The writes of*)
(* units come before the masks, other operations for services anywhere.    *)
Earliest(o) ==
  IF o.op \in {"copy"} THEN 0
  ELSE IF o.op \in {"write"} THEN IF Late(o) THEN 10 ELSE 1
  ELSE IF o.op \in {"unlink", "symlink"} THEN IF o.path[1] = UnitDir THEN 2 ELSE 1
  ELSE IF o.op \in {"accounts"} THEN 1
  ELSE IF o.op \in {"verify"} THEN 3
  ELSE IF o.op \in {"audit"} THEN 4
  ELSE IF o.op \in {"remove"} THEN 5
  ELSE IF o.op \in {"remove-dir"} THEN 6
  ELSE IF o.op \in {"zero-shell"} THEN 7
  ELSE IF o.op \in {"strip-suid"} THEN 8
  ELSE IF o.op \in {"shells"} THEN 9
  ELSE 10

Latest(o) ==
  IF o.op \in {"write"} THEN IF Late(o) THEN 10 ELSE IF o.path[1] = UnitDir THEN 1 ELSE 2
  ELSE IF o.op \in {"unlink", "symlink", "accounts"} THEN 2
  ELSE Earliest(o)

WriteDirs == {UnitDir, "usr/local/lib/cvmbuild", "etc", "etc/systemd/network",
              "etc/systemd/journald.conf.d", "etc/sysctl.d",
              "etc/systemd/system/nftables.service.d", "etc/modules-load.d",
              "etc/udev/rules.d"}

LinkDirs == {LocalFs, MultiUser, NetworkOnline, "etc/systemd/system-generators"}

(* Where the plans make links.                                             *)
LinkPath(p) == p[1] \in LinkDirs \/ (p[1] = UnitDir /\ \E m \in Range(MaskedUnits) : p = UnitFile(m))

(* What the plan of c has.                                                 *)
PlanOp(c, o) ==
  \/ o.op = "copy" /\ o.suid \in BOOLEAN
  \/ /\ o.op = "write" /\ o.path[1] \in WriteDirs
     /\ o.path = Nftables => o.data = NftablesConf(c)
  \/ o.op \in {"unlink", "symlink"} /\ LinkPath(o.path)
  \/ o.op = "verify" /\ \E i \in 1 .. Len(c.verify) :
       o.path = c.verify[i].path /\ o.data = c.verify[i].data
  \/ o.op = "remove" /\ o.path[1] \in Range(SearchPaths) /\ o.path[2] \in Range(c.remove)
  \/ o.op = "remove-dir" /\ o.path[1] \in Range(c.removeDirs)
  \/ o.op \in Checks

(* A link is removed only to be made again, and made only after that.      *)
Paired(s) ==
  \A i \in DOMAIN s :
    /\ s[i].op = "unlink" =>
         i + 1 \in DOMAIN s /\ s[i + 1].op = "symlink" /\ s[i + 1].path = s[i].path
    /\ s[i].op = "symlink" =>
         i - 1 \in DOMAIN s /\ s[i - 1].op = "unlink" /\ s[i - 1].path = s[i].path

InOrder(s) == \A i, j \in DOMAIN s : i < j => Earliest(s[i]) <= Latest(s[j])

(* A part of the plan of c from phase a to phase b.                        *)
Part(c, s, a, b) ==
  /\ Lists(s) /\ Paired(s) /\ InOrder(s)
  /\ \A o \in Range(s) : PlanOp(c, o) /\ a <= Latest(o) /\ Earliest(o) <= b

LEMMA Phases == \A o : Earliest(o) \in 0 .. 10 /\ Latest(o) \in 0 .. 10
BY DEF Earliest, Latest

LEMMA JoinPaired ==
  ASSUME NEW s, NEW t, Lists(s), Lists(t), Paired(s), Paired(t)
  PROVE  Paired(Join(s, t))
<1> DEFINE u == Join(s, t)
           m == Len(s)
           n == Len(t)
<1>1. m \in Nat /\ DOMAIN s = 1 .. m /\ n \in Nat /\ DOMAIN t = 1 .. n
  BY SeqFacts
<1>2. DOMAIN u = 1 .. m + n /\ \A i \in DOMAIN s : i \in DOMAIN u /\ u[i] = s[i]
  BY JoinFacts
<1>3. \A i \in DOMAIN t : m + i \in DOMAIN u /\ u[m + i] = t[i]
  BY JoinFacts
<1>4. \A i \in DOMAIN u : i \in DOMAIN s \/ \E j \in DOMAIN t : i = m + j
  BY JoinFacts
<1> HIDE DEF u, m, n
<1>5. ASSUME NEW i \in DOMAIN u, u[i].op = "unlink"
      PROVE  i + 1 \in DOMAIN u /\ u[i + 1].op = "symlink" /\ u[i + 1].path = u[i].path
  <2>1. CASE i \in DOMAIN s
    <3>1. u[i] = s[i]
      BY <1>2, <2>1
    <3>2. i + 1 \in DOMAIN s /\ s[i + 1].op = "symlink" /\ s[i + 1].path = s[i].path
      BY <1>5, <2>1, <3>1 DEF Paired
    <3> QED BY <1>2, <3>1, <3>2
  <2>2. CASE \E j \in DOMAIN t : i = m + j
    <3>1. PICK j \in DOMAIN t : i = m + j
      BY <2>2
    <3>2. u[i] = t[j]
      BY <1>3, <3>1
    <3>3. j + 1 \in DOMAIN t /\ t[j + 1].op = "symlink" /\ t[j + 1].path = t[j].path
      BY <1>5, <3>2 DEF Paired
    <3>4. i + 1 = m + (j + 1)
      BY <1>1, <3>1
    <3> QED BY <1>3, <3>2, <3>3, <3>4
  <2> QED BY <1>4, <2>1, <2>2
<1>6. ASSUME NEW i \in DOMAIN u, u[i].op = "symlink"
      PROVE  i - 1 \in DOMAIN u /\ u[i - 1].op = "unlink" /\ u[i - 1].path = u[i].path
  <2>1. CASE i \in DOMAIN s
    <3>1. u[i] = s[i]
      BY <1>2, <2>1
    <3>2. i - 1 \in DOMAIN s /\ s[i - 1].op = "unlink" /\ s[i - 1].path = s[i].path
      BY <1>6, <2>1, <3>1 DEF Paired
    <3> QED BY <1>2, <3>1, <3>2
  <2>2. CASE \E j \in DOMAIN t : i = m + j
    <3>1. PICK j \in DOMAIN t : i = m + j
      BY <2>2
    <3>2. u[i] = t[j]
      BY <1>3, <3>1
    <3>3. j - 1 \in DOMAIN t /\ t[j - 1].op = "unlink" /\ t[j - 1].path = t[j].path
      BY <1>6, <3>2 DEF Paired
    <3>4. i - 1 = m + (j - 1)
      BY <1>1, <3>1
    <3> QED BY <1>3, <3>2, <3>3, <3>4
  <2> QED BY <1>4, <2>1, <2>2
<1> QED BY <1>5, <1>6 DEF Paired, u

LEMMA JoinPart ==
  ASSUME NEW c, NEW s, NEW t, NEW a \in Nat, NEW b \in Nat, NEW d \in Nat, NEW e \in Nat,
         a <= b, b <= d, d <= e, Part(c, s, a, b), Part(c, t, d, e)
  PROVE  Part(c, Join(s, t), a, e)
<1> DEFINE u == Join(s, t)
           m == Len(s)
           n == Len(t)
<1>0. Lists(s) /\ Lists(t) /\ Paired(s) /\ Paired(t)
  BY DEF Part
<1>1. m \in Nat /\ DOMAIN s = 1 .. m /\ n \in Nat /\ DOMAIN t = 1 .. n
  BY <1>0, SeqFacts
<1>2. DOMAIN u = 1 .. m + n /\ \A i \in DOMAIN s : i \in DOMAIN u /\ u[i] = s[i]
  BY <1>0, JoinFacts
<1>3. \A i \in DOMAIN t : m + i \in DOMAIN u /\ u[m + i] = t[i]
  BY <1>0, JoinFacts
<1>4. \A i \in DOMAIN u : i \in DOMAIN s \/ \E j \in DOMAIN t : i = m + j
  BY <1>0, JoinFacts
<1>5. Lists(u) /\ Range(u) = Range(s) \cup Range(t)
  BY <1>0, JoinFacts
<1>6. Paired(u)
  BY <1>0, JoinPaired
<1>7. \A o \in Range(s) : PlanOp(c, o) /\ a <= Latest(o) /\ Earliest(o) <= b
                          /\ Earliest(o) \in Nat /\ Latest(o) \in Nat
  BY Phases DEF Part
<1>8. \A o \in Range(t) : PlanOp(c, o) /\ d <= Latest(o) /\ Earliest(o) <= e
                          /\ Earliest(o) \in Nat /\ Latest(o) \in Nat
  BY Phases DEF Part
<1> HIDE DEF u, m, n
<1>9. \A o \in Range(u) : PlanOp(c, o) /\ a <= Latest(o) /\ Earliest(o) <= e
  BY <1>5, <1>7, <1>8
<1>10. ASSUME NEW i \in DOMAIN u, NEW j \in DOMAIN u, i < j
       PROVE  Earliest(u[i]) <= Latest(u[j])
  <2>1. CASE j \in DOMAIN s
    <3>1. i \in DOMAIN s
      BY <1>1, <1>2, <1>10, <2>1
    <3>2. u[i] = s[i] /\ u[j] = s[j]
      BY <1>2, <2>1, <3>1
    <3> QED BY <1>10, <2>1, <3>1, <3>2 DEF Part, InOrder
  <2>2. CASE i \in DOMAIN s /\ j \notin DOMAIN s
    <3>1. u[i] \in Range(s)
      BY <1>2, <2>2 DEF Range
    <3>2. PICK l \in DOMAIN t : j = m + l
      BY <1>4, <2>2
    <3>3. u[j] \in Range(t)
      BY <1>3, <3>2 DEF Range
    <3>4. Earliest(u[i]) <= b /\ d <= Latest(u[j]) /\ Earliest(u[i]) \in Nat /\ Latest(u[j]) \in Nat
      BY <1>7, <1>8, <3>1, <3>3
    <3> QED BY <3>4
  <2>3. CASE i \notin DOMAIN s /\ j \notin DOMAIN s
    <3>1. PICK x \in DOMAIN t : i = m + x
      BY <1>4, <2>3
    <3>2. PICK y \in DOMAIN t : j = m + y
      BY <1>4, <2>3
    <3>3. u[i] = t[x] /\ u[j] = t[y]
      BY <1>3, <3>1, <3>2
    <3>4. x < y
      BY <1>1, <1>10, <3>1, <3>2
    <3> QED BY <3>3, <3>4 DEF Part, InOrder
  <2> QED BY <2>1, <2>2, <2>3
<1> QED BY <1>5, <1>6, <1>9, <1>10 DEF Part, InOrder, u

(* Operations of one phase, in any order.                                  *)
LEMMA PhasePart ==
  ASSUME NEW c, NEW s, NEW a \in Nat, Lists(s), Paired(s),
         \A o \in Range(s) : PlanOp(c, o) /\ a <= Latest(o) /\ Earliest(o) <= a
  PROVE  Part(c, s, a, a)
<1>1. ASSUME NEW i \in DOMAIN s, NEW j \in DOMAIN s
      PROVE  Earliest(s[i]) <= Latest(s[j])
  <2>1. s[i] \in Range(s) /\ s[j] \in Range(s)
    BY DEF Range
  <2>2. Earliest(s[i]) \in Nat /\ Latest(s[j]) \in Nat
    BY Phases
  <2> QED BY <2>1, <2>2
<1> QED BY <1>1 DEF Part, InOrder

LEMMA EmptyPart ==
  ASSUME NEW c, NEW a, NEW b
  PROVE  Part(c, <<>>, a, b)
BY EmptyFacts DEF Part, Paired, InOrder

LEMMA OnePart ==
  ASSUME NEW c, NEW o, NEW a \in Nat, PlanOp(c, o), a <= Latest(o), Earliest(o) <= a,
         o.op \notin {"unlink", "symlink"}
  PROVE  Part(c, <<o>>, a, a)
<1> DEFINE s == <<o>>
<1>1. Lists(s) /\ DOMAIN s = {1} /\ s[1] = o /\ Range(s) = {o}
  BY OneFacts
<1> HIDE DEF s
<1>2. Paired(s)
  BY <1>1 DEF Paired
<1>3. Part(c, s, a, a)
  BY <1>1, <1>2, PhasePart
<1> QED BY <1>3 DEF s

LEMMA FlattenPart ==
  ASSUME NEW c, NEW ss, NEW a \in Nat, Lists(ss), \A i \in DOMAIN ss : Part(c, ss[i], a, a)
  PROVE  /\ Part(c, FlattenSeq(ss), a, a)
         /\ Range(FlattenSeq(ss)) = UNION {Range(ss[i]) : i \in DOMAIN ss}
<1> DEFINE n == Len(ss)
<1>1. n \in Nat /\ DOMAIN ss = 1 .. n
  BY SeqFacts
<1>2. CASE n = 0
  <2>1. ss = <<>> /\ FlattenSeq(ss) = ss
    BY <1>2, NoElements DEF FlattenSeq
  <2>2. DOMAIN ss = {} /\ Range(ss) = {}
    BY <2>1, EmptyFacts
  <2> QED BY <2>1, <2>2, EmptyPart
<1>3. CASE n # 0
  <2>1. PICK f : Flattens(ss, f, n) /\ FlattenSeq(ss) = f[n]
    BY <1>1, <1>3, FlattenIs
  <2> HIDE DEF n
  <2> DEFINE To(m)   == UNION {Range(ss[i]) : i \in 1 .. m}
             Good(m) == Part(c, f[m], a, a) /\ Range(f[m]) = To(m)
             S       == {m \in Nat : m + 1 <= n => Good(m + 1)}
  <2>2. Good(1)
    <3>1. 1 \in DOMAIN ss
      BY <1>1, <1>3
    <3>2. f[1] = ss[1]
      BY <2>1 DEF Flattens
    <3>3. To(1) = Range(ss[1])
      <4>1. 1 .. 1 = {1}
        OBVIOUS
      <4> QED BY <4>1
    <3> QED BY <3>1, <3>2, <3>3
  <2>3. 0 \in S
    BY <2>2
  <2>4. ASSUME NEW m \in Nat, m \in S
        PROVE  m + 1 \in S
    <3> SUFFICES ASSUME (m + 1) + 1 <= n PROVE Good((m + 1) + 1)
      BY DEF S
    <3> DEFINE l == (m + 1) + 1
    <3>1. m + 1 <= n /\ l \in 2 .. n /\ l \in DOMAIN ss /\ l - 1 = m + 1
      BY <1>1
    <3>2. Good(m + 1)
      BY <2>4, <3>1
    <3>3. f[l] = Join(f[m + 1], ss[l])
      BY <2>1, <3>1 DEF Flattens
    <3>4. To(l) = To(m + 1) \cup Range(ss[l])
      <4>1. 1 .. l = (1 .. m + 1) \cup {l}
        OBVIOUS
      <4> HIDE DEF l
      <4> QED BY <4>1
    <3> HIDE DEF l, To
    <3>5. Part(c, ss[l], a, a)
      BY <3>1
    <3>6. Part(c, f[l], a, a)
      <4>1. a <= a
        OBVIOUS
      <4> QED BY <3>2, <3>3, <3>5, <4>1, JoinPart
    <3>7. Range(f[l]) = Range(f[m + 1]) \cup Range(ss[l])
      BY <3>2, <3>3, <3>5, JoinFacts DEF Part
    <3>8. Good(l)
      BY <3>2, <3>4, <3>6, <3>7
    <3> QED BY <3>8 DEF l
  <2> HIDE DEF S
  <2>5. n - 1 \in S
    <3>1. n - 1 \in Nat
      BY <1>1, <1>3
    <3> QED BY <2>3, <2>4, <3>1, Induction
  <2>6. Good(n)
    <3>1. (n - 1) + 1 = n /\ n <= n
      BY <1>1
    <3> HIDE DEF Good
    <3> QED BY <2>5, <3>1 DEF S
  <2>7. To(n) = UNION {Range(ss[i]) : i \in DOMAIN ss}
    BY <1>1
  <2> QED BY <2>1, <2>6, <2>7
<1> QED BY <1>2, <1>3

-----------------------------------------------------------------------------
(* The pieces of a plan.                                                   *)
LEMMA EarlyWrite ==
  ASSUME NEW c, NEW p, NEW data, NEW a \in {1, 2}, p[1] \in WriteDirs,
         p \notin HardeningFiles \/ (data # "volatile" /\ p = Journald),
         a = 2 => p[1] # UnitDir, p = Nftables => data = NftablesConf(c)
  PROVE  Part(c, WriteOp(p, data), a, a)
<1> DEFINE o == [op |-> "write", path |-> p, data |-> data]
<1>1. o.op = "write" /\ o.path = p /\ o.data = data
  OBVIOUS
<1>2. WriteOp(p, data) = <<o>>
  BY DEF WriteOp
<1> HIDE DEF o
<1>3. PlanOp(c, o)
  BY <1>1 DEF PlanOp
<1>4. ~Late(o)
  BY <1>1 DEF Late
<1>5. a <= Latest(o) /\ Earliest(o) <= a
  BY <1>1, <1>4 DEF Earliest, Latest
<1>6. a \in Nat /\ o.op \notin {"unlink", "symlink"}
  BY <1>1
<1> QED BY <1>2, <1>3, <1>5, <1>6, OnePart

LEMMA LateWrite ==
  ASSUME NEW c, NEW p, NEW data, p[1] \in WriteDirs, p \in HardeningFiles,
         p = Journald => data = "volatile"
  PROVE  Part(c, WriteOp(p, data), 10, 10)
<1> DEFINE o == [op |-> "write", path |-> p, data |-> data]
<1>1. o.op = "write" /\ o.path = p /\ o.data = data
  OBVIOUS
<1>2. WriteOp(p, data) = <<o>>
  BY DEF WriteOp
<1> HIDE DEF o
<1>3. PlanOp(c, o)
  <2>1. /\ SysctlHardening[1] = "etc/sysctl.d" /\ SysctlLock[1] = "etc/sysctl.d"
        /\ Journald[1] = "etc/systemd/journald.conf.d" /\ TeeModules[1] = "etc/modules-load.d"
        /\ Nftables[1] = "etc"
    BY DEF SysctlHardening, SysctlLock, Journald, TeeModules, Nftables
  <2>2. p # Nftables
    BY <2>1 DEF HardeningFiles
  <2> QED BY <1>1, <2>2 DEF PlanOp
<1>4. Late(o)
  BY <1>1 DEF Late
<1>5. 10 <= Latest(o) /\ Earliest(o) <= 10
  BY <1>1, <1>4 DEF Earliest, Latest
<1>6. 10 \in Nat /\ o.op \notin {"unlink", "symlink"}
  BY <1>1
<1> QED BY <1>2, <1>3, <1>5, <1>6, OnePart

LEMMA LinkPart ==
  ASSUME NEW c, NEW p, NEW to, NEW a \in {1, 2}, LinkPath(p), p[1] = UnitDir => a = 2
  PROVE  /\ Part(c, LinkOp(p, to), a, a)
         /\ [op |-> "symlink", path |-> p, to |-> to] \in Range(LinkOp(p, to))
<1> DEFINE o == [op |-> "unlink", path |-> p]
           q == [op |-> "symlink", path |-> p, to |-> to]
           s == <<o, q>>
<1>1. o.op = "unlink" /\ o.path = p /\ q.op = "symlink" /\ q.path = p
  OBVIOUS
<1>2. LinkOp(p, to) = s
  BY DEF LinkOp
<1> HIDE DEF o, q
<1>3. /\ Lists(s) /\ DOMAIN s = {1, 2} /\ s[1] = o /\ s[2] = q
      /\ Range(s) = {o, q}
  BY TwoFacts
<1> HIDE DEF s
<1>4. PlanOp(c, o) /\ PlanOp(c, q)
  BY <1>1 DEF PlanOp
<1>5. a <= Latest(o) /\ Earliest(o) <= a /\ a <= Latest(q) /\ Earliest(q) <= a
  BY <1>1 DEF Earliest, Latest
<1>6. Paired(s)
  <2>1. ASSUME NEW i \in DOMAIN s, s[i].op = "unlink"
        PROVE  i + 1 \in DOMAIN s /\ s[i + 1].op = "symlink" /\ s[i + 1].path = s[i].path
    <3>1. i = 1
      BY <1>1, <1>3, <2>1
    <3>2. i + 1 = 2
      BY <3>1
    <3> QED BY <1>1, <1>3, <3>1, <3>2
  <2>2. ASSUME NEW i \in DOMAIN s, s[i].op = "symlink"
        PROVE  i - 1 \in DOMAIN s /\ s[i - 1].op = "unlink" /\ s[i - 1].path = s[i].path
    <3>1. i = 2
      BY <1>1, <1>3, <2>2
    <3>2. i - 1 = 1
      BY <3>1
    <3> QED BY <1>1, <1>3, <3>1, <3>2
  <2> QED BY <2>1, <2>2 DEF Paired
<1>7. a \in Nat
  OBVIOUS
<1>8. Part(c, s, a, a)
  BY <1>3, <1>4, <1>5, <1>6, <1>7, PhasePart
<1> QED BY <1>2, <1>3, <1>8 DEF q

LEMMA CheckPart ==
  ASSUME NEW c, NEW op \in Checks, NEW a \in Nat, \A o : o.op = op => a <= Latest(o) /\ Earliest(o) <= a
  PROVE  Part(c, Check(op), a, a) /\ \E o \in Range(Check(op)) : o.op = op
<1> DEFINE o == [op |-> op]
<1>1. o.op = op
  OBVIOUS
<1>2. Check(op) = <<o>>
  BY DEF Check
<1> HIDE DEF o
<1>3. PlanOp(c, o)
  BY <1>1 DEF PlanOp
<1>4. o.op \notin {"unlink", "symlink"}
  BY <1>1 DEF Checks
<1>5. Part(c, <<o>>, a, a)
  BY <1>1, <1>3, <1>4, OnePart
<1>6. Range(<<o>>) = {o}
  BY OneFacts
<1> QED BY <1>1, <1>2, <1>5, <1>6

LEMMA Join11 ==
  ASSUME NEW c, NEW s, NEW t, Part(c, s, 1, 1), Part(c, t, 1, 1)
  PROVE  /\ Part(c, Join(s, t), 1, 1)
         /\ Range(s) \subseteq Range(Join(s, t)) /\ Range(t) \subseteq Range(Join(s, t))
<1>1. 1 \in Nat /\ 1 <= 1
  OBVIOUS
<1>2. Part(c, Join(s, t), 1, 1)
  BY <1>1, JoinPart
<1>3. Range(Join(s, t)) = Range(s) \cup Range(t)
  BY JoinFacts DEF Part
<1> QED BY <1>2, <1>3

LEMMA Join22 ==
  ASSUME NEW c, NEW s, NEW t, Part(c, s, 2, 2), Part(c, t, 2, 2)
  PROVE  Part(c, Join(s, t), 2, 2) /\ Range(Join(s, t)) = Range(s) \cup Range(t)
<1>1. 2 \in Nat /\ 2 <= 2
  OBVIOUS
<1>2. Part(c, Join(s, t), 2, 2)
  BY <1>1, JoinPart
<1>3. Range(Join(s, t)) = Range(s) \cup Range(t)
  BY JoinFacts DEF Part
<1> QED BY <1>2, <1>3

LEMMA Join12 ==
  ASSUME NEW c, NEW s, NEW t, Part(c, s, 1, 1) \/ Part(c, s, 1, 2), Part(c, t, 2, 2)
  PROVE  Part(c, Join(s, t), 1, 2) /\ Range(Join(s, t)) = Range(s) \cup Range(t)
<1>1. 1 \in Nat /\ 2 \in Nat /\ 1 <= 1 /\ 1 <= 2 /\ 2 <= 2
  OBVIOUS
<1>2. ASSUME Part(c, s, 1, 1)
      PROVE  Part(c, Join(s, t), 1, 2)
  BY <1>1, <1>2, JoinPart
<1>3. ASSUME Part(c, s, 1, 2)
      PROVE  Part(c, Join(s, t), 1, 2)
  BY <1>1, <1>3, JoinPart
<1>4. Range(Join(s, t)) = Range(s) \cup Range(t)
  BY JoinFacts DEF Part
<1> QED BY <1>2, <1>3, <1>4

LEMMA InstallPart ==
  ASSUME NEW c, NEW unit, NEW data, NEW target \in LinkDirs
  PROVE  Part(c, Install(unit, data, target), 1, 1)
<1> DEFINE p == UnitFile(unit)
           w == Wants(target, unit)
           x == WriteOp(p, data)
           y == LinkOp(w, p)
<1>1. p[1] = UnitDir /\ w[1] = target /\ UnitDir \in WriteDirs /\ p # Nftables
  BY DEF UnitFile, Wants, UnitDir, WriteDirs, Nftables
<1>2. p \notin HardeningFiles
  BY DEF UnitFile, HardeningFiles, SysctlHardening, SysctlLock, Journald, TeeModules
<1>3. LinkPath(w) /\ w[1] # UnitDir
  BY <1>1 DEF LinkPath, LinkDirs, UnitDir, LocalFs, MultiUser, NetworkOnline
<1>4. Install(unit, data, target) = Join(x, y)
  BY DEF Install, Enable, Join
<1>0. 1 \in {1, 2} /\ 1 # 2 /\ p[1] \in WriteDirs
  BY <1>1
<1> HIDE DEF p, w
<1>5. Part(c, x, 1, 1)
  BY <1>0, <1>1, <1>2, EarlyWrite
<1>6. Part(c, y, 1, 1)
  BY <1>0, <1>3, LinkPart
<1> QED BY <1>4, <1>5, <1>6, Join11

(* The pieces that are one list's.                                         *)
LEMMA MapPart ==
  ASSUME NEW c, NEW f, NEW n \in Nat, NEW a \in Nat, f = [i \in 1 .. n |-> f[i]],
         \A i \in 1 .. n : Part(c, f[i], a, a)
  PROVE  /\ Part(c, FlattenSeq(f), a, a)
         /\ Range(FlattenSeq(f)) = UNION {Range(f[i]) : i \in 1 .. n}
<1>1. Lists(f) /\ Len(f) = n
  BY FunIsSeq
<1>2. DOMAIN f = 1 .. n
  BY <1>1, SeqFacts
<1> QED BY <1>1, <1>2, FlattenPart

LEMMA VerityPart ==
  ASSUME NEW c \in Configs
  PROVE  Part(c, ForEach(c.disks, LAMBDA d : Install(Service("verity-" \o d), d, LocalFs)), 1, 1)
<1> DEFINE f == [i \in 1 .. Len(c.disks) |->
                   Install(Service("verity-" \o c.disks[i]), c.disks[i], LocalFs)]
<1>1. Len(c.disks) \in Nat
  BY ListsAssumption, SeqFacts
<1>2. LocalFs \in LinkDirs
  BY DEF LinkDirs
<1>3. \A i \in 1 .. Len(c.disks) : Part(c, f[i], 1, 1)
  BY <1>2, InstallPart
<1>4. f = [i \in 1 .. Len(c.disks) |-> f[i]] /\ 1 \in Nat
  OBVIOUS
<1>5. ForEach(c.disks, LAMBDA d : Install(Service("verity-" \o d), d, LocalFs)) = FlattenSeq(f)
  BY DEF ForEach
<1> HIDE DEF f
<1> QED BY <1>1, <1>3, <1>4, <1>5, MapPart

LEMMA UnitsPart ==
  ASSUME NEW c \in Configs
  PROVE  Part(c, ForEach(c.units, LAMBDA u : Install(Service(u.name), u.name, MultiUser)), 1, 1)
<1> DEFINE f == [i \in 1 .. Len(c.units) |->
                   Install(Service(c.units[i].name), c.units[i].name, MultiUser)]
<1>1. Len(c.units) \in Nat
  BY ListsAssumption, SeqFacts
<1>2. MultiUser \in LinkDirs
  BY DEF LinkDirs
<1>3. \A i \in 1 .. Len(c.units) : Part(c, f[i], 1, 1)
  BY <1>2, InstallPart
<1>4. f = [i \in 1 .. Len(c.units) |-> f[i]] /\ 1 \in Nat
  OBVIOUS
<1>5. ForEach(c.units, LAMBDA u : Install(Service(u.name), u.name, MultiUser)) = FlattenSeq(f)
  BY DEF ForEach
<1> HIDE DEF f
<1> QED BY <1>1, <1>3, <1>4, <1>5, MapPart

LEMMA MountsPart ==
  ASSUME NEW c \in Configs
  PROVE  Part(c, ForEach(c.mounts, LAMBDA m : Install(m \o ".mount", m, MultiUser)), 1, 1)
<1> DEFINE f == [i \in 1 .. Len(c.mounts) |->
                   Install(c.mounts[i] \o ".mount", c.mounts[i], MultiUser)]
<1>1. Len(c.mounts) \in Nat
  BY ListsAssumption, SeqFacts
<1>2. MultiUser \in LinkDirs
  BY DEF LinkDirs
<1>3. \A i \in 1 .. Len(c.mounts) : Part(c, f[i], 1, 1)
  BY <1>2, InstallPart
<1>4. f = [i \in 1 .. Len(c.mounts) |-> f[i]] /\ 1 \in Nat
  OBVIOUS
<1>5. ForEach(c.mounts, LAMBDA m : Install(m \o ".mount", m, MultiUser)) = FlattenSeq(f)
  BY DEF ForEach
<1> HIDE DEF f
<1> QED BY <1>1, <1>3, <1>4, <1>5, MapPart

(* The link that masks a unit.                                             *)
MaskLink(m) == [op |-> "symlink", path |-> UnitFile(m), to |-> DevNull]

LEMMA MasksPart ==
  ASSUME NEW c
  PROVE  /\ Part(c, ForEach(MaskedUnits, Mask), 2, 2)
         /\ \A m \in Range(MaskedUnits) : MaskLink(m) \in Range(ForEach(MaskedUnits, Mask))
<1> DEFINE n == Len(MaskedUnits)
           f == [i \in 1 .. n |-> Mask(MaskedUnits[i])]
<1>1. n = 5 /\ DOMAIN MaskedUnits = 1 .. 5
  BY DEF MaskedUnits
<1>2. n \in Nat /\ DOMAIN MaskedUnits = 1 .. n
  BY <1>1
<1>3. ForEach(MaskedUnits, Mask) = FlattenSeq(f)
  BY DEF ForEach
<1> HIDE DEF n
<1>4. 2 \in {1, 2} /\ 2 \in Nat
  OBVIOUS
<1>5. ASSUME NEW i \in 1 .. n
      PROVE  Part(c, f[i], 2, 2) /\ MaskLink(MaskedUnits[i]) \in Range(f[i])
  <2>1. MaskedUnits[i] \in Range(MaskedUnits)
    BY <1>2 DEF Range
  <2> DEFINE p == UnitFile(MaskedUnits[i])
  <2>2. p[1] = UnitDir
    BY DEF UnitFile, UnitDir
  <2>3. LinkPath(p)
    BY <2>1, <2>2 DEF LinkPath
  <2>4. f[i] = LinkOp(p, DevNull) /\ MaskLink(MaskedUnits[i]) = [op |-> "symlink", path |-> p, to |-> DevNull]
    BY DEF Mask, MaskLink
  <2> HIDE DEF p, f
  <2> QED BY <1>4, <2>3, <2>4, LinkPart
<1>6. f = [i \in 1 .. n |-> f[i]]
  OBVIOUS
<1> HIDE DEF f
<1>7. Part(c, FlattenSeq(f), 2, 2) /\ Range(FlattenSeq(f)) = UNION {Range(f[i]) : i \in 1 .. n}
  BY <1>2, <1>4, <1>5, <1>6, MapPart
<1>8. ASSUME NEW m \in Range(MaskedUnits)
      PROVE  MaskLink(m) \in Range(FlattenSeq(f))
  <2>1. PICK i \in 1 .. n : m = MaskedUnits[i]
    BY <1>2 DEF Range
  <2> QED BY <1>5, <1>7, <2>1
<1> QED BY <1>3, <1>7, <1>8

LEMMA WhenPart ==
  ASSUME NEW c, NEW b, NEW s, NEW x, NEW y, Part(c, s, x, y)
  PROVE  Part(c, When(b, s), x, y)
BY EmptyPart DEF When

(* The writes of apply_services that are not of a unit.                    *)
LEMMA PlainWrites ==
  ASSUME NEW c, NEW data
  PROVE  /\ Part(c, WriteOp(<<"usr/local/lib/cvmbuild", "verity-activate.py">>, data), 1, 1)
         /\ Part(c, WriteOp(<<"etc", "fstab">>, data), 1, 1)
         /\ data = NftablesConf(c) => Part(c, WriteOp(Nftables, data), 1, 1)
         /\ Part(c, WriteOp(<<"etc/systemd/network", "80-dhcp.network">>, data), 1, 1)
         /\ Part(c, WriteOp(<<"etc", "resolv.conf">>, data), 1, 1)
         /\ Part(c, WriteOp(<<"etc/sysctl.d", "99-cvm.conf">>, data), 1, 1)
         /\ data # "volatile" => Part(c, WriteOp(Journald, data), 1, 1)
<1>0. 1 \in {1, 2} /\ 1 # 2
  OBVIOUS
<1>1. ASSUME NEW p, p[1] \in WriteDirs, p \notin HardeningFiles,
             p = Nftables => data = NftablesConf(c)
      PROVE  Part(c, WriteOp(p, data), 1, 1)
  BY <1>0, <1>1, EarlyWrite
<1>2. ASSUME NEW x, NEW y, x \in WriteDirs, <<x, y>> \notin HardeningFiles,
             y = "nftables.conf" => data = NftablesConf(c)
      PROVE  Part(c, WriteOp(<<x, y>>, data), 1, 1)
  <2> DEFINE p == <<x, y>>
  <2>1. p[1] \in WriteDirs /\ p \notin HardeningFiles /\ (p = Nftables => data = NftablesConf(c))
    BY <1>2 DEF Nftables
  <2> HIDE DEF p
  <2>2. Part(c, WriteOp(p, data), 1, 1)
    BY <1>1, <2>1
  <2> QED BY <2>2 DEF p
<1>3. /\ <<"usr/local/lib/cvmbuild", "verity-activate.py">> \notin HardeningFiles
      /\ <<"etc", "fstab">> \notin HardeningFiles /\ <<"etc", "nftables.conf">> \notin HardeningFiles
      /\ <<"etc/systemd/network", "80-dhcp.network">> \notin HardeningFiles
      /\ <<"etc", "resolv.conf">> \notin HardeningFiles
      /\ <<"etc/sysctl.d", "99-cvm.conf">> \notin HardeningFiles
  BY DEF HardeningFiles, SysctlHardening, SysctlLock, Journald, TeeModules
<1>4. /\ "usr/local/lib/cvmbuild" \in WriteDirs /\ "etc" \in WriteDirs
      /\ "etc/systemd/network" \in WriteDirs /\ "etc/sysctl.d" \in WriteDirs
      /\ "etc/systemd/journald.conf.d" \in WriteDirs
  BY DEF WriteDirs
<1>5. Part(c, WriteOp(<<"usr/local/lib/cvmbuild", "verity-activate.py">>, data), 1, 1)
  BY <1>2, <1>3, <1>4
<1>6. Part(c, WriteOp(<<"etc", "fstab">>, data), 1, 1)
  BY <1>2, <1>3, <1>4
<1>7. data = NftablesConf(c) => Part(c, WriteOp(Nftables, data), 1, 1)
  BY <1>2, <1>3, <1>4 DEF Nftables
<1>8. Part(c, WriteOp(<<"etc/systemd/network", "80-dhcp.network">>, data), 1, 1)
  BY <1>2, <1>3, <1>4
<1>9. Part(c, WriteOp(<<"etc", "resolv.conf">>, data), 1, 1)
  BY <1>2, <1>3, <1>4
<1>10. Part(c, WriteOp(<<"etc/sysctl.d", "99-cvm.conf">>, data), 1, 1)
  BY <1>2, <1>3, <1>4
<1>11. ASSUME data # "volatile" PROVE Part(c, WriteOp(Journald, data), 1, 1)
  <2>1. Journald[1] \in WriteDirs /\ Journald # Nftables
    BY <1>4 DEF Journald, Nftables
  <2> QED BY <1>0, <1>11, <2>1, EarlyWrite
<1> QED BY <1>5, <1>6, <1>7, <1>8, <1>9, <1>10, <1>11

(* The writes and links that follow the masks.                             *)
LEMMA LastServices ==
  ASSUME NEW c, NEW data, NEW unit, NEW target \in {MultiUser, NetworkOnline}
  PROVE  /\ Part(c, EnableSystem(unit, target), 2, 2)
         /\ Part(c, WriteOp(<<"etc/systemd/system/nftables.service.d", "after-modules.conf">>, data), 2, 2)
         /\ Part(c, WriteOp(<<"etc/modules-load.d", "nftables.conf">>, data), 2, 2)
         /\ Part(c, WriteOp(<<"etc/udev/rules.d", "99-z-cvmbuild-verity.rules">>, data), 2, 2)
<1>0. 2 \in {1, 2}
  OBVIOUS
<1>1. Part(c, EnableSystem(unit, target), 2, 2)
  <2> DEFINE p == Wants(target, unit)
  <2>1. p[1] = target
    BY DEF Wants
  <2>2. LinkPath(p)
    BY <2>1 DEF LinkPath, LinkDirs
  <2> HIDE DEF p
  <2>3. Part(c, LinkOp(p, <<"usr/lib/systemd/system", unit>>), 2, 2)
    BY <1>0, <2>2, LinkPart
  <2> QED BY <2>3 DEF EnableSystem, p
<1>2. ASSUME NEW x, NEW y, x \in WriteDirs, x # UnitDir, x # "etc", <<x, y>> \notin HardeningFiles
      PROVE  Part(c, WriteOp(<<x, y>>, data), 2, 2)
  <2> DEFINE p == <<x, y>>
  <2>1. p[1] \in WriteDirs /\ p \notin HardeningFiles /\ p[1] # UnitDir /\ p # Nftables
    BY <1>2 DEF Nftables
  <2> HIDE DEF p
  <2>2. Part(c, WriteOp(p, data), 2, 2)
    BY <1>0, <2>1, EarlyWrite
  <2> QED BY <2>2 DEF p
<1>3. /\ <<"etc/systemd/system/nftables.service.d", "after-modules.conf">> \notin HardeningFiles
      /\ <<"etc/modules-load.d", "nftables.conf">> \notin HardeningFiles
      /\ <<"etc/udev/rules.d", "99-z-cvmbuild-verity.rules">> \notin HardeningFiles
  BY DEF HardeningFiles, SysctlHardening, SysctlLock, Journald, TeeModules
<1>4. /\ "etc/systemd/system/nftables.service.d" \in WriteDirs \ {UnitDir}
      /\ "etc/modules-load.d" \in WriteDirs \ {UnitDir}
      /\ "etc/udev/rules.d" \in WriteDirs \ {UnitDir}
  BY DEF WriteDirs, UnitDir
<1>5. Part(c, WriteOp(<<"etc/systemd/system/nftables.service.d", "after-modules.conf">>, data), 2, 2)
  BY <1>2, <1>3, <1>4
<1>6. Part(c, WriteOp(<<"etc/modules-load.d", "nftables.conf">>, data), 2, 2)
  BY <1>2, <1>3, <1>4
<1>7. Part(c, WriteOp(<<"etc/udev/rules.d", "99-z-cvmbuild-verity.rules">>, data), 2, 2)
  BY <1>2, <1>3, <1>4
<1> QED BY <1>1, <1>5, <1>6, <1>7

LEMMA ServicesPart ==
  ASSUME NEW c \in Configs
  PROVE  /\ Part(c, ApplyServices(c), 1, 2)
         /\ \A m \in Range(MaskedUnits) : MaskLink(m) \in Range(ApplyServices(c))
         /\ \E o \in Range(ApplyServices(c)) : o.op = "write" /\ o.path = Nftables
<1> DEFINE
      q1  == When(c.lock, Install("lock-modules.service", "lock", MultiUser))
      q2  == When(c.disks # <<>>,
                  WriteOp(<<"usr/local/lib/cvmbuild", "verity-activate.py">>, c.disks))
      q3  == ForEach(c.disks, LAMBDA d : Install(Service("verity-" \o d), d, LocalFs))
      g   == <<"etc/systemd/system-generators", "systemd-veritysetup-generator">>
      q4  == When(c.verity, LinkOp(g, DevNull))
      q5  == ForEach(c.units, LAMBDA u : Install(Service(u.name), u.name, MultiUser))
      q6  == ForEach(c.mounts, LAMBDA m : Install(m \o ".mount", m, MultiUser))
      q7  == WriteOp(<<"etc", "fstab">>, "fstab")
      q8  == WriteOp(Nftables, NftablesConf(c))
      q9  == WriteOp(<<"etc/systemd/network", "80-dhcp.network">>, "dhcp")
      q10 == WriteOp(<<"etc", "resolv.conf">>, "public dns")
      q11 == WriteOp(Journald, "runtime limits")
      q12 == WriteOp(<<"etc/sysctl.d", "99-cvm.conf">>, "sysctl")
      q13 == Check("accounts")
      q14 == ForEach(MaskedUnits, Mask)
      q15 == EnableSystem("systemd-networkd.service", MultiUser)
      q16 == EnableSystem("systemd-networkd-wait-online.service", NetworkOnline)
      n1  == EnableSystem("nftables.service", MultiUser)
      n2  == WriteOp(<<"etc/systemd/system/nftables.service.d", "after-modules.conf">>, "after")
      n3  == WriteOp(<<"etc/modules-load.d", "nftables.conf">>, "modules")
      n   == Join(Join(n1, n2), n3)
      q17 == When(NftablesOn(c), n)
      q18 == When(c.disks # <<>>,
                  WriteOp(<<"etc/udev/rules.d", "99-z-cvmbuild-verity.rules">>, c.disks))
      j2  == Join(q1, q2)
      j3  == Join(j2, q3)
      j4  == Join(j3, q4)
      j5  == Join(j4, q5)
      j6  == Join(j5, q6)
      j7  == Join(j6, q7)
      j8  == Join(j7, q8)
      j9  == Join(j8, q9)
      j10 == Join(j9, q10)
      j11 == Join(j10, q11)
      j12 == Join(j11, q12)
      j13 == Join(j12, q13)
      j14 == Join(j13, q14)
      j15 == Join(j14, q15)
      j16 == Join(j15, q16)
      j17 == Join(j16, q17)
      j18 == Join(j17, q18)
<1>0. ApplyServices(c) = j18
  BY DEF ApplyServices, Join, ForEach, ResolvConf
<1>1. Part(c, q1, 1, 1)
  <2>1. MultiUser \in LinkDirs
    BY DEF LinkDirs
  <2>2. Part(c, Install("lock-modules.service", "lock", MultiUser), 1, 1)
    BY <2>1, InstallPart
  <2> QED BY <2>2, WhenPart
<1>2. Part(c, q2, 1, 1)
  <2>1. Part(c, WriteOp(<<"usr/local/lib/cvmbuild", "verity-activate.py">>, c.disks), 1, 1)
    BY PlainWrites
  <2> QED BY <2>1, WhenPart
<1>3. Part(c, q3, 1, 1)
  BY VerityPart
<1>4. Part(c, q4, 1, 1)
  <2>1. LinkPath(g) /\ g[1] # UnitDir
    BY DEF LinkPath, LinkDirs, UnitDir
  <2>2. 1 \in {1, 2}
    OBVIOUS
  <2> HIDE DEF g
  <2>3. Part(c, LinkOp(g, DevNull), 1, 1)
    BY <2>1, <2>2, LinkPart
  <2> QED BY <2>3, WhenPart
<1>5. Part(c, q5, 1, 1)
  BY UnitsPart
<1>6. Part(c, q6, 1, 1)
  BY MountsPart
<1>7. Part(c, q7, 1, 1) /\ Part(c, q9, 1, 1) /\ Part(c, q10, 1, 1) /\ Part(c, q12, 1, 1)
  BY PlainWrites
<1>8. Part(c, q8, 1, 1) /\ \E o \in Range(q8) : o.op = "write" /\ o.path = Nftables
  <2>1. Part(c, q8, 1, 1)
    BY PlainWrites
  <2> DEFINE o == [op |-> "write", path |-> Nftables, data |-> NftablesConf(c)]
  <2>2. o.op = "write" /\ o.path = Nftables /\ q8 = <<o>>
    BY DEF WriteOp
  <2> HIDE DEF o, q8
  <2>3. o \in Range(q8)
    BY <2>2, OneFacts
  <2> QED BY <2>1, <2>2, <2>3
<1>9. Part(c, q11, 1, 1)
  <2>1. "runtime limits" # "volatile"
    OBVIOUS
  <2> QED BY <2>1, PlainWrites
<1>10. Part(c, q13, 1, 1)
  <2>1. "accounts" \in Checks /\ 1 \in Nat
    BY DEF Checks
  <2>2. \A o : o.op = "accounts" => 1 <= Latest(o) /\ Earliest(o) <= 1
    BY DEF Earliest, Latest
  <2> QED BY <2>1, <2>2, CheckPart
<1>11. Part(c, q14, 2, 2) /\ \A m \in Range(MaskedUnits) : MaskLink(m) \in Range(q14)
  BY MasksPart
<1>12. MultiUser \in {MultiUser, NetworkOnline} /\ NetworkOnline \in {MultiUser, NetworkOnline}
  OBVIOUS
<1>13. Part(c, q15, 2, 2) /\ Part(c, q16, 2, 2)
  BY <1>12, LastServices
<1>14. Part(c, q17, 2, 2)
  <2>1. Part(c, n1, 2, 2) /\ Part(c, n2, 2, 2) /\ Part(c, n3, 2, 2)
    BY <1>12, LastServices
  <2> HIDE DEF n1, n2, n3
  <2>2. Part(c, Join(n1, n2), 2, 2)
    BY <2>1, Join22
  <2>3. Part(c, n, 2, 2)
    BY <2>1, <2>2, Join22
  <2> QED BY <2>3, WhenPart
<1>15. Part(c, q18, 2, 2)
  <2>1. Part(c, WriteOp(<<"etc/udev/rules.d", "99-z-cvmbuild-verity.rules">>, c.disks), 2, 2)
    BY <1>12, LastServices
  <2> QED BY <2>1, WhenPart
<1> HIDE DEF q1, q2, q3, q4, q5, q6, q7, q8, q9, q10, q11, q12, q13, q14, q15, q16, q17, q18
<1>j2. Part(c, j2, 1, 1)
  BY <1>1, <1>2, Join11
<1> HIDE DEF j2
<1>j3. Part(c, j3, 1, 1)
  BY <1>j2, <1>3, Join11
<1> HIDE DEF j3
<1>j4. Part(c, j4, 1, 1)
  BY <1>j3, <1>4, Join11
<1> HIDE DEF j4
<1>j5. Part(c, j5, 1, 1)
  BY <1>j4, <1>5, Join11
<1> HIDE DEF j5
<1>j6. Part(c, j6, 1, 1)
  BY <1>j5, <1>6, Join11
<1> HIDE DEF j6
<1>j7. Part(c, j7, 1, 1)
  BY <1>j6, <1>7, Join11
<1> HIDE DEF j7
<1>j8. Part(c, j8, 1, 1) /\ Range(q8) \subseteq Range(j8)
  BY <1>j7, <1>8, Join11
<1> HIDE DEF j8
<1>j9. Part(c, j9, 1, 1) /\ Range(j8) \subseteq Range(j9)
  BY <1>j8, <1>7, Join11
<1> HIDE DEF j9
<1>j10. Part(c, j10, 1, 1) /\ Range(j9) \subseteq Range(j10)
  BY <1>j9, <1>7, Join11
<1> HIDE DEF j10
<1>j11. Part(c, j11, 1, 1) /\ Range(j10) \subseteq Range(j11)
  BY <1>j10, <1>9, Join11
<1> HIDE DEF j11
<1>j12. Part(c, j12, 1, 1) /\ Range(j11) \subseteq Range(j12)
  BY <1>j11, <1>7, Join11
<1> HIDE DEF j12
<1>j13. Part(c, j13, 1, 1) /\ Range(j12) \subseteq Range(j13)
  BY <1>j12, <1>10, Join11
<1> HIDE DEF j13
<1>j14. Part(c, j14, 1, 2) /\ Range(q14) \subseteq Range(j14) /\ Range(j13) \subseteq Range(j14)
  BY <1>j13, <1>11, Join12
<1> HIDE DEF j14
<1>j15. Part(c, j15, 1, 2) /\ Range(j14) \subseteq Range(j15)
  BY <1>j14, <1>13, Join12
<1> HIDE DEF j15
<1>j16. Part(c, j16, 1, 2) /\ Range(j15) \subseteq Range(j16)
  BY <1>j15, <1>13, Join12
<1> HIDE DEF j16
<1>j17. Part(c, j17, 1, 2) /\ Range(j16) \subseteq Range(j17)
  BY <1>j16, <1>14, Join12
<1> HIDE DEF j17
<1>j18. Part(c, j18, 1, 2) /\ Range(j17) \subseteq Range(j18)
  BY <1>j17, <1>15, Join12
<1> HIDE DEF j18
<1>16. Range(q8) \subseteq Range(j18)
  BY <1>j8, <1>j9, <1>j10, <1>j11, <1>j12, <1>j13, <1>j14, <1>j15, <1>j16, <1>j17, <1>j18
<1> QED BY <1>0, <1>8, <1>11, <1>16, <1>j14, <1>j15, <1>j16, <1>j17, <1>j18, SMTT(60)

(* The lists that are operations one by one.                               *)
LEMMA ListPart ==
  ASSUME NEW c, NEW f, NEW n \in Nat, NEW a \in Nat, f = [i \in 1 .. n |-> f[i]],
         \A i \in 1 .. n : /\ PlanOp(c, f[i]) /\ f[i].op \notin {"unlink", "symlink"}
                           /\ a <= Latest(f[i]) /\ Earliest(f[i]) <= a
  PROVE  Part(c, f, a, a) /\ \A i \in 1 .. n : f[i] \in Range(f)
<1>1. Lists(f) /\ Len(f) = n
  BY FunIsSeq
<1>2. DOMAIN f = 1 .. n
  BY <1>1, SeqFacts
<1>3. Paired(f)
  BY <1>2 DEF Paired
<1>4. \A o \in Range(f) : PlanOp(c, o) /\ a <= Latest(o) /\ Earliest(o) <= a
  BY <1>2 DEF Range
<1> QED BY <1>1, <1>2, <1>3, <1>4, PhasePart DEF Range

LEMMA OverlayPart ==
  ASSUME NEW c \in Configs
  PROVE  Part(c, Overlay(c), 0, 0)
<1> DEFINE n == Len(c.overlay)
           f == Overlay(c)
<1>1. n \in Nat /\ DOMAIN c.overlay = 1 .. n
  BY ListsAssumption, SeqFacts
<1>2. ASSUME NEW i \in 1 .. n
      PROVE  f[i].op = "copy" /\ f[i].suid \in BOOLEAN
  <2>1. c.overlay[i] \in Range(c.overlay)
    BY <1>1 DEF Range
  <2>2. c.overlay[i].suid \in BOOLEAN
    BY <2>1, ListsAssumption
  <2>3. f[i] = [op |-> "copy", path |-> c.overlay[i].path, data |-> c.overlay[i].data,
                suid |-> c.overlay[i].suid]
    BY DEF Overlay
  <2> QED BY <2>2, <2>3
<1>3. f = [i \in 1 .. n |-> f[i]] /\ 0 \in Nat
  BY DEF Overlay
<1> HIDE DEF f, n
<1>4. ASSUME NEW i \in 1 .. n
      PROVE  /\ PlanOp(c, f[i]) /\ f[i].op \notin {"unlink", "symlink"}
             /\ 0 <= Latest(f[i]) /\ Earliest(f[i]) <= 0
  BY <1>2 DEF PlanOp, Earliest, Latest
<1>5. Part(c, f, 0, 0)
  BY <1>1, <1>3, <1>4, ListPart
<1> QED BY <1>5 DEF f

LEMMA VerifyPart ==
  ASSUME NEW c \in Configs
  PROVE  /\ Part(c, VerifyBinaryHashes(c), 3, 3)
         /\ \A i \in 1 .. Len(c.verify) : \E o \in Range(VerifyBinaryHashes(c)) :
              o.op = "verify" /\ o.path = c.verify[i].path /\ o.data = c.verify[i].data
<1> DEFINE n == Len(c.verify)
           f == VerifyBinaryHashes(c)
<1>1. n \in Nat
  BY ListsAssumption, SeqFacts
<1>2. ASSUME NEW i \in 1 .. n
      PROVE  f[i].op = "verify" /\ f[i].path = c.verify[i].path /\ f[i].data = c.verify[i].data
  <2>1. f[i] = [op |-> "verify", path |-> c.verify[i].path, data |-> c.verify[i].data]
    BY DEF VerifyBinaryHashes
  <2> QED BY <2>1
<1>3. f = [i \in 1 .. n |-> f[i]] /\ 3 \in Nat
  BY DEF VerifyBinaryHashes
<1> HIDE DEF f
<1>4. ASSUME NEW i \in 1 .. n
      PROVE  /\ PlanOp(c, f[i]) /\ f[i].op \notin {"unlink", "symlink"}
             /\ 3 <= Latest(f[i]) /\ Earliest(f[i]) <= 3
  BY <1>2 DEF PlanOp, Earliest, Latest
<1> HIDE DEF n
<1>5. Part(c, f, 3, 3) /\ \A i \in 1 .. n : f[i] \in Range(f)
  BY <1>1, <1>3, <1>4, ListPart
<1> QED BY <1>2, <1>5 DEF f, n

LEMMA RemoveDirsPart ==
  ASSUME NEW c \in Configs
  PROVE  /\ Part(c, RemoveDirectories(c), 6, 6)
         /\ \A d \in Range(c.removeDirs) : \E o \in Range(RemoveDirectories(c)) :
              o.op = "remove-dir" /\ o.path[1] = d
<1> DEFINE n == Len(c.removeDirs)
           f == RemoveDirectories(c)
<1>1. n \in Nat /\ DOMAIN c.removeDirs = 1 .. n
  BY ListsAssumption, SeqFacts
<1>2. ASSUME NEW i \in 1 .. n
      PROVE  /\ f[i].op = "remove-dir" /\ f[i].path[1] = c.removeDirs[i]
             /\ f[i].path[1] \in Range(c.removeDirs)
  <2>1. c.removeDirs[i] \in Range(c.removeDirs)
    BY <1>1 DEF Range
  <2>2. f[i] = [op |-> "remove-dir", path |-> <<c.removeDirs[i], ".">>]
    BY DEF RemoveDirectories
  <2>3. f[i].op = "remove-dir" /\ f[i].path = <<c.removeDirs[i], ".">>
    BY <2>2
  <2> QED BY <2>1, <2>3
<1>3. f = [i \in 1 .. n |-> f[i]] /\ 6 \in Nat
  BY DEF RemoveDirectories
<1> HIDE DEF f, n
<1>4. ASSUME NEW i \in 1 .. n
      PROVE  /\ PlanOp(c, f[i]) /\ f[i].op \notin {"unlink", "symlink"}
             /\ 6 <= Latest(f[i]) /\ Earliest(f[i]) <= 6
  BY <1>2 DEF PlanOp, Earliest, Latest
<1>5. Part(c, f, 6, 6) /\ \A i \in 1 .. n : f[i] \in Range(f)
  BY <1>1, <1>3, <1>4, ListPart
<1>6. ASSUME NEW d \in Range(c.removeDirs)
      PROVE  \E o \in Range(f) : o.op = "remove-dir" /\ o.path[1] = d
  <2>1. PICK i \in 1 .. n : d = c.removeDirs[i]
    BY <1>1 DEF Range
  <2> QED BY <1>2, <1>5, <2>1
<1> QED BY <1>5, <1>6 DEF f

LEMMA RemovePart ==
  ASSUME NEW c \in Configs
  PROVE  /\ Part(c, RemoveBinaries(c), 5, 5)
         /\ \A b \in Range(c.remove), d \in Range(SearchPaths) :
              [op |-> "remove", path |-> <<d, b>>] \in Range(RemoveBinaries(c))
<1> DEFINE n    == Len(c.remove)
           l    == Len(SearchPaths)
           h(b) == [j \in 1 .. l |-> [op |-> "remove", path |-> <<SearchPaths[j], b>>]]
           f    == [i \in 1 .. n |-> h(c.remove[i])]
<1>1. n \in Nat /\ DOMAIN c.remove = 1 .. n
  BY ListsAssumption, SeqFacts
<1>2. l = 5 /\ DOMAIN SearchPaths = 1 .. 5
  BY DEF SearchPaths
<1>3. l \in Nat /\ DOMAIN SearchPaths = 1 .. l /\ 5 \in Nat
  BY <1>2
<1>4. RemoveBinaries(c) = FlattenSeq(f)
  BY DEF RemoveBinaries, ForEach
<1> HIDE DEF n, l
<1>5. ASSUME NEW i \in 1 .. n
      PROVE  /\ Part(c, f[i], 5, 5)
             /\ \A d \in Range(SearchPaths) :
                  [op |-> "remove", path |-> <<d, c.remove[i]>>] \in Range(f[i])
  <2> DEFINE b == c.remove[i]
             e == h(b)
  <2>1. b \in Range(c.remove)
    BY <1>1 DEF Range
  <2>2. f[i] = e
    OBVIOUS
  <2> HIDE DEF b, f
  <2>3. ASSUME NEW j \in 1 .. l
        PROVE  e[j] = [op |-> "remove", path |-> <<SearchPaths[j], b>>]
    OBVIOUS
  <2>4. ASSUME NEW j \in 1 .. l
        PROVE  /\ e[j].op = "remove" /\ e[j].path[1] \in Range(SearchPaths)
               /\ e[j].path[2] \in Range(c.remove)
    <3>1. e[j].op = "remove" /\ e[j].path = <<SearchPaths[j], b>>
      BY <2>3
    <3>2. SearchPaths[j] \in Range(SearchPaths)
      BY <1>3 DEF Range
    <3> QED BY <2>1, <3>1, <3>2
  <2>5. e = [j \in 1 .. l |-> e[j]]
    OBVIOUS
  <2> HIDE DEF e
  <2>6. ASSUME NEW j \in 1 .. l
        PROVE  /\ PlanOp(c, e[j]) /\ e[j].op \notin {"unlink", "symlink"}
               /\ 5 <= Latest(e[j]) /\ Earliest(e[j]) <= 5
    BY <2>4 DEF PlanOp, Earliest, Latest
  <2>7. Part(c, e, 5, 5) /\ \A j \in 1 .. l : e[j] \in Range(e)
    BY <1>3, <2>5, <2>6, ListPart
  <2>8. ASSUME NEW d \in Range(SearchPaths)
        PROVE  [op |-> "remove", path |-> <<d, b>>] \in Range(e)
    <3>1. PICK j \in 1 .. l : d = SearchPaths[j]
      BY <1>3 DEF Range
    <3> QED BY <2>3, <2>7, <3>1
  <2> QED BY <2>2, <2>7, <2>8 DEF b
<1>6. f = [i \in 1 .. n |-> f[i]]
  OBVIOUS
<1> HIDE DEF f
<1>7. Part(c, FlattenSeq(f), 5, 5) /\ Range(FlattenSeq(f)) = UNION {Range(f[i]) : i \in 1 .. n}
  BY <1>1, <1>3, <1>5, <1>6, MapPart, ZenonT(60)
<1>8. ASSUME NEW b \in Range(c.remove), NEW d \in Range(SearchPaths)
      PROVE  [op |-> "remove", path |-> <<d, b>>] \in Range(FlattenSeq(f))
  <2>1. PICK i \in 1 .. n : b = c.remove[i]
    BY <1>1 DEF Range
  <2>2. [op |-> "remove", path |-> <<d, b>>] \in Range(f[i])
    BY <1>5, <2>1
  <2> QED BY <1>7, <2>2
<1> QED BY <1>4, <1>7, <1>8

LEMMA HardeningPart ==
  ASSUME NEW c
  PROVE  Part(c, ApplyHardening(c), 10, 10)
<1> DEFINE q1 == WriteOp(SysctlHardening, "hardening")
           q2 == When(c.lock, WriteOp(SysctlLock, "lock"))
           q3 == WriteOp(Journald, "volatile")
           q4 == Check("validate-nftables")
<1>0. ApplyHardening(c) = Join(Join(Join(q1, q2), q3), q4)
  BY DEF ApplyHardening, Join
<1>1. /\ SysctlHardening[1] \in WriteDirs /\ SysctlHardening \in HardeningFiles
      /\ SysctlLock[1] \in WriteDirs /\ SysctlLock \in HardeningFiles
      /\ Journald[1] \in WriteDirs /\ Journald \in HardeningFiles
  BY DEF SysctlHardening, SysctlLock, Journald, WriteDirs, HardeningFiles
<1>2. SysctlHardening # Journald /\ SysctlLock # Journald
  BY DEF SysctlHardening, SysctlLock, Journald
<1>3. Part(c, q1, 10, 10)
  BY <1>1, <1>2, LateWrite
<1>4. Part(c, q2, 10, 10)
  <2>1. Part(c, WriteOp(SysctlLock, "lock"), 10, 10)
    BY <1>1, <1>2, LateWrite
  <2> QED BY <2>1, WhenPart
<1>5. Part(c, q3, 10, 10)
  BY <1>1, LateWrite
<1>6. Part(c, q4, 10, 10)
  <2>1. "validate-nftables" \in Checks /\ 10 \in Nat
    BY DEF Checks
  <2>2. ASSUME NEW o, o.op = "validate-nftables"
        PROVE  10 <= Latest(o) /\ Earliest(o) <= 10
    <3>1. Earliest(o) = 10
      BY <2>2 DEF Earliest
    <3>2. Latest(o) = Earliest(o)
      BY <2>2 DEF Latest
    <3>3. 10 <= 10
      OBVIOUS
    <3> QED BY <3>1, <3>2, <3>3, Zenon
  <2> QED BY <2>1, <2>2, CheckPart
<1> HIDE DEF q1, q2, q3, q4
<1>7. ASSUME NEW s, NEW t, Part(c, s, 10, 10), Part(c, t, 10, 10)
      PROVE  Part(c, Join(s, t), 10, 10)
  <2>1. 10 \in Nat /\ 10 <= 10
    OBVIOUS
  <2> QED BY <1>7, <2>1, JoinPart
<1> QED BY <1>0, <1>3, <1>4, <1>5, <1>6, <1>7

(* A check of a phase.                                                     *)
LEMMA ChecksPart ==
  ASSUME NEW c
  PROVE  /\ Part(c, Check("audit"), 4, 4) /\ Part(c, Check("zero-shell"), 7, 7)
         /\ Part(c, Check("strip-suid"), 8, 8) /\ Part(c, Check("shells"), 9, 9)
         /\ \E o \in Range(Check("strip-suid")) : o.op = "strip-suid"
         /\ \E o \in Range(Check("shells")) : o.op = "shells"
<1>1. Checks = {"accounts", "audit", "zero-shell", "strip-suid", "shells", "validate-nftables"}
      /\ 4 \in Nat /\ 7 \in Nat /\ 8 \in Nat /\ 9 \in Nat
  BY DEF Checks
<1>2. \A o : o.op = "audit" => 4 <= Latest(o) /\ Earliest(o) <= 4
  <2> SUFFICES ASSUME NEW o, o.op = "audit" PROVE 4 <= Latest(o) /\ Earliest(o) <= 4
    OBVIOUS
  <2>1. Earliest(o) = 4
    BY DEF Earliest
  <2>2. Latest(o) = Earliest(o)
    BY DEF Latest
  <2>3. 4 <= 4
    OBVIOUS
  <2> QED BY <2>1, <2>2, <2>3, Zenon
<1>3. \A o : o.op = "zero-shell" => 7 <= Latest(o) /\ Earliest(o) <= 7
  <2> SUFFICES ASSUME NEW o, o.op = "zero-shell" PROVE 7 <= Latest(o) /\ Earliest(o) <= 7
    OBVIOUS
  <2>1. Earliest(o) = 7
    BY DEF Earliest
  <2>2. Latest(o) = Earliest(o)
    BY DEF Latest
  <2>3. 7 <= 7
    OBVIOUS
  <2> QED BY <2>1, <2>2, <2>3, Zenon
<1>4. \A o : o.op = "strip-suid" => 8 <= Latest(o) /\ Earliest(o) <= 8
  <2> SUFFICES ASSUME NEW o, o.op = "strip-suid" PROVE 8 <= Latest(o) /\ Earliest(o) <= 8
    OBVIOUS
  <2>1. Earliest(o) = 8
    BY DEF Earliest
  <2>2. Latest(o) = Earliest(o)
    BY DEF Latest
  <2>3. 8 <= 8
    OBVIOUS
  <2> QED BY <2>1, <2>2, <2>3, Zenon
<1>5. \A o : o.op = "shells" => 9 <= Latest(o) /\ Earliest(o) <= 9
  <2> SUFFICES ASSUME NEW o, o.op = "shells" PROVE 9 <= Latest(o) /\ Earliest(o) <= 9
    OBVIOUS
  <2>1. Earliest(o) = 9
    BY DEF Earliest
  <2>2. Latest(o) = Earliest(o)
    BY DEF Latest
  <2>3. 9 <= 9
    OBVIOUS
  <2> QED BY <2>1, <2>2, <2>3, Zenon
<1>6. Part(c, Check("audit"), 4, 4)
  BY <1>1, <1>2, CheckPart
<1>7. Part(c, Check("zero-shell"), 7, 7)
  BY <1>1, <1>3, CheckPart
<1>8. Part(c, Check("strip-suid"), 8, 8) /\ \E o \in Range(Check("strip-suid")) : o.op = "strip-suid"
  BY <1>1, <1>4, CheckPart
<1>9. Part(c, Check("shells"), 9, 9) /\ \E o \in Range(Check("shells")) : o.op = "shells"
  BY <1>1, <1>5, CheckPart
<1> QED BY <1>6, <1>7, <1>8, <1>9

LEMMA JoinRange ==
  ASSUME NEW c, NEW s, NEW t, NEW a, NEW b, NEW d, NEW e, Part(c, s, a, b), Part(c, t, d, e)
  PROVE  Range(s) \subseteq Range(Join(s, t)) /\ Range(t) \subseteq Range(Join(s, t))
<1>1. Range(Join(s, t)) = Range(s) \cup Range(t)
  BY JoinFacts DEF Part
<1> QED BY <1>1

(* What the proofs below use of a plan.                                    *)
PlanShape(c, s) ==
  /\ Part(c, s, 0, 10)
  /\ \A m \in Range(MaskedUnits) : MaskLink(m) \in Range(s)
  /\ \E o \in Range(s) : o.op = "write" /\ o.path = Nftables
  /\ \A i \in 1 .. Len(c.verify) : \E o \in Range(s) :
       o.op = "verify" /\ o.path = c.verify[i].path /\ o.data = c.verify[i].data
  /\ \A b \in Range(c.remove), d \in Range(SearchPaths) :
       [op |-> "remove", path |-> <<d, b>>] \in Range(s)
  /\ \A d \in Range(c.removeDirs) : \E o \in Range(s) : o.op = "remove-dir" /\ o.path[1] = d
  /\ \E o \in Range(s) : o.op = "strip-suid"
  /\ \E o \in Range(s) : o.op = "shells"

LEMMA PlanShapes ==
  ASSUME NEW c \in Configs
  PROVE  PlanShape(c, Plan(c))
<1> DEFINE q1  == Overlay(c)
           q2  == ApplyServices(c)
           q3  == VerifyBinaryHashes(c)
           q4  == Check("audit")
           q5  == RemoveBinaries(c)
           q6  == RemoveDirectories(c)
           q7  == Check("zero-shell")
           q8  == Check("strip-suid")
           q9  == Check("shells")
           q10 == WriteOp(TeeModules, "tee")
           q11 == ApplyHardening(c)
           j2  == Join(q1, q2)
           j3  == Join(j2, q3)
           j4  == Join(j3, q4)
           j5  == Join(j4, q5)
           j6  == Join(j5, q6)
           j7  == Join(j6, q7)
           j8  == Join(j7, q8)
           j9  == Join(j8, q9)
           j10 == Join(j9, q10)
           j11 == Join(j10, q11)
<1>0. Plan(c) = j11
  BY DEF Plan, Join
<1>1. Part(c, q1, 0, 0)
  BY OverlayPart
<1>2. /\ Part(c, q2, 1, 2) /\ \A m \in Range(MaskedUnits) : MaskLink(m) \in Range(q2)
      /\ \E o \in Range(q2) : o.op = "write" /\ o.path = Nftables
  BY ServicesPart
<1>3. /\ Part(c, q3, 3, 3)
      /\ \A i \in 1 .. Len(c.verify) : \E o \in Range(q3) :
           o.op = "verify" /\ o.path = c.verify[i].path /\ o.data = c.verify[i].data
  BY VerifyPart
<1>4. /\ Part(c, q5, 5, 5)
      /\ \A b \in Range(c.remove), d \in Range(SearchPaths) :
           [op |-> "remove", path |-> <<d, b>>] \in Range(q5)
  BY RemovePart
<1>5. /\ Part(c, q6, 6, 6)
      /\ \A d \in Range(c.removeDirs) : \E o \in Range(q6) :
           o.op = "remove-dir" /\ o.path[1] = d
  BY RemoveDirsPart
<1>6. /\ Part(c, q4, 4, 4) /\ Part(c, q7, 7, 7) /\ Part(c, q8, 8, 8) /\ Part(c, q9, 9, 9)
      /\ \E o \in Range(q8) : o.op = "strip-suid"
      /\ \E o \in Range(q9) : o.op = "shells"
  BY ChecksPart
<1>12. Part(c, q4, 4, 4) /\ Part(c, q7, 7, 7) /\ Part(c, q8, 8, 8) /\ Part(c, q9, 9, 9)
  BY <1>6
<1>7. Part(c, q10, 10, 10)
  <2>1. TeeModules[1] \in WriteDirs /\ TeeModules \in HardeningFiles /\ TeeModules # Journald
    BY DEF TeeModules, WriteDirs, HardeningFiles, Journald
  <2> QED BY <2>1, LateWrite
<1>8. Part(c, q11, 10, 10)
  BY HardeningPart
<1> HIDE DEF q1, q2, q3, q4, q5, q6, q7, q8, q9, q10, q11
<1>9. ASSUME NEW a \in 0 .. 10, NEW b \in 0 .. 10, NEW d \in 0 .. 10, NEW s, NEW t,
             a <= b, b <= d, Part(c, s, 0, a), Part(c, t, b, d)
      PROVE  Part(c, Join(s, t), 0, d) /\ Range(s) \subseteq Range(Join(s, t))
             /\ Range(t) \subseteq Range(Join(s, t))
  <2>1. 0 \in Nat /\ a \in Nat /\ b \in Nat /\ d \in Nat /\ 0 <= a
    OBVIOUS
  <2>2. Part(c, Join(s, t), 0, d)
    BY <1>9, <2>1, JoinPart
  <2> QED BY <1>9, <2>2, JoinRange
<1>j2. Part(c, j2, 0, 2) /\ Range(q2) \subseteq Range(j2)
  BY <1>1, <1>2, <1>9
<1> HIDE DEF j2
<1>j3. Part(c, j3, 0, 3) /\ Range(j2) \subseteq Range(j3) /\ Range(q3) \subseteq Range(j3)
  BY <1>j2, <1>3, <1>9
<1> HIDE DEF j3
<1>j4. Part(c, j4, 0, 4) /\ Range(j3) \subseteq Range(j4)
  BY <1>j3, <1>12, <1>9
<1> HIDE DEF j4
<1>j5. Part(c, j5, 0, 5) /\ Range(j4) \subseteq Range(j5) /\ Range(q5) \subseteq Range(j5)
  BY <1>j4, <1>4, <1>9
<1> HIDE DEF j5
<1>j6. Part(c, j6, 0, 6) /\ Range(j5) \subseteq Range(j6) /\ Range(q6) \subseteq Range(j6)
  BY <1>j5, <1>5, <1>9
<1> HIDE DEF j6
<1>j7. Part(c, j7, 0, 7) /\ Range(j6) \subseteq Range(j7)
  BY <1>j6, <1>12, <1>9
<1> HIDE DEF j7
<1>j8. Part(c, j8, 0, 8) /\ Range(j7) \subseteq Range(j8) /\ Range(q8) \subseteq Range(j8)
  BY <1>j7, <1>12, <1>9
<1> HIDE DEF j8
<1>j9. Part(c, j9, 0, 9) /\ Range(j8) \subseteq Range(j9) /\ Range(q9) \subseteq Range(j9)
  BY <1>j8, <1>12, <1>9
<1> HIDE DEF j9
<1>j10. Part(c, j10, 0, 10) /\ Range(j9) \subseteq Range(j10)
  BY <1>j9, <1>7, <1>9
<1> HIDE DEF j10
<1>j11. Part(c, j11, 0, 10) /\ Range(j10) \subseteq Range(j11)
  BY <1>j10, <1>8, <1>9
<1> HIDE DEF j11
<1>10. /\ Range(q2) \subseteq Range(j11) /\ Range(q3) \subseteq Range(j11)
       /\ Range(q5) \subseteq Range(j11) /\ Range(q6) \subseteq Range(j11)
       /\ Range(q8) \subseteq Range(j11) /\ Range(q9) \subseteq Range(j11)
  BY <1>j2, <1>j3, <1>j4, <1>j5, <1>j6, <1>j7, <1>j8, <1>j9, <1>j10, <1>j11
<1>11. PlanShape(c, j11)
  BY <1>2, <1>3, <1>4, <1>5, <1>6, <1>10, <1>j11 DEF PlanShape
<1> QED BY <1>0, <1>11

-----------------------------------------------------------------------------
(* The tree and the host between two operations.                           *)
TreeTypes == DOMAIN tree = Paths /\ \A p \in Paths : Node(tree[p])
HostTypes == DOMAIN host = HostPaths /\ \A h \in HostPaths : HostNode(host[h])

(* A plan makes a link at p, to to.                                        *)
PlanLink(p, to) ==
  \E o \in UNION {Range(Plans[c]) : c \in Configs} :
    o.op = "symlink" /\ o.path = p /\ o.to = to

(* The links of a tree are the image's or a plan's.                        *)
TreeLinks ==
  \A p \in Paths : tree[p].kind = "link" =>
    \/ BaseIs(p, "link") /\ tree[p] = BaseTree[p]
    \/ tree[p].abs /\ PlanLink(p, tree[p].to)

Counters ==
  /\ status \in {"idle", "running", "applied", "failed"}
  /\ at \in 1..(Len(Plans[cfg]) + 1)
  /\ applied \in Configs \cup {None}
  /\ applies \in 0..MaxApplies /\ faults \in 0..MaxFaults

NoSuid   == \A p \in Paths : tree[p].kind = "file" => ~tree[p].suid
NoLogins == \A e \in passwd : ~e.login

Holds(p, data) == tree[p].kind = "file" /\ tree[p].data = data

Sealed(p, data) ==
  (~OnHost(p) /\ Target(p) \notin LateFiles /\ ~Removed(p) /\ ~Removed(Target(p))) =>
    Holds(Target(p), data)

(* Nothing is left in the directory but what the last stage writes.        *)
Emptied(dir) == \A p \in Paths : Below(dir, p) => tree[p] = Missing \/ p \in LateFiles

IsPut(o) == o.op \in {"write", "symlink"}

(* Operation i is the last to put anything where it does.                  *)
IsLast(s, i) ==
  IsPut(s[i]) /\ \A j \in DOMAIN s : (IsPut(s[j]) /\ s[j].path = s[i].path) => j <= i

InPlace(o) ==
  (~Removed(o.path) /\ ~Removed(Target(o.path))) =>
    IF o.op = "symlink" THEN tree[o.path].kind = "link" /\ tree[o.path].to = o.to
    ELSE IF OnHost(o.path) THEN BaseLink(o.path, TRUE)
    ELSE Holds(Target(o.path), o.data)

(* What operation i has done that no later one undoes.                     *)
Done(s, i) ==
  /\ s[i].op = "strip-suid" => NoSuid
  /\ s[i].op = "shells" => NoLogins
  /\ s[i].op = "remove" => ~Exists(s[i].path)
  /\ s[i].op = "remove-dir" => Emptied(s[i].path[1])
  /\ s[i].op = "verify" => Sealed(s[i].path, s[i].data)
  /\ IsLast(s, i) => InPlace(s[i])

Progress ==
  /\ status \in {"running", "applied"} =>
       \A i \in DOMAIN Plans[cfg] : i < at => Done(Plans[cfg], i)
  /\ status = "applied" => at > Len(Plans[cfg])

ApplyInv == TreeTypes /\ HostTypes /\ TreeLinks /\ Counters /\ Progress

-----------------------------------------------------------------------------
LEMMA PlanIs ==
  ASSUME NEW c \in Configs
  PROVE  /\ PlanShape(c, Plans[c]) /\ Part(c, Plans[c], 0, 10)
         /\ Len(Plans[c]) \in Nat /\ DOMAIN Plans[c] = 1 .. Len(Plans[c])
<1>1. Plans[c] = Plan(c)
  BY DEF Plans
<1>2. PlanShape(c, Plans[c])
  BY <1>1, PlanShapes
<1>3. Part(c, Plans[c], 0, 10)
  BY <1>2 DEF PlanShape
<1>4. Lists(Plans[c])
  BY <1>3 DEF Part
<1> QED BY <1>2, <1>3, <1>4, SeqFacts

LEMMA OpFacts ==
  ASSUME NEW c \in Configs, NEW i \in DOMAIN Plans[c], NEW kinds
  PROVE  /\ PlanOp(c, Plans[c][i])
         /\ Plans[c][i].op \in kinds => Plans[c][i].path \in PathsOf(kinds)
<1>1. Plans[c][i] \in Range(Plans[c])
  BY DEF Range
<1>2. PlanOp(c, Plans[c][i])
  BY <1>1, PlanIs DEF Part
<1>3. Plans[c][i] \in UNION {Range(Plans[d]) : d \in Configs}
  BY <1>1
<1>4. ASSUME Plans[c][i].op \in kinds
      PROVE  Plans[c][i].path \in PathsOf(kinds)
  BY <1>3, <1>4 DEF PathsOf
<1> QED BY <1>2, <1>4

PathKinds == {"copy", "write", "unlink", "symlink", "verify", "remove", "remove-dir"}

LEMMA OpPath ==
  ASSUME NEW c \in Configs, NEW i \in DOMAIN Plans[c], Plans[c][i].op \in PathKinds
  PROVE  Plans[c][i].path \in Paths
<1>1. Plans[c][i].path \in PathsOf(PathKinds)
  BY OpFacts
<1> QED BY <1>1 DEF Paths, PathKinds

LEMMA BasePaths == DOMAIN BaseTree \subseteq Paths
BY DEF Paths

LEMMA WritePathKind ==
  ASSUME NEW p \in PathsOf({"write"})
  PROVE  p[1] \in WriteDirs
<1>1. PICK o \in UNION {Range(Plans[c]) : c \in Configs} : o.op \in {"write"} /\ p = o.path
  BY DEF PathsOf
<1>2. PICK c \in Configs : o \in Range(Plans[c])
  BY <1>1
<1>3. PlanOp(c, o)
  BY <1>2, PlanIs DEF Part
<1> QED BY <1>1, <1>3 DEF PlanOp, Checks

(* The directories of the plans.                                           *)
LEMMA Disjoint ==
  /\ WriteDirs \cap LinkDirs = {} /\ UnitDir \in WriteDirs
  /\ Range(SearchPaths) \cap WriteDirs = {} /\ Range(SearchPaths) \cap LinkDirs = {}
  /\ \A p \in HardeningFiles : p[1] \in WriteDirs /\ p[1] # UnitDir
<1>1. Range(SearchPaths) = {"bin", "usr/bin", "usr/sbin", "sbin", "usr/local/bin"}
  <2>1. DOMAIN SearchPaths = {1, 2, 3, 4, 5}
    BY DEF SearchPaths
  <2>2. /\ SearchPaths[1] = "bin" /\ SearchPaths[2] = "usr/bin" /\ SearchPaths[3] = "usr/sbin"
        /\ SearchPaths[4] = "sbin" /\ SearchPaths[5] = "usr/local/bin"
    BY DEF SearchPaths
  <2> QED BY <2>1, <2>2 DEF Range
<1>2. WriteDirs \cap LinkDirs = {} /\ UnitDir \in WriteDirs
  BY DEF WriteDirs, LinkDirs, UnitDir, LocalFs, MultiUser, NetworkOnline
<1>3. Range(SearchPaths) \cap WriteDirs = {}
  BY <1>1 DEF WriteDirs, UnitDir
<1>4. Range(SearchPaths) \cap LinkDirs = {}
  BY <1>1 DEF LinkDirs, LocalFs, MultiUser, NetworkOnline
<1>5. \A p \in HardeningFiles : p[1] \in WriteDirs /\ p[1] # UnitDir
  <2>1. /\ SysctlHardening[1] = "etc/sysctl.d" /\ SysctlLock[1] = "etc/sysctl.d"
        /\ Journald[1] = "etc/systemd/journald.conf.d" /\ TeeModules[1] = "etc/modules-load.d"
    BY DEF SysctlHardening, SysctlLock, Journald, TeeModules
  <2> QED BY <2>1 DEF HardeningFiles, WriteDirs, UnitDir
<1> QED BY <1>2, <1>3, <1>4, <1>5

LEMMA NodeKinds ==
  ASSUME NEW x, Node(x)
  PROVE  /\ x.kind \in {"missing", "file", "link", "dir"}
         /\ x = Missing <=> x.kind = "missing"
<1>1. Missing.kind = "missing"
  BY DEF Missing
<1> QED BY <1>1 DEF Node

LEMMA NewNodes ==
  /\ Node(Missing) /\ Missing.kind = "missing"
  /\ \A data : Node(File(data)) /\ File(data).kind = "file" /\ File(data).data = data
               /\ ~File(data).suid /\ File(data).suid \in BOOLEAN
  /\ \A to : Node(Link(to)) /\ Link(to).kind = "link" /\ Link(to).abs /\ Link(to).to = to
<1>1. Node(Missing) /\ Missing.kind = "missing"
  BY DEF Node, Missing
<1>2. ASSUME NEW data
      PROVE  Node(File(data)) /\ File(data).kind = "file" /\ File(data).data = data
             /\ ~File(data).suid /\ File(data).suid \in BOOLEAN
  <2> DEFINE x == File(data)
  <2>1. x.kind = "file" /\ x.data = data /\ x.suid = FALSE /\ DOMAIN x = {"kind", "data", "suid"}
    BY DEF File
  <2> HIDE DEF x
  <2>2. Node(x)
    BY <2>1 DEF Node
  <2> QED BY <2>1, <2>2 DEF x
<1>3. ASSUME NEW to
      PROVE  Node(Link(to)) /\ Link(to).kind = "link" /\ Link(to).abs /\ Link(to).to = to
  <2> DEFINE x == Link(to)
  <2>1. x.kind = "link" /\ x.to = to /\ x.abs = TRUE /\ DOMAIN x = {"kind", "to", "abs"}
    BY DEF Link
  <2> HIDE DEF x
  <2>2. Node(x)
    BY <2>1 DEF Node
  <2> QED BY <2>1, <2>2 DEF x
<1> QED BY <1>1, <1>2, <1>3

(* A file with new content or mode.                                        *)
LEMMA NewData ==
  ASSUME NEW x, Node(x), x.kind = "file", NEW data
  PROVE  LET y == [x EXCEPT !.data = data] IN
         Node(y) /\ y.kind = "file" /\ y.data = data /\ y.suid = x.suid /\ y.suid \in BOOLEAN
<1> DEFINE y == [x EXCEPT !.data = data]
<1>1. DOMAIN x = {"kind", "data", "suid"} /\ x.suid \in BOOLEAN
  BY DEF Node, Missing
<1>2. DOMAIN y = {"kind", "data", "suid"} /\ y.kind = "file" /\ y.data = data /\ y.suid = x.suid
  BY <1>1
<1> HIDE DEF y
<1>3. Node(y)
  BY <1>1, <1>2 DEF Node
<1> QED BY <1>1, <1>2, <1>3 DEF y

LEMMA NewMode ==
  ASSUME NEW x, Node(x), x.kind = "file", NEW b \in BOOLEAN
  PROVE  LET y == [x EXCEPT !.suid = b] IN
         Node(y) /\ y.kind = "file" /\ y.data = x.data /\ y.suid = b
<1> DEFINE y == [x EXCEPT !.suid = b]
<1>1. DOMAIN x = {"kind", "data", "suid"}
  BY DEF Node, Missing
<1>2. DOMAIN y = {"kind", "data", "suid"} /\ y.kind = "file" /\ y.data = x.data /\ y.suid = b
  BY <1>1
<1> HIDE DEF y
<1>3. Node(y)
  BY <1>2 DEF Node
<1> QED BY <1>2, <1>3 DEF y

(* Where the plans write and make links.                                   *)
LEMMA SymlinkPathKind ==
  ASSUME NEW p \in PathsOf({"symlink"})
  PROVE  LinkPath(p)
<1>1. PICK o \in UNION {Range(Plans[c]) : c \in Configs} : o.op \in {"symlink"} /\ p = o.path
  BY DEF PathsOf
<1>2. PICK c \in Configs : o \in Range(Plans[c])
  BY <1>1
<1>3. PlanOp(c, o)
  BY <1>2, PlanIs DEF Part
<1> QED BY <1>1, <1>3 DEF PlanOp, Checks

LEMMA PlanLinkPath ==
  ASSUME NEW p, NEW to, PlanLink(p, to)
  PROVE  p \in PathsOf({"symlink"}) /\ LinkPath(p)
<1>1. p \in PathsOf({"symlink"})
  BY DEF PlanLink, PathsOf
<1> QED BY <1>1, SymlinkPathKind

LEMMA BaseEnds ==
  ASSUME NEW p \in Paths
  PROVE  /\ BaseEnd(p) \in Paths
         /\ BaseEnd(p) # p => /\ BaseLink(p, FALSE) /\ BaseEnd(p) = BaseTree[p].to
                              /\ ~BaseIs(BaseEnd(p), "link") /\ BaseEnd(BaseEnd(p)) = BaseEnd(p)
<1>1. CASE BaseLink(p, FALSE)
  <2>1. p \in DOMAIN BaseTree /\ BaseEnd(p) = BaseTree[p].to
    BY <1>1 DEF BaseLink, BaseIs, BaseEnd
  <2>2. BaseEnd(p) \in DOMAIN BaseTree
    BY <1>1, <2>1, TreeAssumption DEF BaseLink, BaseIs
  <2>3. ~BaseIs(BaseEnd(p), "link")
    BY <1>1, <2>1, LinksAssumption
  <2>4. BaseEnd(BaseEnd(p)) = BaseEnd(p)
    BY <2>3 DEF BaseEnd, BaseLink
  <2> QED BY <1>1, <2>1, <2>2, <2>3, <2>4, BasePaths
<1>2. CASE ~BaseLink(p, FALSE)
  BY <1>2 DEF BaseEnd
<1> QED BY <1>1, <1>2

(* Paths that do not end at the same file have no file in common.          *)
LEMMA Apart ==
  ASSUME NEW p \in Paths, NEW q \in Paths, p # q, BaseEnd(p) # BaseEnd(q)
  PROVE  {p, BaseEnd(p)} \cap {q, BaseEnd(q)} = {}
<1>1. p # BaseEnd(q)
  BY BaseEnds
<1>2. q # BaseEnd(p)
  BY BaseEnds
<1> QED BY <1>1, <1>2

(* Where the links of a tree are and lead.                                 *)
LEMMA LinkFacts ==
  ASSUME TreeTypes, TreeLinks, NEW p \in Paths, tree[p].kind = "link"
  PROVE  /\ ~OnHost(p) => /\ BaseLink(p, FALSE) /\ tree[p] = BaseTree[p]
                          /\ Target(p) = BaseEnd(p) /\ BaseEnd(p) # p
         /\ OnHost(p) => \/ BaseLink(p, TRUE) /\ tree[p] = BaseTree[p]
                         \/ PlanLink(p, tree[p].to)
<1>1. tree[p].abs \in BOOLEAN
  BY NewNodes DEF TreeTypes, Node
<1>2. ASSUME ~OnHost(p)
      PROVE  /\ BaseLink(p, FALSE) /\ tree[p] = BaseTree[p] /\ Target(p) = BaseEnd(p)
             /\ BaseEnd(p) # p
  <2>1. tree[p].abs = FALSE
    BY <1>1, <1>2 DEF OnHost
  <2>2. BaseIs(p, "link") /\ tree[p] = BaseTree[p]
    BY <2>1 DEF TreeLinks
  <2>3. BaseLink(p, FALSE)
    BY <2>1, <2>2 DEF BaseLink
  <2>4. Target(p) = BaseEnd(p)
    BY <2>2, <2>3 DEF Target, BaseEnd
  <2>5. p \in DOMAIN BaseTree /\ ~BaseIs(BaseEnd(p), "link")
    BY <2>2, <2>3, LinksAssumption DEF BaseIs
  <2> QED BY <2>2, <2>3, <2>4, <2>5
<1>3. ASSUME OnHost(p)
      PROVE  (BaseLink(p, TRUE) /\ tree[p] = BaseTree[p]) \/ PlanLink(p, tree[p].to)
  <2>1. tree[p].abs = TRUE
    BY <1>1, <1>3 DEF OnHost
  <2> QED BY <2>1 DEF TreeLinks, BaseLink
<1> QED BY <1>2, <1>3

LEMMA TargetFacts ==
  ASSUME TreeTypes, TreeLinks, NEW p \in Paths, ~OnHost(p)
  PROVE  /\ Target(p) \in Paths /\ Target(p) \in {p, BaseEnd(p)}
         /\ tree[p].kind # "link" => Target(p) = p
<1>1. CASE tree[p].kind = "link"
  BY <1>1, LinkFacts, BaseEnds
<1>2. CASE tree[p].kind # "link"
  BY <1>2 DEF Target
<1> QED BY <1>1, <1>2

-----------------------------------------------------------------------------
(* What an operation does to the tree and to the host.                     *)
Changed(o, q) ==
  \/ tree'[q] = tree[q]
  \/ o.op = "copy" /\ Touches(o, q) /\ tree'[q].kind = "file"
  \/ /\ o.op = "write" /\ Touches(o, q)
     /\ tree'[q].kind = "file"
     /\ tree'[q].suid => tree[q].kind = "file" /\ tree[q].suid
  \/ o.op \in {"unlink", "remove"} /\ q = o.path /\ tree[q].kind # "dir" /\ tree'[q] = Missing
  \/ o.op = "symlink" /\ q = o.path /\ tree[q] = Missing /\ tree'[q] = Link(o.to)
  \/ o.op = "remove-dir" /\ Below(o.path[1], q) /\ tree'[q] = Missing
  \/ /\ o.op = "strip-suid" /\ tree[q].kind = "file" /\ tree'[q].kind = "file"
     /\ tree'[q].data = tree[q].data /\ ~tree'[q].suid

HostChanged(o) ==
  \A h \in HostPaths :
    \/ host'[h] = host[h]
    \/ o.op \in {"copy", "write"} /\ OnHost(o.path) /\ h = tree[o.path].to

Frame(o) == TreeTypes' /\ HostTypes' /\ HostChanged(o) /\ \A q \in Paths : Changed(o, q)

(* The apply is at operation i, which is o, of its plan s.                 *)
Context(s, i, o) ==
  /\ cfg \in Configs /\ status = "running"
  /\ s = Plans[cfg] /\ i = at /\ i \in DOMAIN s /\ o = s[i]

LEMMA ContextFacts ==
  ASSUME NEW s, NEW i, NEW o, Context(s, i, o)
  PROVE  /\ Part(cfg, s, 0, 10) /\ PlanOp(cfg, o)
         /\ o.op \in PathKinds => o.path \in Paths
         /\ o.op = "write" => o.path \in PathsOf({"write"})
         /\ Op = o
<1>1. cfg \in Configs /\ s = Plans[cfg] /\ i \in DOMAIN Plans[cfg] /\ o = Plans[cfg][i] /\ i = at
  BY DEF Context
<1>2. PlanOp(cfg, o) /\ (o.op \in {"write"} => o.path \in PathsOf({"write"}))
  BY <1>1, OpFacts
<1>3. Part(cfg, s, 0, 10)
  BY <1>1, PlanIs
<1>4. o.op \in PathKinds => o.path \in Paths
  BY <1>1, OpPath
<1> QED BY <1>1, <1>2, <1>3, <1>4 DEF Op

LEMMA OneChange ==
  ASSUME TreeTypes, NEW p \in Paths, NEW x, Node(x), tree' = [tree EXCEPT ![p] = x]
  PROVE  TreeTypes' /\ tree'[p] = x /\ \A q \in Paths : q # p => tree'[q] = tree[q]
<1>1. DOMAIN tree = Paths
  BY DEF TreeTypes
<1>2. DOMAIN tree' = Paths /\ tree'[p] = x /\ \A q \in Paths : q # p => tree'[q] = tree[q]
  BY <1>1
<1>3. \A q \in Paths : Node(tree'[q])
  BY <1>2 DEF TreeTypes
<1> QED BY <1>2, <1>3 DEF TreeTypes

LEMMA SameHost ==
  ASSUME HostTypes, UNCHANGED host
  PROVE  HostTypes' /\ \A o : HostChanged(o)
BY DEF HostTypes, HostChanged

LEMMA NoChange ==
  ASSUME TreeTypes, HostTypes, UNCHANGED <<tree, host>>, NEW o
  PROVE  Frame(o)
<1>1. HostTypes' /\ HostChanged(o)
  BY SameHost
<1> QED BY <1>1 DEF Frame, Changed, TreeTypes

(* What is written on the host.                                            *)
LEMMA HostFacts ==
  ASSUME HostTypes, NEW p, NEW data, Takes(p), host' = HostWritten(p, data)
  PROVE  /\ HostTypes'
         /\ \A h \in HostPaths : host'[h] = host[h] \/ (OnHost(p) /\ h = tree[p].to)
<1>1. CASE ~OnHost(p)
  <2>1. UNCHANGED host
    BY <1>1 DEF HostWritten
  <2> QED BY <2>1 DEF HostTypes
<1>2. CASE OnHost(p)
  <2> DEFINE t == tree[p].to
             x == IF host[t].kind = "device" THEN host[t] ELSE File(data)
  <2>1. t \in HostPaths
    BY <1>2, HostAssumption DEF Takes
  <2>2. HostNode(host[t])
    BY <2>1 DEF HostTypes
  <2>3. host' = [host EXCEPT ![t] = x]
    BY <1>2 DEF HostWritten
  <2>4. HostNode(x)
    <3>1. File(data).kind = "file" /\ DOMAIN File(data) = {"kind", "data", "suid"}
      BY DEF File
    <3>2. HostNode(File(data))
      BY <3>1 DEF HostNode
    <3> QED BY <2>2, <3>2
  <2> HIDE DEF t, x
  <2>5. DOMAIN host' = HostPaths /\ host'[t] = x
        /\ \A h \in HostPaths : h # t => host'[h] = host[h]
    BY <2>1, <2>3 DEF HostTypes
  <2>6. \A h \in HostPaths : HostNode(host'[h])
    BY <2>4, <2>5 DEF HostTypes
  <2> QED BY <1>2, <2>5, <2>6 DEF HostTypes, t
<1> QED BY <1>1, <1>2

(* A new file at the end of p.                                             *)
LEMMA FileAtEnd ==
  ASSUME TreeTypes, TreeLinks, NEW p \in Paths, ~OnHost(p), NEW x, Node(x), x.kind = "file",
         tree' = [tree EXCEPT ![Target(p)] = x]
  PROVE  /\ TreeTypes' /\ tree'[Target(p)] = x
         /\ \A q \in Paths : q # Target(p) => tree'[q] = tree[q]
         /\ ~OnHost(p)' /\ Target(p)' = Target(p)
<1> DEFINE t == Target(p)
<1>1. t \in Paths
  BY TargetFacts
<1>2. tree' = [tree EXCEPT ![t] = x]
  OBVIOUS
<1>3. tree[p].kind # "link" => t = p
  BY TargetFacts
<1>4. tree[p].kind = "link" => t # p /\ t = tree[p].to /\ ~tree[p].abs
  BY LinkFacts DEF OnHost, Target
<1> HIDE DEF t
<1>5. TreeTypes' /\ tree'[t] = x /\ \A q \in Paths : q # t => tree'[q] = tree[q]
  BY <1>1, <1>2, OneChange
<1>6. CASE tree[p].kind = "link"
  <2>1. tree'[p] = tree[p]
    BY <1>4, <1>5, <1>6
  <2>2. ~OnHost(p)' /\ Target(p)' = t
    BY <1>4, <1>6, <2>1 DEF OnHost, Target
  <2> QED BY <1>5, <2>2 DEF t
<1>7. CASE tree[p].kind # "link"
  <2>1. tree'[p].kind = "file"
    BY <1>3, <1>5, <1>7
  <2>2. ~OnHost(p)' /\ Target(p)' = t
    BY <1>3, <1>7, <2>1 DEF OnHost, Target
  <2> QED BY <1>5, <2>2 DEF t
<1> QED BY <1>6, <1>7

(* A file that is written, or left truncated.                              *)
LEMMA WrittenFacts ==
  ASSUME TreeTypes, TreeLinks, NEW p \in Paths, NEW data, tree' = Written(p, data), ~OnHost(p)
  PROVE  /\ TreeTypes' /\ ~OnHost(p)' /\ Target(p)' = Target(p)
         /\ tree'[Target(p)].kind = "file" /\ tree'[Target(p)].data = data
         /\ tree'[Target(p)].suid => tree[Target(p)].kind = "file" /\ tree[Target(p)].suid
         /\ \A q \in Paths : q # Target(p) => tree'[q] = tree[q]
<1> DEFINE t == Target(p)
           x == IF tree[t].kind = "file" THEN [tree[t] EXCEPT !.data = data] ELSE File(data)
<1>1. t \in Paths
  BY TargetFacts
<1>2. tree' = [tree EXCEPT ![t] = x]
  BY DEF Written
<1>3. Node(tree[t])
  BY <1>1 DEF TreeTypes
<1>4. /\ Node(x) /\ x.kind = "file" /\ x.data = data
      /\ x.suid => tree[t].kind = "file" /\ tree[t].suid
  <2>1. CASE tree[t].kind = "file"
    <3> DEFINE y == [tree[t] EXCEPT !.data = data]
    <3>1. Node(y) /\ y.kind = "file" /\ y.data = data /\ y.suid = tree[t].suid
      BY <1>3, <2>1, NewData
    <3>2. x = y
      BY <2>1
    <3> HIDE DEF x, y, t
    <3> QED BY <2>1, <3>1, <3>2
  <2>2. CASE tree[t].kind # "file"
    <3>1. x = File(data)
      BY <2>2
    <3> HIDE DEF x, t
    <3> QED BY <3>1, NewNodes
  <2> QED BY <2>1, <2>2
<1> HIDE DEF x
<1>5. /\ TreeTypes' /\ tree'[t] = x /\ \A q \in Paths : q # t => tree'[q] = tree[q]
      /\ ~OnHost(p)' /\ Target(p)' = t
  BY <1>2, <1>4, FileAtEnd
<1> HIDE DEF t
<1>6. /\ tree'[t].kind = "file" /\ tree'[t].data = data
      /\ tree'[t].suid => tree[t].kind = "file" /\ tree[t].suid
  BY <1>4, <1>5
<1> QED BY <1>5, <1>6 DEF t

LEMMA EndTouched ==
  ASSUME TreeTypes, TreeLinks, NEW o, o.op \in {"copy", "write"}, o.path \in Paths, ~OnHost(o.path)
  PROVE  Touches(o, Target(o.path))
<1> DEFINE p == o.path
<1>1. p \in Paths /\ ~OnHost(p)
  OBVIOUS
<1> HIDE DEF p
<1>2. Target(p) \in {p, BaseEnd(p)}
  BY <1>1, TargetFacts
<1> QED BY <1>2 DEF Touches, p

LEMMA WriteFrame ==
  ASSUME TreeTypes, HostTypes, TreeLinks, NEW s, NEW i, NEW o, Context(s, i, o), o.op = "write",
         Takes(o.path), tree' = Written(o.path, o.data), host' = HostWritten(o.path, o.data)
  PROVE  /\ Frame(o)
         /\ OnHost(o.path) => UNCHANGED tree
         /\ ~OnHost(o.path) => /\ ~OnHost(o.path)' /\ Target(o.path)' = Target(o.path)
                               /\ Holds(Target(o.path), o.data)'
<1> DEFINE p == o.path
<1>1. p \in Paths
  BY ContextFacts DEF PathKinds
<1>0. HostTypes' /\ HostChanged(o)
  BY HostFacts DEF HostChanged
<1>2. CASE OnHost(p)
  <2>1. UNCHANGED tree
    BY <1>2 DEF Written
  <2> QED BY <1>0, <1>2, <2>1 DEF Frame, Changed, TreeTypes
<1>3. CASE ~OnHost(p)
  <2> DEFINE t == Target(p)
  <2>1. Touches(o, t)
    BY <1>1, <1>3, EndTouched
  <2>2. /\ TreeTypes' /\ ~OnHost(p)' /\ Target(p)' = t
        /\ tree'[t].kind = "file" /\ tree'[t].data = o.data
        /\ tree'[t].suid => tree[t].kind = "file" /\ tree[t].suid
        /\ \A q \in Paths : q # t => tree'[q] = tree[q]
    BY <1>1, <1>3, WrittenFacts
  <2>3. Holds(Target(p), o.data)'
    BY <2>2 DEF Holds
  <2> HIDE DEF t
  <2>4. \A q \in Paths : Changed(o, q)
    BY <2>1, <2>2 DEF Changed
  <2> QED BY <1>0, <1>3, <2>2, <2>3, <2>4 DEF Frame, t
<1> QED BY <1>2, <1>3

LEMMA CopyFrame ==
  ASSUME TreeTypes, HostTypes, TreeLinks, NEW s, NEW i, NEW o, Context(s, i, o), CopyOverlay
  PROVE  /\ Frame(o)
         /\ tree[o.path].kind # "link" =>
              tree'[o.path].kind = "file" /\ tree'[o.path].data = o.data
<1> DEFINE p == o.path
           t == Target(p)
           x == [File(o.data) EXCEPT !.suid = o.suid]
<1>0. o.op = "copy" /\ Op = o
  BY ContextFacts DEF CopyOverlay, At
<1>1. p \in Paths /\ o.suid \in BOOLEAN
  BY <1>0, ContextFacts DEF PathKinds, PlanOp, Checks
<1>2. tree' = IF OnHost(p) THEN tree ELSE [tree EXCEPT ![t] = x]
  BY <1>0 DEF CopyOverlay
<1>5. HostTypes' /\ HostChanged(o)
  <2>1. Takes(p) /\ host' = HostWritten(p, o.data)
    BY <1>0 DEF CopyOverlay
  <2> QED BY <1>0, <2>1, HostFacts DEF HostChanged
<1>3. CASE OnHost(p)
  BY <1>2, <1>3, <1>5 DEF OnHost, Frame, Changed, TreeTypes
<1>4. CASE ~OnHost(p)
  <2>1. Touches(o, t) /\ (tree[p].kind # "link" => t = p)
    BY <1>0, <1>1, <1>4, EndTouched, TargetFacts
  <2>2. Node(File(o.data)) /\ File(o.data).kind = "file" /\ File(o.data).data = o.data
    BY NewNodes
  <2>3. Node(x) /\ x.kind = "file" /\ x.data = o.data
    BY <1>1, <2>2, NewMode
  <2>4. tree' = [tree EXCEPT ![t] = x]
    BY <1>2, <1>4
  <2> HIDE DEF x
  <2>5. TreeTypes' /\ tree'[t] = x /\ \A q \in Paths : q # t => tree'[q] = tree[q]
    BY <1>1, <1>4, <2>3, <2>4, FileAtEnd
  <2> HIDE DEF t
  <2>6. \A q \in Paths : Changed(o, q)
    BY <1>0, <2>1, <2>3, <2>5 DEF Changed
  <2> QED BY <1>5, <2>1, <2>3, <2>5, <2>6 DEF Frame
<1> QED BY <1>3, <1>4

LEMMA UnlinkFrame ==
  ASSUME TreeTypes, HostTypes, NEW s, NEW i, NEW o, Context(s, i, o), Unlink
  PROVE  Frame(o) /\ tree'[o.path].kind \in {"missing", "dir"}
<1> DEFINE p == o.path
<1>0. o.op = "unlink" /\ Op = o
  BY ContextFacts DEF Unlink, At
<1>1. p \in Paths
  BY <1>0, ContextFacts DEF PathKinds
<1>2. tree' = [tree EXCEPT ![p] = IF tree[p].kind = "dir" THEN tree[p] ELSE Missing]
  BY <1>0 DEF Unlink
<1>5. HostTypes' /\ HostChanged(o)
  BY SameHost DEF Unlink
<1>3. CASE tree[p].kind = "dir"
  <2>1. tree' = [tree EXCEPT ![p] = tree[p]]
    BY <1>2, <1>3
  <2>2. Node(tree[p])
    BY <1>1 DEF TreeTypes
  <2>3. TreeTypes' /\ tree'[p] = tree[p] /\ \A q \in Paths : q # p => tree'[q] = tree[q]
    BY <1>1, <2>1, <2>2, OneChange
  <2> QED BY <1>3, <1>5, <2>3 DEF Frame, Changed
<1>4. CASE tree[p].kind # "dir"
  <2>1. tree' = [tree EXCEPT ![p] = Missing]
    BY <1>2, <1>4
  <2>2. TreeTypes' /\ tree'[p] = Missing /\ \A q \in Paths : q # p => tree'[q] = tree[q]
    BY <1>1, <2>1, NewNodes, OneChange
  <2> QED BY <1>0, <1>4, <1>5, <2>2, NewNodes DEF Frame, Changed
<1> QED BY <1>3, <1>4

LEMMA SymlinkFrame ==
  ASSUME TreeTypes, HostTypes, NEW s, NEW i, NEW o, Context(s, i, o), Symlink
  PROVE  Frame(o) /\ tree'[o.path] = Link(o.to)
<1> DEFINE p == o.path
<1>0. o.op = "symlink" /\ Op = o
  BY ContextFacts DEF Symlink, At
<1>1. p \in Paths
  BY <1>0, ContextFacts DEF PathKinds
<1>2. tree' = [tree EXCEPT ![p] = Link(o.to)] /\ tree[p] = Missing
  BY <1>0 DEF Symlink
<1>3. TreeTypes' /\ tree'[p] = Link(o.to) /\ \A q \in Paths : q # p => tree'[q] = tree[q]
  BY <1>1, <1>2, NewNodes, OneChange
<1>4. HostTypes' /\ HostChanged(o)
  BY SameHost DEF Symlink
<1> QED BY <1>0, <1>2, <1>3, <1>4 DEF Frame, Changed

LEMMA RemoveFrame ==
  ASSUME TreeTypes, HostTypes, NEW s, NEW i, NEW o, Context(s, i, o), RemoveBinary
  PROVE  /\ Frame(o)
         /\ tree'[o.path] = Missing \/ (UNCHANGED tree /\ ~Exists(o.path))
<1> DEFINE p == o.path
<1>0. o.op = "remove" /\ Op = o
  BY ContextFacts DEF RemoveBinary, At
<1>1. p \in Paths
  BY <1>0, ContextFacts DEF PathKinds
<1>4. HostTypes' /\ HostChanged(o) /\ UNCHANGED host
  BY SameHost DEF RemoveBinary
<1>2. CASE Exists(p)
  <2>1. tree' = [tree EXCEPT ![p] = Missing] /\ tree[p].kind # "dir"
    BY <1>0, <1>2 DEF RemoveBinary
  <2>2. TreeTypes' /\ tree'[p] = Missing /\ \A q \in Paths : q # p => tree'[q] = tree[q]
    BY <1>1, <2>1, NewNodes, OneChange
  <2> QED BY <1>0, <1>4, <2>1, <2>2 DEF Frame, Changed
<1>3. CASE ~Exists(p)
  <2>1. UNCHANGED tree
    BY <1>0, <1>3 DEF RemoveBinary
  <2> QED BY <1>3, <1>4, <2>1, NoChange
<1> QED BY <1>2, <1>3

LEMMA RemoveDirFrame ==
  ASSUME TreeTypes, HostTypes, NEW s, NEW i, NEW o, Context(s, i, o), RemoveDir
  PROVE  Frame(o) /\ Emptied(o.path[1])'
<1>0. o.op = "remove-dir" /\ Op = o
  BY ContextFacts DEF RemoveDir, At
<1>1. tree' = [q \in Paths |-> IF Below(o.path[1], q) THEN Missing ELSE tree[q]]
  BY <1>0 DEF RemoveDir
<1>2. DOMAIN tree' = Paths
  BY <1>1
<1>4. HostTypes' /\ HostChanged(o)
  BY SameHost DEF RemoveDir
<1>3. ASSUME NEW q \in Paths
      PROVE  Node(tree'[q]) /\ Changed(o, q) /\ (Below(o.path[1], q) => tree'[q] = Missing)
  <2>1. CASE Below(o.path[1], q)
    <3>1. tree'[q] = Missing
      BY <1>1, <2>1
    <3> QED BY <1>0, <2>1, <3>1, NewNodes DEF Changed
  <2>2. CASE ~Below(o.path[1], q)
    <3>1. tree'[q] = tree[q]
      BY <1>1, <2>2
    <3> QED BY <2>2, <3>1 DEF Changed, TreeTypes
  <2> QED BY <2>1, <2>2
<1> QED BY <1>2, <1>3, <1>4 DEF Frame, TreeTypes, Emptied

LEMMA StripFrame ==
  ASSUME TreeTypes, HostTypes, NEW s, NEW i, NEW o, Context(s, i, o), StripSuid
  PROVE  Frame(o) /\ NoSuid'
<1>0. o.op = "strip-suid" /\ Op = o
  BY ContextFacts DEF StripSuid, At
<1>1. tree' = [p \in Paths |->
                 IF tree[p].kind = "file" THEN [tree[p] EXCEPT !.suid = FALSE] ELSE tree[p]]
  BY DEF StripSuid
<1>2. DOMAIN tree' = Paths
  BY <1>1
<1>4. HostTypes' /\ HostChanged(o)
  BY SameHost DEF StripSuid
<1>3. ASSUME NEW q \in Paths
      PROVE  Node(tree'[q]) /\ Changed(o, q) /\ (tree'[q].kind = "file" => ~tree'[q].suid)
  <2>0. Node(tree[q])
    BY DEF TreeTypes
  <2>1. CASE tree[q].kind = "file"
    <3> DEFINE x == tree[q]
               y == [x EXCEPT !.suid = FALSE]
    <3>1. tree'[q] = y
      BY <1>1, <2>1
    <3>2. Node(y) /\ y.kind = "file" /\ y.data = x.data /\ y.suid = FALSE
      BY <2>0, <2>1, NewMode
    <3> HIDE DEF y
    <3> QED BY <1>0, <2>1, <3>1, <3>2 DEF Changed
  <2>2. CASE tree[q].kind # "file"
    <3>1. tree'[q] = tree[q]
      BY <1>1, <2>2
    <3> QED BY <2>0, <2>2, <3>1 DEF Changed
  <2> QED BY <2>1, <2>2
<1> QED BY <1>2, <1>3, <1>4 DEF Frame, TreeTypes, NoSuid

-----------------------------------------------------------------------------
(* What is done stays done.                                                *)
LEMMA Later ==
  ASSUME NEW s, NEW i, NEW o, Context(s, i, o), NEW j \in DOMAIN s, j < i
  PROVE  Earliest(s[j]) <= Latest(o) /\ Earliest(s[j]) \in 0 .. 10 /\ Latest(o) \in 0 .. 10
<1>1. InOrder(s) /\ i \in DOMAIN s /\ o = s[i]
  BY ContextFacts DEF Part, Context
<1> QED BY <1>1, Phases DEF InOrder

LEMMA EarlyPhases ==
  ASSUME NEW o, o.op \in {"copy", "unlink", "symlink", "accounts"} \/ (o.op = "write" /\ ~Late(o))
  PROVE  Latest(o) \in {0, 1, 2} /\ (o.op = "copy" => Latest(o) = 0)
<1>1. CASE o.op = "copy"
  BY <1>1 DEF Latest, Earliest
<1>2. CASE o.op = "unlink"
  BY <1>2 DEF Latest
<1>3. CASE o.op = "symlink"
  BY <1>3 DEF Latest
<1>4. CASE o.op = "accounts"
  BY <1>4 DEF Latest
<1>5. CASE o.op = "write" /\ ~Late(o)
  BY <1>5 DEF Latest
<1> QED BY <1>1, <1>2, <1>3, <1>4, <1>5

LEMMA LatePhases ==
  ASSUME NEW o, o.op \in {"verify", "remove", "remove-dir", "strip-suid", "shells"}
  PROVE  Earliest(o) \in {3, 5, 6, 8, 9}
BY DEF Earliest

(* Operations after a check of a hash, or later ones.                      *)
AfterCheck == {"verify", "remove", "remove-dir", "strip-suid", "shells"}

LEMMA AfterServices ==
  ASSUME NEW s, NEW i, NEW o, Context(s, i, o), NEW j \in DOMAIN s, j < i,
         s[j].op \in AfterCheck
  PROVE  /\ o.op \notin {"copy", "unlink", "symlink", "accounts"}
         /\ o.op = "write" => o.path \in HardeningFiles /\ o.path \in Paths
<1>1. Earliest(s[j]) \in {3, 5, 6, 8, 9}
  BY LatePhases DEF AfterCheck
<1>2. Earliest(s[j]) <= Latest(o) /\ Latest(o) \in 0 .. 10
  BY Later
<1>3. Latest(o) \notin {0, 1, 2}
  BY <1>1, <1>2
<1>4. ~(o.op \in {"copy", "unlink", "symlink", "accounts"} \/ (o.op = "write" /\ ~Late(o)))
  BY <1>3, EarlyPhases
<1>5. o.op = "write" => o.path \in Paths
  BY ContextFacts DEF PathKinds
<1> QED BY <1>4, <1>5 DEF Late

(* What such an operation changes.                                         *)
LEMMA LateChange ==
  ASSUME NEW s, NEW i, NEW o, Context(s, i, o), NEW j \in DOMAIN s, j < i,
         s[j].op \in AfterCheck, Frame(o), NEW q \in Paths
  PROVE  \/ tree'[q] = tree[q]
         \/ o.op = "write" /\ q \in {o.path, BaseEnd(o.path)} /\ q \in LateFiles /\ tree'[q].kind = "file"
         \/ o.op \in {"remove", "remove-dir"} /\ Removed(q) /\ tree'[q] = Missing
         \/ tree[q].kind = "file" /\ tree'[q].kind = "file" /\ tree'[q].data = tree[q].data
<1>1. /\ o.op \notin {"copy", "unlink", "symlink", "accounts"}
      /\ o.op = "write" => o.path \in HardeningFiles
  BY AfterServices
<1>2. Changed(o, q)
  BY DEF Frame
<1>3. PlanOp(cfg, o)
  BY ContextFacts
<1>4. ASSUME o.op = "write", Touches(o, q)
      PROVE  q \in {o.path, BaseEnd(o.path)} /\ q \in LateFiles
  <2>1. q \in {o.path, BaseEnd(o.path)}
    BY <1>4 DEF Touches
  <2> QED BY <1>1, <1>4, <2>1 DEF LateFiles
<1>5. ASSUME o.op = "remove", q = o.path PROVE Removed(q)
  BY <1>3, <1>5 DEF PlanOp, Checks, Removed
<1>6. ASSUME o.op = "remove-dir", Below(o.path[1], q) PROVE Removed(q)
  <2>1. o.path[1] \in Range(cfg.removeDirs)
    BY <1>3, <1>6 DEF PlanOp, Checks
  <2> QED BY <1>6, <2>1 DEF Removed, GoneDir
<1> QED BY <1>1, <1>2, <1>4, <1>5, <1>6 DEF Changed

LEMMA NoSuidKept ==
  ASSUME NEW s, NEW i, NEW o, Context(s, i, o), NEW j \in DOMAIN s, j < i,
         s[j].op = "strip-suid", Frame(o), NoSuid
  PROVE  NoSuid'
<1>1. o.op \notin {"copy", "unlink", "symlink", "accounts"}
  BY AfterServices DEF AfterCheck
<1>2. ASSUME NEW q \in Paths, tree'[q].kind = "file"
      PROVE  ~tree'[q].suid
  BY <1>1, <1>2, NewNodes DEF Frame, Changed, NoSuid
<1> QED BY <1>2 DEF NoSuid

(* The links among the binaries are the image's.                           *)
LEMMA BinaryLinks ==
  ASSUME TreeTypes, TreeLinks, NEW p \in Paths, p[1] \in Range(SearchPaths), tree[p].kind = "link"
  PROVE  BaseIs(p, "link") /\ tree[p] = BaseTree[p]
<1>1. ~LinkPath(p)
  BY Disjoint DEF LinkPath
<1>2. \A to : ~PlanLink(p, to)
  BY <1>1, PlanLinkPath
<1> QED BY <1>2 DEF TreeLinks

LEMMA HardeningLinks ==
  ASSUME TreeTypes, TreeLinks, NEW p \in Paths, p \in HardeningFiles, OnHost(p)
  PROVE  BaseLink(p, TRUE) /\ tree[p] = BaseTree[p]
<1>1. ~LinkPath(p)
  BY Disjoint DEF LinkPath
<1>2. \A to : ~PlanLink(p, to)
  BY <1>1, PlanLinkPath
<1>3. tree[p].kind = "link"
  BY DEF OnHost
<1> QED BY <1>2, <1>3, LinkFacts

LEMMA GoneKept ==
  ASSUME TreeTypes, TreeLinks, NEW s, NEW i, NEW o, Context(s, i, o), NEW j \in DOMAIN s, j < i,
         s[j].op = "remove", Frame(o), NEW p, p = s[j].path, ~Exists(p)
  PROVE  ~Exists(p)'
<1>0. s[j].op \in AfterCheck
  BY DEF AfterCheck
<1>1. /\ o.op \notin {"copy", "unlink", "symlink", "accounts"}
      /\ o.op = "write" => o.path \in HardeningFiles /\ o.path \in Paths
  BY <1>0, AfterServices
<1>2. p \in Paths /\ p[1] \in Range(SearchPaths)
  <2>1. cfg \in Configs /\ s = Plans[cfg]
    BY DEF Context
  <2>2. PlanOp(cfg, s[j])
    BY <2>1, OpFacts
  <2>3. p \in Paths
    BY <2>1, OpPath DEF PathKinds
  <2> QED BY <2>2, <2>3 DEF PlanOp, Checks
<1>3. o.op = "write" => {p, BaseEnd(p)} \cap {o.path, BaseEnd(o.path)} = {}
  <2> SUFFICES ASSUME o.op = "write" PROVE {p, BaseEnd(p)} \cap {o.path, BaseEnd(o.path)} = {}
    OBVIOUS
  <2>1. BaseEnd(p) # BaseEnd(o.path)
    BY <1>1, <1>2, LinksAssumption
  <2>2. p # o.path
    BY <2>1
  <2> QED BY <1>1, <1>2, <2>1, <2>2, Apart
<1>4. ASSUME NEW q \in {p, BaseEnd(p)}
      PROVE  \/ tree'[q] = tree[q] \/ tree'[q] = Missing
             \/ tree[q].kind = "file" /\ tree'[q].kind = "file"
  <2>1. q \in Paths
    BY <1>2, BaseEnds
  <2>2. \/ tree'[q] = tree[q]
        \/ o.op = "write" /\ q \in {o.path, BaseEnd(o.path)} /\ q \in LateFiles /\ tree'[q].kind = "file"
        \/ o.op \in {"remove", "remove-dir"} /\ Removed(q) /\ tree'[q] = Missing
        \/ tree[q].kind = "file" /\ tree'[q].kind = "file" /\ tree'[q].data = tree[q].data
    BY ONLY <1>0, <2>1, LateChange, Context(s, i, o), j \in DOMAIN s, j < i, Frame(o)
  <2>3. o.op = "write" => q \notin {o.path, BaseEnd(o.path)}
    BY <1>3
  <2> QED BY <2>2, <2>3
<1>5. CASE tree'[p] = Missing
  <2>1. tree'[p].kind = "missing"
    BY <1>5, NewNodes
  <2> QED BY <1>5, <2>1 DEF Exists, End, OnHost, Target
<1>6. CASE tree[p].kind # "link"
  <2>1. tree[p] = Missing
    BY <1>6 DEF Exists, End, OnHost, Target
  <2>2. tree[p].kind # "file"
    BY <2>1, NewNodes
  <2>3. tree'[p] = Missing
    BY <1>4, <2>1, <2>2
  <2> QED BY <1>5, <2>3
<1>7. CASE tree[p].kind = "link" /\ tree'[p] # Missing /\ OnHost(p)
  <2> DEFINE to == tree[p].to
  <2>1. tree'[p] = tree[p] /\ BaseIs(p, "link") /\ tree[p] = BaseTree[p]
    BY <1>2, <1>4, <1>7, BinaryLinks
  <2>2. OnHost(p)' /\ tree'[p].to = to
    BY <1>7, <2>1 DEF OnHost
  <2>3. BaseLink(p, TRUE) /\ to = BaseTree[p].to
    <3>1. tree[p].abs = TRUE
      <4>1. tree[p].abs \in BOOLEAN
        BY <1>2, <1>7, NewNodes DEF TreeTypes, Node
      <4> QED BY <1>7, <4>1 DEF OnHost
    <3> QED BY <2>1, <3>1 DEF BaseLink
  <2>4. ASSUME to \in HostPaths PROVE host'[to] = host[to]
    <3>1. host'[to] = host[to] \/ (o.op \in {"copy", "write"} /\ OnHost(o.path) /\ to = tree[o.path].to)
      BY <2>4 DEF Frame, HostChanged
    <3>2. ASSUME o.op = "write", OnHost(o.path) PROVE to # tree[o.path].to
      <4> DEFINE q == o.path
      <4>1. q \in HardeningFiles /\ q \in Paths /\ OnHost(q)
        BY <1>1, <3>2
      <4> HIDE DEF q
      <4>2. BaseLink(q, TRUE) /\ tree[q] = BaseTree[q]
        BY <4>1, HardeningLinks
      <4>3. BaseTree[p].to # BaseTree[q].to
        BY <1>2, <2>3, <4>1, <4>2, LinksAssumption
      <4> QED BY <2>3, <4>2, <4>3 DEF q
    <3> QED BY <1>1, <3>1, <3>2
  <2>5. End(p)' = End(p)
    <3>1. End(p) = IF to \in HostPaths THEN host[to] ELSE Missing
      BY <1>7 DEF End
    <3>2. End(p)' = IF to \in HostPaths THEN host'[to] ELSE Missing
      BY <2>2 DEF End
    <3> QED BY <2>4, <3>1, <3>2
  <2> QED BY <2>5 DEF Exists
<1>8. CASE tree[p].kind = "link" /\ tree'[p] # Missing /\ ~OnHost(p)
  <2>1. tree'[p] = tree[p]
    BY <1>4, <1>8
  <2>2. Target(p) = BaseEnd(p)
    BY <1>2, <1>8, LinkFacts
  <2> DEFINE r == BaseEnd(p)
  <2>3. ~OnHost(p)' /\ Target(p)' = r
    BY <1>8, <2>1, <2>2 DEF OnHost, Target
  <2>4. tree[r] = Missing
    BY <1>8, <2>2 DEF Exists, End
  <2>5. tree'[r] = Missing
    <3>1. tree[r].kind # "file"
      BY <2>4, NewNodes
    <3> QED BY <1>4, <2>4, <3>1
  <2>6. End(p)' = tree'[r]
    BY <2>3 DEF End
  <2> QED BY <2>5, <2>6 DEF Exists
<1> QED BY <1>5, <1>6, <1>7, <1>8

LEMMA EmptiedKept ==
  ASSUME NEW s, NEW i, NEW o, Context(s, i, o), NEW j \in DOMAIN s, j < i,
         s[j].op = "remove-dir", Frame(o), NEW dir, Emptied(dir)
  PROVE  Emptied(dir)'
<1>0. s[j].op \in AfterCheck
  BY DEF AfterCheck
<1>1. ASSUME NEW q \in Paths, Below(dir, q), q \notin LateFiles
      PROVE  tree'[q] = Missing
  <2>1. tree[q] = Missing
    BY <1>1 DEF Emptied
  <2>2. tree[q].kind # "file"
    BY <2>1, NewNodes
  <2> QED BY <1>0, <1>1, <2>1, <2>2, LateChange
<1> QED BY <1>1 DEF Emptied

LEMMA SealedKept ==
  ASSUME TreeTypes, TreeLinks, NEW s, NEW i, NEW o, Context(s, i, o), NEW j \in DOMAIN s, j < i,
         s[j].op = "verify", Frame(o), cfg' = cfg, NEW p, p = s[j].path, NEW data,
         Sealed(p, data)
  PROVE  Sealed(p, data)'
<1> SUFFICES ASSUME ~OnHost(p)', Target(p)' \notin LateFiles, ~Removed(p)', ~Removed(Target(p))'
             PROVE  Holds(Target(p), data)'
  BY DEF Sealed
<1>0. s[j].op \in AfterCheck
  BY DEF AfterCheck
<1>2. p \in Paths
  <2>1. cfg \in Configs /\ s = Plans[cfg]
    BY DEF Context
  <2> QED BY <2>1, OpPath DEF PathKinds
<1>3. \A q : (~Removed(q))' => ~Removed(q)
  BY DEF Removed, GoneDir
<1>4. ASSUME NEW q \in Paths, ~Removed(q), q \notin LateFiles
      PROVE  \/ tree'[q] = tree[q]
             \/ tree[q].kind = "file" /\ tree'[q].kind = "file" /\ tree'[q].data = tree[q].data
  BY <1>0, <1>4, LateChange
<1>5. ~Removed(p)
  BY <1>3
<1>6. CASE p \in LateFiles /\ tree'[p] # tree[p]
  <2>1. tree'[p].kind = "file"
    BY <1>0, <1>2, <1>5, <1>6, LateChange
  <2>2. Target(p)' = p
    BY <2>1 DEF Target
  <2> QED BY <1>6, <2>2
<1>7. CASE tree'[p] = tree[p]
  <2> DEFINE t == Target(p)
  <2>1. Target(p)' = t /\ ~OnHost(p)
    BY <1>7 DEF Target, OnHost
  <2>2. t \in Paths
    BY <1>2, <2>1, TargetFacts
  <2> HIDE DEF t
  <2>3. ~Removed(t) /\ t \notin LateFiles
    BY <1>3, <2>1
  <2>4. Holds(t, data)
    BY <1>5, <2>1, <2>3 DEF Sealed, t
  <2>5. tree'[t].kind = "file" /\ tree'[t].data = data
    BY <1>4, <2>2, <2>3, <2>4 DEF Holds
  <2> QED BY <2>1, <2>5 DEF Holds
<1>8. CASE p \notin LateFiles /\ tree'[p] # tree[p]
  <2>1. tree[p].kind = "file" /\ tree'[p].kind = "file" /\ tree'[p].data = tree[p].data
    BY <1>2, <1>4, <1>5, <1>8
  <2>2. Target(p) = p /\ ~OnHost(p) /\ Target(p)' = p
    BY <2>1 DEF Target, OnHost
  <2>3. Holds(p, data)
    BY <1>5, <1>8, <2>2 DEF Sealed
  <2> QED BY <2>1, <2>2, <2>3 DEF Holds
<1> QED BY <1>6, <1>7, <1>8

(* Where the last operation for a path put it, no other puts anything.     *)
LEMMA PutApart ==
  ASSUME NEW s, NEW i, NEW o, Context(s, i, o), NEW j \in DOMAIN s, j < i,
         IsLast(s, j), NEW u, u = s[j], NEW q \in {u.path, BaseEnd(u.path)},
         u.op = "symlink" => q = u.path
  PROVE  /\ o.op # "copy"
         /\ o.op = "write" => ~Touches(o, q)
         /\ o.op \in {"unlink", "symlink"} => q # o.path
<1> DEFINE p == u.path
<1>0. u.op \in {"write", "symlink"}
  BY DEF IsLast, IsPut
<1>1. /\ cfg \in Configs /\ s = Plans[cfg] /\ i \in DOMAIN s /\ o = s[i]
      /\ Part(cfg, s, 0, 10) /\ DOMAIN s = 1 .. Len(s) /\ Len(s) \in Nat
  <2>1. cfg \in Configs /\ s = Plans[cfg] /\ i \in DOMAIN s /\ o = s[i]
    BY DEF Context
  <2> QED BY <2>1, PlanIs
<1>2. p \in Paths /\ p \in PathsOf({u.op}) /\ BaseEnd(p) \in Paths
  BY <1>0, <1>1, OpFacts, OpPath, BaseEnds DEF PathKinds
<1>3. o.op # "copy"
  <2>1. SUFFICES ASSUME o.op = "copy" PROVE FALSE
    OBVIOUS
  <2>2. Latest(o) = 0
    BY <2>1, EarlyPhases
  <2>3. Earliest(u) \in {1, 2, 10}
    BY <1>0 DEF Earliest
  <2>4. Earliest(u) <= Latest(o)
    BY Later
  <2> QED BY <2>2, <2>3, <2>4
<1>4. IsPut(o) => o.path # p
  BY <1>1 DEF IsLast
<1>5. o.op = "unlink" => o.path # p
  <2>1. SUFFICES ASSUME o.op = "unlink", o.path = p PROVE FALSE
    OBVIOUS
  <2>2. i + 1 \in DOMAIN s /\ s[i + 1].op = "symlink" /\ s[i + 1].path = p
    BY <1>1, <2>1 DEF Part, Paired
  <2>3. i + 1 <= j
    BY <2>2 DEF IsLast, IsPut
  <2> QED BY <1>1, <2>3
<1>6. o.op \in {"unlink", "symlink"} => o.path \in PathsOf({"symlink"}) /\ o.path # p
  <2>1. CASE o.op = "symlink"
    BY <1>1, <1>4, <2>1, OpFacts DEF IsPut
  <2>2. CASE o.op = "unlink"
    <3>1. i + 1 \in DOMAIN s /\ s[i + 1].op = "symlink" /\ s[i + 1].path = o.path
      BY <1>1, <2>2 DEF Part, Paired
    <3>2. o.path \in PathsOf({"symlink"})
      BY <1>1, <3>1, OpFacts
    <3> QED BY <1>5, <2>2, <3>2
  <2> QED BY <2>1, <2>2
<1>7. o.op \in {"unlink", "symlink"} => q # o.path
  <2>1. CASE q = p
    BY <1>6, <2>1
  <2>2. CASE q # p
    <3>1. q = BaseEnd(p) /\ BaseLink(p, FALSE)
      BY <1>2, <2>2, BaseEnds
    <3>2. q \notin PathsOf({"symlink"})
      BY <3>1, LinksAssumption DEF BaseLink, BaseIs
    <3> QED BY <1>6, <3>2
  <2> QED BY <2>1, <2>2
<1>8. ASSUME o.op = "write" PROVE ~Touches(o, q)
  <2> DEFINE r == o.path
  <2>1. r \in Paths /\ r # p /\ r \in PathsOf({"write"})
    BY <1>4, <1>8, ContextFacts DEF PathKinds, IsPut
  <2>2. Touches(o, q) => q \in {r, BaseEnd(r)}
    BY <1>8 DEF Touches
  <2> HIDE DEF r
  <2>3. CASE u.op = "write"
    <3>1. BaseEnd(p) # BaseEnd(r)
      <4>1. CASE BaseLink(p, FALSE)
        BY <2>1, <4>1, LinksAssumption DEF BaseLink, BaseIs
      <4>2. CASE BaseLink(r, FALSE)
        BY <1>2, <2>1, <2>3, <4>2, LinksAssumption DEF BaseLink, BaseIs
      <4>3. CASE ~BaseLink(p, FALSE) /\ ~BaseLink(r, FALSE)
        BY <2>1, <4>3 DEF BaseEnd
      <4> QED BY <4>1, <4>2, <4>3
    <3> QED BY <1>2, <2>1, <2>2, <3>1, Apart
  <2>4. CASE u.op = "symlink"
    <3>1. q = p /\ p \in PathsOf({"symlink"})
      BY <1>2, <2>4
    <3>2. p # BaseEnd(r)
      <4>1. CASE BaseLink(r, FALSE)
        BY <3>1, <4>1, LinksAssumption DEF BaseLink, BaseIs
      <4>2. CASE ~BaseLink(r, FALSE)
        BY <2>1, <4>2 DEF BaseEnd
      <4> QED BY <4>1, <4>2
    <3> QED BY <2>1, <2>2, <3>1, <3>2
  <2> QED BY <1>0, <2>3, <2>4
<1> QED BY <1>3, <1>7, <1>8

LEMMA InPlaceKept ==
  ASSUME TreeTypes, TreeLinks, NEW s, NEW i, NEW o, Context(s, i, o), NEW j \in DOMAIN s, j < i,
         IsLast(s, j), Frame(o), cfg' = cfg, NEW u, u = s[j], InPlace(u)
  PROVE  InPlace(u)'
<1> DEFINE p == u.path
<1>0. u.op \in {"write", "symlink"}
  BY DEF IsLast, IsPut
<1>1. p \in Paths
  <2>1. cfg \in Configs /\ s = Plans[cfg]
    BY DEF Context
  <2> QED BY <1>0, <2>1, OpPath DEF PathKinds
<1> SUFFICES ASSUME ~Removed(p)', ~Removed(Target(p))'
             PROVE  (IF u.op = "symlink" THEN tree[p].kind = "link" /\ tree[p].to = u.to
                     ELSE IF OnHost(p) THEN BaseLink(p, TRUE)
                     ELSE Holds(Target(p), u.data))'
  BY DEF InPlace
<1>2. \A q : (~Removed(q))' => ~Removed(q)
  BY DEF Removed, GoneDir
<1>3. ASSUME NEW q \in Paths, q \in {p, BaseEnd(p)}, u.op = "symlink" => q = p, ~Removed(q)
      PROVE  \/ tree'[q] = tree[q]
             \/ tree[q].kind = "file" /\ tree'[q].kind = "file" /\ tree'[q].data = tree[q].data
  <2>1. /\ o.op # "copy" /\ (o.op = "write" => ~Touches(o, q))
        /\ o.op \in {"unlink", "symlink"} => q # o.path
    BY <1>3, PutApart
  <2>2. PlanOp(cfg, o)
    BY ContextFacts
  <2>3. o.op = "remove" => q # o.path
    BY <1>3, <2>2 DEF PlanOp, Checks, Removed
  <2>4. o.op = "remove-dir" => ~Below(o.path[1], q)
    <3>1. o.op = "remove-dir" => o.path[1] \in Range(cfg.removeDirs)
      BY <2>2 DEF PlanOp, Checks
    <3> QED BY <1>3, <3>1 DEF Removed, GoneDir
  <2>5. Changed(o, q)
    BY DEF Frame
  <2> QED BY <2>1, <2>3, <2>4, <2>5 DEF Changed
<1>4. ~Removed(p)
  BY <1>2
<1>5. \/ tree'[p] = tree[p]
      \/ tree[p].kind = "file" /\ tree'[p].kind = "file" /\ tree'[p].data = tree[p].data
  BY <1>1, <1>3, <1>4
<1>6. Target(p)' = Target(p) /\ (OnHost(p)' <=> OnHost(p))
  BY <1>5 DEF Target, OnHost
<1>7. ~Removed(Target(p))
  BY <1>2, <1>6
<1>8. CASE u.op = "symlink"
  <2>1. tree[p].kind = "link" /\ tree[p].to = u.to
    BY <1>4, <1>7, <1>8 DEF InPlace
  <2> QED BY <1>5, <1>8, <2>1
<1>9. CASE u.op = "write" /\ OnHost(p)
  <2>1. BaseLink(p, TRUE)
    BY <1>4, <1>7, <1>9 DEF InPlace
  <2> QED BY <1>6, <1>9, <2>1
<1>10. CASE u.op = "write" /\ ~OnHost(p)
  <2> DEFINE t == Target(p)
  <2>1. t \in Paths /\ t \in {p, BaseEnd(p)}
    BY <1>1, <1>10, TargetFacts
  <2>2. Holds(t, u.data) /\ ~Removed(t)
    BY <1>4, <1>7, <1>10 DEF InPlace
  <2> HIDE DEF t
  <2>3. tree'[t].kind = "file" /\ tree'[t].data = u.data
    BY <1>3, <1>10, <2>1, <2>2 DEF Holds
  <2>4. Holds(Target(p), u.data)'
    BY <1>6, <2>3 DEF Holds, t
  <2> QED BY <1>6, <1>10, <2>4
<1> QED BY <1>0, <1>8, <1>9, <1>10

LEMMA DoneKept ==
  ASSUME TreeTypes, TreeLinks, NEW s, NEW i, NEW o, Context(s, i, o), NEW j \in DOMAIN s, j < i,
         Frame(o), cfg' = cfg, passwd' = passwd \/ o.op = "accounts" \/ NoLogins',
         Done(s, j)
  PROVE  Done(s, j)'
<1> DEFINE u == s[j]
<1>1. ASSUME u.op = "strip-suid" PROVE NoSuid'
  BY <1>1, NoSuidKept DEF Done
<1>2. ASSUME u.op = "shells" PROVE NoLogins'
  <2>1. o.op # "accounts"
    BY <1>2, AfterServices DEF AfterCheck
  <2>2. NoLogins
    BY <1>2 DEF Done
  <2> QED BY <2>1, <2>2 DEF NoLogins
<1>3. ASSUME u.op = "remove" PROVE ~Exists(u.path)'
  <2>1. ~Exists(u.path)
    BY <1>3 DEF Done
  <2> DEFINE p == u.path
  <2>2. p = s[j].path /\ ~Exists(p) /\ s[j].op = "remove"
    BY <1>3, <2>1
  <2> HIDE DEF p
  <2>3. ~Exists(p)'
    BY <2>2, GoneKept
  <2> QED BY <2>3 DEF p
<1>6. ASSUME u.op = "remove-dir" PROVE Emptied(u.path[1])'
  <2> DEFINE dir == u.path[1]
  <2>1. Emptied(dir) /\ s[j].op = "remove-dir"
    BY <1>6 DEF Done
  <2> HIDE DEF dir
  <2>2. Emptied(dir)'
    BY <2>1, EmptiedKept
  <2> QED BY <2>2 DEF dir
<1>4. ASSUME u.op = "verify" PROVE Sealed(u.path, u.data)'
  <2> DEFINE p == u.path
             data == u.data
  <2>1. Sealed(p, data) /\ p = s[j].path /\ s[j].op = "verify"
    BY <1>4 DEF Done
  <2> HIDE DEF p, data
  <2>2. Sealed(p, data)'
    BY <2>1, SealedKept
  <2> QED BY <2>2 DEF p, data
<1>5. ASSUME IsLast(s, j) PROVE InPlace(u)'
  <2>1. InPlace(u)
    BY <1>5 DEF Done
  <2>2. u = s[j]
    BY <1>5
  <2> HIDE DEF u
  <2> QED BY <1>5, <2>1, <2>2, InPlaceKept
<1> QED BY <1>1, <1>2, <1>3, <1>4, <1>5, <1>6 DEF Done, IsLast, IsPut

LEMMA LinksKept ==
  ASSUME TreeLinks, NEW s, NEW i, NEW o, Context(s, i, o), Frame(o)
  PROVE  TreeLinks'
<1> SUFFICES ASSUME NEW q \in Paths, tree'[q].kind = "link"
             PROVE  \/ BaseIs(q, "link") /\ tree'[q] = BaseTree[q]
                    \/ tree'[q].abs /\ PlanLink(q, tree'[q].to)
  BY DEF TreeLinks
<1>1. tree'[q] = tree[q] \/ (o.op = "symlink" /\ q = o.path /\ tree'[q] = Link(o.to))
  BY NewNodes DEF Frame, Changed
<1>2. CASE tree'[q] = tree[q]
  BY <1>2 DEF TreeLinks
<1>3. CASE o.op = "symlink" /\ q = o.path /\ tree'[q] = Link(o.to)
  <2>1. o \in UNION {Range(Plans[c]) : c \in Configs}
    BY DEF Context, Range
  <2>2. PlanLink(q, o.to)
    BY <1>3, <2>1 DEF PlanLink
  <2>3. tree'[q].abs /\ tree'[q].to = o.to
    BY <1>3, NewNodes
  <2> QED BY <2>2, <2>3
<1> QED BY <1>1, <1>2, <1>3

(* A step that does operation i, or part of it.                            *)
Moves(s, i, o) ==
  /\ Frame(o) /\ cfg' = cfg /\ status' = "running"
  /\ UNCHANGED <<applied, applies, faults>>
  /\ passwd' = passwd \/ o.op = "accounts" \/ NoLogins'
  /\ at' = at \/ (at' = at + 1 /\ Done(s, i)')

LEMMA MovesKeep ==
  ASSUME ApplyInv, NEW s, NEW i, NEW o, Context(s, i, o), Moves(s, i, o)
  PROVE  ApplyInv'
<1>0. TreeTypes /\ HostTypes /\ TreeLinks /\ Counters /\ Progress
  BY DEF ApplyInv
<1>1. /\ cfg \in Configs /\ s = Plans[cfg] /\ i = at /\ i \in DOMAIN s /\ status = "running"
      /\ Len(s) \in Nat /\ DOMAIN s = 1 .. Len(s)
  <2>1. cfg \in Configs /\ s = Plans[cfg] /\ i = at /\ i \in DOMAIN s /\ status = "running"
    BY DEF Context
  <2> QED BY <2>1, PlanIs
<1>2. TreeTypes' /\ HostTypes' /\ TreeLinks'
  BY <1>0, LinksKept DEF Moves, Frame
<1>3. at' \in 1 .. Len(s) + 1 /\ s = Plans[cfg'] /\ status' = "running"
  BY <1>1 DEF Moves
<1>4. Counters'
  BY <1>0, <1>3 DEF Moves, Counters
<1>5. ASSUME NEW j \in DOMAIN s, j < at'
      PROVE  Done(s, j)'
  <2>1. CASE j < i
    <3>1. Done(s, j)
      BY <1>0, <1>1, <2>1 DEF Progress
    <3> QED BY <1>0, <2>1, <3>1, DoneKept DEF Moves
  <2>2. CASE ~(j < i)
    <3>1. at' = at + 1 /\ j = i
      BY <1>1, <1>5, <2>2 DEF Moves
    <3> QED BY <1>1, <3>1 DEF Moves
  <2> QED BY <2>1, <2>2
<1>6. Progress'
  BY <1>3, <1>5 DEF Progress
<1> QED BY <1>2, <1>4, <1>6 DEF ApplyInv

-----------------------------------------------------------------------------
(* What each operation has done.                                           *)
LEMMA AtContext ==
  ASSUME cfg \in Configs, Counters, NEW x, At(x)
  PROVE  \E s, i, o : Context(s, i, o) /\ o.op = x
<1>1. Len(Plans[cfg]) \in Nat /\ DOMAIN Plans[cfg] = 1 .. Len(Plans[cfg])
  BY PlanIs
<1>2. at \in DOMAIN Plans[cfg] /\ status = "running" /\ Plans[cfg][at].op = x
  BY <1>1 DEF At, Op, Counters
<1>3. Context(Plans[cfg], at, Plans[cfg][at])
  BY <1>2 DEF Context
<1> QED BY <1>2, <1>3

(* Operations that leave nothing to hold.                                  *)
LEMMA PlainDone ==
  ASSUME NEW s, NEW i, s[i].op \notin {"strip-suid", "shells", "remove", "remove-dir", "verify", "write", "symlink"}
  PROVE  Done(s, i)'
BY DEF Done, IsLast, IsPut

LEMMA LastWrite ==
  ASSUME TreeTypes, TreeLinks, NEW s, NEW i, NEW o, Context(s, i, o), o.op = "write", IsLast(s, i)
  PROVE  OnHost(o.path) => BaseLink(o.path, TRUE)
<1> DEFINE p == o.path
<1> SUFFICES ASSUME OnHost(p), ~BaseLink(p, TRUE) PROVE FALSE
  OBVIOUS
<1>1. p \in Paths /\ p \in PathsOf({"write"})
  BY ContextFacts DEF PathKinds
<1>0. LinkPath(p) /\ p[1] \in WriteDirs
  <2>1. tree[p].kind = "link"
    BY DEF OnHost
  <2>2. PlanLink(p, tree[p].to)
    BY <1>1, <2>1, LinkFacts
  <2> QED BY <1>1, <2>2, PlanLinkPath, WritePathKind
<1>2. p[1] = UnitDir
  BY <1>0, Disjoint DEF LinkPath
<1>3. PICK m \in Range(MaskedUnits) : p = UnitFile(m)
  BY <1>0, Disjoint DEF LinkPath
<1>4. /\ cfg \in Configs /\ s = Plans[cfg] /\ i \in DOMAIN s /\ o = s[i]
      /\ DOMAIN s = 1 .. Len(s) /\ Len(s) \in Nat /\ PlanShape(cfg, s)
  <2>1. cfg \in Configs /\ s = Plans[cfg] /\ i \in DOMAIN s /\ o = s[i]
    BY DEF Context
  <2> QED BY <2>1, PlanIs
<1>5. MaskLink(m) \in Range(s)
  BY <1>4 DEF PlanShape
<1>6. PICK j \in DOMAIN s : s[j] = MaskLink(m)
  BY <1>5 DEF Range
<1>7. s[j].op = "symlink" /\ s[j].path = p
  BY <1>3, <1>6 DEF MaskLink
<1>8. j <= i
  BY <1>4, <1>7 DEF IsLast, IsPut
<1>9. j # i
  BY <1>4, <1>7
<1>10. j < i
  BY <1>4, <1>8, <1>9
<1>11. Earliest(s[j]) <= Latest(o)
  BY <1>10, Later
<1>12. Earliest(s[j]) = 2
  BY <1>2, <1>7 DEF Earliest
<1>13. ~Late(o)
  BY <1>2, Disjoint DEF Late
<1>14. Latest(o) = 1
  BY <1>2, <1>13 DEF Latest
<1> QED BY <1>11, <1>12, <1>14

LEMMA WriteMoves ==
  ASSUME cfg \in Configs, ApplyInv, WriteFile
  PROVE  \E s, i, o : Context(s, i, o) /\ Moves(s, i, o)
<1>1. PICK s, i, o : Context(s, i, o) /\ o.op = "write"
  BY AtContext DEF WriteFile, ApplyInv
<1>2. TreeTypes /\ HostTypes /\ TreeLinks /\ Op = o /\ o = s[i]
  BY <1>1, ContextFacts DEF ApplyInv, Context
<1>3. Takes(o.path) /\ tree' = Written(o.path, o.data) /\ host' = HostWritten(o.path, o.data)
  BY <1>2 DEF WriteFile
<1>4. /\ Frame(o)
      /\ OnHost(o.path) => UNCHANGED tree
      /\ ~OnHost(o.path) => ~OnHost(o.path)' /\ Holds(Target(o.path), o.data)'
  BY <1>1, <1>2, <1>3, WriteFrame
<1>5. ASSUME IsLast(s, i) PROVE InPlace(o)'
  <2>1. OnHost(o.path) => BaseLink(o.path, TRUE) /\ OnHost(o.path)'
    BY <1>1, <1>2, <1>4, <1>5, LastWrite DEF OnHost
  <2> QED BY <1>1, <1>4, <2>1 DEF InPlace
<1>6. Done(s, i)'
  BY <1>1, <1>2, <1>5 DEF Done, IsLast, IsPut
<1>7. Moves(s, i, o)
  BY <1>1, <1>4, <1>6 DEF WriteFile, Advance, Moves, accountVars, files, Context
<1> QED BY <1>1, <1>7

LEMMA SymlinkMoves ==
  ASSUME cfg \in Configs, ApplyInv, Symlink
  PROVE  \E s, i, o : Context(s, i, o) /\ Moves(s, i, o)
<1>1. PICK s, i, o : Context(s, i, o) /\ o.op = "symlink"
  BY AtContext DEF Symlink, ApplyInv
<1>2. TreeTypes /\ HostTypes /\ o = s[i]
  BY <1>1 DEF ApplyInv, Context
<1>3. Frame(o) /\ tree'[o.path] = Link(o.to)
  BY <1>1, <1>2, SymlinkFrame
<1>4. tree'[o.path].kind = "link" /\ tree'[o.path].to = o.to
  BY <1>3, NewNodes
<1>5. InPlace(o)'
  BY <1>1, <1>4 DEF InPlace
<1>6. Done(s, i)'
  BY <1>1, <1>2, <1>5 DEF Done
<1>7. Moves(s, i, o)
  BY <1>1, <1>3, <1>6 DEF Symlink, Advance, Moves, accountVars, files, Context
<1> QED BY <1>1, <1>7

LEMMA CopyMoves ==
  ASSUME cfg \in Configs, ApplyInv, CopyOverlay
  PROVE  \E s, i, o : Context(s, i, o) /\ Moves(s, i, o)
<1>1. PICK s, i, o : Context(s, i, o) /\ o.op = "copy"
  BY AtContext DEF CopyOverlay, ApplyInv
<1>2. TreeTypes /\ HostTypes /\ TreeLinks /\ o = s[i]
  BY <1>1 DEF ApplyInv, Context
<1>3. Frame(o)
  BY <1>1, <1>2, CopyFrame
<1>4. Done(s, i)'
  BY <1>1, <1>2, PlainDone
<1>5. Moves(s, i, o)
  BY <1>1, <1>3, <1>4 DEF CopyOverlay, Advance, Moves, accountVars, files, Context
<1> QED BY <1>1, <1>5

LEMMA UnlinkMoves ==
  ASSUME cfg \in Configs, ApplyInv, Unlink
  PROVE  \E s, i, o : Context(s, i, o) /\ Moves(s, i, o)
<1>1. PICK s, i, o : Context(s, i, o) /\ o.op = "unlink"
  BY AtContext DEF Unlink, ApplyInv
<1>2. TreeTypes /\ HostTypes /\ o = s[i]
  BY <1>1 DEF ApplyInv, Context
<1>3. Frame(o)
  BY <1>1, <1>2, UnlinkFrame
<1>4. Done(s, i)'
  BY <1>1, <1>2, PlainDone
<1>5. Moves(s, i, o)
  BY <1>1, <1>3, <1>4 DEF Unlink, Advance, Moves, accountVars, files, Context
<1> QED BY <1>1, <1>5

LEMMA RemoveDirMoves ==
  ASSUME cfg \in Configs, ApplyInv, RemoveDir
  PROVE  \E s, i, o : Context(s, i, o) /\ Moves(s, i, o)
<1>1. PICK s, i, o : Context(s, i, o) /\ o.op = "remove-dir"
  BY AtContext DEF RemoveDir, ApplyInv
<1>2. TreeTypes /\ HostTypes /\ o = s[i]
  BY <1>1 DEF ApplyInv, Context
<1>3. Frame(o) /\ Emptied(o.path[1])'
  BY <1>1, <1>2, RemoveDirFrame
<1>4. Done(s, i)'
  BY <1>1, <1>2, <1>3 DEF Done, IsLast, IsPut
<1>5. Moves(s, i, o)
  BY <1>1, <1>3, <1>4 DEF RemoveDir, Advance, Moves, accountVars, files, Context
<1> QED BY <1>1, <1>5

LEMMA RemoveMoves ==
  ASSUME cfg \in Configs, ApplyInv, RemoveBinary
  PROVE  \E s, i, o : Context(s, i, o) /\ Moves(s, i, o)
<1>1. PICK s, i, o : Context(s, i, o) /\ o.op = "remove"
  BY AtContext DEF RemoveBinary, ApplyInv
<1>2. TreeTypes /\ HostTypes /\ o = s[i]
  BY <1>1 DEF ApplyInv, Context
<1>3. Frame(o) /\ (tree'[o.path] = Missing \/ (UNCHANGED tree /\ ~Exists(o.path)))
  BY <1>1, <1>2, RemoveFrame
<1>4. ~Exists(o.path)'
  <2> DEFINE p == o.path
  <2>1. CASE tree'[p] = Missing
    <3>1. tree'[p].kind = "missing"
      BY <2>1, NewNodes
    <3> QED BY <2>1, <3>1 DEF Exists, End, OnHost, Target
  <2>2. CASE UNCHANGED tree /\ ~Exists(p)
    <3>1. UNCHANGED host
      BY DEF RemoveBinary
    <3> QED BY <2>2, <3>1 DEF Exists, End, OnHost, Target
  <2> QED BY <1>3, <2>1, <2>2
<1>5. Done(s, i)'
  BY <1>1, <1>2, <1>4 DEF Done, IsLast, IsPut
<1>6. Moves(s, i, o)
  BY <1>1, <1>3, <1>5 DEF RemoveBinary, Advance, Moves, accountVars, files, Context
<1> QED BY <1>1, <1>6

LEMMA StripMoves ==
  ASSUME cfg \in Configs, ApplyInv, StripSuid
  PROVE  \E s, i, o : Context(s, i, o) /\ Moves(s, i, o)
<1>1. PICK s, i, o : Context(s, i, o) /\ o.op = "strip-suid"
  BY AtContext DEF StripSuid, ApplyInv
<1>2. TreeTypes /\ HostTypes /\ o = s[i]
  BY <1>1 DEF ApplyInv, Context
<1>3. Frame(o) /\ NoSuid'
  BY <1>1, <1>2, StripFrame
<1>4. Done(s, i)'
  BY <1>1, <1>2, <1>3 DEF Done, IsLast, IsPut
<1>5. Moves(s, i, o)
  BY <1>1, <1>3, <1>4 DEF StripSuid, Advance, Moves, accountVars, files, Context
<1> QED BY <1>1, <1>5

LEMMA ShellsMove ==
  ASSUME cfg \in Configs, AccountsTypeOK, ApplyInv, NoLogin
  PROVE  \E s, i, o : Context(s, i, o) /\ Moves(s, i, o)
<1>1. PICK s, i, o : Context(s, i, o) /\ o.op = "shells"
  BY AtContext DEF NoLogin, ApplyInv
<1>2. TreeTypes /\ HostTypes /\ o = s[i] /\ UNCHANGED <<tree, host>>
  BY <1>1 DEF ApplyInv, Context, NoLogin
<1>3. Frame(o)
  BY <1>2, NoChange
<1>4. NoLogins'
  <2>1. passwd' = {[e EXCEPT !.login = FALSE] : e \in passwd} /\ passwd \subseteq UserLine
    BY DEF NoLogin, RewriteShells, AccountsTypeOK
  <2>2. ASSUME NEW e \in UserLine
        PROVE  [e EXCEPT !.login = FALSE].login = FALSE
    BY DEF UserLine
  <2> QED BY <2>1, <2>2 DEF NoLogins
<1>5. Done(s, i)'
  BY <1>1, <1>2, <1>4 DEF Done, IsLast, IsPut
<1>6. Moves(s, i, o)
  BY <1>1, <1>3, <1>4, <1>5 DEF NoLogin, RewriteShells, Advance, Moves, Context
<1> QED BY <1>1, <1>6

LEMMA AccountMoves ==
  ASSUME cfg \in Configs, ApplyInv, Account
  PROVE  \E s, i, o : Context(s, i, o) /\ Moves(s, i, o)
<1>1. PICK s, i, o : Context(s, i, o) /\ o.op = "accounts"
  BY AtContext DEF Account, ApplyInv
<1>2. TreeTypes /\ HostTypes /\ o = s[i] /\ UNCHANGED <<tree, host>>
  BY <1>1 DEF ApplyInv, Context, Account
<1>3. Frame(o)
  BY <1>2, NoChange
<1>4. Done(s, i)'
  BY <1>1, <1>2, PlainDone
<1>5. cfg' = cfg
  <2>1. AccountStep
    BY DEF Account
  <2> QED BY <2>1
    DEF AccountStep, ReadGroup, NoGroups, AddGroup, GroupsAdded, WriteGroup,
        WriteGshadow, ReadUsers, AddUser, UsersAdded, WritePasswd, WriteShadow
<1>6. Moves(s, i, o)
  BY <1>1, <1>3, <1>4, <1>5 DEF Account, Advance, Moves, Context
<1> QED BY <1>1, <1>6

LEMMA PassMoves ==
  ASSUME cfg \in Configs, ApplyInv, Pass
  PROVE  \E s, i, o : Context(s, i, o) /\ Moves(s, i, o)
<1>1. PICK x \in {"verify", "audit", "zero-shell", "validate-nftables"} :
        At(x) /\ (x = "verify" => HashMatches)
  BY DEF Pass
<1>2. PICK s, i, o : Context(s, i, o) /\ o.op = x
  BY <1>1, AtContext DEF ApplyInv
<1>3. TreeTypes /\ HostTypes /\ o = s[i] /\ Op = o /\ UNCHANGED <<tree, host, cfg>>
  BY <1>2, ContextFacts DEF ApplyInv, Context, Pass, accountVars
<1>4. Frame(o)
  BY <1>3, NoChange, SMTT(60)
<1>5. ASSUME x = "verify" PROVE Sealed(o.path, o.data)'
  <2>1. ~OnHost(o.path) => Holds(Target(o.path), o.data)
    BY <1>1, <1>3, <1>5 DEF HashMatches, Reads, End, Holds
  <2> QED BY <1>3, <2>1 DEF Sealed, OnHost, Target, Holds
<1>6. Done(s, i)'
  BY <1>1, <1>2, <1>3, <1>5 DEF Done, IsLast, IsPut
<1>7. Moves(s, i, o)
  BY <1>2, <1>4, <1>6 DEF Pass, Advance, Moves, accountVars, files, Context
<1> QED BY <1>2, <1>7

-----------------------------------------------------------------------------
(* The steps that start and end an apply.                                  *)
LEMMA ExtractedTypes ==
  /\ DOMAIN ExtractedTree = Paths
  /\ \A p \in Paths : Node(ExtractedTree[p])
  /\ \A p \in Paths : ExtractedTree[p].kind = "link" =>
       BaseIs(p, "link") /\ ExtractedTree[p] = BaseTree[p]
<1>1. DOMAIN ExtractedTree = Paths
  BY DEF ExtractedTree
<1>2. ASSUME NEW p \in Paths
      PROVE  ExtractedTree[p] = IF p \in DOMAIN BaseTree THEN BaseTree[p] ELSE Missing
  BY DEF ExtractedTree
<1>3. ASSUME NEW p \in Paths
      PROVE  Node(ExtractedTree[p])
  BY <1>2, TreeAssumption, NewNodes
<1>4. ASSUME NEW p \in Paths, ExtractedTree[p].kind = "link"
      PROVE  BaseIs(p, "link") /\ ExtractedTree[p] = BaseTree[p]
  BY <1>2, <1>4, NewNodes DEF BaseIs
<1> QED BY <1>1, <1>3, <1>4

LEMMA FreshTree ==
  ASSUME tree' = ExtractedTree
  PROVE  TreeTypes' /\ TreeLinks'
BY ExtractedTypes DEF TreeTypes, TreeLinks

LEMMA SameTree ==
  ASSUME TreeTypes, TreeLinks, UNCHANGED tree
  PROVE  TreeTypes' /\ TreeLinks'
BY DEF TreeTypes, TreeLinks

LEMMA InitInv == ASSUME Init PROVE ApplyInv
<1>1. cfg \in Configs /\ tree = ExtractedTree /\ host = HostTree
  BY DEF Init, AccountsInit
<1>6. TreeTypes /\ TreeLinks /\ HostTypes
  BY <1>1, ExtractedTypes, HostAssumption DEF TreeTypes, TreeLinks, HostTypes, HostPaths
<1>7. Len(Plans[cfg]) \in Nat
  BY <1>1, PlanIs
<1>8. at = 1 /\ status = "idle" /\ applied = None /\ applies = 0 /\ faults = 0
  BY DEF Init
<1>9. at \in 1 .. Len(Plans[cfg]) + 1 /\ applies \in 0 .. MaxApplies /\ faults \in 0 .. MaxFaults
  BY <1>7, <1>8, BoundsAssumption
<1>10. Counters
  BY <1>8, <1>9 DEF Counters
<1>11. Progress
  BY <1>8 DEF Progress
<1> QED BY <1>6, <1>10, <1>11 DEF ApplyInv

LEMMA StartKeeps ==
  ASSUME ApplyInv, NEW c \in Configs, NEW fresh \in BOOLEAN, StartApply(c, fresh)
  PROVE  ApplyInv'
<1>0. TreeTypes /\ HostTypes /\ TreeLinks /\ Counters
  BY DEF ApplyInv
<1>1. TreeTypes' /\ HostTypes' /\ TreeLinks'
  <2>1. (tree' = ExtractedTree \/ UNCHANGED tree) /\ UNCHANGED host
    BY DEF StartApply
  <2> QED BY <1>0, <2>1, FreshTree, SameTree, SameHost
<1>2. cfg' = c /\ at' = 1 /\ status' = "running"
  BY DEF StartApply, Begin
<1>3. Len(Plans[c]) \in Nat /\ DOMAIN Plans[c] = 1 .. Len(Plans[c])
  BY PlanIs
<1>4. at' \in 1 .. Len(Plans[cfg']) + 1
  BY <1>2, <1>3
<1>5. applied' \in Configs \cup {None} /\ faults' = faults
  BY DEF StartApply
<1>6. applies' \in 0 .. MaxApplies
  <2>1. applies \in 0 .. MaxApplies /\ applies < MaxApplies /\ applies' = applies + 1 /\ MaxApplies \in Nat
    BY <1>0, BoundsAssumption DEF StartApply, Counters
  <2> QED BY <2>1
<1>7. Counters'
  BY <1>0, <1>2, <1>4, <1>5, <1>6 DEF Counters
<1>8. ASSUME NEW j \in DOMAIN Plans[c], j < 1 PROVE FALSE
  BY <1>3, <1>8
<1>9. Progress'
  BY <1>2, <1>8 DEF Progress
<1> QED BY <1>1, <1>7, <1>9 DEF ApplyInv

LEMMA FailKeeps ==
  ASSUME ApplyInv, Fail
  PROVE  ApplyInv'
<1>1. TreeTypes /\ HostTypes /\ TreeLinks /\ Counters
  BY DEF ApplyInv
<1>2. UNCHANGED <<tree, host, at, applied, applies, faults, cfg>> /\ status' = "failed"
  BY DEF Fail, Stop
<1>3. TreeTypes' /\ HostTypes' /\ TreeLinks'
  BY <1>1, <1>2, SameTree, SameHost
<1>4. Counters'
  BY <1>1, <1>2 DEF Counters
<1>5. Progress'
  BY <1>2 DEF Progress
<1> QED BY <1>3, <1>4, <1>5 DEF ApplyInv

(* What an operation has done stays while the tree, the host and the       *)
(* accounts do.                                                            *)
LEMMA SameDone ==
  ASSUME UNCHANGED <<tree, host, cfg, passwd>>, NEW i, Done(Plans[cfg], i)
  PROVE  Done(Plans[cfg], i)'
<1>1. (NoSuid' <=> NoSuid) /\ (NoLogins' <=> NoLogins)
  BY DEF NoSuid, NoLogins
<1>2. \A p : Exists(p)' <=> Exists(p)
  BY DEF Exists, End, OnHost, Target
<1>3. \A p, data : Sealed(p, data)' <=> Sealed(p, data)
  BY DEF Sealed, Removed, GoneDir, OnHost, Target, Holds
<1>4. \A o : InPlace(o)' <=> InPlace(o)
  BY DEF InPlace, Removed, GoneDir, OnHost, Target, Holds
<1>7. \A dir : Emptied(dir)' <=> Emptied(dir)
  BY DEF Emptied
<1>5. cfg' = cfg
  OBVIOUS
<1>6. \A s : Done(s, i) <=>
        /\ s[i].op = "strip-suid" => NoSuid'
        /\ s[i].op = "shells" => NoLogins'
        /\ s[i].op = "remove" => ~Exists(s[i].path)'
        /\ s[i].op = "remove-dir" => Emptied(s[i].path[1])'
        /\ s[i].op = "verify" => Sealed(s[i].path, s[i].data)'
        /\ IsLast(s, i) => InPlace(s[i])'
  BY <1>1, <1>2, <1>3, <1>4, <1>7 DEF Done
<1> QED BY <1>5, <1>6 DEF Done

LEMMA FinishKeeps ==
  ASSUME cfg \in Configs, ApplyInv, Finish
  PROVE  ApplyInv'
<1>1. TreeTypes /\ HostTypes /\ TreeLinks /\ Counters /\ Progress
  BY DEF ApplyInv
<1>2. /\ UNCHANGED <<tree, host, at, applies, faults, cfg, passwd>> /\ status' = "applied"
      /\ applied' = cfg /\ status = "running" /\ at > Len(Plans[cfg])
  BY DEF Finish, accountVars, files
<1>3. TreeTypes' /\ HostTypes' /\ TreeLinks'
  BY <1>1, <1>2, SameTree, SameHost
<1>4. Counters'
  BY <1>1, <1>2, SMTT(60) DEF Counters
<1>5. ASSUME NEW j \in DOMAIN Plans[cfg], j < at
      PROVE  Done(Plans[cfg], j)'
  <2>1. Done(Plans[cfg], j)
    BY <1>1, <1>2, <1>5 DEF Progress
  <2> QED BY <1>2, <2>1, SameDone
<1>6. Progress'
  BY <1>2, <1>5 DEF Progress
<1> QED BY <1>3, <1>4, <1>6 DEF ApplyInv

LEMMA WrittenLinks ==
  ASSUME TreeTypes, TreeLinks, NEW p \in Paths, NEW data, tree' = Written(p, data)
  PROVE  TreeTypes' /\ TreeLinks'
<1>1. CASE OnHost(p)
  <2>1. UNCHANGED tree
    BY <1>1 DEF Written
  <2> QED BY <2>1, SameTree
<1>2. CASE ~OnHost(p)
  <2> DEFINE t == Target(p)
  <2>1. /\ TreeTypes' /\ tree'[t].kind = "file"
        /\ \A q \in Paths : q # t => tree'[q] = tree[q]
    BY <1>2, WrittenFacts
  <2> HIDE DEF t
  <2>2. ASSUME NEW q \in Paths, tree'[q].kind = "link"
        PROVE  q # t /\ tree'[q] = tree[q]
    BY <2>1, <2>2
  <2>3. TreeLinks'
    BY <2>2 DEF TreeLinks
  <2> QED BY <2>1, <2>3
<1> QED BY <1>1, <1>2

LEMMA CrashKeeps ==
  ASSUME cfg \in Configs, ApplyInv, Crash
  PROVE  ApplyInv'
<1>1. TreeTypes /\ HostTypes /\ TreeLinks /\ Counters
  BY DEF ApplyInv
<1>2. /\ UNCHANGED <<applied, applies, cfg>> /\ status' = "idle" /\ at' = 1
      /\ faults' = faults + 1 /\ faults < MaxFaults
  BY DEF Crash, Stop, Tear
<1>3. TreeTypes' /\ HostTypes' /\ TreeLinks'
  <2>1. CASE UNCHANGED <<tree, host>>
    BY <1>1, <2>1, SameTree, SameHost
  <2>2. CASE /\ At("write") \/ At("copy")
             /\ Takes(Op.path)
             /\ tree' = Written(Op.path, Torn) /\ host' = HostWritten(Op.path, Torn)
    <3>1. PICK x \in {"write", "copy"} : At(x)
      BY <2>2
    <3>2. PICK s, i, o : Context(s, i, o) /\ o.op = x
      BY <1>1, <3>1, AtContext
    <3> DEFINE p == o.path
    <3>3. p \in Paths /\ Op = o
      BY <3>2, ContextFacts DEF PathKinds
    <3>4. Takes(p) /\ tree' = Written(p, Torn) /\ host' = HostWritten(p, Torn)
      BY <2>2, <3>3
    <3> HIDE DEF p
    <3>5. HostTypes'
      BY <1>1, <3>4, HostFacts
    <3>6. TreeTypes' /\ TreeLinks'
      BY <1>1, <3>3, <3>4, WrittenLinks
    <3> QED BY <3>5, <3>6
  <2> QED BY <2>1, <2>2 DEF Crash
<1>4. Len(Plans[cfg]) \in Nat
  BY PlanIs
<1>5. at' \in 1 .. Len(Plans[cfg']) + 1
  BY <1>2, <1>4
<1>6. faults' \in 0 .. MaxFaults
  <2>1. faults \in 0 .. MaxFaults /\ MaxFaults \in Nat
    BY <1>1, BoundsAssumption DEF Counters
  <2> QED BY <1>2, <2>1
<1>7. Counters'
  BY <1>1, <1>2, <1>5, <1>6 DEF Counters
<1>8. Progress'
  BY <1>2 DEF Progress
<1> QED BY <1>3, <1>7, <1>8 DEF ApplyInv

LEMMA ApplyStep ==
  ASSUME AccountsTypeOK, ApplyInv, [Next]_vars
  PROVE  ApplyInv'
<1>0. cfg \in Configs
  BY DEF AccountsTypeOK
<1>1. CASE \E c \in Configs, fresh \in BOOLEAN : StartApply(c, fresh)
  BY <1>1, StartKeeps
<1>2. CASE CopyOverlay
  BY <1>0, <1>2, CopyMoves, MovesKeep
<1>3. CASE WriteFile
  BY <1>0, <1>3, WriteMoves, MovesKeep
<1>4. CASE Unlink
  BY <1>0, <1>4, UnlinkMoves, MovesKeep
<1>5. CASE Symlink
  BY <1>0, <1>5, SymlinkMoves, MovesKeep
<1>6. CASE Account
  BY <1>0, <1>6, AccountMoves, MovesKeep
<1>7. CASE Pass
  BY <1>0, <1>7, PassMoves, MovesKeep
<1>8. CASE RemoveBinary
  BY <1>0, <1>8, RemoveMoves, MovesKeep
<1>9. CASE RemoveDir
  BY <1>0, <1>9, RemoveDirMoves, MovesKeep
<1>10. CASE StripSuid
  BY <1>0, <1>10, StripMoves, MovesKeep
<1>11. CASE NoLogin
  BY <1>0, <1>11, ShellsMove, MovesKeep
<1>12. CASE Fail
  BY <1>12, FailKeeps
<1>13. CASE Finish
  BY <1>0, <1>13, FinishKeeps
<1>14. CASE Crash
  BY <1>0, <1>14, CrashKeeps
<1>15. CASE UNCHANGED vars
  <2>1. UNCHANGED <<tree, host, at, status, applied, applies, faults, cfg, passwd>>
    BY <1>15 DEF vars, accountVars, files
  <2>2. TreeTypes' /\ HostTypes' /\ TreeLinks'
    BY <2>1, SameTree, SameHost DEF ApplyInv
  <2>3. Counters'
    BY <2>1, SMTT(60) DEF ApplyInv, Counters
  <2>4. Progress'
    <3>1. Progress
      BY DEF ApplyInv
    <3>2. ASSUME NEW i, Done(Plans[cfg], i) PROVE Done(Plans[cfg], i)'
      BY <2>1, <3>2, SameDone
    <3> QED BY <2>1, <3>1, <3>2 DEF Progress
  <2> QED BY <2>2, <2>3, <2>4 DEF ApplyInv
<1> QED
  BY <1>1, <1>2, <1>3, <1>4, <1>5, <1>6, <1>7, <1>8, <1>9, <1>10, <1>11, <1>12, <1>13, <1>14, <1>15
  DEF Next

(* The inductive invariant: the tree and the host are made of nodes, the   *)
(* links are the image's or ones that plans make, and what the operations  *)
(* before the one an apply is at have done is still there.                 *)
THEOREM AppliesInvariant == Spec => [](AccountsTypeOK /\ ApplyInv)
<1>1. Spec => []AccountsTypeOK
  BY ApplyImplementsAccounts, AccountsTypesHold, PTL
<1>2. Init => ApplyInv
  BY InitInv
<1>3. AccountsTypeOK /\ ApplyInv /\ [Next]_vars => ApplyInv'
  BY ApplyStep
<1> QED BY <1>1, <1>2, <1>3, PTL DEF Spec

(* The tree, the place in the plan and the counters keep their types, for  *)
(* any image, configs, failures and crashes.                               *)
THEOREM ApplyTypeCorrect == Spec => []TypeOK
<1>1. AccountsTypeOK /\ ApplyInv => TypeOK
  BY DEF ApplyInv, TreeTypes, HostTypes, Counters, TypeOK
<1> QED BY <1>1, AppliesInvariant, PTL

LEMMA AllDone ==
  ASSUME AccountsTypeOK, ApplyInv, status = "applied", NEW o \in Range(Plans[cfg])
  PROVE  \E i \in DOMAIN Plans[cfg] : o = Plans[cfg][i] /\ Done(Plans[cfg], i)
<1>1. cfg \in Configs
  BY DEF AccountsTypeOK
<1>2. DOMAIN Plans[cfg] = 1 .. Len(Plans[cfg]) /\ Len(Plans[cfg]) \in Nat
  BY <1>1, PlanIs
<1>3. PICK i \in DOMAIN Plans[cfg] : o = Plans[cfg][i]
  BY DEF Range
<1>4. at > Len(Plans[cfg]) /\ at \in Nat
  BY <1>2 DEF ApplyInv, Progress, Counters
<1>5. i < at
  BY <1>2, <1>4
<1>6. Done(Plans[cfg], i)
  BY <1>5 DEF ApplyInv, Progress
<1> QED BY <1>3, <1>6

(* An apply that succeeds leaves no set-id file, no login shell, no listed *)
(* binary that the code can see, and in a listed directory nothing but     *)
(* what the last stage writes, for any image and configs and whatever      *)
(* earlier applies left in the tree.                                       *)
THEOREM TreeStaysHardened == Spec => []TreeIsHardened
<1>1. ASSUME AccountsTypeOK, ApplyInv, status = "applied"
      PROVE  /\ NoSuid /\ NoLogins
             /\ \A b \in Range(cfg.remove), d \in Range(SearchPaths) : ~Exists(<<d, b>>)
             /\ \A dir \in Range(cfg.removeDirs) : Emptied(dir)
  <2>1. PlanShape(cfg, Plans[cfg])
    BY <1>1, PlanIs DEF AccountsTypeOK
  <2>2. NoSuid
    <3>1. PICK o \in Range(Plans[cfg]) : o.op = "strip-suid"
      BY <2>1 DEF PlanShape
    <3> QED BY <1>1, <3>1, AllDone DEF Done
  <2>3. NoLogins
    <3>1. PICK o \in Range(Plans[cfg]) : o.op = "shells"
      BY <2>1 DEF PlanShape
    <3> QED BY <1>1, <3>1, AllDone DEF Done
  <2>4. ASSUME NEW b \in Range(cfg.remove), NEW d \in Range(SearchPaths)
        PROVE  ~Exists(<<d, b>>)
    <3> DEFINE p == <<d, b>>
               o == [op |-> "remove", path |-> p]
    <3>1. o \in Range(Plans[cfg])
      BY <2>1 DEF PlanShape
    <3>2. o.op = "remove" /\ o.path = p
      OBVIOUS
    <3> HIDE DEF o, p
    <3>3. ~Exists(p)
      BY <1>1, <3>1, <3>2, AllDone DEF Done
    <3> QED BY <3>3 DEF p
  <2>5. ASSUME NEW dir \in Range(cfg.removeDirs) PROVE Emptied(dir)
    <3>1. PICK o \in Range(Plans[cfg]) : o.op = "remove-dir" /\ o.path[1] = dir
      BY <2>1 DEF PlanShape
    <3>2. Emptied(o.path[1])
      BY <1>1, <3>1, AllDone DEF Done
    <3> QED BY <3>1, <3>2
  <2> QED BY <2>2, <2>3, <2>4, <2>5
<1>2. AccountsTypeOK /\ ApplyInv => TreeIsHardened
  BY <1>1 DEF TreeIsHardened, NoSuid, NoLogins, Emptied, GoneDir
<1> QED BY <1>2, AppliesInvariant, PTL

(* A file of the image whose hash apply checked has that content when      *)
(* apply succeeds, unless the config itself has it removed or pins one of  *)
(* the files that are written after the check: no later operation writes   *)
(* to it, directly or through a link.  A path that is an absolute link is  *)
(* left out: the hash is then that of a file of the build host.            *)
THEOREM VerifiedStaysSealed == Spec => []VerifiedIsSealed
<1>1. ASSUME AccountsTypeOK, ApplyInv, status = "applied", NEW i \in 1 .. Len(cfg.verify)
      PROVE  Sealed(cfg.verify[i].path, cfg.verify[i].data)
  <2>1. PlanShape(cfg, Plans[cfg])
    BY <1>1, PlanIs DEF AccountsTypeOK
  <2>2. PICK o \in Range(Plans[cfg]) :
          o.op = "verify" /\ o.path = cfg.verify[i].path /\ o.data = cfg.verify[i].data
    BY <2>1 DEF PlanShape
  <2>3. Sealed(o.path, o.data)
    BY <1>1, <2>2, AllDone DEF Done
  <2> QED BY <2>2, <2>3
<1>2. AccountsTypeOK /\ ApplyInv => VerifiedIsSealed
  BY <1>1 DEF VerifiedIsSealed, Sealed, Holds
<1> QED BY <1>2, AppliesInvariant, PTL

(* The last of the operations that put something at a path.                *)
LEMMA LastPutIs ==
  ASSUME NEW c \in Configs, NEW p, Puts(c, p) # {}
  PROVE  \E i \in DOMAIN Plans[c] :
           LastPut(c, p) = Plans[c][i] /\ IsLast(Plans[c], i) /\ Plans[c][i].path = p
<1> DEFINE s == Plans[c]
           n == Len(s)
           T == {n - i : i \in Puts(c, p)}
<1>1. n \in Nat /\ DOMAIN s = 1 .. n
  BY PlanIs
<1>2. Puts(c, p) \subseteq 1 .. n
  BY DEF Puts
<1> HIDE DEF n
<1>3. T \subseteq Nat /\ T # {}
  BY <1>1, <1>2
<1>4. PICK x \in T : \A y \in T : x <= y
  <2> HIDE DEF T
  <2> QED BY <1>3, LeastElement
<1>5. PICK l \in Puts(c, p) : x = n - l
  BY <1>4
<1>6. ASSUME NEW j \in Puts(c, p) PROVE j <= l
  <2>1. n - j \in T /\ j \in 1 .. n /\ l \in 1 .. n
    BY <1>2
  <2>2. n - l <= n - j
    BY <1>4, <1>5, <2>1
  <2> QED BY <1>1, <2>1, <2>2
<1> DEFINE i == CHOOSE i \in Puts(c, p) : \A j \in Puts(c, p) : j <= i
<1>7. i \in Puts(c, p) /\ \A j \in Puts(c, p) : j <= i
  BY <1>6
<1>8. LastPut(c, p) = s[i]
  BY DEF LastPut
<1> HIDE DEF i
<1>9. i \in DOMAIN s /\ s[i].path = p /\ s[i].op \in {"write", "symlink"}
  BY <1>1, <1>7 DEF Puts, n
<1>10. ASSUME NEW j \in DOMAIN s, IsPut(s[j]), s[j].path = p
       PROVE  j <= i
  <2>1. j \in Puts(c, p)
    BY <1>1, <1>10 DEF Puts, IsPut, n
  <2> QED BY <1>7, <2>1
<1> QED BY <1>8, <1>9, <1>10 DEF IsLast, IsPut

(* When apply succeeds, every path that it generates is what the last      *)
(* operation for it made, for any tree that it started from, except where  *)
(* the image has an absolute link, where the config has it removed and for *)
(* a resolver that the config overlays.                                    *)
THEOREM GeneratedStaysInPlace == Spec => []GeneratedInPlace
<1>1. ASSUME AccountsTypeOK, ApplyInv, status = "applied", NEW p \in Paths,
             Puts(cfg, p) # {}
      PROVE  InPlace(LastPut(cfg, p)) /\ LastPut(cfg, p).path = p
  <2>1. cfg \in Configs
    BY <1>1 DEF AccountsTypeOK
  <2>2. PICK i \in DOMAIN Plans[cfg] :
          LastPut(cfg, p) = Plans[cfg][i] /\ IsLast(Plans[cfg], i) /\ Plans[cfg][i].path = p
    BY <1>1, <2>1, LastPutIs
  <2>3. DOMAIN Plans[cfg] = 1 .. Len(Plans[cfg]) /\ Len(Plans[cfg]) \in Nat
    BY <2>1, PlanIs
  <2>4. at > Len(Plans[cfg]) /\ at \in Nat
    BY <1>1, <2>3 DEF ApplyInv, Progress, Counters
  <2>5. i < at
    BY <2>3, <2>4
  <2>6. Done(Plans[cfg], i)
    BY <1>1, <2>5 DEF ApplyInv, Progress
  <2> QED BY <1>1, <2>2, <2>6 DEF Done
<1>2. AccountsTypeOK /\ ApplyInv => GeneratedInPlace
  BY <1>1, ZenonT(60) DEF GeneratedInPlace, InPlace, Holds
<1> QED BY <1>2, AppliesInvariant, PTL

-----------------------------------------------------------------------------
(* An apply that succeeded once.  What the config's overlay puts at a path,*)
(* and what a check of the hash of p sees.                                 *)
Brought(c, p, data) == \E o \in Copies(c, p) : o.data = data

Matches(p, data) == ~OnHost(p) /\ Holds(Target(p), data)

KernelIsGood ==
  \/ tree[BootConfig] = Missing
  \/ tree[BootConfig].kind = "file" /\ tree[BootConfig].data \in GoodKernels

OwnRulesValid(c) == NftablesConf(c) # Torn /\ ValidateNftables(NftablesConf(c), c)

(* What operation o of c shows by not failing.                             *)
Shown(c, o) ==
  /\ o.op = "verify" =>
       IF Brings(c, o.path) THEN Brought(c, o.path, o.data) ELSE Matches(o.path, o.data)
  /\ o.op = "audit" =>
       IF Brings(c, BootConfig) THEN \E data \in GoodKernels : Brought(c, BootConfig, data)
       ELSE KernelIsGood
  /\ o.op = "validate-nftables" => OwnRulesValid(c)
  /\ o.op \in {"symlink", "remove"} => ~BaseIs(o.path, "dir")

(* The directories of a tree are the image's, and some stay.               *)
Kinds ==
  \A p \in Paths :
    /\ tree[p].kind = "dir" => BaseIs(p, "dir")
    /\ StaysDirectory(p) => tree[p].kind = "dir"

(* Where a link is to be made, the old one is gone.                        *)
LinkReady == At("symlink") => tree[Op.path].kind \in {"missing", "dir"}

(* What has been copied is there until binaries are removed.               *)
CopiesStay ==
  status = "running" =>
    \A i \in DOMAIN Plans[cfg] :
      (/\ i < at /\ Plans[cfg][i].op = "copy" /\ Brings(cfg, Plans[cfg][i].path)
       /\ \A j \in DOMAIN Plans[cfg] : j < at => Plans[cfg][j].op \notin {"remove", "remove-dir"})
      => /\ tree[Plans[cfg][i].path].kind = "file"
         /\ tree[Plans[cfg][i].path].data = Plans[cfg][i].data

ShownSoFar ==
  status \in {"running", "applied"} =>
    \A i \in DOMAIN Plans[cfg] : i < at => Shown(cfg, Plans[cfg][i])

ShownBefore ==
  applied # None => status # "failed" /\ \A o \in Range(Plans[cfg]) : Shown(cfg, o)

ReuseInv ==
  /\ Kinds /\ LinkReady
  /\ applied # None => applied = cfg
  /\ Repeatable(cfg) => CopiesStay /\ ShownSoFar /\ ShownBefore

(* Files that have their content, and what else has not changed.           *)
Alike(q) ==
  \/ tree'[q] = tree[q]
  \/ tree[q].kind = "file" /\ tree'[q].kind = "file" /\ tree'[q].data = tree[q].data

Spares(o) == \A q \in Paths : Touches(o, q) \/ Alike(q)

LEMMA FrameSpares ==
  ASSUME NEW o, Frame(o)
  PROVE  Spares(o)
BY DEF Frame, Changed, Touches, Alike, Spares

(* Where no plan makes a link and the image has none.                      *)
LEMMA NoLink ==
  ASSUME TreeTypes, TreeLinks, NEW p \in Paths, p \notin PathsOf({"symlink"})
  PROVE  /\ ~BaseLink(p, TRUE) => ~OnHost(p)
         /\ ~BaseIs(p, "link") => tree[p].kind # "link"
<1>1. \A to : ~PlanLink(p, to)
  BY PlanLinkPath
<1>2. OnHost(p) => tree[p].kind = "link"
  BY DEF OnHost
<1>3. tree[p].kind = "link" => BaseIs(p, "link")
  BY <1>1 DEF TreeLinks
<1>4. OnHost(p) => BaseLink(p, TRUE)
  BY <1>1, <1>2, LinkFacts
<1> QED BY <1>3, <1>4

(* A check that looks at what has not changed sees the same.               *)
LEMMA SameSight ==
  ASSUME TreeTypes, TreeLinks, NEW p \in Paths, Alike(p), Alike(BaseEnd(p)), NEW data,
         Matches(p, data)
  PROVE  Matches(p, data)'
<1> DEFINE t == Target(p)
<1>1. ~OnHost(p) /\ Holds(t, data)
  BY DEF Matches
<1>2. t \in {p, BaseEnd(p)}
  BY <1>1, TargetFacts
<1>3. ~OnHost(p)' /\ Target(p)' = t
  BY <1>1 DEF Alike, OnHost, Target
<1> HIDE DEF t
<1>4. Alike(t)
  BY <1>2
<1>5. tree'[t].kind = "file" /\ tree'[t].data = data
  BY <1>1, <1>4 DEF Holds, Alike
<1> QED BY <1>3, <1>5 DEF Matches, Holds

LEMMA RangePath ==
  ASSUME NEW c \in Configs, NEW o \in Range(Plans[c]), o.op \in PathKinds
  PROVE  o.path \in Paths
<1>1. PICK i \in DOMAIN Plans[c] : o = Plans[c][i]
  BY DEF Range
<1> QED BY <1>1, OpPath

LEMMA BootPath == BootConfig \in Paths
BY DEF Paths

(* What the checks of a repeatable config look at is not on the host.      *)
LEMMA LooksInside ==
  ASSUME TreeTypes, TreeLinks, NEW c \in Configs, Repeatable(c)
  PROVE  /\ \A o \in Range(Plans[c]) : o.op = "verify" => ~OnHost(o.path)
         /\ tree[BootConfig].kind # "link"
         /\ KernelAudited <=> KernelIsGood
<1>1. ASSUME NEW o \in Range(Plans[c]), o.op = "verify" PROVE ~OnHost(o.path)
  <2> DEFINE p == o.path
  <2>1. p \in Paths
    BY <1>1, RangePath DEF PathKinds
  <2>2. p \notin PathsOf({"symlink"})
    BY <1>1 DEF Repeatable, Brings, Leaves
  <2>3. ~BaseLink(p, TRUE)
    <3>1. CASE Brings(c, p)
      BY <3>1 DEF Brings, BaseLink
    <3>2. CASE BaseIs(BaseEnd(p), "file")
      BY <3>2 DEF BaseEnd, BaseLink, BaseIs
    <3> QED BY <1>1, <3>1, <3>2 DEF Repeatable
  <2> HIDE DEF p
  <2>4. ~OnHost(p)
    BY <2>1, <2>2, <2>3, NoLink
  <2> QED BY <2>4 DEF p
<1>2. tree[BootConfig].kind # "link"
  <2>1. BootConfig \notin PathsOf({"symlink"}) /\ ~BaseIs(BootConfig, "link")
    BY DEF Repeatable, Brings, Leaves, BaseIs
  <2> QED BY <2>1, BootPath, NoLink
<1>3. KernelAudited <=> KernelIsGood
  <2>1. End(BootConfig) = tree[BootConfig]
    BY <1>2 DEF End, OnHost, Target
  <2> QED BY <2>1 DEF KernelAudited, KernelIsGood, Reads
<1> QED BY <1>1, <1>2, <1>3

(* What an operation has shown holds as long as operations of the config   *)
(* are all that happens to the tree.                                       *)
LEMMA ShownKept ==
  ASSUME TreeTypes, TreeLinks, NEW c \in Configs, Repeatable(c),
         NEW o \in Range(Plans[c]), Spares(o), NEW u \in Range(Plans[c]), Shown(c, u)
  PROVE  Shown(c, u)'
<1>1. ASSUME NEW p \in Paths, Leaves(c, p)
      PROVE  Alike(p) /\ Alike(BaseEnd(p))
  <2>1. ~Touches(o, p) /\ ~Touches(o, BaseEnd(p)) /\ BaseEnd(p) \in Paths
    BY <1>1, BaseEnds DEF Leaves
  <2> QED BY <2>1 DEF Spares
<1>2. ASSUME u.op = "verify", ~Brings(c, u.path)
      PROVE  Matches(u.path, u.data)'
  <2>1. u.path \in Paths
    BY <1>2, RangePath DEF PathKinds
  <2>2. Leaves(c, u.path)
    BY <1>2 DEF Repeatable
  <2>3. Matches(u.path, u.data)
    BY <1>2 DEF Shown
  <2> QED BY <1>1, <2>1, <2>2, <2>3, SameSight
<1>3. ASSUME u.op = "audit", ~Brings(c, BootConfig)
      PROVE  KernelIsGood'
  <2>1. Leaves(c, BootConfig) /\ KernelIsGood
    BY <1>3 DEF Repeatable, Shown
  <2>2. Alike(BootConfig)
    BY <1>1, <2>1, BootPath
  <2> QED BY <2>1, <2>2, NewNodes DEF KernelIsGood, Alike
<1>4. (Shown(c, u) /\ u.op = "verify" /\ Brings(c, u.path)) => Brought(c, u.path, u.data)
  BY DEF Shown
<1> QED BY <1>2, <1>3 DEF Shown

(* A freshly extracted tree passes the checks that look at the image's.    *)
LEMMA ShownFresh ==
  ASSUME NEW c \in Configs, Repeatable(c), tree' = ExtractedTree,
         NEW u \in Range(Plans[c]), Shown(c, u)
  PROVE  Shown(c, u)'
<1>1. ASSUME NEW p \in Paths
      PROVE  tree'[p] = IF p \in DOMAIN BaseTree THEN BaseTree[p] ELSE Missing
  BY DEF ExtractedTree
<1>2. ASSUME u.op = "verify", ~Brings(c, u.path)
      PROVE  Matches(u.path, u.data)'
  <2> DEFINE p == u.path
             e == BaseEnd(p)
  <2>1. p \in Paths /\ e \in Paths
    BY <1>2, RangePath, BaseEnds DEF PathKinds
  <2>2. BaseIs(e, "file") /\ BaseTree[e].data = u.data
    BY <1>2 DEF Repeatable
  <2>3. tree'[e].kind = "file" /\ tree'[e].data = u.data
    BY <1>1, <2>1, <2>2 DEF BaseIs
  <2>4. CASE BaseLink(p, FALSE)
    <3>1. tree'[p] = BaseTree[p] /\ e = BaseTree[p].to
      BY <1>1, <2>1, <2>4 DEF BaseIs, BaseLink, BaseEnd
    <3>2. Target(p)' = e /\ ~OnHost(p)'
      BY <2>4, <3>1 DEF Target, OnHost, BaseIs, BaseLink
    <3> QED BY <2>3, <3>2 DEF Matches, Holds
  <2>5. CASE ~BaseLink(p, FALSE)
    <3>1. e = p
      BY <2>5 DEF BaseEnd
    <3> HIDE DEF e
    <3>2. Target(p)' = p /\ ~OnHost(p)'
      BY <2>3, <3>1 DEF Target, OnHost
    <3> QED BY <2>3, <3>1, <3>2 DEF Matches, Holds
  <2> QED BY <2>4, <2>5
<1>3. ASSUME u.op = "audit", ~Brings(c, BootConfig)
      PROVE  KernelIsGood'
  <2>1. \/ BootConfig \notin DOMAIN BaseTree
        \/ BaseIs(BootConfig, "file") /\ BaseTree[BootConfig].data \in GoodKernels
    BY <1>3 DEF Repeatable
  <2>2. CASE BootConfig \notin DOMAIN BaseTree
    <3>1. tree'[BootConfig] = Missing
      BY <1>1, <2>2, BootPath
    <3> QED BY <3>1 DEF KernelIsGood
  <2>3. CASE BaseIs(BootConfig, "file") /\ BaseTree[BootConfig].data \in GoodKernels
    BY <1>1, <2>3, BootPath DEF KernelIsGood, BaseIs
  <2> QED BY <2>1, <2>2, <2>3
<1>4. (Shown(c, u) /\ u.op = "verify" /\ Brings(c, u.path)) => Brought(c, u.path, u.data)
  BY DEF Shown
<1> QED BY <1>2, <1>3 DEF Shown

(* What a check of the hash, or of the kernel, finds where the overlay has *)
(* put a file: that file.                                                  *)
LEMMA CopyThere ==
  ASSUME NEW s, NEW i, NEW o, Context(s, i, o), o.op \in {"verify", "audit"}, CopiesStay,
         NEW p, Brings(cfg, p), NEW u \in Copies(cfg, p)
  PROVE  tree[p].kind = "file" /\ tree[p].data = u.data
<1>1. /\ cfg \in Configs /\ status = "running" /\ s = Plans[cfg] /\ i = at /\ i \in DOMAIN s
      /\ o = s[i] /\ DOMAIN s = 1 .. Len(s) /\ Len(s) \in Nat
  <2>1. cfg \in Configs /\ status = "running" /\ s = Plans[cfg] /\ i = at /\ i \in DOMAIN s /\ o = s[i]
    BY DEF Context
  <2> QED BY <2>1, PlanIs
<1>2. InOrder(s)
  BY ContextFacts DEF Part
<1>3. u \in Range(s) /\ u.op = "copy" /\ u.path = p
  BY <1>1 DEF Copies
<1>4. PICK j \in DOMAIN s : u = s[j]
  BY <1>3 DEF Range
<1>5. Earliest(o) \in {3, 4} /\ Latest(o) = Earliest(o)
  BY DEF Earliest, Latest
<1>6. Latest(u) = 0
  BY <1>3, EarlyPhases
<1>7. j < at
  <2>1. j # i
    BY <1>3, <1>4, <1>1
  <2>2. ~(i < j)
    <3>1. i < j => Earliest(o) <= Latest(u)
      BY <1>1, <1>2, <1>4 DEF InOrder
    <3> QED BY <1>5, <1>6, <3>1
  <2> QED BY <1>1, <2>1, <2>2
<1>8. ASSUME NEW l \in DOMAIN s, l < at PROVE s[l].op \notin {"remove", "remove-dir"}
  <2>1. Earliest(s[l]) <= Latest(o)
    BY <1>1, <1>2, <1>8 DEF InOrder
  <2>2. s[l].op = "remove" => Earliest(s[l]) = 5
    BY DEF Earliest
  <2>3. s[l].op = "remove-dir" => Earliest(s[l]) = 6
    BY DEF Earliest
  <2> QED BY <1>5, <2>1, <2>2, <2>3
<1> QED BY <1>1, <1>3, <1>4, <1>7, <1>8 DEF CopiesStay

(* What the last check of all finds: the rules of the config.              *)
LEMMA RulesThere ==
  ASSUME ApplyInv, NEW s, NEW i, NEW o, Context(s, i, o), o.op = "validate-nftables",
         Repeatable(cfg)
  PROVE  tree[Nftables].kind = "file" /\ tree[Nftables].data = NftablesConf(cfg)
<1>1. /\ cfg \in Configs /\ status = "running" /\ s = Plans[cfg] /\ i = at /\ i \in DOMAIN s
      /\ o = s[i] /\ DOMAIN s = 1 .. Len(s) /\ Len(s) \in Nat
  <2>1. cfg \in Configs /\ status = "running" /\ s = Plans[cfg] /\ i = at /\ i \in DOMAIN s /\ o = s[i]
    BY DEF Context
  <2> QED BY <2>1, PlanIs
<1>2. InOrder(s) /\ PlanShape(cfg, s)
  BY <1>1, PlanIs DEF Part
<1>3. \E u \in Range(s) : u.op = "write" /\ u.path = Nftables
  BY <1>2 DEF PlanShape
<1>4. PICK y \in DOMAIN s : s[y].op = "write" /\ s[y].path = Nftables
  BY <1>3 DEF Range
<1>5. Puts(cfg, Nftables) # {}
  BY <1>1, <1>4 DEF Puts
<1>6. PICK j \in DOMAIN s : IsLast(s, j) /\ s[j].path = Nftables
  BY <1>1, <1>5, LastPutIs
<1> DEFINE u == s[j]
<1>7. PlanOp(cfg, u) /\ u.op \in {"write", "symlink"} /\ u.path = Nftables
  BY <1>1, <1>6, OpFacts DEF IsLast, IsPut
<1>8. Nftables[1] = "etc" /\ "etc" \notin LinkDirs /\ "etc" # UnitDir /\ Nftables \notin HardeningFiles
  <2>1. Nftables[1] = "etc"
    BY DEF Nftables
  <2>2. "etc" \notin LinkDirs /\ "etc" # UnitDir
    BY DEF LinkDirs, UnitDir, LocalFs, MultiUser, NetworkOnline
  <2>3. /\ SysctlHardening[1] = "etc/sysctl.d" /\ SysctlLock[1] = "etc/sysctl.d"
        /\ Journald[1] = "etc/systemd/journald.conf.d" /\ TeeModules[1] = "etc/modules-load.d"
    BY DEF SysctlHardening, SysctlLock, Journald, TeeModules
  <2>4. Nftables \notin HardeningFiles
    BY <2>1, <2>3 DEF HardeningFiles
  <2> QED BY <2>1, <2>2, <2>4
<1>9. u.op = "write" /\ u.data = NftablesConf(cfg)
  <2>1. ~LinkPath(Nftables)
    BY <1>8 DEF LinkPath
  <2> HIDE DEF u
  <2> QED BY <1>7, <2>1 DEF PlanOp, Checks
<1>10. Latest(u) = 2
  BY <1>7, <1>8, <1>9 DEF Latest, Late
<1>11. j < at
  <2>1. j # i
    BY <1>1, <1>9
  <2>2. Earliest(o) = 10
    BY DEF Earliest
  <2>3. ~(i < j)
    <3>1. i < j => Earliest(o) <= Latest(u)
      BY <1>1, <1>2 DEF InOrder
    <3> QED BY <1>10, <2>2, <3>1
  <2> QED BY <1>1, <2>1, <2>3
<1>12. Done(s, j)
  BY <1>1, <1>11 DEF ApplyInv, Progress
<1>13. InPlace(u)
  BY <1>6, <1>12 DEF Done
<1>14. tree[Nftables].kind # "link" /\ Nftables \in Paths
  <2>1. Nftables \in Paths
    BY <1>1, <1>4, OpPath DEF PathKinds
  <2>2. Nftables \notin PathsOf({"symlink"})
    BY <1>8, SymlinkPathKind DEF LinkPath
  <2> QED BY <2>1, <2>2, NoLink DEF ApplyInv, Repeatable
<1>15. Target(Nftables) = Nftables /\ ~OnHost(Nftables)
  BY <1>14 DEF Target, OnHost
<1>16. ~Removed(Nftables)
  <2>1. "etc" \in WriteDirs
    BY DEF WriteDirs
  <2> QED BY <1>8, <2>1, Disjoint DEF Removed, Repeatable
<1> HIDE DEF u
<1> QED BY <1>7, <1>9, <1>13, <1>15, <1>16 DEF InPlace, Holds

(* An operation that does not fail, and shows what it does.                *)
Turn(o) ==
  /\ at' = at + 1 \/ (at' = at /\ o.op = "accounts")
  /\ (o.op = "copy" /\ tree[o.path].kind # "link") =>
       tree'[o.path].kind = "file" /\ tree'[o.path].data = o.data
  /\ o.op = "unlink" => tree'[o.path].kind \in {"missing", "dir"}
  /\ Repeatable(cfg) => Shown(cfg, o)'

LEMMA KindsKept ==
  ASSUME Kinds, NEW s, NEW i, NEW o, Context(s, i, o), Frame(o)
  PROVE  Kinds'
<1>1. o \in UNION {Range(Plans[c]) : c \in Configs}
  BY DEF Context, Range
<1>2. ASSUME NEW p \in Paths
      PROVE  /\ tree'[p].kind = "dir" => BaseIs(p, "dir")
             /\ StaysDirectory(p) => tree'[p].kind = "dir"
  <2>1. Changed(o, p)
    BY DEF Frame
  <2>2. ASSUME tree'[p].kind = "dir" PROVE BaseIs(p, "dir")
    <3>1. tree'[p] = tree[p]
      BY <2>1, <2>2, NewNodes DEF Changed
    <3> QED BY <2>2, <3>1 DEF Kinds
  <2>4. ASSUME StaysDirectory(p) PROVE tree'[p].kind = "dir"
    <3>1. tree[p].kind = "dir"
      BY <2>4 DEF Kinds
    <3>2. Touches(o, p) => o.op \in {"unlink", "symlink", "remove"}
      BY <1>1, <2>4 DEF StaysDirectory
    <3>3. tree'[p] = tree[p]
      BY <2>1, <3>1, <3>2, NewNodes DEF Changed, Touches
    <3> QED BY <3>1, <3>3
  <2> QED BY <2>2, <2>4
<1> QED BY <1>2 DEF Kinds

LEMMA LinkReadyKept ==
  ASSUME ApplyInv, NEW s, NEW i, NEW o, Context(s, i, o), Moves(s, i, o), Turn(o)
  PROVE  LinkReady'
<1> SUFFICES ASSUME At("symlink")'
             PROVE  tree'[Op'.path].kind \in {"missing", "dir"}
  BY DEF LinkReady
<1>1. /\ cfg \in Configs /\ s = Plans[cfg] /\ i = at /\ i \in DOMAIN s /\ o = s[i]
      /\ DOMAIN s = 1 .. Len(s) /\ Len(s) \in Nat
  <2>1. cfg \in Configs /\ s = Plans[cfg] /\ i = at /\ i \in DOMAIN s /\ o = s[i]
    BY DEF Context
  <2> QED BY <2>1, PlanIs
<1>2. cfg' = cfg /\ at' <= Len(s) /\ s[at'].op = "symlink" /\ Op' = s[at']
  BY <1>1 DEF At, Op, Moves
<1>3. at' = at + 1
  BY <1>1, <1>2 DEF Turn
<1>4. at' \in DOMAIN s /\ at' - 1 = i
  BY <1>1, <1>2, <1>3
<1>5. Paired(s)
  BY ContextFacts DEF Part
<1>6. o.op = "unlink" /\ o.path = s[at'].path
  BY <1>1, <1>2, <1>4, <1>5 DEF Paired
<1> QED BY <1>2, <1>6 DEF Turn

LEMMA CopiesKept ==
  ASSUME ApplyInv, CopiesStay, NEW s, NEW i, NEW o, Context(s, i, o), Moves(s, i, o), Turn(o)
  PROVE  CopiesStay'
<1>1. /\ cfg \in Configs /\ status = "running" /\ s = Plans[cfg] /\ i = at /\ i \in DOMAIN s
      /\ o = s[i] /\ DOMAIN s = 1 .. Len(s) /\ Len(s) \in Nat /\ o \in Range(s)
  <2>1. /\ cfg \in Configs /\ status = "running" /\ s = Plans[cfg] /\ i = at /\ i \in DOMAIN s
        /\ o = s[i]
    BY DEF Context
  <2> QED BY <2>1, PlanIs DEF Range
<1>2. cfg' = cfg /\ Spares(o)
  BY FrameSpares DEF Moves
<1>3. ASSUME NEW j \in DOMAIN s, j < at', s[j].op = "copy", Brings(cfg, s[j].path),
             \A l \in DOMAIN s : l < at' => s[l].op \notin {"remove", "remove-dir"}
      PROVE  tree'[s[j].path].kind = "file" /\ tree'[s[j].path].data = s[j].data
  <2> DEFINE u == s[j]
             p == u.path
  <2>1. at' = at + 1 \/ (at' = at /\ o.op = "accounts")
    BY DEF Turn
  <2>2. p \in Paths /\ u \in Copies(cfg, p)
    BY <1>1, <1>3, OpPath DEF PathKinds, Copies, Range
  <2>3. CASE j < at
    <3>1. \A l \in DOMAIN s : l < at => s[l].op \notin {"remove", "remove-dir"}
      BY <1>1, <1>3, <2>1
    <3>2. tree[p].kind = "file" /\ tree[p].data = u.data
      BY <1>1, <1>3, <2>3, <3>1 DEF CopiesStay
    <3>3. CASE ~Touches(o, p)
      <4>1. Alike(p)
        BY <1>2, <2>2, <3>3 DEF Spares
      <4> QED BY <3>2, <4>1 DEF Alike
    <3>4. CASE Touches(o, p)
      <4>1. o \in Copies(cfg, p) \/ o.op \in {"remove", "remove-dir"}
        BY <1>1, <1>3, <3>4 DEF Brings
      <4>2. o.op \notin {"remove", "remove-dir"}
        <5>1. o.op # "accounts"
          BY <3>4 DEF Touches
        <5>2. i < at'
          BY <1>1, <2>1, <5>1
        <5> QED BY <1>1, <1>3, <5>2
      <4>3. o.op = "copy" /\ o.path = p
        BY <4>1, <4>2 DEF Copies
      <4>4. o.data = u.data
        BY <1>3, <2>2, <4>1, <4>2 DEF Brings
      <4> QED BY <3>2, <4>3, <4>4 DEF Turn
    <3> QED BY <3>3, <3>4
  <2>4. CASE ~(j < at)
    <3>1. j = i /\ u = o
      BY <1>1, <1>3, <2>1, <2>4
    <3>2. tree[p].kind # "link"
      BY <1>3, <2>2, NoLink DEF Brings, ApplyInv
    <3>3. o.op = "copy" /\ o.path = p
      BY <1>3, <3>1
    <3> QED BY <3>1, <3>2, <3>3 DEF Turn
  <2> QED BY <2>3, <2>4
<1> QED BY <1>1, <1>2, <1>3 DEF CopiesStay

LEMMA TurnsKeep ==
  ASSUME ApplyInv, ReuseInv, NEW s, NEW i, NEW o, Context(s, i, o), Moves(s, i, o), Turn(o)
  PROVE  ReuseInv'
<1>1. /\ cfg \in Configs /\ status = "running" /\ s = Plans[cfg] /\ i = at /\ i \in DOMAIN s
      /\ o = s[i] /\ DOMAIN s = 1 .. Len(s) /\ Len(s) \in Nat /\ o \in Range(s)
  <2>1. /\ cfg \in Configs /\ status = "running" /\ s = Plans[cfg] /\ i = at /\ i \in DOMAIN s
        /\ o = s[i]
    BY DEF Context
  <2> QED BY <2>1, PlanIs DEF Range
<1>2. Frame(o) /\ cfg' = cfg /\ status' = "running" /\ applied' = applied
  BY DEF Moves
<1>3. Kinds' /\ LinkReady'
  BY <1>2, KindsKept, LinkReadyKept DEF ReuseInv
<1>4. applied' # None => applied' = cfg'
  BY <1>2 DEF ReuseInv
<1>5. ASSUME Repeatable(cfg) PROVE CopiesStay' /\ ShownSoFar' /\ ShownBefore'
  <2>1. CopiesStay /\ ShownSoFar /\ ShownBefore
    BY <1>5 DEF ReuseInv
  <2>2. CopiesStay'
    BY <2>1, CopiesKept
  <2>3. ASSUME NEW u \in Range(s), Shown(cfg, u) PROVE Shown(cfg, u)'
    BY <1>1, <1>2, <1>5, <2>3, FrameSpares, ShownKept DEF ApplyInv
  <2>4. ASSUME NEW j \in DOMAIN s, j < at' PROVE Shown(cfg, s[j])'
    <3>1. CASE j < at
      <4>1. Shown(cfg, s[j])
        BY <1>1, <2>1, <3>1 DEF ShownSoFar
      <4>2. s[j] \in Range(s)
        BY DEF Range
      <4> QED BY <2>3, <4>1, <4>2
    <3>2. CASE ~(j < at)
      <4>1. j = i
        BY <1>1, <2>4, <3>2 DEF Turn
      <4> QED BY <1>1, <1>5, <4>1 DEF Turn
    <3> QED BY <3>1, <3>2
  <2>5. ShownSoFar'
    BY <1>1, <1>2, <2>4 DEF ShownSoFar, Shown
  <2>6. ShownBefore'
    BY <1>1, <1>2, <2>1, <2>3 DEF ShownBefore, Shown
  <2> QED BY <2>2, <2>5, <2>6
<1> QED BY <1>2, <1>3, <1>4, <1>5 DEF ReuseInv

(* Operations that show nothing.                                           *)
LEMMA PlainShown ==
  ASSUME NEW c, NEW o, o.op \notin {"verify", "audit", "validate-nftables", "symlink", "remove"}
  PROVE  Shown(c, o)'
BY DEF Shown

(* A directory in the way is still there when a config gets to it.         *)
LEMMA InTheWay ==
  ASSUME Kinds, NEW s, NEW i, NEW o, Context(s, i, o), Repeatable(cfg),
         o.op \in {"symlink", "remove"}, BaseIs(o.path, "dir")
  PROVE  tree[o.path].kind = "dir"
<1>1. o \in Range(Plans[cfg])
  BY DEF Context, Range
<1>2. StaysDirectory(o.path)
  BY <1>1 DEF Repeatable
<1>3. o.path \in Paths
  BY ContextFacts DEF PathKinds
<1> QED BY <1>2, <1>3 DEF Kinds

(* A hash that matches is the one that HashMatches finds.                  *)
LEMMA HashIs ==
  ASSUME NEW s, NEW i, NEW o, Context(s, i, o), ~OnHost(o.path)
  PROVE  HashMatches <=> Matches(o.path, o.data)
<1>1. Op = o
  BY ContextFacts
<1> QED BY <1>1 DEF HashMatches, Reads, End, Matches, Holds

(* A check passes exactly if it shows what it is to show.                  *)
LEMMA CheckShows ==
  ASSUME ApplyInv, ReuseInv, NEW s, NEW i, NEW o, Context(s, i, o), Repeatable(cfg)
  PROVE  /\ o.op = "verify" => (HashMatches <=> Shown(cfg, o))
         /\ o.op = "audit" => (KernelAudited <=> Shown(cfg, o))
         /\ o.op = "validate-nftables" => (RulesValid <=> Shown(cfg, o))
<1>0. CopiesStay
  BY DEF ReuseInv
<1>4. o \in Range(Plans[cfg]) /\ cfg \in Configs
  BY DEF Context, Range
<1>1. ASSUME o.op = "verify" PROVE HashMatches <=> Shown(cfg, o)
  <2> DEFINE p == o.path
  <2>1. Shown(cfg, o) <=> IF Brings(cfg, p) THEN Brought(cfg, p, o.data) ELSE Matches(p, o.data)
    BY <1>1 DEF Shown
  <2>2. ASSUME Brings(cfg, p) PROVE Matches(p, o.data) <=> Brought(cfg, p, o.data)
    <3>1. \A u \in Copies(cfg, p) : tree[p].kind = "file" /\ tree[p].data = u.data
      BY <1>0, <1>1, <2>2, CopyThere
    <3>2. PICK u \in Copies(cfg, p) : TRUE
      BY <2>2 DEF Brings
    <3>3. tree[p].kind = "file" /\ tree[p].data = u.data
      BY <3>1, <3>2
    <3>4. Matches(p, o.data) <=> u.data = o.data
      BY <3>3 DEF Matches, Holds, OnHost, Target
    <3>5. Brought(cfg, p, o.data) <=> u.data = o.data
      BY <3>1, <3>2 DEF Brought
    <3> QED BY <3>4, <3>5
  <2>3. HashMatches <=> Matches(p, o.data)
    BY <1>1, <1>4, HashIs, LooksInside DEF ApplyInv
  <2> QED BY <2>1, <2>2, <2>3
<1>2. ASSUME o.op = "audit" PROVE KernelAudited <=> Shown(cfg, o)
  <2> DEFINE p == BootConfig
  <2>1. Shown(cfg, o) <=> IF Brings(cfg, p) THEN \E data \in GoodKernels : Brought(cfg, p, data)
                          ELSE KernelIsGood
    BY <1>2 DEF Shown
  <2>2. ASSUME Brings(cfg, p)
        PROVE  KernelIsGood <=> \E data \in GoodKernels : Brought(cfg, p, data)
    <3>1. \A u \in Copies(cfg, p) : tree[p].kind = "file" /\ tree[p].data = u.data
      BY <1>0, <1>2, <2>2, CopyThere
    <3>2. PICK u \in Copies(cfg, p) : TRUE
      BY <2>2 DEF Brings
    <3>3. tree[p].kind = "file" /\ tree[p].data = u.data
      BY <3>1, <3>2
    <3>4. KernelIsGood <=> u.data \in GoodKernels
      BY <3>3, NewNodes DEF KernelIsGood
    <3>5. (\E data \in GoodKernels : Brought(cfg, p, data)) <=> u.data \in GoodKernels
      BY <3>1, <3>2, <3>3 DEF Brought
    <3> QED BY <3>4, <3>5
  <2>3. KernelAudited <=> KernelIsGood
    BY <1>4, LooksInside DEF ApplyInv
  <2> QED BY <2>1, <2>2, <2>3
<1>3. ASSUME o.op = "validate-nftables" PROVE RulesValid <=> Shown(cfg, o)
  <2>1. tree[Nftables].kind = "file" /\ tree[Nftables].data = NftablesConf(cfg)
    BY <1>3, RulesThere
  <2>2. End(Nftables) = tree[Nftables] /\ Exists(Nftables)
    BY <2>1, NewNodes DEF Exists, End, OnHost, Target
  <2>3. RulesValid <=> OwnRulesValid(cfg)
    BY <2>1, <2>2 DEF RulesValid, OwnRulesValid
  <2>4. Shown(cfg, o) <=> OwnRulesValid(cfg)
    BY <1>3 DEF Shown
  <2> QED BY <2>3, <2>4
<1> QED BY <1>1, <1>2, <1>3

(* The operations, one by one.                                             *)
LEMMA AtIs ==
  ASSUME NEW s, NEW i, NEW o, Context(s, i, o), NEW x, At(x)
  PROVE  o.op = x /\ Op = o
BY ContextFacts DEF At

LEMMA CopyTurns ==
  ASSUME cfg \in Configs, ApplyInv, ReuseInv, CopyOverlay
  PROVE  ReuseInv'
<1>1. PICK s, i, o : Context(s, i, o) /\ Moves(s, i, o)
  BY CopyMoves
<1>2. o.op = "copy" /\ at' = at + 1
  BY <1>1, AtIs DEF CopyOverlay, Advance
<1>3. tree[o.path].kind # "link" => tree'[o.path].kind = "file" /\ tree'[o.path].data = o.data
  BY <1>1, CopyFrame DEF ApplyInv
<1>4. Turn(o)
  BY <1>2, <1>3, PlainShown DEF Turn
<1> QED BY <1>1, <1>4, TurnsKeep

LEMMA WriteTurns ==
  ASSUME cfg \in Configs, ApplyInv, ReuseInv, WriteFile
  PROVE  ReuseInv'
<1>1. PICK s, i, o : Context(s, i, o) /\ Moves(s, i, o)
  BY WriteMoves
<1>2. o.op = "write" /\ at' = at + 1
  BY <1>1, AtIs DEF WriteFile, Advance
<1>3. Turn(o)
  BY <1>2, PlainShown DEF Turn
<1> QED BY <1>1, <1>3, TurnsKeep

LEMMA UnlinkTurns ==
  ASSUME cfg \in Configs, ApplyInv, ReuseInv, Unlink
  PROVE  ReuseInv'
<1>1. PICK s, i, o : Context(s, i, o) /\ Moves(s, i, o)
  BY UnlinkMoves
<1>2. o.op = "unlink" /\ at' = at + 1
  BY <1>1, AtIs DEF Unlink, Advance
<1>3. tree'[o.path].kind \in {"missing", "dir"}
  BY <1>1, UnlinkFrame DEF ApplyInv
<1>4. Turn(o)
  BY <1>2, <1>3, PlainShown DEF Turn
<1> QED BY <1>1, <1>4, TurnsKeep

LEMMA SymlinkTurns ==
  ASSUME cfg \in Configs, ApplyInv, ReuseInv, Symlink
  PROVE  ReuseInv'
<1>1. PICK s, i, o : Context(s, i, o) /\ Moves(s, i, o)
  BY SymlinkMoves
<1>2. o.op = "symlink" /\ at' = at + 1 /\ tree[o.path].kind = "missing"
  BY <1>1, AtIs, NewNodes DEF Symlink, Advance
<1>3. Repeatable(cfg) => ~BaseIs(o.path, "dir")
  BY <1>1, <1>2, InTheWay DEF ReuseInv
<1>4. Repeatable(cfg) => Shown(cfg, o)'
  BY <1>2, <1>3 DEF Shown
<1>5. Turn(o)
  BY <1>2, <1>4 DEF Turn
<1> QED BY <1>1, <1>5, TurnsKeep

LEMMA RemoveTurns ==
  ASSUME cfg \in Configs, ApplyInv, ReuseInv, RemoveBinary
  PROVE  ReuseInv'
<1>1. PICK s, i, o : Context(s, i, o) /\ Moves(s, i, o)
  BY RemoveMoves
<1>2. o.op = "remove" /\ at' = at + 1 /\ (Exists(o.path) => tree[o.path].kind # "dir")
  BY <1>1, AtIs DEF RemoveBinary, Advance
<1>3. tree[o.path].kind # "dir"
  BY <1>2, NewNodes DEF Exists, End, OnHost, Target
<1>4. Repeatable(cfg) => ~BaseIs(o.path, "dir")
  BY <1>1, <1>2, <1>3, InTheWay DEF ReuseInv
<1>5. Repeatable(cfg) => Shown(cfg, o)'
  BY <1>2, <1>4 DEF Shown
<1>6. Turn(o)
  BY <1>2, <1>5 DEF Turn
<1> QED BY <1>1, <1>6, TurnsKeep

LEMMA RemoveDirTurns ==
  ASSUME cfg \in Configs, ApplyInv, ReuseInv, RemoveDir
  PROVE  ReuseInv'
<1>1. PICK s, i, o : Context(s, i, o) /\ Moves(s, i, o)
  BY RemoveDirMoves
<1>2. o.op = "remove-dir" /\ at' = at + 1
  BY <1>1, AtIs DEF RemoveDir, Advance
<1>3. Turn(o)
  BY <1>2, PlainShown DEF Turn
<1> QED BY <1>1, <1>3, TurnsKeep

LEMMA StripTurns ==
  ASSUME cfg \in Configs, ApplyInv, ReuseInv, StripSuid
  PROVE  ReuseInv'
<1>1. PICK s, i, o : Context(s, i, o) /\ Moves(s, i, o)
  BY StripMoves
<1>2. o.op = "strip-suid" /\ at' = at + 1
  BY <1>1, AtIs DEF StripSuid, Advance
<1>3. Turn(o)
  BY <1>2, PlainShown DEF Turn
<1> QED BY <1>1, <1>3, TurnsKeep

LEMMA ShellsTurn ==
  ASSUME cfg \in Configs, AccountsTypeOK, ApplyInv, ReuseInv, NoLogin
  PROVE  ReuseInv'
<1>1. PICK s, i, o : Context(s, i, o) /\ Moves(s, i, o)
  BY ShellsMove
<1>2. o.op = "shells" /\ at' = at + 1
  BY <1>1, AtIs DEF NoLogin, Advance
<1>3. Turn(o)
  BY <1>2, PlainShown DEF Turn
<1> QED BY <1>1, <1>3, TurnsKeep

LEMMA AccountTurns ==
  ASSUME cfg \in Configs, ApplyInv, ReuseInv, Account
  PROVE  ReuseInv'
<1>1. PICK s, i, o : Context(s, i, o) /\ Moves(s, i, o)
  BY AccountMoves
<1>2. o.op = "accounts" /\ (at' = at + 1 \/ at' = at)
  BY <1>1, AtIs DEF Account, Advance
<1>3. Turn(o)
  BY <1>2, PlainShown DEF Turn
<1> QED BY <1>1, <1>3, TurnsKeep

(* What is shown stays so while the tree does.                             *)
LEMMA SameShown ==
  ASSUME UNCHANGED <<tree, cfg>>, NEW o, Shown(cfg, o)
  PROVE  Shown(cfg, o)'
<1>1. \A p, data : Matches(p, data)' <=> Matches(p, data)
  BY DEF Matches, Holds, OnHost, Target
<1>2. KernelIsGood' <=> KernelIsGood
  BY DEF KernelIsGood
<1>3. cfg' = cfg
  OBVIOUS
<1> QED BY <1>1, <1>2, <1>3 DEF Shown

LEMMA PassTurns ==
  ASSUME cfg \in Configs, ApplyInv, ReuseInv, Pass
  PROVE  ReuseInv'
<1>1. PICK s, i, o : Context(s, i, o) /\ Moves(s, i, o)
  BY PassMoves
<1>2. at' = at + 1 /\ UNCHANGED <<tree, cfg>>
  BY DEF Pass, Advance, accountVars
<1>3. /\ o.op \in {"verify", "audit", "zero-shell", "validate-nftables"}
      /\ o.op = "verify" => HashMatches
      /\ o.op = "audit" => KernelAudited
      /\ o.op = "validate-nftables" => RulesValid
  <2>1. CASE At("verify") /\ HashMatches
    BY <1>1, <2>1, AtIs
  <2>2. CASE At("audit") /\ KernelAudited
    BY <1>1, <2>2, AtIs
  <2>3. CASE At("zero-shell")
    BY <1>1, <2>3, AtIs
  <2>4. CASE At("validate-nftables") /\ RulesValid
    BY <1>1, <2>4, AtIs
  <2> QED BY <2>1, <2>2, <2>3, <2>4 DEF Pass
<1>4. ASSUME Repeatable(cfg) PROVE Shown(cfg, o)'
  <2>1. o.op = "zero-shell" => Shown(cfg, o)
    BY DEF Shown
  <2>2. Shown(cfg, o)
    BY <1>1, <1>3, <1>4, <2>1, CheckShows
  <2> QED BY <1>2, <2>2, SameShown
<1>5. Turn(o)
  BY <1>2, <1>3, <1>4 DEF Turn
<1> QED BY <1>1, <1>5, TurnsKeep

(* The steps that start and end an apply.                                  *)
LEMMA FreshKinds ==
  ASSUME NEW p \in Paths
  PROVE  LET n == ExtractedTree[p] IN
         /\ n.kind = "dir" => BaseIs(p, "dir")
         /\ StaysDirectory(p) => n.kind = "dir"
<1>1. ExtractedTree[p] = IF p \in DOMAIN BaseTree THEN BaseTree[p] ELSE Missing
  BY DEF ExtractedTree
<1> QED BY <1>1, NewNodes DEF BaseIs, StaysDirectory

LEMMA InitReuse == ASSUME Init PROVE ReuseInv
<1>1. tree = ExtractedTree
  BY DEF Init
<1>2. Kinds
  BY <1>1, FreshKinds DEF Kinds
<1>3. status = "idle" /\ applied = None
  BY DEF Init
<1> QED BY <1>2, <1>3 DEF ReuseInv, LinkReady, At, CopiesStay, ShownSoFar, ShownBefore

LEMMA StartReuse ==
  ASSUME cfg \in Configs, ApplyInv, ReuseInv, NEW c \in Configs, NEW fresh \in BOOLEAN,
         StartApply(c, fresh)
  PROVE  ReuseInv'
<1>1. /\ cfg' = c /\ at' = 1 /\ status' = "running"
      /\ tree' = ExtractedTree \/ UNCHANGED tree
      /\ applied' = IF applied = c THEN c ELSE None
  BY DEF StartApply, Begin
<1>2. Len(Plans[c]) \in Nat /\ DOMAIN Plans[c] = 1 .. Len(Plans[c]) /\ Paired(Plans[c])
  BY PlanIs DEF Part
<1>3. Kinds'
  <2>1. CASE UNCHANGED tree
    BY <2>1 DEF ReuseInv, Kinds
  <2>2. CASE tree' = ExtractedTree
    BY <2>2, FreshKinds DEF Kinds
  <2> QED BY <1>1, <2>1, <2>2
<1>4. LinkReady'
  <2> SUFFICES ASSUME At("symlink")' PROVE FALSE
    BY DEF LinkReady
  <2>1. 1 \in DOMAIN Plans[c] /\ Plans[c][1].op = "symlink"
    BY <1>1, <1>2 DEF At, Op
  <2>2. 1 - 1 \in DOMAIN Plans[c]
    BY <1>2, <2>1 DEF Paired
  <2> QED BY <1>2, <2>2
<1>5. applied' # None => applied' = c /\ applied = c /\ cfg = c
  BY <1>1, NoneAssumption DEF ReuseInv
<1>6. \A i \in DOMAIN Plans[c] : ~(i < at')
  BY <1>1, <1>2
<1>7. CopiesStay' /\ ShownSoFar'
  BY <1>1, <1>6 DEF CopiesStay, ShownSoFar
<1>8. ASSUME Repeatable(c), applied' # None, NEW o \in Range(Plans[c])
      PROVE  Shown(c, o)'
  <2>1. Shown(c, o)
    BY <1>5, <1>8, NoneAssumption DEF ReuseInv, ShownBefore
  <2>2. CASE UNCHANGED tree
    <3>1. \A p, data : Matches(p, data)' <=> Matches(p, data)
      BY <2>2 DEF Matches, Holds, OnHost, Target
    <3>2. KernelIsGood' <=> KernelIsGood
      BY <2>2 DEF KernelIsGood
    <3> QED BY <2>1, <3>1, <3>2 DEF Shown
  <2>3. CASE tree' = ExtractedTree
    BY <1>8, <2>1, <2>3, ShownFresh
  <2> QED BY <1>1, <2>2, <2>3
<1>9. Repeatable(c) => ShownBefore'
  BY <1>1, <1>8 DEF ShownBefore, Shown
<1> QED BY <1>1, <1>3, <1>4, <1>5, <1>7, <1>9 DEF ReuseInv

(* Nothing is in the way of what a repeatable config writes.               *)
LEMMA WriteTaken ==
  ASSUME TreeTypes, TreeLinks, Kinds, cfg \in Configs, Repeatable(cfg),
         NEW o \in Range(Plans[cfg]), o.op \in {"write", "copy"}
  PROVE  Takes(o.path)
<1> DEFINE p == o.path
<1>1. p \in Paths /\ CanWrite(p)
  BY RangePath DEF PathKinds, Repeatable
<1> SUFFICES Takes(p)
  OBVIOUS
<1> HIDE DEF p
<1>2. CASE OnHost(p)
  <2>1. tree[p].kind = "link"
    BY <1>2 DEF OnHost
  <2>2. CASE BaseLink(p, TRUE) /\ tree[p] = BaseTree[p]
    BY <1>1, <1>2, <2>2 DEF CanWrite, Takes
  <2>3. CASE PlanLink(p, tree[p].to)
    BY <1>1, <1>2, <2>3 DEF CanWrite, Takes, PlanLink
  <2> QED BY <1>1, <1>2, <2>1, <2>2, <2>3, LinkFacts
<1>3. CASE ~OnHost(p)
  <2> DEFINE t == Target(p)
  <2>1. t \in Paths /\ t \in {p, BaseEnd(p)}
    BY <1>1, <1>3, TargetFacts
  <2> SUFFICES ASSUME tree[t].kind = "dir" PROVE FALSE
    BY <1>3 DEF Takes
  <2> HIDE DEF t
  <2>2. BaseIs(t, "dir")
    BY <2>1 DEF Kinds
  <2>3. t # BaseEnd(p)
    BY <1>1, <2>2 DEF CanWrite
  <2>4. BaseLink(p, FALSE) /\ t = p
    BY <1>1, <2>1, <2>3, BaseEnds
  <2> QED BY <2>2, <2>4 DEF BaseLink, BaseIs
<1> QED BY <1>2, <1>3

(* A config that has been applied is not refused.                          *)
LEMMA NotRefused ==
  ASSUME AccountsTypeOK, ApplyInv, ReuseInv, Repeatable(cfg), applied # None
  PROVE  ~Refused
<1> SUFFICES ASSUME Refused PROVE FALSE
  OBVIOUS
<1>0. cfg \in Configs /\ TreeTypes /\ TreeLinks /\ Kinds /\ Counters
  BY DEF AccountsTypeOK, ApplyInv, ReuseInv
<1>1. PICK x \in {"write", "copy", "verify", "audit", "zero-shell", "validate-nftables", "symlink", "remove"} : At(x)
  BY DEF Refused
<1>2. PICK s, i, o : Context(s, i, o) /\ o.op = x
  BY <1>0, <1>1, AtContext
<1>3. o \in Range(Plans[cfg]) /\ Op = o
  BY <1>2, ContextFacts DEF Context, Range
<1>4. Shown(cfg, o)
  BY <1>3 DEF ReuseInv, ShownBefore
<1>5. \A y : At(y) => y = x
  BY <1>1 DEF At
<1>6. x = "verify" => HashMatches
  BY <1>2, <1>4, CheckShows
<1>7. x = "audit" => KernelAudited
  BY <1>2, <1>4, CheckShows
<1>8. x = "validate-nftables" => RulesValid
  BY <1>2, <1>4, CheckShows
<1>9. ASSUME x = "zero-shell" PROVE NoShellSurvives
  <2>1. /\ s = Plans[cfg] /\ i = at /\ i \in DOMAIN s /\ o = s[i] /\ status = "running"
        /\ DOMAIN s = 1 .. Len(s) /\ Len(s) \in Nat /\ InOrder(s) /\ PlanShape(cfg, s)
    <3>1. s = Plans[cfg] /\ i = at /\ i \in DOMAIN s /\ o = s[i] /\ status = "running"
      BY <1>2 DEF Context
    <3> QED BY <1>0, <3>1, PlanIs DEF Part
  <2>2. ASSUME NEW b \in Range(cfg.remove), NEW d \in Range(SearchPaths)
        PROVE  ~Exists(<<d, b>>)
    <3> DEFINE p == <<d, b>>
               u == [op |-> "remove", path |-> p]
    <3>1. u \in Range(s)
      BY <2>1 DEF PlanShape
    <3>2. u.op = "remove" /\ u.path = p
      OBVIOUS
    <3> HIDE DEF u, p
    <3>3. PICK j \in DOMAIN s : u = s[j]
      BY <3>1 DEF Range
    <3>4. Earliest(o) = 7 /\ Latest(u) = 5
      BY <1>2, <1>9, <3>2 DEF Earliest, Latest
    <3>5. j < at
      <4>1. i < j => Earliest(o) <= Latest(u)
        BY <2>1, <3>3 DEF InOrder
      <4>2. j # i
        BY <1>2, <1>9, <2>1, <3>2, <3>3
      <4> QED BY <2>1, <3>4, <4>1, <4>2
    <3>6. Done(s, j)
      BY <2>1, <3>5 DEF ApplyInv, Progress
    <3>7. ~Exists(p)
      BY <3>2, <3>3, <3>6 DEF Done
    <3> QED BY <3>7 DEF p
  <2> QED BY <2>2 DEF NoShellSurvives
<1>10. ASSUME x \in {"symlink", "remove"}, tree[o.path].kind = "dir" PROVE FALSE
  <2>1. o.path \in Paths
    BY <1>2, <1>10, ContextFacts DEF PathKinds
  <2>2. BaseIs(o.path, "dir")
    BY <1>0, <1>10, <2>1 DEF Kinds
  <2> QED BY <1>2, <1>4, <1>10, <2>2 DEF Shown
<1>11. ASSUME x = "symlink" PROVE tree[o.path] = Missing
  <2>1. tree[o.path].kind \in {"missing", "dir"}
    BY <1>1, <1>3, <1>11 DEF ReuseInv, LinkReady
  <2>2. tree[o.path].kind = "missing"
    BY <1>10, <1>11, <2>1
  <2>3. Node(tree[o.path])
    BY <1>0, <1>2, <1>11, ContextFacts DEF PathKinds, TreeTypes
  <2> QED BY <2>2, <2>3, NodeKinds
<1>13. x \in {"write", "copy"} => Takes(o.path)
  BY <1>0, <1>2, <1>3, WriteTaken
<1>12. \/ x \in {"write", "copy"} /\ ~Takes(o.path)
       \/ x = "verify" /\ ~HashMatches
       \/ x = "audit" /\ ~KernelAudited
       \/ x = "zero-shell" /\ ~NoShellSurvives
       \/ x = "validate-nftables" /\ ~RulesValid
       \/ x = "symlink" /\ tree[o.path] # Missing
       \/ x = "remove" /\ tree[o.path].kind = "dir"
  BY <1>3, <1>5 DEF Refused
<1> QED BY <1>6, <1>7, <1>8, <1>9, <1>10, <1>11, <1>12, <1>13

LEMMA FailReuse ==
  ASSUME AccountsTypeOK, ApplyInv, ReuseInv, Fail
  PROVE  ReuseInv'
<1>1. UNCHANGED <<tree, at, applied, cfg>> /\ status' = "failed" /\ Refused
  BY DEF Fail, Stop
<1>2. Kinds'
  BY <1>1 DEF ReuseInv, Kinds
<1>3. LinkReady' /\ CopiesStay' /\ ShownSoFar'
  BY <1>1 DEF LinkReady, At, CopiesStay, ShownSoFar
<1>4. Repeatable(cfg) => applied = None
  BY <1>1, NotRefused
<1>5. Repeatable(cfg) => ShownBefore'
  BY <1>1, <1>4 DEF ShownBefore
<1> QED BY <1>1, <1>2, <1>3, <1>5 DEF ReuseInv

LEMMA FinishReuse ==
  ASSUME cfg \in Configs, ApplyInv, ReuseInv, Finish
  PROVE  ReuseInv'
<1>1. /\ UNCHANGED <<tree, at, cfg>> /\ status' = "applied"
      /\ applied' = cfg /\ status = "running" /\ at > Len(Plans[cfg])
  BY DEF Finish, accountVars
<1>2. Kinds'
  BY <1>1 DEF ReuseInv, Kinds
<1>3. LinkReady' /\ CopiesStay'
  BY <1>1 DEF LinkReady, At, CopiesStay
<1>4. Len(Plans[cfg]) \in Nat /\ DOMAIN Plans[cfg] = 1 .. Len(Plans[cfg])
  BY PlanIs
<1>5. at \in Nat
  BY <1>4 DEF ApplyInv, Counters
<1>6. ASSUME Repeatable(cfg), NEW i \in DOMAIN Plans[cfg]
      PROVE  Shown(cfg, Plans[cfg][i])'
  <2>1. i < at
    BY <1>1, <1>4, <1>5
  <2>2. Shown(cfg, Plans[cfg][i])
    BY <1>1, <1>6, <2>1 DEF ReuseInv, ShownSoFar
  <2> QED BY <1>1, <2>2, SameShown
<1>7. ASSUME Repeatable(cfg)
      PROVE  ShownSoFar' /\ ShownBefore'
  <2>1. ASSUME NEW o \in Range(Plans[cfg]) PROVE Shown(cfg, o)'
    <3>1. PICK i \in DOMAIN Plans[cfg] : o = Plans[cfg][i]
      BY DEF Range
    <3>2. i < at
      BY <1>1, <1>4, <1>5
    <3>3. Shown(cfg, o)
      BY <1>1, <1>7, <3>1, <3>2 DEF ReuseInv, ShownSoFar
    <3> QED BY <1>1, <3>3, SameShown
  <2> QED BY <1>1, <1>6, <1>7, <2>1 DEF ShownSoFar, ShownBefore, Shown
<1> QED BY <1>1, <1>2, <1>3, <1>7 DEF ReuseInv

(* A write that does not finish spares what the checks look at, as one that *)
(* does would.                                                             *)
LEMMA TornSpares ==
  ASSUME TreeTypes, TreeLinks, NEW s, NEW i, NEW o, Context(s, i, o), o.op \in {"write", "copy"},
         tree' = Written(o.path, Torn)
  PROVE  Spares(o) /\ (Kinds => Kinds')
<1> DEFINE p == o.path
           t == Target(p)
<1>1. p \in Paths
  BY ContextFacts DEF PathKinds
<1>2. CASE OnHost(p)
  <2>1. UNCHANGED tree
    BY <1>2 DEF Written
  <2> QED BY <2>1 DEF Spares, Alike, Kinds
<1>3. CASE ~OnHost(p)
  <2>1. /\ TreeTypes' /\ tree'[t].kind = "file"
        /\ \A q \in Paths : q # t => tree'[q] = tree[q]
    BY <1>1, <1>3, WrittenFacts
  <2>2. Touches(o, t)
    BY <1>1, <1>3, EndTouched
  <2> HIDE DEF t
  <2>3. Spares(o)
    BY <2>1, <2>2 DEF Spares, Alike
  <2>4. o \in UNION {Range(Plans[c]) : c \in Configs}
    BY DEF Context, Range
  <2>5. ~StaysDirectory(t)
    BY <2>2, <2>4 DEF StaysDirectory
  <2>6. Kinds => Kinds'
    BY <2>1, <2>5 DEF Kinds
  <2> QED BY <2>3, <2>6
<1> QED BY <1>2, <1>3

LEMMA CrashReuse ==
  ASSUME cfg \in Configs, ApplyInv, ReuseInv, Crash
  PROVE  ReuseInv'
<1>0. TreeTypes /\ TreeLinks /\ Counters /\ Kinds
  BY DEF ApplyInv, ReuseInv
<1>1. UNCHANGED <<applied, cfg>> /\ status' = "idle"
  BY DEF Crash, Stop, Tear
<1>2. /\ Kinds'
      /\ \A u \in Range(Plans[cfg]) : (Repeatable(cfg) /\ Shown(cfg, u)) => Shown(cfg, u)'
  <2>1. CASE UNCHANGED tree
    <3>1. Kinds'
      BY <1>0, <2>1 DEF Kinds
    <3>2. ASSUME NEW u, Shown(cfg, u) PROVE Shown(cfg, u)'
      BY <1>1, <2>1, <3>2, SameShown
    <3> QED BY <3>1, <3>2
  <2>2. CASE (At("write") \/ At("copy")) /\ tree' = Written(Op.path, Torn)
    <3>1. PICK x \in {"write", "copy"} : At(x)
      BY <2>2
    <3>2. PICK s, i, o : Context(s, i, o) /\ o.op = x
      BY <1>0, <3>1, AtContext
    <3>3. Op = o /\ o \in Range(Plans[cfg])
      BY <3>2, ContextFacts DEF Context, Range
    <3>4. Spares(o) /\ Kinds'
      BY <1>0, <2>2, <3>2, <3>3, TornSpares
    <3>5. ASSUME NEW u \in Range(Plans[cfg]), Repeatable(cfg), Shown(cfg, u)
          PROVE  Shown(cfg, u)'
      <4>1. cfg' = cfg
        BY <1>1
      <4> QED BY <1>0, <3>3, <3>4, <3>5, <4>1, ShownKept
    <3> QED BY <3>4, <3>5
  <2> QED BY <2>1, <2>2 DEF Crash
<1>3. LinkReady' /\ CopiesStay' /\ ShownSoFar'
  BY <1>1 DEF LinkReady, At, CopiesStay, ShownSoFar
<1>4. ASSUME Repeatable(cfg), applied # None, NEW u \in Range(Plans[cfg])
      PROVE  Shown(cfg, u)'
  <2>1. Shown(cfg, u)
    BY <1>4 DEF ReuseInv, ShownBefore
  <2> QED BY <1>2, <1>4, <2>1
<1>5. Repeatable(cfg) => ShownBefore'
  BY <1>1, <1>4 DEF ShownBefore, Shown
<1> QED BY <1>1, <1>2, <1>3, <1>5 DEF ReuseInv

LEMMA ReuseStep ==
  ASSUME AccountsTypeOK, ApplyInv, ReuseInv, [Next]_vars
  PROVE  ReuseInv'
<1>0. cfg \in Configs
  BY DEF AccountsTypeOK
<1>1. CASE \E c \in Configs, fresh \in BOOLEAN : StartApply(c, fresh)
  BY <1>0, <1>1, StartReuse
<1>2. CASE CopyOverlay
  BY <1>0, <1>2, CopyTurns
<1>3. CASE WriteFile
  BY <1>0, <1>3, WriteTurns
<1>4. CASE Unlink
  BY <1>0, <1>4, UnlinkTurns
<1>5. CASE Symlink
  BY <1>0, <1>5, SymlinkTurns
<1>6. CASE Account
  BY <1>0, <1>6, AccountTurns
<1>7. CASE Pass
  BY <1>0, <1>7, PassTurns
<1>8. CASE RemoveBinary
  BY <1>0, <1>8, RemoveTurns
<1>9. CASE RemoveDir
  BY <1>0, <1>9, RemoveDirTurns
<1>10. CASE StripSuid
  BY <1>0, <1>10, StripTurns
<1>11. CASE NoLogin
  BY <1>0, <1>11, ShellsTurn
<1>12. CASE Fail
  BY <1>12, FailReuse
<1>13. CASE Finish
  BY <1>0, <1>13, FinishReuse
<1>14. CASE Crash
  BY <1>0, <1>14, CrashReuse
<1>15. CASE UNCHANGED vars
  <2>1. UNCHANGED <<tree, at, status, applied, cfg>>
    BY <1>15 DEF vars, accountVars
  <2>2. Kinds' /\ LinkReady'
    BY <2>1 DEF ReuseInv, Kinds, LinkReady, At, Op
  <2>3. CopiesStay => CopiesStay'
    BY <2>1 DEF CopiesStay
  <2>4. ASSUME NEW o, Shown(cfg, o) PROVE Shown(cfg, o)'
    BY <2>1, <2>4, SameShown
  <2>5. (ShownSoFar => ShownSoFar') /\ (ShownBefore => ShownBefore')
    BY <2>1, <2>4 DEF ShownSoFar, ShownBefore
  <2> QED BY <2>1, <2>2, <2>3, <2>5 DEF ReuseInv
<1> QED
  BY <1>1, <1>2, <1>3, <1>4, <1>5, <1>6, <1>7, <1>8, <1>9, <1>10, <1>11, <1>12, <1>13, <1>14, <1>15
  DEF Next

(* The inductive invariant: what the checks of a repeatable config have    *)
(* seen, they will see again.                                              *)
THEOREM ReuseInvariant == Spec => [](AccountsTypeOK /\ ReuseInv)
<1>1. Init => ReuseInv
  BY InitReuse
<1>2. AccountsTypeOK /\ ApplyInv /\ ReuseInv /\ [Next]_vars => ReuseInv'
  BY ReuseStep
<1> QED BY <1>1, <1>2, AppliesInvariant, PTL DEF Spec

(* An apply that has succeeded for a repeatable config does not fail for   *)
(* it again on the tree it left, however often applies of it crash in      *)
(* between, for any image and whatever the other configs are.              *)
THEOREM ReuseStaysSuccessful == Spec => []ReuseSucceeds
<1>1. AccountsTypeOK /\ ReuseInv => ReuseSucceeds
  <2> SUFFICES ASSUME AccountsTypeOK, ReuseInv, Repeatable(cfg), status = "failed", applied = cfg
               PROVE  FALSE
    BY DEF ReuseSucceeds
  <2>1. applied # None
    BY NoneAssumption DEF AccountsTypeOK
  <2> QED BY <2>1 DEF ReuseInv, ShownBefore
<1> QED BY <1>1, ReuseInvariant, PTL

=============================================================================
