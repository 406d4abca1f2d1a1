------------------------ MODULE SquashfsImageProofs ------------------------
(***************************************************************************)
(* What the passes of create_squashfs hand on to each other, for every     *)
(* tree, any sizes of blocks and headers and any sizes that compression    *)
(* gives: every file has its data when the tables are written, every       *)
(* number is the number of one inode, and the names of one file of the     *)
(* host share theirs.  And what SquashfsReader finds in the image: every   *)
(* directory with its entries and every file with its bytes.               *)
(***************************************************************************)
EXTENDS SquashfsImage, SequenceTheorems, FiniteSetTheorems, WellFoundedInduction, TLAPS

(* Sequences of whatever elements.                                         *)
IsSeq(s) == s \in Seq(ToSet(s))

-----------------------------------------------------------------------------
(* The scanned tree.                                                       *)

(* Nodes are scanned depth first: what is in a directory follows it        *)
(* without a gap.                                                          *)
TreeOK ==
  /\ tree \in Seq(Node) /\ Len(tree) \in 1 .. MaxNodes
  /\ IsDir(1) /\ tree[1].parent = NoNode
  /\ \A k \in 2 .. Len(tree) : tree[k].parent \in 1 .. k - 1 /\ IsDir(tree[k].parent)
  /\ \A k \in 1 .. Len(tree) : ~IsFile(k) => tree[k].content = <<>> /\ tree[k].host = NotLinked
  /\ \A k \in 2 .. Len(tree) : \A j \in 2 .. k :
       tree[k].parent < j => tree[j].parent >= tree[k].parent

(* The scan is in directories that the last node is in, each in the one    *)
(* before.                                                                 *)
PathOK ==
  /\ path \in Seq(1 .. Len(tree))
  /\ \A i \in 1 .. Len(path) :
       /\ IsDir(path[i])
       /\ \A j \in 1 .. i : path[j] <= path[i]
       /\ \A k \in 2 .. Len(tree) : path[i] < k => tree[k].parent >= path[i]

-----------------------------------------------------------------------------
(* The numbers.                                                            *)

(* Two names of one file of the host.                                      *)
SameFile(j, k) == Linked(j) /\ Linked(k) /\ tree[j].host = tree[k].host

Numbered == IF phase \in {"scan", "number"} THEN 2 .. at - 1 ELSE 1 .. Len(tree)

NumbersOK ==
  /\ next \in 1 .. MaxNodes + 1
  /\ phase \in {"scan", "number"} =>
       /\ at \in 2 .. Len(tree) + 1 /\ next \in 1 .. at - 1 /\ Len(numbers) = at - 1
       /\ numbers[1] = 0
  /\ phase \notin {"scan", "number"} =>
       Len(numbers) = Len(tree) /\ next = Total + 1 /\ numbers[1] = Total
  /\ phase = "scan" => at = 2
  /\ numbers \in Seq(0 .. MaxNodes)
  /\ \A k \in Numbered : numbers[k] \in 1 .. next - 1
  /\ \A j, k \in Numbered : numbers[j] = numbers[k] => j = k \/ SameFile(j, k)
  /\ \A n \in 1 .. next - 1 : \E k \in Numbered : numbers[k] = n
  /\ hlNum \in [Links -> Nat]
  /\ \A k \in Numbered : Linked(k) => hlNum[tree[k].host] = numbers[k]
  /\ \A l \in Links : hlNum[l] # 0 => \E k \in Numbered : Linked(k) /\ tree[k].host = l

-----------------------------------------------------------------------------
(* The files' data.                                                        *)

(* The files whose data is written, to be written, or another's.           *)
WithData == DOMAIN fileData \cup ToSet(queue) \cup {c[1] : c \in copies}

Collected ==
  IF phase \in {"scan", "number"} THEN {}
  ELSE IF phase = "collect" THEN 2 .. at - 1 ELSE 2 .. Len(tree)

DataOK ==
  /\ phase \in {"collect", "tables"} => at \in 2 .. Len(tree) + 1
  /\ phase = "write" => at = 2
  /\ phase \in {"tables", "done"} => queue = <<>>
  /\ queue \in Seq(1 .. Len(tree))
  /\ firsts \subseteq DOMAIN fileData \cup ToSet(queue)
  /\ \A c \in copies : c = <<c[1], c[2]>> /\ c[2] \in firsts
  /\ phase \in {"tables", "done"} => {c[1] : c \in copies} \subseteq DOMAIN fileData
  /\ hlFirst \in [Links -> 0 .. Len(tree)]
  /\ \A l \in Links : hlFirst[l] # NoNode => hlFirst[l] \in WithData
  /\ \A k \in Collected : IsFile(k) =>
       IF Linked(k) THEN hlFirst[tree[k].host] # NoNode ELSE k \in WithData

BlocksOK ==
  /\ Len(buf) <= BlockSize /\ IsSeq(buf)
  /\ \A b \in out : b.stored \in 1 .. Len(b.bytes) /\ Len(b.bytes) <= BlockSize
  /\ IsSeq(frags)
  /\ \A i \in 1 .. Len(frags) : StoredAt(frags[i].start, frags[i].size) # {}

-----------------------------------------------------------------------------
(* The tables.                                                             *)

InTables == phase \in {"tables", "done"}
RefOf(j) == <<(j - 1) \div InodesPerBlock, (j - 1) % InodesPerBlock>>

(* The nodes whose inode has been written, or another name's.              *)
Finished == {k \in 1 .. at - 1 : \A i \in 1 .. Len(stack) : stack[i].dir # k}

StackOK ==
  /\ IsSeq(stack)
  /\ phase = "tables" => Len(stack) > 0 /\ stack[1].dir = 1
  /\ phase = "done" => stack = <<>> /\ at = Len(tree) + 1
  /\ \A i \in 1 .. Len(stack) :
       /\ stack[i] = [dir |-> stack[i].dir, kids |-> stack[i].kids]
       /\ stack[i].dir \in 1 .. at - 1 /\ IsDir(stack[i].dir)
  /\ \A i \in 1 .. Len(stack) : \A j \in 1 .. i - 1 : stack[j].dir < stack[i].dir
  /\ \A k \in at .. Len(tree) :
       tree[k].parent >= at \/ \E i \in 1 .. Len(stack) : stack[i].dir = tree[k].parent

InodesOK ==
  /\ IsSeq(inodes)
  /\ \A j \in 1 .. Len(inodes) :
       /\ inodes[j].number \in 1 .. Total /\ export[inodes[j].number] = RefOf(j)
       /\ inodes[j].kind = "dir" => inodes[j].dir \in 1 .. Len(dirs)
  /\ IsSeq(export)
  /\ \A n \in 1 .. Total : export[n] # NoRef =>
       /\ \E j \in 1 .. Len(inodes) : export[n] = RefOf(j) /\ inodes[j].number = n
       /\ \E k \in Finished : numbers[k] = n

LinksOK ==
  /\ \A k \in Finished : export[numbers[k]] # NoRef
  /\ DOMAIN hlRef = Links
  /\ \A k \in Finished : Linked(k) => hlRef[tree[k].host] = export[numbers[k]]
  /\ \A l \in Links : hlRef[l] # NoRef => \E k \in Finished : Linked(k) /\ tree[k].host = l

Refers(name, ref) == name \in Finished /\ ref = export[numbers[name]]

KidsOK ==
  \A i \in 1 .. Len(stack) :
    /\ IsSeq(stack[i].kids)
    /\ \A e \in 1 .. Len(stack[i].kids) : Refers(stack[i].kids[e].name, stack[i].kids[e].ref)

GroupsRefer(groups) ==
  /\ IsSeq(groups)
  /\ \A g \in 1 .. Len(groups) :
       /\ IsSeq(groups[g].entries)
       /\ \A e \in 1 .. Len(groups[g].entries) :
            Refers(groups[g].entries[e].name, <<groups[g].block, groups[g].entries[e].off>>)

DirsOK == IsSeq(dirs) /\ \A i \in 1 .. Len(dirs) : GroupsRefer(dirs[i])

TablesOK ==
  IF InTables THEN StackOK /\ InodesOK /\ LinksOK /\ KidsOK /\ DirsOK
  ELSE /\ inodes = <<>> /\ dirs = <<>> /\ hlRef = [l \in Links |-> NoRef]
       /\ stack = <<>>
       /\ phase \in {"scan", "number"} => export = <<>>
       /\ phase \notin {"scan", "number"} => IsSeq(export) /\ \A n \in 1 .. Total : export[n] = NoRef

Phases == {"scan", "number", "collect", "write", "tables", "done"}

ImageInv ==
  /\ phase \in Phases
  /\ TreeOK /\ (phase = "scan" => PathOK)
  /\ NumbersOK /\ DataOK /\ BlocksOK /\ TablesOK

-----------------------------------------------------------------------------
(* Facts about sequences.                                                  *)

LEMMA SeqFacts ==
  ASSUME NEW s, IsSeq(s)
  PROVE  Len(s) \in Nat /\ DOMAIN s = 1 .. Len(s) /\ s = [i \in 1 .. Len(s) |-> s[i]]
BY LenProperties DEF IsSeq

LEMMA FunIsSeq ==
  ASSUME NEW f, NEW n \in Nat, f = [i \in 1 .. n |-> f[i]]
  PROVE  IsSeq(f) /\ Len(f) = n
<1>1. f \in [1 .. n -> ToSet(f)]
  BY DEF ToSet
<1>2. IsSeq(f)
  BY <1>1, SeqDef DEF IsSeq
<1> QED BY <1>1, <1>2, LenProperties DEF IsSeq

LEMMA WidenSeq ==
  ASSUME NEW S, NEW s \in Seq(S)
  PROVE  IsSeq(s) /\ ToSet(s) \subseteq S
<1>1. Len(s) \in Nat /\ DOMAIN s = 1 .. Len(s) /\ s \in [1 .. Len(s) -> S]
  BY LenProperties
<1>2. s = [i \in 1 .. Len(s) |-> s[i]] /\ ToSet(s) \subseteq S
  BY <1>1 DEF ToSet
<1> QED BY <1>1, <1>2, FunIsSeq

LEMMA EmptyFacts == IsSeq(<<>>) /\ Len(<<>>) = 0 /\ ToSet(<<>>) = {}
<1>1. IsSeq(<<>>) /\ Len(<<>>) = 0
  BY EmptySeq DEF IsSeq
<1>2. DOMAIN <<>> = {}
  BY <1>1, SeqFacts
<1> QED BY <1>1, <1>2 DEF ToSet

LEMMA AppendFacts ==
  ASSUME NEW s, IsSeq(s), NEW x
  PROVE  /\ IsSeq(Append(s, x)) /\ Len(Append(s, x)) = Len(s) + 1
         /\ Append(s, x)[Len(s) + 1] = x
         /\ \A i \in 1 .. Len(s) : Append(s, x)[i] = s[i]
         /\ ToSet(Append(s, x)) = ToSet(s) \cup {x}
<1> DEFINE S == ToSet(s) \cup {x}
           t == Append(s, x)
<1>1. s \in Seq(S) /\ x \in S
  BY SeqMonotonic DEF IsSeq
<1>2. /\ t \in Seq(S) /\ Len(t) = Len(s) + 1 /\ t[Len(s) + 1] = x
      /\ \A i \in 1 .. Len(s) : t[i] = s[i]
  BY <1>1, AppendProperties
<1>3. IsSeq(t) /\ ToSet(t) \subseteq S
  BY <1>2, WidenSeq
<1>4. DOMAIN t = 1 .. Len(s) + 1 /\ DOMAIN s = 1 .. Len(s) /\ Len(s) \in Nat
  BY <1>2, <1>3, SeqFacts
<1>5. S \subseteq ToSet(t)
  BY <1>2, <1>4 DEF ToSet
<1> QED BY <1>2, <1>3, <1>5

LEMMA ExceptFacts ==
  ASSUME NEW s, IsSeq(s), NEW n \in 1 .. Len(s), NEW x
  PROVE  /\ IsSeq([s EXCEPT ![n] = x]) /\ Len([s EXCEPT ![n] = x]) = Len(s)
         /\ [s EXCEPT ![n] = x][n] = x
         /\ \A i \in 1 .. Len(s) : i # n => [s EXCEPT ![n] = x][i] = s[i]
<1> DEFINE t == [s EXCEPT ![n] = x]
<1>1. Len(s) \in Nat /\ DOMAIN s = 1 .. Len(s)
  BY SeqFacts
<1>2. t = [i \in 1 .. Len(s) |-> t[i]]
  BY <1>1
<1> QED BY <1>1, <1>2, FunIsSeq

LEMMA TailFacts ==
  ASSUME NEW s, IsSeq(s), s # <<>>
  PROVE  /\ IsSeq(Tail(s)) /\ Head(s) \in ToSet(s)
         /\ ToSet(s) = {Head(s)} \cup ToSet(Tail(s))
<1> DEFINE t == Tail(s)
<1>1. /\ Len(s) \in Nat \ {0} /\ DOMAIN s = 1 .. Len(s) /\ Head(s) = s[1]
  BY SeqFacts, EmptySeq, HeadTailProperties DEF IsSeq
<1>2. /\ t \in Seq(ToSet(s)) /\ Len(t) = Len(s) - 1
      /\ \A i \in 1 .. Len(s) - 1 : t[i] = s[i + 1]
  BY HeadTailProperties DEF IsSeq
<1>3. IsSeq(t) /\ ToSet(t) \subseteq ToSet(s) /\ DOMAIN t = 1 .. Len(s) - 1
  BY <1>2, WidenSeq, SeqFacts
<1>4. ASSUME NEW i \in 1 .. Len(s) PROVE s[i] \in {Head(s)} \cup ToSet(t)
  <2>1. CASE i = 1
    BY <1>1, <2>1
  <2>2. CASE i # 1
    <3>1. i - 1 \in 1 .. Len(s) - 1 /\ (i - 1) + 1 = i
      BY <1>1, <2>2
    <3>2. t[i - 1] = s[i] /\ i - 1 \in DOMAIN t
      BY <1>2, <1>3, <3>1
    <3> QED BY <3>2 DEF ToSet
  <2> QED BY <2>1, <2>2
<1>5. Head(s) \in ToSet(s)
  BY <1>1 DEF ToSet
<1>6. ToSet(s) \subseteq {Head(s)} \cup ToSet(t)
  BY <1>1, <1>4 DEF ToSet
<1> QED BY <1>3, <1>5, <1>6

LEMMA DivFacts ==
  ASSUME NEW n \in Nat, NEW d \in Nat \ {0}
  PROVE  /\ n \div d \in Nat /\ n % d \in 0 .. d - 1
         /\ n = d * (n \div d) + (n % d)
OBVIOUS

-----------------------------------------------------------------------------
(* The scan.                                                               *)

LEMMA TreeTypes ==
  ASSUME TreeOK
  PROVE  /\ IsSeq(tree) /\ Len(tree) \in Nat \ {0} /\ DOMAIN tree = 1 .. Len(tree)
         /\ MaxNodes \in Nat \ {0}
         /\ \A k \in 1 .. Len(tree) : tree[k] \in Node
  BY SizesAssumption, WidenSeq, SeqFacts, ElementOfSeq DEF TreeOK

LEMMA ScanKeepsTree ==
  ASSUME TreeOK, PathOK,
         NEW d \in 1 .. Len(path), NEW kind \in {"dir", "file", "symlink"},
         NEW content \in Contents \cup {<<>>}, NEW host \in Links \cup {NotLinked},
         Scan(d, kind, content, host)
  PROVE  TreeOK' /\ PathOK' /\ Len(tree') = Len(tree) + 1
<1> DEFINE n    == Len(tree) + 1
           node == [kind |-> kind, parent |-> path[d], content |-> content, host |-> host]
<1>1. /\ Len(tree) \in Nat \ {0} /\ IsSeq(tree) /\ MaxNodes \in Nat \ {0}
      /\ IsSeq(path) /\ Len(path) \in Nat
      /\ \A i \in 1 .. Len(path) : path[i] \in 1 .. Len(tree)
  BY TreeTypes, WidenSeq, SeqFacts, ElementOfSeq DEF PathOK
<1>2. /\ Len(tree') = n /\ tree'[n] = node
      /\ \A k \in 1 .. Len(tree) : tree'[k] = tree[k]
  BY <1>1, AppendFacts DEF Scan
<1>3. n \in 2 .. MaxNodes
  BY <1>1 DEF Scan
<1>4. path[d] \in 1 .. Len(tree) /\ path[d] \in 0 .. MaxNodes
  BY <1>1, <1>3
<1>5. node \in Node
  BY <1>4 DEF Node
<1>6. tree' \in Seq(Node)
  BY <1>5, AppendProperties DEF TreeOK, Scan
<1>7. \A k \in 1 .. n : k = n \/ k \in 1 .. Len(tree)
  BY <1>1
<1>8. \A k \in 2 .. n : tree'[k].parent \in 1 .. k - 1 /\ tree'[tree'[k].parent].kind = "dir"
  <2> TAKE k \in 2 .. n
  <2>1. CASE k = n
    <3>1. tree'[k].parent = path[d] /\ path[d] \in 1 .. k - 1 /\ tree'[path[d]] = tree[path[d]]
      BY <1>1, <1>2, <1>4, <2>1, SMTT(60)
    <3> QED BY <3>1 DEF PathOK, IsDir
  <2>2. CASE k # n
    <3>1. k \in 2 .. Len(tree) /\ k \in 1 .. Len(tree)
      BY <1>1, <1>7, <2>2
    <3>2. tree'[k] = tree[k] /\ tree[k].parent \in 1 .. k - 1
      BY <1>2, <3>1 DEF TreeOK
    <3>3. tree[k].parent \in 1 .. Len(tree)
      BY <1>1, <3>1, <3>2, SMTT(60)
    <3> QED BY <1>2, <3>1, <3>2, <3>3, SMTT(60) DEF TreeOK, IsDir
  <2> QED BY <2>1, <2>2
<1>9. \A k \in 1 .. n : tree'[k].kind # "file" => tree'[k].content = <<>> /\ tree'[k].host = NotLinked
  BY <1>2, <1>7 DEF TreeOK, IsFile, Scan
<1>10. ASSUME NEW k \in 2 .. n, NEW j \in 2 .. k, tree'[k].parent < j
       PROVE  tree'[j].parent >= tree'[k].parent
  <2>1. CASE k # n
    <3>1. k \in 2 .. Len(tree) /\ j \in 2 .. Len(tree)
      BY <1>1, <1>7, <2>1
    <3>2. tree'[k] = tree[k] /\ tree'[j] = tree[j]
      BY <1>1, <1>2, <3>1
    <3> QED BY <1>10, <3>1, <3>2 DEF TreeOK
  <2>2. CASE k = n /\ j # n
    <3>1. j \in 2 .. Len(tree) /\ tree'[k].parent = path[d] /\ tree'[j] = tree[j]
      BY <1>1, <1>2, <1>7, <2>2
    <3> QED BY <1>10, <3>1 DEF PathOK
  <2>3. CASE k = n /\ j = n
    BY <1>2, <1>4, <2>3
  <2> QED BY <2>1, <2>2, <2>3
<1>11. tree'[1].kind = "dir" /\ tree'[1].parent = NoNode
  BY <1>1, <1>2 DEF TreeOK, IsDir
<1>12. TreeOK'
  BY <1>2, <1>3, <1>6, <1>8, <1>9, <1>10, <1>11 DEF TreeOK, IsDir, IsFile
<1> DEFINE old  == SubSeq(path, 1, d)
           more == IF kind = "dir" THEN <<n>> ELSE <<>>
<1>13. /\ old \in Seq(1 .. n) /\ Len(old) = d /\ \A i \in 1 .. d : old[i] = path[i]
  <2>1. path \in Seq(1 .. n)
    BY <1>1, SeqMonotonic DEF PathOK
  <2>2. 1 \in 1 .. Len(path) + 1 /\ d \in 1 - 1 .. Len(path) /\ d \in Nat
    BY <1>1
  <2>3. /\ SubSeq(path, 1, d) \in Seq(1 .. n)
        /\ Len(SubSeq(path, 1, d)) = IF 1 <= d THEN d - 1 + 1 ELSE 0
        /\ \A i \in 1 .. d - 1 + 1 : SubSeq(path, 1, d)[i] = path[1 + i - 1]
    BY <2>1, <2>2, SubSeqProperties, SMTT(60)
  <2>4. \A i \in 1 .. d : i \in 1 .. d - 1 + 1 /\ 1 + i - 1 = i
    BY <2>2
  <2>5. d - 1 + 1 = d
    BY <2>2
  <2> QED BY <2>3, <2>4, <2>5
<1>14. /\ more \in Seq(1 .. n) /\ Len(more) \in {0, 1}
       /\ Len(more) = 1 => kind = "dir" /\ more[1] = n
  <2>1. CASE kind = "dir"
    <3>1. <<n>> \in Seq(1 .. n) /\ Len(<<n>>) = 1 /\ <<n>>[1] = n
      BY <1>3
    <3> QED BY <2>1, <3>1
  <2>2. CASE kind # "dir"
    <3>1. <<>> \in Seq(1 .. n) /\ Len(<<>>) = 0
      BY EmptySeq
    <3> QED BY <2>2, <3>1
  <2> QED BY <2>1, <2>2
<1>15. path' = old \o more
  BY DEF Scan
<1> HIDE DEF old, more
<1>16. /\ path' \in Seq(1 .. n) /\ Len(path') = d + Len(more)
       /\ \A i \in 1 .. d + Len(more) : path'[i] = IF i <= d THEN old[i] ELSE more[i - d]
  BY <1>13, <1>14, <1>15, ConcatProperties, SMTT(60)
<1>17. ASSUME NEW i \in 1 .. Len(path')
       PROVE  \/ i \in 1 .. d /\ path'[i] = path[i]
              \/ path'[i] = n /\ kind = "dir"
  <2>1. CASE i <= d
    BY <1>13, <1>16, <2>1, SMTT(60)
  <2>2. CASE ~(i <= d)
    <3>1. Len(more) = 1 /\ i - d = 1
      <4>1. d \in Nat /\ i \in 1 .. d + Len(more) /\ ~(i <= d)
        BY <1>1, <1>16, <2>2
      <4>2. Len(more) # 0
        BY <4>1
      <4>3. Len(more) = 1
        BY <1>14, <4>2
      <4>4. i \in 1 .. d + 1
        BY <4>1, <4>3
      <4> QED BY <4>1, <4>3, <4>4
    <3> QED BY <1>14, <1>16, <2>2, <3>1
  <2> QED BY <2>1, <2>2
<1>18. ASSUME NEW i \in 1 .. Len(path')
       PROVE  /\ tree'[path'[i]].kind = "dir"
              /\ \A k \in 2 .. n : path'[i] < k => tree'[k].parent >= path'[i]
  <2>1. CASE path'[i] = n /\ kind = "dir"
    BY <1>1, <1>2, <2>1 DEF IsDir
  <2>2. CASE i \in 1 .. d /\ path'[i] = path[i]
    <3>1. i \in 1 .. Len(path) /\ path[i] \in 1 .. Len(tree)
      BY <1>1, <2>2
    <3>2. tree'[path'[i]].kind = "dir"
      BY <1>2, <2>2, <3>1 DEF PathOK, IsDir
    <3>3. \A k \in 2 .. Len(tree) : path[i] < k => tree'[k].parent >= path[i]
      BY <1>1, <1>2, <3>1, SMTT(30) DEF PathOK
    <3>4. path[i] <= path[d]
      BY <2>2 DEF PathOK
    <3>5. path[i] \in Nat /\ path[d] \in Nat
      BY <1>4, <3>1
    <3>6. tree'[n].parent >= path[i]
      BY <1>2, <3>4, <3>5
    <3> QED BY <1>2, <1>7, <2>2, <3>2, <3>3, <3>6, SMTT(60)
  <2> QED BY <1>17, <2>1, <2>2
<1>19. ASSUME NEW i \in 1 .. Len(path'), NEW j \in 1 .. i
       PROVE  path'[j] <= path'[i]
  <2>1. j \in 1 .. Len(path') /\ path'[j] \in 1 .. n /\ path'[i] \in 1 .. n
    BY <1>16, ElementOfSeq, SMTT(60)
  <2>2. CASE path'[i] = n
    BY <1>1, <2>1, <2>2
  <2>3. CASE path'[i] # n
    <3>1. i \in 1 .. d /\ path'[i] = path[i] /\ i \in 1 .. Len(path)
      BY <1>1, <1>17, <2>3
    <3>2. j \in 1 .. d /\ path'[j] = path[j]
      BY <1>13, <1>16, <2>1, <3>1, SMTT(60)
    <3> QED BY <3>1, <3>2 DEF PathOK
  <2> QED BY <2>2, <2>3
<1> QED BY <1>2, <1>12, <1>16, <1>18, <1>19 DEF PathOK, IsDir

-----------------------------------------------------------------------------
(* The numbers.                                                            *)

LEMMA ScanKeepsNumbers ==
  ASSUME TreeOK, PathOK, NumbersOK,
         NEW d \in 1 .. Len(path), NEW kind \in {"dir", "file", "symlink"},
         NEW content \in Contents \cup {<<>>}, NEW host \in Links \cup {NotLinked},
         Scan(d, kind, content, host)
  PROVE  NumbersOK'
<1>1. Len(tree') = Len(tree) + 1 /\ Len(tree) \in Nat
  BY ScanKeepsTree, TreeTypes
<1>2. /\ phase = "scan" /\ at = 2 /\ Numbered = {} /\ Numbered' = {}
      /\ UNCHANGED <<phase, at, next, numbers, hlNum>>
  BY SMTT(60) DEF Scan, numVars, NumbersOK, Numbered
<1>3. at \in 2 .. Len(tree') + 1
  BY <1>1, <1>2
<1> QED BY <1>2, <1>3 DEF NumbersOK

LEMMA NumberKeeps ==
  ASSUME TreeOK, NumbersOK, Number
  PROVE  NumbersOK'
<1> DEFINE host == tree[at].host
           new  == ~(Linked(at) /\ hlNum[host] # 0)
           n    == IF new THEN next ELSE hlNum[host]
<1>1. /\ IsSeq(tree) /\ Len(tree) \in Nat \ {0} /\ Len(tree) <= MaxNodes /\ MaxNodes \in Nat
      /\ \A k \in 1 .. Len(tree) : tree[k] \in Node
  BY TreeTypes DEF TreeOK
<1>2. /\ at \in 2 .. Len(tree) /\ Len(numbers) = at - 1 /\ Numbered = 2 .. at - 1
      /\ IsSeq(numbers) /\ next \in 1 .. at - 1
  BY <1>1, WidenSeq DEF Number, NumbersOK, Numbered
<1>3. /\ Numbered' = 2 .. at /\ at' = at + 1
      /\ UNCHANGED <<phase, tree, export>> /\ phase = "number"
  BY <1>2 DEF Number, Numbered, scanVars, tableVars
<1>4. Linked(at) => host \in Links
  BY <1>1, <1>2 DEF Linked, Node
<1>5. /\ numbers' = Append(numbers, n)
      /\ next' = IF new THEN next + 1 ELSE next
      /\ hlNum' = IF new /\ Linked(at) THEN [hlNum EXCEPT ![host] = next] ELSE hlNum
  BY DEF Number
<1>6. \A k \in 2 .. at - 1 : Linked(k) => tree[k].host \in Links
  BY <1>1, <1>2 DEF Linked, Node
<1>7. ~new => \E k \in 2 .. at - 1 : SameFile(k, at) /\ numbers[k] = n
  <2> SUFFICES ASSUME ~new PROVE \E k \in 2 .. at - 1 : SameFile(k, at) /\ numbers[k] = n
    OBVIOUS
  <2>1. PICK k \in 2 .. at - 1 : Linked(k) /\ tree[k].host = host
    BY <1>2, <1>4 DEF NumbersOK
  <2>2. numbers[k] = hlNum[host]
    BY <1>2, <2>1 DEF NumbersOK
  <2> QED BY <2>1, <2>2 DEF SameFile
<1>8. n \in 1 .. next' - 1 /\ next' \in 1 .. at /\ n \in 0 .. MaxNodes
  <2>1. CASE new
    BY <1>1, <1>2, <1>5, <2>1
  <2>2. CASE ~new
    <3>1. n \in 1 .. next - 1
      BY <1>2, <1>7, <2>2 DEF NumbersOK
    <3> QED BY <1>1, <1>2, <1>5, <2>2, <3>1
  <2> QED BY <2>1, <2>2
<1> HIDE DEF n, new, host
<1>9. /\ Len(numbers') = at /\ numbers'[at] = n
      /\ \A k \in 1 .. at - 1 : numbers'[k] = numbers[k]
      /\ numbers' \in Seq(0 .. MaxNodes)
  <2>1. Len(numbers) + 1 = at
    BY <1>2
  <2>2. numbers' \in Seq(0 .. MaxNodes)
    BY <1>5, <1>8, AppendProperties DEF NumbersOK
  <2> QED BY <1>2, <1>5, <2>1, <2>2, AppendFacts
<1>10. \A k \in 2 .. at : k = at \/ k \in 2 .. at - 1
  BY <1>2
<1>11. \A k \in 2 .. at - 1 : numbers'[k] = numbers[k] /\ numbers[k] \in 1 .. next - 1
  BY <1>2, <1>9 DEF NumbersOK
<1>12. \A k \in 2 .. at : numbers'[k] \in 1 .. next' - 1
  BY <1>2, <1>5, <1>8, <1>9, <1>10, <1>11, SMTT(60)
<1>13. ASSUME NEW j \in 2 .. at - 1, numbers'[j] = n
       PROVE  SameFile(j, at)
  <2>1. ~new
    BY <1>2, <1>5, <1>11, <1>13 DEF n
  <2>2. PICK k \in 2 .. at - 1 : SameFile(k, at) /\ numbers[k] = n
    BY <1>7, <2>1
  <2>3. j = k \/ SameFile(j, k)
    BY <1>2, <1>11, <1>13, <2>2, SMTT(60) DEF NumbersOK
  <2> QED BY <2>2, <2>3 DEF SameFile
<1>14. ASSUME NEW j \in 2 .. at, NEW k \in 2 .. at, numbers'[j] = numbers'[k]
       PROVE  j = k \/ SameFile(j, k)
  <2>1. CASE j # at /\ k # at
    BY <1>2, <1>10, <1>11, <1>14, <2>1 DEF NumbersOK
  <2>2. CASE j # at /\ k = at
    BY <1>9, <1>10, <1>13, <1>14, <2>2
  <2>3. CASE j = at /\ k # at
    BY <1>9, <1>10, <1>13, <1>14, <2>3 DEF SameFile
  <2> QED BY <2>1, <2>2, <2>3
<1>15. ASSUME NEW m \in 1 .. next' - 1 PROVE \E k \in 2 .. at : numbers'[k] = m
  <2>1. CASE m \in 1 .. next - 1
    <3>1. PICK k \in 2 .. at - 1 : numbers[k] = m
      BY <1>2, <2>1 DEF NumbersOK
    <3> QED BY <1>2, <1>11, <3>1, SMTT(60)
  <2>2. CASE m \notin 1 .. next - 1
    <3>1. new /\ m = next
      BY <1>2, <1>5, <2>2
    <3> QED BY <1>2, <1>9, <3>1 DEF n
  <2> QED BY <2>1, <2>2
<1>16. hlNum' \in [Links -> Nat]
  <2>1. next \in Nat /\ hlNum \in [Links -> Nat]
    BY <1>2 DEF NumbersOK
  <2> QED BY <1>5, <2>1
<1>17. ASSUME NEW k \in 2 .. at, Linked(k) PROVE hlNum'[tree[k].host] = numbers'[k]
  <2>1. CASE k = at
    BY <1>4, <1>5, <1>9, <1>17, <2>1 DEF n, new, host, NumbersOK
  <2>2. CASE k # at
    <3>1. k \in 2 .. at - 1 /\ hlNum[tree[k].host] = numbers[k] /\ numbers[k] # 0
      BY <1>2, <1>10, <1>11, <1>17, <2>2, SMTT(60) DEF NumbersOK
    <3>2. new /\ Linked(at) => tree[k].host # host
      BY <3>1 DEF new, host
    <3> QED BY <1>4, <1>5, <1>6, <1>11, <1>17, <3>1, <3>2 DEF NumbersOK
  <2> QED BY <2>1, <2>2
<1>18. ASSUME NEW l \in Links, hlNum'[l] # 0
       PROVE  \E k \in 2 .. at : Linked(k) /\ tree[k].host = l
  <2>1. CASE hlNum[l] # 0
    BY <1>2, <2>1 DEF NumbersOK
  <2>2. CASE hlNum[l] = 0
    <3>1. Linked(at) /\ l = host
      BY <1>4, <1>5, <1>18, <2>2 DEF NumbersOK
    <3> QED BY <1>2, <3>1 DEF host
  <2> QED BY <2>1, <2>2
<1>19. \A j, k : Linked(k)' = Linked(k) /\ SameFile(j, k)' = SameFile(j, k)
  BY <1>3 DEF SameFile, Linked, IsFile
<1>20. /\ at' \in 2 .. Len(tree') + 1 /\ next' \in 1 .. at' - 1 /\ Len(numbers') = at' - 1
       /\ next' \in 1 .. MaxNodes + 1 /\ numbers'[1] = 0
  <2>1. numbers[1] = 0 /\ 1 \in 1 .. at - 1
    BY <1>2, <1>3 DEF NumbersOK
  <2>2. Len(tree') = Len(tree) /\ at' - 1 = at
    BY <1>2, <1>3
  <2> QED BY <1>1, <1>2, <1>3, <1>8, <1>9, <2>1, <2>2, SMTT(60)
<1> QED
  BY <1>3, <1>9, <1>12, <1>14, <1>15, <1>16, <1>17, <1>18, <1>19, <1>20, ZenonT(60)
  DEF NumbersOK

LEMMA NumberingEndsKeeps ==
  ASSUME TreeOK, NumbersOK, NumberingEnds
  PROVE  NumbersOK' /\ IsSeq(export') /\ Len(export') = next
<1>1. /\ Len(tree) \in Nat \ {0} /\ Len(tree) <= MaxNodes /\ MaxNodes \in Nat
  BY TreeTypes DEF TreeOK
<1>2. /\ at = Len(tree) + 1 /\ Len(numbers) = Len(tree) /\ Numbered = 2 .. Len(tree)
      /\ IsSeq(numbers) /\ next \in 1 .. Len(tree) /\ next \in 0 .. MaxNodes
  <2>1. /\ phase = "number" /\ at \in 2 .. Len(tree) + 1 /\ at > Len(tree)
        /\ Len(numbers) = at - 1 /\ next \in 1 .. at - 1 /\ Numbered = 2 .. at - 1
        /\ IsSeq(numbers)
    BY WidenSeq DEF NumberingEnds, NumbersOK, Numbered
  <2>2. at = Len(tree) + 1
    BY <1>1, <2>1
  <2> QED BY <1>1, <2>1, <2>2
<1>3. /\ Numbered' = 1 .. Len(tree)
      /\ UNCHANGED <<tree, hlNum>> /\ phase' = "collect" /\ next' = next + 1
      /\ numbers' = [numbers EXCEPT ![1] = next] /\ export' = [n \in 1 .. next |-> NoRef]
  BY DEF NumberingEnds, Numbered, scanVars
<1>4. IsSeq(export') /\ Len(export') = next
  <2>1. next \in Nat /\ export' = [i \in 1 .. next |-> export'[i]]
    BY <1>2, <1>3
  <2> QED BY <2>1, FunIsSeq
<1>5. /\ Len(numbers') = Len(tree) /\ numbers'[1] = next
      /\ \A k \in 2 .. Len(tree) : numbers'[k] = numbers[k]
  <2>1. 1 \in 1 .. Len(numbers) /\ \A k \in 2 .. Len(tree) : k \in 1 .. Len(numbers) /\ k # 1
    BY <1>1, <1>2
  <2> QED BY <1>2, <1>3, <2>1, ExceptFacts
<1>6. numbers' \in Seq(0 .. MaxNodes)
  BY <1>2, <1>3, ExceptSeq DEF NumbersOK
<1>7. \A k \in 1 .. Len(tree) : k = 1 \/ k \in 2 .. Len(tree)
  BY <1>1
<1>8. \A k \in 2 .. Len(tree) : numbers'[k] = numbers[k] /\ numbers[k] \in 1 .. next - 1
  BY <1>2, <1>5 DEF NumbersOK
<1>9. \A k \in 1 .. Len(tree) : numbers'[k] \in 1 .. next
  BY <1>2, <1>5, <1>7, <1>8
<1>10. ASSUME NEW j \in 1 .. Len(tree), NEW k \in 1 .. Len(tree), numbers'[j] = numbers'[k]
       PROVE  j = k \/ SameFile(j, k)
  <2>1. \A m \in 2 .. Len(tree) : numbers'[m] # next
    BY <1>2, <1>8
  <2>2. CASE j \in 2 .. Len(tree) /\ k \in 2 .. Len(tree)
    BY <1>2, <1>8, <1>10, <2>2 DEF NumbersOK
  <2> QED BY <1>5, <1>7, <1>10, <2>1, <2>2
<1>11. ASSUME NEW m \in 1 .. next PROVE \E k \in 1 .. Len(tree) : numbers'[k] = m
  <2>1. CASE m = next
    BY <1>1, <1>5, <2>1
  <2>2. CASE m # next
    <3>1. m \in 1 .. next - 1
      BY <1>2, <2>2
    <3>2. PICK k \in 2 .. Len(tree) : numbers[k] = m
      BY <1>2, <3>1 DEF NumbersOK
    <3> QED BY <1>1, <1>8, <3>2
  <2> QED BY <2>1, <2>2
<1>12. ~Linked(1)
  BY DEF TreeOK, Linked, IsDir, IsFile
<1>13. \A k \in 1 .. Len(tree) : Linked(k) => hlNum[tree[k].host] = numbers'[k]
  BY <1>2, <1>7, <1>8, <1>12 DEF NumbersOK
<1>14. \A l \in Links : hlNum[l] # 0 => \E k \in 1 .. Len(tree) : Linked(k) /\ tree[k].host = l
  <2>1. \A k \in 2 .. Len(tree) : k \in 1 .. Len(tree)
    OBVIOUS
  <2> QED BY <1>2, <2>1 DEF NumbersOK
<1>15. \A j, k : Linked(k)' = Linked(k) /\ SameFile(j, k)' = SameFile(j, k)
  BY <1>3 DEF SameFile, Linked, IsFile
<1>16. /\ next' \in 1 .. MaxNodes + 1 /\ next' - 1 = next /\ Total' = next
       /\ hlNum' \in [Links -> Nat]
  BY <1>1, <1>2, <1>3, <1>4 DEF NumbersOK, Total
<1> QED
  BY <1>3, <1>4, <1>5, <1>6, <1>9, <1>10, <1>11, <1>13, <1>14, <1>15, <1>16, SMTT(60)
  DEF NumbersOK

(* The numbers are used by the passes behind, and none changes them.       *)
LEMMA SameNumbers ==
  ASSUME NumbersOK, UNCHANGED <<tree, next, numbers, hlNum>>, Total' = Total,
         \/ phase \notin {"scan", "number"} /\ phase' \notin {"scan", "number"}
         \/ phase = "scan" /\ phase' = "number" /\ at' = at
         \/ UNCHANGED <<phase, at>>
  PROVE  NumbersOK'
<1>1. \A j, k : Linked(k)' = Linked(k) /\ SameFile(j, k)' = SameFile(j, k)
  BY DEF SameFile, Linked, IsFile
<1>2. Numbered' = Numbered
  BY DEF Numbered
<1> QED BY <1>1, <1>2 DEF NumbersOK

-----------------------------------------------------------------------------
(* The files' data.                                                        *)

LEMMA DataTypes ==
  ASSUME TreeOK, DataOK
  PROVE  /\ IsSeq(queue) /\ ToSet(queue) \subseteq 1 .. Len(tree)
         /\ Len(tree) \in Nat \ {0}
         /\ \A k \in 1 .. Len(tree) : Linked(k) => tree[k].host \in Links
  BY TreeTypes, WidenSeq DEF DataOK, Linked, Node

(* A longer tree, or none of the passes that use the data yet.             *)
LEMMA EarlierKeepsData ==
  ASSUME DataOK, Len(tree) \in Nat, Len(tree') \in Nat, Len(tree) <= Len(tree'),
         phase \in {"scan", "number"}, UNCHANGED <<collVars, dataVars>>,
         \/ phase' \in {"scan", "number"}
         \/ phase' = "collect" /\ at' = 2 /\ Len(tree') # 0
  PROVE  DataOK'
<1>1. /\ Collected' = {} /\ UNCHANGED <<queue, firsts, copies, hlFirst, fileData>>
      /\ WithData' = WithData
  BY DEF collVars, dataVars, WithData, Collected
<1>2. queue' \in Seq(1 .. Len(tree'))
  <2>1. 1 .. Len(tree) \subseteq 1 .. Len(tree')
    OBVIOUS
  <2> QED BY <1>1, <2>1, SeqMonotonic DEF DataOK
<1>3. hlFirst' \in [Links -> 0 .. Len(tree')]
  <2>1. 0 .. Len(tree) \subseteq 0 .. Len(tree')
    OBVIOUS
  <2> QED BY <1>1, <2>1 DEF DataOK
<1> QED BY <1>1, <1>2, <1>3 DEF DataOK

LEMMA CollectKeeps ==
  ASSUME TreeOK, DataOK, Collect
  PROVE  DataOK'
<1> DEFINE host == tree[at].host
           skip == ~IsFile(at) \/ (Linked(at) /\ hlFirst[host] # NoNode)
           same == tree[at].content # <<>> /\ SameContent(at) # {}
<1>1. /\ IsSeq(queue) /\ at \in 2 .. Len(tree) /\ at \in 1 .. Len(tree) /\ Len(tree) \in Nat \ {0}
      /\ Linked(at) => host \in Links
      /\ \A k \in 2 .. at - 1 : Linked(k) => tree[k].host \in Links
  BY DataTypes, SMTT(60) DEF DataOK, Collect
<1>2. /\ phase = "collect" /\ phase' = "collect" /\ at' = at + 1
      /\ Collected = 2 .. at - 1 /\ Collected' = 2 .. at
      /\ UNCHANGED <<tree, fileData>>
  BY <1>1 DEF Collect, Collected, scanVars, dataVars
<1>3. skip => UNCHANGED <<queue, firsts, copies, hlFirst>>
  BY DEF Collect, collVars
<1>4. ~skip => hlFirst' = IF Linked(at) THEN [hlFirst EXCEPT ![host] = at] ELSE hlFirst
  BY DEF Collect
<1>5. ~skip /\ same =>
        copies' = copies \cup {<<at, f>> : f \in SameContent(at)} /\ UNCHANGED <<queue, firsts>>
  BY DEF Collect
<1>6. ~skip /\ ~same =>
        /\ queue' = Append(queue, at) /\ copies' = copies
        /\ firsts' \subseteq firsts \cup {at}
  BY DEF Collect
<1>7. SameContent(at) \subseteq firsts /\ (same => SameContent(at) # {})
  BY DEF SameContent
<1> HIDE DEF skip, same
<1>8. /\ ToSet(queue) \subseteq ToSet(queue') /\ queue' \in Seq(1 .. Len(tree))
      /\ ~skip /\ ~same => at \in ToSet(queue')
  <2>1. /\ Append(queue, at) \in Seq(1 .. Len(tree))
        /\ ToSet(Append(queue, at)) = ToSet(queue) \cup {at}
    BY <1>1, AppendFacts, AppendProperties DEF DataOK
  <2>2. queue \in Seq(1 .. Len(tree))
    BY DEF DataOK
  <2> QED BY <1>3, <1>5, <1>6, <2>1, <2>2
<1>9. copies \subseteq copies'
  BY <1>3, <1>5, <1>6
<1>10. WithData \subseteq WithData'
  BY <1>2, <1>8, <1>9 DEF WithData
<1>11. ~skip => at \in WithData'
  <2>1. CASE ~skip /\ same
    <3>1. PICK f \in SameContent(at) : TRUE
      BY <1>7, <2>1
    <3>2. <<at, f>> \in copies' /\ <<at, f>>[1] = at
      BY <1>5, <2>1, <3>1
    <3> QED BY <3>2 DEF WithData
  <2>2. CASE ~skip /\ ~same
    BY <1>8, <2>2 DEF WithData
  <2> QED BY <2>1, <2>2
<1>12. firsts' \subseteq DOMAIN fileData' \cup ToSet(queue')
  BY <1>2, <1>3, <1>5, <1>6, <1>8 DEF DataOK
<1>13. \A c \in copies' : c = <<c[1], c[2]>> /\ c[2] \in firsts'
  <2>1. CASE ~skip /\ same
    BY <1>5, <1>7, <2>1 DEF DataOK
  <2>2. CASE ~skip /\ ~same
    <3>1. firsts \subseteq firsts'
      BY <2>2 DEF Collect, skip, same
    <3> QED BY <1>6, <2>2, <3>1 DEF DataOK
  <2> QED BY <1>3, <2>1, <2>2 DEF DataOK
<1>14. hlFirst' \in [Links -> 0 .. Len(tree')]
  <2>1. at \in 0 .. Len(tree)
    BY <1>1
  <2> QED BY <1>1, <1>2, <1>3, <1>4, <2>1 DEF DataOK
<1>15. \A l \in Links : hlFirst'[l] # NoNode => hlFirst'[l] \in WithData'
  <2> TAKE l \in Links
  <2>1. CASE ~skip /\ Linked(at) /\ l = host
    <3>1. hlFirst'[l] = at
      BY <1>1, <1>4, <2>1 DEF DataOK
    <3> QED BY <1>11, <2>1, <3>1
  <2>2. CASE ~(~skip /\ Linked(at) /\ l = host)
    <3>1. hlFirst'[l] = hlFirst[l]
      BY <1>1, <1>3, <1>4, <2>2 DEF DataOK
    <3>2. hlFirst[l] # NoNode => hlFirst[l] \in WithData
      BY DEF DataOK
    <3> QED BY <1>10, <3>1, <3>2
  <2> QED BY <2>1, <2>2
<1>16. ASSUME NEW k \in 2 .. at, IsFile(k)
       PROVE  IF Linked(k) THEN hlFirst'[tree[k].host] # NoNode ELSE k \in WithData'
  <2>1. CASE k = at
    <3>1. CASE skip
      BY <1>3, <1>16, <2>1, <3>1 DEF skip
    <3>2. CASE ~skip /\ Linked(at)
      <4>1. hlFirst'[host] = at /\ at # NoNode
        BY <1>1, <1>4, <3>2 DEF DataOK, NoNode
      <4> QED BY <2>1, <3>2, <4>1
    <3>3. CASE ~skip /\ ~Linked(at)
      BY <1>11, <2>1, <3>3
    <3> QED BY <3>1, <3>2, <3>3
  <2>2. CASE k # at
    <3>1. k \in 2 .. at - 1
      BY <1>1, <2>2
    <3>2. IF Linked(k) THEN hlFirst[tree[k].host] # NoNode ELSE k \in WithData
      BY <1>2, <1>16, <3>1 DEF DataOK
    <3>3. CASE Linked(k)
      <4>1. tree[k].host \in Links
        BY <1>1, <3>1, <3>3
      <4>2. hlFirst'[tree[k].host] # NoNode
        BY <1>1, <1>3, <1>4, <3>2, <3>3, <4>1 DEF DataOK, NoNode
      <4> QED BY <3>3, <4>2
    <3> QED BY <1>10, <3>2, <3>3
  <2> QED BY <2>1, <2>2
<1>17. \A k : IsFile(k)' = IsFile(k) /\ Linked(k)' = Linked(k)
  BY <1>2 DEF IsFile, Linked
<1>18. at' \in 2 .. Len(tree') + 1
  BY <1>1, <1>2
<1> QED
  BY <1>2, <1>8, <1>12, <1>13, <1>14, <1>15, <1>16, <1>17, <1>18 DEF DataOK

LEMMA CollectingEndsKeeps ==
  ASSUME TreeOK, DataOK, CollectingEnds
  PROVE  DataOK'
<1>1. /\ phase = "collect" /\ phase' = "write" /\ at' = 2
      /\ UNCHANGED <<tree, queue, firsts, copies, hlFirst, fileData>>
      /\ Len(tree) \in Nat \ {0} /\ at = Len(tree) + 1
  <2>1. Len(tree) \in Nat /\ at \in 2 .. Len(tree) + 1 /\ at > Len(tree)
    BY DataTypes DEF CollectingEnds, DataOK
  <2> QED BY <2>1, DataTypes DEF CollectingEnds, scanVars, collVars, dataVars
<1>2. Collected' = Collected
  BY <1>1 DEF Collected
<1>3. WithData' = WithData /\ \A k : IsFile(k)' = IsFile(k) /\ Linked(k)' = Linked(k)
  BY <1>1 DEF WithData, IsFile, Linked
<1> QED BY <1>1, <1>2, <1>3 DEF DataOK

(* One file of the queue is written.                                       *)
LEMMA WrittenKeeps ==
  ASSUME TreeOK, DataOK, Writing, NEW info, Placed(info), queue' = Tail(queue),
         UNCHANGED <<phase, at, scanVars, firsts, copies, hlFirst>>
  PROVE  DataOK'
<1>1. /\ IsSeq(queue) /\ queue # <<>> /\ phase = "write" /\ phase' = "write"
      /\ UNCHANGED <<at, tree, firsts, copies, hlFirst>>
  BY DataTypes DEF Writing, scanVars
<1>2. /\ ToSet(queue) = {Head(queue)} \cup ToSet(queue')
      /\ queue' \in Seq(1 .. Len(tree))
  BY <1>1, TailFacts, HeadTailProperties DEF DataOK
<1>3. DOMAIN fileData' = DOMAIN fileData \cup {Head(queue)}
  BY DEF Placed
<1>4. DOMAIN fileData' \cup ToSet(queue') = DOMAIN fileData \cup ToSet(queue)
  BY <1>2, <1>3
<1>5. WithData' = WithData /\ \A k : IsFile(k)' = IsFile(k) /\ Linked(k)' = Linked(k)
  BY <1>1, <1>4 DEF WithData, IsFile, Linked
<1>6. Collected' = Collected
  BY <1>1 DEF Collected
<1> QED BY <1>1, <1>2, <1>4, <1>5, <1>6 DEF DataOK

LEMMA WritingEndsKeeps ==
  ASSUME TreeOK, DataOK, WritingEnds
  PROVE  DataOK'
<1>1. /\ phase = "write" /\ phase' = "tables" /\ queue = <<>> /\ at = 2 /\ at' = 2
      /\ UNCHANGED <<tree, queue, firsts, copies, hlFirst>> /\ Len(tree) \in Nat \ {0}
  BY DataTypes DEF WritingEnds, DataOK, scanVars, collVars
<1>2. DOMAIN fileData' = DOMAIN fileData \cup {c[1] : c \in copies}
  BY DEF WritingEnds
<1>3. WithData' = WithData /\ \A k : IsFile(k)' = IsFile(k) /\ Linked(k)' = Linked(k)
  BY <1>1, <1>2 DEF WithData, IsFile, Linked
<1>4. Collected' = Collected
  BY <1>1 DEF Collected
<1>5. firsts' \subseteq DOMAIN fileData' \cup ToSet(queue')
  BY <1>1, <1>2 DEF DataOK
<1> QED BY <1>1, <1>2, <1>3, <1>4, <1>5 DEF DataOK

(* While the tables are written the data stay as they are.                 *)
LEMMA TablesKeepData ==
  ASSUME TreeOK, DataOK, InTables, InTables', UNCHANGED <<tree, collVars, dataVars>>,
         phase' = "tables" => at' \in 2 .. Len(tree) + 1
  PROVE  DataOK'
<1>1. UNCHANGED <<queue, firsts, copies, hlFirst, fileData>>
  BY DEF collVars, dataVars
<1>2. WithData' = WithData /\ \A k : IsFile(k)' = IsFile(k) /\ Linked(k)' = Linked(k)
  BY <1>1 DEF WithData, IsFile, Linked
<1>3. Collected' = Collected
  BY <1>1 DEF Collected, InTables
<1> QED BY <1>1, <1>2, <1>3 DEF DataOK, InTables

(* Every file of the host that a name belongs to has data by then, and so  *)
(* has every file without other names.                                     *)
LEMMA DataIsThere ==
  ASSUME TreeOK, DataOK, phase = "tables", NEW n \in 2 .. Len(tree), IsFile(n)
  PROVE  (IF Linked(n) THEN hlFirst[tree[n].host] ELSE n) \in DOMAIN fileData
<1> DEFINE k == IF Linked(n) THEN hlFirst[tree[n].host] ELSE n
<1>1. k \in WithData
  <2>1. n \in Collected /\ n \in 1 .. Len(tree)
    BY TreeTypes DEF Collected
  <2> QED BY <2>1, DataTypes DEF DataOK
<1>2. queue = <<>> /\ {c[1] : c \in copies} \subseteq DOMAIN fileData
  BY DEF DataOK
<1> QED BY <1>1, <1>2, EmptyFacts DEF WithData

-----------------------------------------------------------------------------
(* The data area.                                                          *)

LEMMA CurrentIs ==
  ASSUME TreeOK, DataOK, Writing
  PROVE  Current \in Seq(Nat) /\ Len(Current) \in Nat /\ IsSeq(Current)
<1>1. Head(queue) \in 1 .. Len(tree)
  BY DataTypes, TailFacts DEF Writing
<1>2. Current \in Contents \cup {<<>>}
  BY <1>1, TreeTypes DEF Current, Node
<1>3. <<>> \in Seq(Nat)
  BY EmptySeq
<1>4. Current \in Seq(Nat)
  BY <1>2, <1>3, SizesAssumption
<1> QED BY <1>4, WidenSeq, SeqFacts

(* A block of a file has at most BlockSize bytes.                          *)
LEMMA BlocksAreSmall ==
  ASSUME NEW c \in Seq(Nat), NEW n \in Nat, n = BlockCount(Len(c)), NEW i \in 1 .. n
  PROVE  Len(BlockOf(c, i)) \in Nat /\ Len(BlockOf(c, i)) <= BlockSize
<1> DEFINE from == (i - 1) * BlockSize + 1
           to   == IF i * BlockSize < Len(c) THEN i * BlockSize ELSE Len(c)
<1>1. BlockSize \in Nat \ {0} /\ Len(c) \in Nat
  BY SizesAssumption
<1>2. i * BlockSize \in Nat /\ (i - 1) * BlockSize \in Nat
      /\ i * BlockSize = (i - 1) * BlockSize + BlockSize
  <2>1. i \in Nat /\ i - 1 \in Nat
    OBVIOUS
  <2>2. i * BlockSize = (i - 1) * BlockSize + BlockSize
    BY <1>1, <2>1
  <2>3. i * BlockSize \in Nat /\ (i - 1) * BlockSize \in Nat
    BY <1>1, <2>1
  <2> QED BY <2>2, <2>3
<1>3. (i - 1) * BlockSize < Len(c)
  <2> DEFINE m == Len(c) + BlockSize - 1
  <2>1. m \in Nat /\ n = m \div BlockSize
    BY <1>1 DEF BlockCount
  <2>2. m = BlockSize * (m \div BlockSize) + (m % BlockSize) /\ m % BlockSize \in Nat
    <3> HIDE DEF m
    <3> QED BY <1>1, <2>1, DivFacts
  <2>3. BlockSize * n <= m
    <3>1. BlockSize * n \in Nat
      BY <1>1
    <3> HIDE DEF m
    <3> QED BY <2>1, <2>2, <3>1
  <2>4. i * BlockSize <= BlockSize * n
    <3>1. i \in Nat /\ i <= n
      OBVIOUS
    <3> QED BY <1>1, <3>1
  <2>5. BlockSize * n \in Nat
    BY <1>1
  <2> QED BY <1>1, <1>2, <2>3, <2>4, <2>5
<1>4. from \in 1 .. Len(c) + 1 /\ to \in from - 1 .. Len(c) /\ to - from + 1 <= BlockSize
      /\ from \in Nat /\ to \in Nat
  BY <1>1, <1>2, <1>3, SMTT(60)
<1> HIDE DEF from, to
<1>5. Len(SubSeq(c, from, to)) = IF from <= to THEN to - from + 1 ELSE 0
  BY <1>4, SubSeqProperties
<1>6. BlockOf(c, i) = SubSeq(c, from, to)
  BY DEF BlockOf, from, to
<1> QED BY <1>1, <1>4, <1>5, <1>6

LEMMA WriteBlocksKeepsBlocks ==
  ASSUME TreeOK, DataOK, BlocksOK, WriteBlocks
  PROVE  BlocksOK'
<1> DEFINE n == BlockCount(Len(Current))
<1>1. Current \in Seq(Nat) /\ Len(Current) \in Nat /\ BlockSize \in Nat \ {0} /\ n \in Nat
  <2>1. Current \in Seq(Nat) /\ Len(Current) \in Nat /\ BlockSize \in Nat \ {0}
    BY CurrentIs, SizesAssumption DEF WriteBlocks
  <2>2. Len(Current) + BlockSize - 1 \in Nat
    BY <2>1
  <2> QED BY <2>1, <2>2, DivFacts DEF BlockCount
<1>2. PICK sizes \in [1 .. n -> 0 .. BlockSize] :
        /\ \A i \in 1 .. n : IF Sparse(BlockOf(Current, i)) THEN sizes[i] = 0
                             ELSE sizes[i] \in 1 .. Len(BlockOf(Current, i))
        /\ out' = out \cup {[at |-> pos + SumTo(sizes, i - 1), stored |-> sizes[i],
                             bytes |-> BlockOf(Current, i)] :
                             i \in {j \in 1 .. n : sizes[j] # 0}}
  BY DEF WriteBlocks
<1>3. UNCHANGED <<buf, frags>>
  BY DEF WriteBlocks
<1>4. \A i \in 1 .. n : sizes[i] # 0 =>
        sizes[i] \in 1 .. Len(BlockOf(Current, i)) /\ Len(BlockOf(Current, i)) <= BlockSize
  BY <1>1, <1>2, BlocksAreSmall
<1> HIDE DEF n
<1>5. \A b \in out' : b.stored \in 1 .. Len(b.bytes) /\ Len(b.bytes) <= BlockSize
  BY <1>2, <1>4 DEF BlocksOK
<1>6. \A i \in 1 .. Len(frags) : StoredAt(frags[i].start, frags[i].size)' # {}
  BY <1>2, <1>3 DEF BlocksOK, StoredAt
<1> QED BY <1>3, <1>5, <1>6 DEF BlocksOK

(* What a flush leaves of the fragments.                                   *)
LEMMA FlushKeepsBlocks ==
  ASSUME BlocksOK, FlushFragments \/ UNCHANGED <<out, frags>>,
         Len(buf') <= BlockSize, IsSeq(buf')
  PROVE  BlocksOK'
<1>1. CASE UNCHANGED <<out, frags>>
  BY <1>1 DEF BlocksOK, StoredAt
<1>2. CASE FlushFragments
  <2>1. PICK s \in 1 .. Len(buf) :
          /\ out' = out \cup {[at |-> pos, stored |-> s, bytes |-> buf]}
          /\ frags' = Append(frags, [start |-> pos, size |-> s])
    BY <1>2 DEF FlushFragments
  <2> DEFINE entry == [start |-> pos, size |-> s]
  <2>2. /\ IsSeq(frags') /\ Len(frags') = Len(frags) + 1 /\ Len(frags) \in Nat
        /\ frags'[Len(frags) + 1] = entry
        /\ \A i \in 1 .. Len(frags) : frags'[i] = frags[i]
    BY <2>1, AppendFacts, SeqFacts DEF BlocksOK
  <2>3. \A b \in out' : b.stored \in 1 .. Len(b.bytes) /\ Len(b.bytes) <= BlockSize
    BY <2>1 DEF BlocksOK
  <2>4. ASSUME NEW i \in 1 .. Len(frags')
        PROVE  StoredAt(frags[i].start, frags[i].size)' # {}
    <3>1. CASE i = Len(frags) + 1
      <4>1. [at |-> pos, stored |-> s, bytes |-> buf] \in out'
        BY <2>1
      <4>2. frags'[i].start = pos /\ frags'[i].size = s
        BY <2>2, <3>1
      <4> QED BY <4>1, <4>2 DEF StoredAt
    <3>2. CASE i \in 1 .. Len(frags)
      BY <2>1, <2>2, <3>2 DEF BlocksOK, StoredAt
    <3> QED BY <2>2, <3>1, <3>2
  <2> QED BY <2>2, <2>3, <2>4 DEF BlocksOK
<1> QED BY <1>1, <1>2

LEMMA AddFragmentKeepsBlocks ==
  ASSUME TreeOK, DataOK, BlocksOK, AddFragment
  PROVE  BlocksOK'
<1> DEFINE full == buf # <<>> /\ Len(buf) + Len(Current) > BlockSize
<1>1. /\ IsSeq(Current) /\ Len(Current) \in 1 .. BlockSize - 1 /\ BlockSize \in Nat \ {0}
      /\ IsSeq(buf) /\ Len(buf) \in Nat /\ Len(buf) <= BlockSize
  BY CurrentIs, SizesAssumption, SeqFacts DEF AddFragment, BlocksOK
<1>2. FlushFragments \/ UNCHANGED <<out, frags>>
  BY DEF AddFragment
<1>3. buf' = (IF full THEN <<>> ELSE buf) \o Current
  BY DEF AddFragment
<1>4. IsSeq(buf') /\ Len(buf') <= BlockSize
  <2> DEFINE old == IF full THEN <<>> ELSE buf
  <2>1. IsSeq(old) /\ Len(old) \in Nat /\ Len(old) + Len(Current) <= BlockSize
    <3>1. CASE full
      BY <1>1, <3>1, EmptyFacts
    <3>2. CASE ~full
      <4>1. CASE buf = <<>>
        BY <1>1, <3>2, <4>1, EmptyFacts
      <4>2. CASE buf # <<>>
        BY <1>1, <3>2, <4>2
      <4> QED BY <4>1, <4>2
    <3> QED BY <3>1, <3>2
  <2> DEFINE S == ToSet(old) \cup ToSet(Current)
  <2>2. old \in Seq(S) /\ Current \in Seq(S)
    BY <1>1, <2>1, SeqMonotonic DEF IsSeq
  <2> HIDE DEF old, S
  <2>3. old \o Current \in Seq(S) /\ Len(old \o Current) = Len(old) + Len(Current)
    BY <2>2, ConcatProperties
  <2>4. buf' = old \o Current
    BY <1>3 DEF old
  <2> QED BY <2>1, <2>3, <2>4, WidenSeq
<1> QED BY <1>2, <1>4, FlushKeepsBlocks

LEMMA BlocksNext ==
  ASSUME TreeOK, DataOK, BlocksOK, [Next]_vars
  PROVE  BlocksOK'
<1>1. BlockSize \in Nat
  BY SizesAssumption
<1>2. CASE UNCHANGED <<out, buf, frags>>
  BY <1>2, FlushKeepsBlocks DEF BlocksOK
<1>3. CASE WriteBlocks
  BY <1>3, WriteBlocksKeepsBlocks
<1>4. CASE AddFragment
  BY <1>4, AddFragmentKeepsBlocks
<1>5. CASE WritingEnds
  <2>1. buf' = <<>> /\ (FlushFragments \/ UNCHANGED <<out, frags>>)
    BY <1>5 DEF WritingEnds
  <2> QED BY <1>1, <2>1, EmptyFacts, FlushKeepsBlocks
<1>6. CASE ~WriteBlocks /\ ~AddFragment /\ ~WritingEnds
  <2>1. UNCHANGED <<out, buf, frags>>
    BY <1>6
    DEF Next, vars, Scan, ScanEnds, Number, NumberingEnds, Collect, CollectingEnds, WriteEmpty,
        WriteFile, WriteSymlink, EnterDir, LeaveDir, Returned, dataVars
  <2> QED BY <1>2, <2>1, SMTT(60)
<1> QED BY <1>3, <1>4, <1>5, <1>6

-----------------------------------------------------------------------------
(* The tables.                                                             *)

LEMMA TableNumbers ==
  ASSUME TreeOK, NumbersOK, phase \notin {"scan", "number"}
  PROVE  /\ Total \in Nat
         /\ \A k \in 1 .. Len(tree) : numbers[k] \in 1 .. Total
         /\ \A j, k \in 1 .. Len(tree) : numbers[j] = numbers[k] => j = k \/ SameFile(j, k)
         /\ \A n \in 1 .. Total : \E k \in 1 .. Len(tree) : numbers[k] = n
         /\ \A k \in 1 .. Len(tree) : Linked(k) =>
              hlNum[tree[k].host] = numbers[k] /\ tree[k].host \in Links
<1>1. Numbered = 1 .. Len(tree) /\ next = Total + 1 /\ numbers[1] = Total
  BY DEF Numbered, NumbersOK
<1>2. Total \in Nat /\ next - 1 = Total
  <2>1. 1 \in 1 .. Len(tree)
    BY TreeTypes
  <2>2. numbers[1] \in 1 .. next - 1
    BY <1>1, <2>1 DEF NumbersOK
  <2> QED BY <1>1, <2>2
<1>3. \A k \in 1 .. Len(tree) : Linked(k) => tree[k].host \in Links
  BY TreeTypes DEF Linked, Node
<1> QED BY <1>1, <1>2, <1>3 DEF NumbersOK

LEMMA RefFacts ==
  ASSUME NEW j \in Nat \ {0}
  PROVE  /\ RefOf(j) # NoRef
         /\ RefOf(j)[1] * InodesPerBlock + RefOf(j)[2] + 1 = j
         /\ RefOf(j) = <<RefOf(j)[1], RefOf(j)[2]>>
<1>1. InodesPerBlock \in Nat \ {0} /\ j - 1 \in Nat
  BY SizesAssumption
<1> DEFINE q == (j - 1) \div InodesPerBlock
           r == (j - 1) % InodesPerBlock
<1>2. q \in Nat /\ r \in Nat /\ j - 1 = InodesPerBlock * q + r
  BY <1>1, DivFacts
<1>3. RefOf(j) = <<q, r>>
  BY DEF RefOf
<1> HIDE DEF q, r
<1>4. q * InodesPerBlock = InodesPerBlock * q
  BY <1>1, <1>2
<1>5. RefOf(j)[1] * InodesPerBlock + RefOf(j)[2] + 1 = j
  <2>1. InodesPerBlock * q \in Nat
    BY <1>1, <1>2
  <2> QED BY <1>2, <1>3, <1>4, <2>1
<1>6. <<q, r>> # <<>>
  BY EmptyFacts
<1> QED BY <1>3, <1>5, <1>6 DEF NoRef

LEMMA RefsDiffer ==
  ASSUME NEW i \in Nat \ {0}, NEW j \in Nat \ {0}, RefOf(i) = RefOf(j)
  PROVE  i = j
BY RefFacts

LEMMA InodeAtRef ==
  ASSUME NEW j \in Nat \ {0}
  PROVE  InodeAt(RefOf(j)) = inodes[j]
BY RefFacts DEF InodeAt

(* The node that write_tables_dfs is at, and the numbers' use so far.      *)
AtNode ==
  /\ TreeOK /\ NumbersOK /\ DataOK /\ TablesOK /\ phase = "tables"

LEMMA TableTypes ==
  ASSUME AtNode
  PROVE  /\ Len(tree) \in Nat \ {0} /\ at \in 2 .. Len(tree) + 1
         /\ IsSeq(stack) /\ Len(stack) \in Nat \ {0} /\ Top = stack[Len(stack)]
         /\ Top.dir \in 1 .. at - 1 /\ IsDir(Top.dir)
         /\ IsSeq(inodes) /\ Len(inodes) \in Nat /\ NextRef = RefOf(Len(inodes) + 1)
         /\ IsSeq(export) /\ Total \in Nat
         /\ Finished \subseteq 1 .. at - 1 /\ 1 .. at - 1 \subseteq 1 .. Len(tree)
         /\ StackOK /\ InodesOK /\ LinksOK /\ KidsOK /\ DirsOK
<1>1. Len(tree) \in Nat \ {0} /\ at \in 2 .. Len(tree) + 1
  BY DataTypes DEF AtNode, DataOK
<1>2. StackOK /\ InodesOK /\ LinksOK /\ KidsOK /\ DirsOK
  BY DEF AtNode, TablesOK, InTables
<1>3. IsSeq(stack) /\ Len(stack) \in Nat \ {0}
  BY <1>2, SeqFacts DEF StackOK, AtNode
<1>4. Len(stack) \in 1 .. Len(stack)
  BY <1>3
<1>5. Top.dir \in 1 .. at - 1 /\ IsDir(Top.dir)
  BY <1>2, <1>4 DEF StackOK, Top
<1>6. IsSeq(inodes) /\ Len(inodes) \in Nat /\ IsSeq(export) /\ Total \in Nat
  BY <1>2, SeqFacts DEF InodesOK, Total
<1>7. NextRef = RefOf(Len(inodes) + 1)
  <2>1. (Len(inodes) + 1) - 1 = Len(inodes)
    BY <1>6
  <2> QED BY <2>1 DEF NextRef, RefOf
<1>8. 1 .. at - 1 \subseteq 1 .. Len(tree)
  BY <1>1
<1> QED BY <1>1, <1>2, <1>3, <1>5, <1>6, <1>7, <1>8 DEF Top, Finished

(* A node whose number has no inode yet: no other name of it was finished. *)
LEMMA NewNumber ==
  ASSUME AtNode, NEW n \in 1 .. Len(tree), n \notin Finished,
         Linked(n) => hlRef[tree[n].host] = NoRef
  PROVE  /\ numbers[n] \in 1 .. Total /\ export[numbers[n]] = NoRef
         /\ \A k \in Finished : numbers[k] # numbers[n]
<1>1. numbers[n] \in 1 .. Total
  BY TableNumbers DEF AtNode
<1>2. ASSUME NEW k \in Finished, numbers[k] = numbers[n] PROVE FALSE
  <2>1. k \in 1 .. Len(tree)
    BY TableTypes
  <2>2. SameFile(k, n)
    BY <1>2, <2>1, TableNumbers DEF AtNode
  <2>3. hlRef[tree[k].host] = export[numbers[k]] /\ export[numbers[k]] # NoRef
    BY <2>2, TableTypes DEF LinksOK, SameFile
  <2> QED BY <2>2, <2>3 DEF SameFile
<1>3. export[numbers[n]] = NoRef
  BY <1>1, <1>2, TableTypes DEF InodesOK
<1> QED BY <1>1, <1>2, <1>3

(* The inode of a node is added, the node is finished.                     *)
LEMMA AddInodeKeeps ==
  ASSUME AtNode, NEW n \in 1 .. Len(tree), n \notin Finished, NEW inode,
         AddInode(inode), inode.number = numbers[n],
         inode.kind = "dir" => inode.dir \in 1 .. Len(dirs'),
         Linked(n) => hlRef[tree[n].host] = NoRef,
         hlRef' = IF Linked(n) THEN [hlRef EXCEPT ![tree[n].host] = NextRef] ELSE hlRef,
         Finished' = Finished \cup {n}, UNCHANGED <<tree, numbers>>,
         Len(dirs) \in Nat, Len(dirs') \in Nat, Len(dirs) <= Len(dirs')
  PROVE  /\ InodesOK' /\ LinksOK' /\ Total' = Total
         /\ export'[numbers[n]] = NextRef
         /\ \A k \in Finished : export'[numbers[k]] = export[numbers[k]]
<1> DEFINE l == Len(inodes)
           m == numbers[n]
<1>1. /\ m \in 1 .. Total /\ export[m] = NoRef
      /\ \A k \in Finished : numbers[k] # m
  BY NewNumber
<1>2. /\ l \in Nat /\ IsSeq(inodes) /\ IsSeq(export) /\ NextRef = RefOf(l + 1)
      /\ InodesOK /\ LinksOK /\ Finished \subseteq 1 .. Len(tree)
  BY TableTypes
<1>3. /\ IsSeq(inodes') /\ Len(inodes') = l + 1 /\ inodes'[l + 1] = inode
      /\ \A j \in 1 .. l : inodes'[j] = inodes[j]
  BY <1>2, AppendFacts DEF AddInode
<1>4. /\ IsSeq(export') /\ Total' = Total /\ export'[m] = NextRef
      /\ \A i \in 1 .. Total : i # m => export'[i] = export[i]
  <2>1. export' = [export EXCEPT ![m] = NextRef]
    BY DEF AddInode
  <2> HIDE DEF m
  <2>2. m \in 1 .. Len(export)
    BY <1>1 DEF Total
  <2> DEFINE ref == NextRef
             new == [export EXCEPT ![m] = ref]
  <2> HIDE DEF ref
  <2>3. /\ IsSeq(new) /\ Len(new) = Len(export) /\ new[m] = ref
        /\ \A i \in 1 .. Len(export) : i # m => new[i] = export[i]
    BY <1>2, <2>2, ExceptFacts, SMTT(60)
  <2>4. export' = new
    BY <2>1 DEF ref
  <2> HIDE DEF new
  <2> QED BY <2>3, <2>4 DEF Total, ref
<1>5. NextRef # NoRef
  BY <1>2, RefFacts
<1>6. \A k \in Finished : numbers[k] \in 1 .. Total
  BY <1>2, TableNumbers DEF AtNode
<1>7. \A k \in Finished : export'[numbers[k]] = export[numbers[k]]
  BY <1>1, <1>4, <1>6
<1> HIDE DEF m, l
<1>8. ASSUME NEW j \in 1 .. l + 1
      PROVE  /\ inodes'[j].number \in 1 .. Total /\ export'[inodes'[j].number] = RefOf(j)
             /\ inodes'[j].kind = "dir" => inodes'[j].dir \in 1 .. Len(dirs')
  <2>1. CASE j = l + 1
    BY <1>1, <1>2, <1>3, <1>4, <2>1 DEF m
  <2>2. CASE j # l + 1
    <3>1. j \in 1 .. l /\ j \in Nat \ {0}
      BY <1>2, <2>2
    <3>2. inodes[j].number \in 1 .. Total /\ export[inodes[j].number] = RefOf(j)
      BY <1>2, <3>1 DEF InodesOK, l
    <3>3. inodes[j].number # m
      BY <1>1, <3>1, <3>2, RefFacts
    <3>4. inodes[j].kind = "dir" => inodes[j].dir \in 1 .. Len(dirs')
      BY <1>2, <3>1 DEF InodesOK, l
    <3> QED BY <1>3, <1>4, <3>1, <3>2, <3>3, <3>4
  <2> QED BY <2>1, <2>2
<1>9. ASSUME NEW i \in 1 .. Total, export'[i] # NoRef
      PROVE  /\ \E j \in 1 .. l + 1 : export'[i] = RefOf(j) /\ inodes'[j].number = i
             /\ \E k \in Finished' : numbers[k] = i
  <2>1. CASE i = m
    BY <1>2, <1>3, <1>4, <2>1, SMTT(60) DEF m
  <2>2. CASE i # m
    <3>1. export[i] = export'[i]
      BY <1>4, <2>2
    <3>2. PICK j \in 1 .. l : export[i] = RefOf(j) /\ inodes[j].number = i
      BY <1>2, <1>9, <3>1 DEF InodesOK, l
    <3>3. j \in 1 .. l + 1 /\ inodes'[j].number = i
      BY <1>2, <1>3, <3>2
    <3>4. \E k \in Finished : numbers[k] = i
      BY <1>2, <1>9, <3>1 DEF InodesOK
    <3> QED BY <3>1, <3>2, <3>3, <3>4
  <2> QED BY <2>1, <2>2
<1>10. InodesOK'
  BY <1>3, <1>4, <1>8, <1>9 DEF InodesOK
<1>11. \A k : Linked(k)' = Linked(k)
  BY DEF Linked, IsFile
<1>12. \A k \in 1 .. Len(tree) : Linked(k) => tree[k].host \in Links
  BY TableNumbers DEF AtNode
<1>13. \A k \in Finished' : export'[numbers[k]] # NoRef
  BY <1>2, <1>4, <1>5, <1>7 DEF LinksOK, m
<1>14. DOMAIN hlRef' = Links
  BY <1>2 DEF LinksOK
<1>15. ASSUME NEW k \in Finished', Linked(k) PROVE hlRef'[tree[k].host] = export'[numbers[k]]
  <2>1. CASE k = n
    BY <1>2, <1>4, <1>12, <1>15, <2>1 DEF LinksOK, m
  <2>2. CASE k # n
    <3>1. k \in Finished /\ hlRef[tree[k].host] = export[numbers[k]] /\ export[numbers[k]] # NoRef
      BY <1>2, <1>15, <2>2 DEF LinksOK
    <3>2. Linked(n) => tree[n].host # tree[k].host
      BY <3>1
    <3> QED BY <1>2, <1>7, <1>12, <1>15, <3>1, <3>2 DEF LinksOK
  <2> QED BY <2>1, <2>2
<1>16. ASSUME NEW h \in Links, hlRef'[h] # NoRef
       PROVE  \E k \in Finished' : Linked(k) /\ tree[k].host = h
  <2>1. CASE Linked(n) /\ h = tree[n].host
    BY <2>1
  <2>2. CASE ~(Linked(n) /\ h = tree[n].host)
    <3>1. hlRef'[h] = hlRef[h]
      BY <1>2, <2>2 DEF LinksOK
    <3> QED BY <1>2, <1>16, <3>1 DEF LinksOK
  <2> QED BY <2>1, <2>2
<1>17. LinksOK'
  BY <1>11, <1>13, <1>14, <1>15, <1>16 DEF LinksOK
<1> QED BY <1>4, <1>7, <1>10, <1>17 DEF m

(* What was finished keeps its reference.                                  *)
Growing ==
  /\ Finished \subseteq Finished'
  /\ \A k \in Finished : export'[numbers'[k]] = export[numbers[k]]

LEMMA ReferStays ==
  ASSUME NEW name, NEW ref, Refers(name, ref), Growing
  PROVE  name \in Finished' /\ ref = export'[numbers'[name]]
BY SMTT(60) DEF Refers, Growing

(* The lists of children stay, get one more, or begin empty.               *)
LEMMA KidsStay ==
  ASSUME KidsOK, Growing,
         \A i \in 1 .. Len(stack') :
           \/ stack'[i].kids = <<>>
           \/ i \in 1 .. Len(stack) /\ stack'[i].kids = stack[i].kids
           \/ /\ i \in 1 .. Len(stack)
              /\ \E kid : /\ stack'[i].kids = Append(stack[i].kids, kid)
                          /\ kid.name \in Finished' /\ kid.ref = export'[numbers'[kid.name]]
  PROVE  KidsOK'
<1> SUFFICES ASSUME NEW i \in 1 .. Len(stack')
             PROVE  /\ IsSeq(stack'[i].kids)
                    /\ \A e \in 1 .. Len(stack'[i].kids) :
                         /\ stack'[i].kids[e].name \in Finished'
                         /\ stack'[i].kids[e].ref = export'[numbers'[stack'[i].kids[e].name]]
  BY DEF KidsOK, Refers
<1>1. CASE stack'[i].kids = <<>>
  BY <1>1, EmptyFacts
<1> DEFINE old == stack[i].kids
<1>2. i \in 1 .. Len(stack) =>
        /\ IsSeq(old) /\ Len(old) \in Nat
        /\ \A e \in 1 .. Len(old) :
             old[e].name \in Finished' /\ old[e].ref = export'[numbers'[old[e].name]]
  BY ReferStays, SeqFacts DEF KidsOK
<1> HIDE DEF old
<1>3. CASE i \in 1 .. Len(stack) /\ stack'[i].kids = old
  BY <1>2, <1>3
<1>4. ASSUME i \in 1 .. Len(stack), NEW kid, stack'[i].kids = Append(old, kid),
             kid.name \in Finished', kid.ref = export'[numbers'[kid.name]]
      PROVE  /\ IsSeq(stack'[i].kids)
             /\ \A e \in 1 .. Len(stack'[i].kids) :
                  /\ stack'[i].kids[e].name \in Finished'
                  /\ stack'[i].kids[e].ref = export'[numbers'[stack'[i].kids[e].name]]
  <2> DEFINE new == Append(old, kid)
  <2>1. /\ IsSeq(new) /\ Len(new) = Len(old) + 1 /\ new[Len(old) + 1] = kid
        /\ \A e \in 1 .. Len(old) : new[e] = old[e]
    BY <1>2, <1>4, AppendFacts
  <2> HIDE DEF new
  <2>2. \A e \in 1 .. Len(new) : e \in 1 .. Len(old) \/ e = Len(old) + 1
    BY <1>2, <1>4, <2>1
  <2>3. \A e \in 1 .. Len(new) :
          new[e].name \in Finished' /\ new[e].ref = export'[numbers'[new[e].name]]
    BY <1>2, <1>4, <2>1, <2>2, SMTT(30)
  <2>4. stack'[i].kids = new
    BY <1>4 DEF new
  <2> QED BY <2>1, <2>3, <2>4
<1> QED BY <1>1, <1>3, <1>4, SMTT(60) DEF old

(* The directories stay and may get one more.                              *)
LEMMA DirsStay ==
  ASSUME DirsOK, Growing,
         \/ dirs' = dirs
         \/ \E groups : dirs' = Append(dirs, groups) /\ GroupsRefer(groups)
  PROVE  DirsOK'
<1>1. ASSUME NEW groups, GroupsRefer(groups)
      PROVE  /\ IsSeq(groups)
             /\ \A g \in 1 .. Len(groups) :
                  /\ IsSeq(groups[g].entries)
                  /\ \A e \in 1 .. Len(groups[g].entries) :
                       /\ groups[g].entries[e].name \in Finished'
                       /\ <<groups[g].block, groups[g].entries[e].off>>
                            = export'[numbers'[groups[g].entries[e].name]]
  BY <1>1, ReferStays DEF GroupsRefer
<1>2. IsSeq(dirs) /\ Len(dirs) \in Nat /\ \A i \in 1 .. Len(dirs) : GroupsRefer(dirs[i])
  BY SeqFacts DEF DirsOK
<1>3. IsSeq(dirs') /\ \A i \in 1 .. Len(dirs') : GroupsRefer(dirs'[i])
  <2>1. CASE dirs' = dirs
    BY <1>2, <2>1
  <2>2. ASSUME NEW groups, dirs' = Append(dirs, groups), GroupsRefer(groups)
        PROVE  IsSeq(dirs') /\ \A i \in 1 .. Len(dirs') : GroupsRefer(dirs'[i])
    <3>1. /\ IsSeq(dirs') /\ Len(dirs') = Len(dirs) + 1 /\ dirs'[Len(dirs) + 1] = groups
          /\ \A i \in 1 .. Len(dirs) : dirs'[i] = dirs[i]
      BY <1>2, <2>2, AppendFacts
    <3>2. \A i \in 1 .. Len(dirs') : i \in 1 .. Len(dirs) \/ i = Len(dirs) + 1
      BY <1>2, <3>1, SMTT(30)
    <3> QED BY <1>2, <2>2, <3>1, <3>2
  <2> QED BY <2>1, <2>2
<1> SUFFICES ASSUME NEW i \in 1 .. Len(dirs')
             PROVE  LET groups == dirs'[i] IN
                    /\ IsSeq(groups)
                    /\ \A g \in 1 .. Len(groups) :
                         /\ IsSeq(groups[g].entries)
                         /\ \A e \in 1 .. Len(groups[g].entries) :
                              /\ groups[g].entries[e].name \in Finished'
                              /\ <<groups[g].block, groups[g].entries[e].off>>
                                   = export'[numbers'[groups[g].entries[e].name]]
  BY <1>3 DEF DirsOK, GroupsRefer, Refers
<1>4. GroupsRefer(dirs'[i])
  BY <1>3
<1> QED BY <1>1, <1>4, ZenonT(60)

(* One more child in the directory on top of a stack.                      *)
LEMMA WithChildIs ==
  ASSUME NEW s, IsSeq(s), Len(s) \in Nat \ {0}, IsSeq(s[Len(s)].kids),
         s[Len(s)] = [dir |-> s[Len(s)].dir, kids |-> s[Len(s)].kids],
         NEW name, NEW number, NEW ref
  PROVE  LET t   == WithChild(s, name, number, ref)
             old == s[Len(s)].kids
             kid == [name |-> name, number |-> number, ref |-> ref, kind |-> tree[name].kind]
         IN  /\ IsSeq(t) /\ Len(t) = Len(s)
             /\ \A i \in 1 .. Len(s) : i # Len(s) => t[i] = s[i]
             /\ t[Len(s)] = [dir |-> s[Len(s)].dir, kids |-> Append(old, kid)]
<1> DEFINE t   == WithChild(s, name, number, ref)
           n   == Len(s)
           kid == [name |-> name, number |-> number, ref |-> ref, kind |-> tree[name].kind]
           new == [dir |-> s[n].dir, kids |-> Append(s[n].kids, kid)]
<1>1. n \in 1 .. Len(s) /\ DOMAIN s = 1 .. Len(s)
  BY SeqFacts
<1>2. t = [s EXCEPT ![n] = [s[n] EXCEPT !.kids = Append(s[n].kids, kid)]]
  BY <1>1 DEF WithChild
<1>3. [s[n] EXCEPT !.kids = Append(s[n].kids, kid)] = new
  BY <1>1, SMTT(30)
<1>4. t = [s EXCEPT ![n] = new]
  BY <1>2, <1>3
<1> HIDE DEF t, new, kid
<1>5. /\ IsSeq(t) /\ Len(t) = Len(s) /\ t[n] = new
      /\ \A i \in 1 .. Len(s) : i # n => t[i] = s[i]
  BY <1>1, <1>4, ExceptFacts
<1> QED BY <1>5 DEF t, new, kid

(* A child that is no directory is finished.                               *)
LEMMA LeafStack ==
  ASSUME AtNode, AtChild, ~IsDir(at), at' = at + 1, UNCHANGED <<phase, tree>>,
         NEW number, NEW ref, stack' = WithChild(stack, at, number, ref)
  PROVE  /\ at \in 2 .. Len(tree) /\ at \notin Finished /\ Finished' = Finished \cup {at}
         /\ StackOK'
         /\ \A i \in 1 .. Len(stack) - 1 : stack'[i] = stack[i]
         /\ Len(stack') = Len(stack) /\ Len(stack) \in Nat \ {0}
         /\ IsSeq(stack[Len(stack)].kids)
         /\ stack'[Len(stack)].kids =
              Append(stack[Len(stack)].kids,
                     [name |-> at, number |-> number, ref |-> ref, kind |-> tree[at].kind])
<1> DEFINE n == Len(stack)
<1>1. /\ IsSeq(stack) /\ n \in Nat \ {0} /\ StackOK /\ KidsOK /\ Len(tree) \in Nat
      /\ at \in 2 .. Len(tree) /\ Finished \subseteq 1 .. at - 1
  BY TableTypes DEF AtChild
<1>2. n \in 1 .. n
  BY <1>1
<1>3. IsSeq(stack[n].kids) /\ stack[n] = [dir |-> stack[n].dir, kids |-> stack[n].kids]
  BY <1>1, <1>2 DEF KidsOK, StackOK
<1> DEFINE kid == [name |-> at, number |-> number, ref |-> ref, kind |-> tree[at].kind]
<1>4. /\ IsSeq(stack') /\ Len(stack') = n
      /\ \A i \in 1 .. n : i # n => stack'[i] = stack[i]
      /\ stack'[n] = [dir |-> stack[n].dir, kids |-> Append(stack[n].kids, kid)]
  BY <1>1, <1>3, WithChildIs, SMTT(30)
<1> HIDE DEF kid
<1>5. \A i \in 1 .. n : /\ stack'[i].dir = stack[i].dir
                        /\ stack'[i] = [dir |-> stack'[i].dir, kids |-> stack'[i].kids]
  BY <1>1, <1>4 DEF StackOK
<1>6. at \notin Finished
  BY <1>1
<1>7. \A i \in 1 .. n : stack[i].dir \in 1 .. at - 1 /\ IsDir(stack[i].dir)
  BY <1>1 DEF StackOK
<1>8. Finished' = Finished \cup {at}
  <2>1. Finished' = {k \in 1 .. at : \A i \in 1 .. n : stack[i].dir # k}
    <3>1. at' - 1 = at /\ Len(stack') = n
      BY <1>1, <1>4
    <3>2. Finished' = {k \in 1 .. at : \A i \in 1 .. n : stack'[i].dir # k}
      BY <3>1 DEF Finished
    <3> HIDE DEF n
    <3> QED BY <1>5, <3>2
  <2>2. \A i \in 1 .. n : stack[i].dir # at
    BY <1>1, <1>7
  <2>3. 1 .. at = (1 .. at - 1) \cup {at}
    BY <1>1
  <2> QED BY <1>1, <2>1, <2>2, <2>3 DEF Finished
<1>9. StackOK'
  <2>1. phase' = "tables"
    BY DEF AtNode
  <2>2. Len(stack') > 0 /\ stack'[1].dir = 1
    <3>1. 1 \in 1 .. n /\ stack[1].dir = 1
      BY <1>1 DEF StackOK, AtNode
    <3> QED BY <1>1, <1>4, <1>5, <3>1, SMTT(60)
  <2>3. \A i \in 1 .. n : stack'[i].dir \in 1 .. at' - 1 /\ tree[stack'[i].dir].kind = "dir"
    <3>1. at' - 1 = at /\ at \in Nat
      BY <1>1
    <3>2. \A i \in 1 .. n : stack[i].dir \in 1 .. at
      BY <1>1, <1>7
    <3> QED BY <1>5, <1>7, <3>1, <3>2 DEF IsDir
  <2>4. \A i \in 1 .. n : \A j \in 1 .. i - 1 : stack'[j].dir < stack'[i].dir
    <3>1. \A i \in 1 .. n : \A j \in 1 .. i - 1 : j \in 1 .. n
      BY <1>1
    <3> QED BY <1>1, <1>5, <3>1 DEF StackOK
  <2>5. ASSUME NEW k \in at + 1 .. Len(tree)
        PROVE  tree[k].parent >= at + 1 \/ \E i \in 1 .. n : stack'[i].dir = tree[k].parent
    <3>1. tree[k].parent >= at \/ \E i \in 1 .. n : stack[i].dir = tree[k].parent
      BY <1>1 DEF StackOK
    <3>2. tree[k].parent \in 1 .. k - 1 /\ IsDir(tree[k].parent)
      BY <1>1 DEF AtNode, TreeOK
    <3>3. tree[k].parent # at /\ tree[k].parent \in Nat /\ at \in Nat
      BY <1>1, <3>2
    <3>4. tree[k].parent >= at => tree[k].parent >= at + 1
      BY <3>3
    <3> QED BY <1>5, <3>1, <3>4
  <2> QED BY <1>4, <1>5, <2>1, <2>2, <2>3, <2>4, <2>5, ZenonT(60) DEF StackOK, IsDir
<1> QED BY <1>1, <1>3, <1>4, <1>6, <1>8, <1>9, SMTT(60) DEF kid


(* A directory is entered; it is finished later.                           *)
LEMMA EnterStack ==
  ASSUME AtNode, EnterDir
  PROVE  /\ at \in 2 .. Len(tree) /\ Finished' = Finished /\ StackOK'
         /\ \A i \in 1 .. Len(stack') :
              \/ stack'[i].kids = <<>>
              \/ i \in 1 .. Len(stack) /\ stack'[i].kids = stack[i].kids
<1> DEFINE n   == Len(stack)
           new == [dir |-> at, kids |-> <<>>]
<1>1. /\ IsSeq(stack) /\ n \in Nat \ {0} /\ StackOK /\ Len(tree) \in Nat
      /\ at \in 2 .. Len(tree) /\ Finished \subseteq 1 .. at - 1
      /\ at' = at + 1 /\ UNCHANGED <<phase, tree>> /\ IsDir(at)
  BY TableTypes DEF AtChild, EnterDir, scanVars
<1>2. /\ IsSeq(stack') /\ Len(stack') = n + 1 /\ stack'[n + 1] = new
      /\ \A i \in 1 .. n : stack'[i] = stack[i]
  BY <1>1, AppendFacts DEF EnterDir
<1>3. /\ new.dir = at /\ new.kids = <<>> /\ new = [dir |-> new.dir, kids |-> new.kids]
  OBVIOUS
<1> HIDE DEF new
<1>4. \A i \in 1 .. n + 1 : i \in 1 .. n \/ i = n + 1
  BY <1>1
<1>5. \A i \in 1 .. n : /\ stack[i].dir \in 1 .. at - 1 /\ IsDir(stack[i].dir)
                        /\ stack[i] = [dir |-> stack[i].dir, kids |-> stack[i].kids]
  BY <1>1 DEF StackOK
<1>8. at \in Nat
  BY <1>1
<1>6. Finished' = Finished
  <2>1. at' - 1 = at /\ Len(stack') = n + 1
    BY <1>1, <1>2
  <2>2. Finished' = {k \in 1 .. at : \A i \in 1 .. n + 1 : stack'[i].dir # k}
    BY <2>1 DEF Finished
  <2>3. \A k \in 1 .. at : k = at \/ k \in 1 .. at - 1
    BY <1>1
  <2>4. \A k \in 1 .. at - 1 : k \in 1 .. at /\ k # at
    BY <1>1
  <2>5. n + 1 \in 1 .. n + 1 /\ \A i \in 1 .. n : i \in 1 .. n + 1
    BY <1>1
  <2>6. at \notin Finished'
    BY <1>2, <1>3, <2>2, <2>5
  <2>7. ASSUME NEW k \in Finished' PROVE k \in Finished
    <3>1. k \in 1 .. at - 1
      BY <2>2, <2>3, <2>6, <2>7
    <3>2. \A i \in 1 .. n : stack[i].dir # k
      BY <1>2, <2>2, <2>5, <2>7
    <3> QED BY <3>1, <3>2 DEF Finished
  <2>8. ASSUME NEW k \in Finished PROVE k \in Finished'
    <3>1. k \in 1 .. at /\ k # at /\ \A i \in 1 .. n : stack[i].dir # k
      BY <2>4 DEF Finished
    <3>2. \A i \in 1 .. n + 1 : stack'[i].dir # k
      BY <1>2, <1>3, <1>4, <3>1
    <3> QED BY <2>2, <3>1, <3>2
  <2> QED BY <2>7, <2>8
<1>7. StackOK'
  <2>1. phase' = "tables"
    BY <1>1 DEF AtNode
  <2>2. Len(stack') > 0 /\ stack'[1].dir = 1
    <3>1. 1 \in 1 .. n /\ stack[1].dir = 1
      BY <1>1 DEF StackOK, AtNode
    <3> QED BY <1>1, <1>2, <3>1
  <2>3. ASSUME NEW i \in 1 .. n + 1
        PROVE  /\ stack'[i] = [dir |-> stack'[i].dir, kids |-> stack'[i].kids]
               /\ stack'[i].dir \in 1 .. at /\ tree'[stack'[i].dir].kind = "dir"
    <3>1. CASE i \in 1 .. n
      <4>0. stack[i].dir \in 1 .. at - 1
        BY <1>5, <3>1
      <4>1. stack[i].dir \in 1 .. at
        BY <1>8, <4>0
      <4>2. tree[stack[i].dir].kind = "dir"
        BY <1>5, <3>1 DEF IsDir
      <4> QED BY <1>1, <1>2, <1>5, <3>1, <4>1, <4>2
    <3>2. CASE i = n + 1
      BY <1>1, <1>2, <1>3, <3>2 DEF IsDir
    <3> QED BY <1>4, <3>1, <3>2
  <2>4. ASSUME NEW i \in 1 .. n + 1, NEW j \in 1 .. i - 1 PROVE stack'[j].dir < stack'[i].dir
    <3>1. j \in 1 .. n
      BY <1>1
    <3>2. CASE i \in 1 .. n
      BY <1>1, <1>2, <3>1, <3>2 DEF StackOK
    <3>3. CASE i = n + 1
      <4>0. stack[j].dir \in 1 .. at - 1
        BY <1>5, <3>1
      <4>1. stack[j].dir < at
        BY <1>8, <4>0
      <4> QED BY <1>2, <1>3, <3>1, <3>3, <4>1
    <3> QED BY <1>4, <3>2, <3>3
  <2>5. ASSUME NEW k \in at + 1 .. Len(tree)
        PROVE  tree[k].parent >= at + 1 \/ \E i \in 1 .. n + 1 : stack'[i].dir = tree[k].parent
    <3>1. tree[k].parent >= at \/ \E i \in 1 .. n : stack[i].dir = tree[k].parent
      BY <1>1 DEF StackOK
    <3>2. tree[k].parent \in Nat /\ at \in Nat
      BY <1>1 DEF AtNode, TreeOK
    <3>3. CASE tree[k].parent = at
      BY <1>1, <1>2, <1>3, <3>3
    <3>4. CASE tree[k].parent # at /\ tree[k].parent >= at
      BY <3>2, <3>4
    <3>5. CASE \E i \in 1 .. n : stack[i].dir = tree[k].parent
      <4>1. PICK i \in 1 .. n : stack[i].dir = tree[k].parent
        BY <3>5
      <4>2. i \in 1 .. n + 1
        BY <1>1
      <4> QED BY <1>2, <4>1, <4>2
    <3> QED BY <3>1, <3>3, <3>4, <3>5
  <2>6. at' - 1 = at
    BY <1>1
  <2> QED BY <1>1, <1>2, <2>1, <2>2, <2>3, <2>4, <2>5, <2>6 DEF StackOK, IsDir
<1> QED BY <1>1, <1>2, <1>3, <1>4, <1>6, <1>7

(* A further name of a linked file shares what the first has.              *)
LEMMA SharedInode ==
  ASSUME AtNode, NEW n \in 1 .. Len(tree), Linked(n), hlRef[tree[n].host] # NoRef,
         UNCHANGED <<tree, numbers, inodes, export, hlRef, dirs>>, Finished' = Finished \cup {n}
  PROVE  InodesOK' /\ LinksOK' /\ Growing /\ hlRef[tree[n].host] = export[numbers[n]]
<1>1. InodesOK /\ LinksOK /\ Finished \subseteq 1 .. Len(tree) /\ tree[n].host \in Links
  BY TableTypes, TableNumbers DEF AtNode
<1>2. PICK k \in Finished : Linked(k) /\ tree[k].host = tree[n].host
  BY <1>1 DEF LinksOK
<1>3. numbers[k] = numbers[n]
  BY <1>1, <1>2, TableNumbers DEF AtNode
<1>4. hlRef[tree[n].host] = export[numbers[n]] /\ export[numbers[n]] # NoRef
  BY <1>1, <1>2, <1>3 DEF LinksOK
<1>5. Total' = Total /\ \A j : Linked(j)' = Linked(j)
  BY DEF Total, Linked, IsFile
<1>6. InodesOK'
  BY <1>1, <1>5 DEF InodesOK
<1>7. LinksOK'
  BY <1>1, <1>4, <1>5 DEF LinksOK
<1> QED BY <1>4, <1>6, <1>7 DEF Growing

(* The inode of a node that is no directory.                               *)
LeafInode(n, inode) ==
  LET k == IF Linked(n) THEN hlFirst[tree[n].host] ELSE n IN
  /\ inode.number = numbers[n] /\ inode.kind = tree[n].kind
  /\ IsFile(n) => k \in DOMAIN fileData /\ inode = FileInode(n, fileData[k])

(* Such a node's inode is written, or that of another name is there.       *)
LEMMA LeafInodes ==
  ASSUME AtNode, WriteFile \/ WriteSymlink
  PROVE  /\ at \in 2 .. Len(tree) /\ at' = at + 1 /\ AtChild /\ ~IsDir(at)
         /\ UNCHANGED <<phase, tree, next, numbers, hlNum, collVars, dataVars, dirs>>
         /\ \/ /\ Linked(at) /\ hlRef[tree[at].host] # NoRef
               /\ stack' = WithChild(stack, at, numbers[at], hlRef[tree[at].host])
               /\ UNCHANGED <<inodes, export, hlRef>>
            \/ /\ Linked(at) => hlRef[tree[at].host] = NoRef
               /\ \E inode : LeafInode(at, inode) /\ AddInode(inode)
               /\ stack' = WithChild(stack, at, numbers[at], NextRef)
               /\ hlRef' = IF Linked(at) THEN [hlRef EXCEPT ![tree[at].host] = NextRef]
                           ELSE hlRef
<1>1. /\ AtChild /\ ~IsDir(at) /\ at' = at + 1 /\ UNCHANGED <<tree, numbers, dirs>>
      /\ UNCHANGED <<next, hlNum, collVars, dataVars>>
  BY DEF WriteFile, WriteSymlink, IsFile, IsDir, scanVars, numVars
<1>2. at \in 2 .. Len(tree) /\ at \in 1 .. Len(tree)
  BY <1>1, TableTypes, SMTT(30) DEF AtChild
<1> DEFINE shared == Linked(at) /\ hlRef[tree[at].host] # NoRef
           k == IF Linked(at) THEN hlFirst[tree[at].host] ELSE at
<1>3. phase = "tables" /\ TreeOK /\ DataOK
  BY DEF AtNode
<1>4. IsFile(at) => k \in DOMAIN fileData
  BY <1>2, <1>3, DataIsThere
<1>5. Linked(at) => hlNum[tree[at].host] = numbers[at]
  BY <1>2, TableNumbers DEF AtNode
<1>6. CASE shared
  <2>1. /\ phase' = phase /\ UNCHANGED <<inodes, export, hlRef>>
        /\ stack' = WithChild(stack, at, hlNum[tree[at].host], hlRef[tree[at].host])
    BY <1>6 DEF WriteFile, WriteSymlink, Linked, IsFile
  <2> QED BY <1>1, <1>2, <1>5, <1>6, <2>1
<1>7. CASE ~shared
  <2>1. /\ phase' = phase
        /\ \E inode : LeafInode(at, inode) /\ AddInode(inode)
        /\ stack' = WithChild(stack, at, numbers[at], NextRef)
        /\ hlRef' = IF Linked(at) THEN [hlRef EXCEPT ![tree[at].host] = NextRef] ELSE hlRef
    <3>1. CASE WriteFile
      <4>1. IsFile(at)
        BY <3>1 DEF WriteFile
      <4>2. /\ AddInode(FileInode(at, fileData[k]))
            /\ stack' = WithChild(stack, at, numbers[at], NextRef)
            /\ hlRef' = IF Linked(at) THEN [hlRef EXCEPT ![tree[at].host] = NextRef] ELSE hlRef
            /\ UNCHANGED phase
        BY <1>4, <1>7, <3>1, <4>1 DEF WriteFile
      <4>3. LeafInode(at, FileInode(at, fileData[k]))
        BY <1>4, <4>1 DEF FileInode, LeafInode, IsFile
      <4> HIDE DEF k
      <4> QED BY <4>2, <4>3
    <3>2. CASE WriteSymlink
      <4>1. /\ AddInode([kind |-> "symlink", number |-> numbers[at]])
            /\ stack' = WithChild(stack, at, numbers[at], NextRef)
            /\ UNCHANGED <<phase, hlRef>> /\ ~Linked(at) /\ tree[at].kind = "symlink"
        BY <3>2 DEF WriteSymlink, Linked, IsFile
      <4> DEFINE inode == [kind |-> "symlink", number |-> numbers[at]]
      <4>2. LeafInode(at, inode) /\ AddInode(inode)
        BY <4>1 DEF LeafInode, IsFile
      <4> HIDE DEF inode
      <4> QED BY <4>1, <4>2
    <3> QED BY <3>1, <3>2
  <2> QED BY <1>1, <1>2, <1>7, <2>1
<1> QED BY <1>6, <1>7

(* What such a step leaves: the node is finished, and an entry of its      *)
(* directory refers to its inode, which is new or another name's.          *)
LEMMA LeafWrites ==
  ASSUME AtNode, WriteFile \/ WriteSymlink
  PROVE  /\ at \in 2 .. Len(tree) /\ at \notin Finished /\ Finished' = Finished \cup {at}
         /\ StackOK' /\ InodesOK' /\ LinksOK' /\ Growing /\ Total' = Total
         /\ stack' = WithChild(stack, at, numbers[at], export'[numbers[at]])
         /\ Len(stack') = Len(stack)
         /\ \A i \in 1 .. Len(stack) - 1 : stack'[i] = stack[i]
         /\ stack'[Len(stack)].kids =
              Append(stack[Len(stack)].kids,
                     [name |-> at, number |-> numbers[at], ref |-> export'[numbers[at]],
                      kind |-> tree[at].kind])
         /\ \/ UNCHANGED inodes /\ \E k \in Finished : SameFile(k, at)
            \/ /\ \A k \in Finished : numbers[k] # numbers[at]
               /\ \E inode : LeafInode(at, inode) /\ inodes' = Append(inodes, inode)
<1>1. /\ at \in 2 .. Len(tree) /\ at' = at + 1 /\ AtChild /\ ~IsDir(at)
      /\ UNCHANGED <<phase, tree, numbers, dirs>> /\ at \in 1 .. Len(tree)
  BY LeafInodes
<1> DEFINE number == numbers[at]
           Parts(ref) ==
             /\ at \notin Finished /\ Finished' = Finished \cup {at} /\ StackOK'
             /\ Len(stack') = Len(stack)
             /\ \A i \in 1 .. Len(stack) - 1 : stack'[i] = stack[i]
             /\ stack'[Len(stack)].kids =
                  Append(stack[Len(stack)].kids,
                         [name |-> at, number |-> number, ref |-> ref, kind |-> tree[at].kind])
<1> HIDE DEF number
<1>2. ASSUME NEW ref, stack' = WithChild(stack, at, number, ref) PROVE Parts(ref)
  BY <1>1, <1>2, LeafStack, SMTT(60)
<1>3. CASE /\ Linked(at) /\ hlRef[tree[at].host] # NoRef
           /\ stack' = WithChild(stack, at, numbers[at], hlRef[tree[at].host])
           /\ UNCHANGED <<inodes, export, hlRef>>
  <2> DEFINE ref == hlRef[tree[at].host]
  <2>1. Parts(ref)
    <3> HIDE DEF ref, Parts
    <3>1. stack' = WithChild(stack, at, number, ref)
      BY <1>3, SMTT(60) DEF ref, number
    <3> QED BY <1>2, <3>1
  <2>2. InodesOK' /\ LinksOK' /\ Growing /\ ref = export[numbers[at]]
    BY <1>1, <1>3, <2>1, SharedInode
  <2>3. \E k \in Finished : SameFile(k, at)
    <3>1. tree[at].host \in Links
      BY <1>1, <1>3, TableNumbers DEF AtNode
    <3> QED BY <1>3, <3>1, TableTypes DEF LinksOK, SameFile
  <2>4. Total' = Total /\ ref = export'[numbers[at]]
    BY <1>3, <2>2 DEF Total
  <2> QED BY <1>1, <1>3, <2>1, <2>2, <2>3, <2>4 DEF number
<1>4. CASE /\ Linked(at) => hlRef[tree[at].host] = NoRef
           /\ \E inode : LeafInode(at, inode) /\ AddInode(inode)
           /\ stack' = WithChild(stack, at, numbers[at], NextRef)
           /\ hlRef' = IF Linked(at) THEN [hlRef EXCEPT ![tree[at].host] = NextRef] ELSE hlRef
  <2> DEFINE ref == NextRef
  <2> HIDE DEF ref
  <2>1. Parts(ref)
    <3> HIDE DEF Parts
    <3>1. stack' = WithChild(stack, at, number, ref)
      BY <1>4 DEF ref, number
    <3> QED BY <1>2, <3>1
  <2>2. PICK inode : LeafInode(at, inode) /\ AddInode(inode)
    BY <1>4
  <2>3. inode.number = numbers[at] /\ inode.kind # "dir" /\ inodes' = Append(inodes, inode)
    BY <1>1, <2>2 DEF LeafInode, IsDir, AddInode
  <2>4. /\ InodesOK' /\ LinksOK' /\ Total' = Total
        /\ export'[numbers[at]] = ref
        /\ \A j \in Finished : export'[numbers[j]] = export[numbers[j]]
    <3>1. Len(dirs) \in Nat /\ Len(dirs') \in Nat /\ Len(dirs) <= Len(dirs')
      BY <1>1, TableTypes, SeqFacts DEF DirsOK
    <3>2. inode.kind = "dir" => inode.dir \in 1 .. Len(dirs')
      BY <2>3
    <3>3. /\ AddInode(inode) /\ inode.number = numbers[at] /\ UNCHANGED <<tree, numbers>>
          /\ hlRef' = IF Linked(at) THEN [hlRef EXCEPT ![tree[at].host] = NextRef] ELSE hlRef
          /\ at \in 1 .. Len(tree) /\ at \notin Finished /\ Finished' = Finished \cup {at}
          /\ Linked(at) => hlRef[tree[at].host] = NoRef
      BY <1>1, <1>4, <2>1, <2>2, <2>3
    <3>4. ref = NextRef
      BY DEF ref
    <3> QED BY <3>1, <3>2, <3>3, <3>4, AddInodeKeeps
  <2>5. Growing
    BY <1>1, <2>1, <2>4 DEF Growing
  <2>6. \A k \in Finished : numbers[k] # numbers[at]
    BY <1>1, <1>4, <2>1, NewNumber
  <2>7. stack' = WithChild(stack, at, numbers[at], export'[numbers[at]])
    BY <1>4, <2>4 DEF ref
  <2> QED BY <1>1, <2>1, <2>2, <2>3, <2>4, <2>5, <2>6, <2>7 DEF number
<1> QED BY <1>3, <1>4, LeafInodes

LEMMA LeafKeeps ==
  ASSUME AtNode, WriteFile \/ WriteSymlink
  PROVE  TablesOK' /\ Total' = Total /\ phase' = "tables" /\ at' \in 2 .. Len(tree) + 1
         /\ UNCHANGED <<tree, next, numbers, hlNum, collVars, dataVars>>
<1>1. /\ at' = at + 1 /\ phase' = "tables"
      /\ UNCHANGED <<tree, next, numbers, hlNum, collVars, dataVars, dirs>>
  BY LeafInodes DEF AtNode
<1> DEFINE kid == [name |-> at, number |-> numbers[at], ref |-> export'[numbers[at]],
                   kind |-> tree[at].kind]
<1>2. kid.name = at /\ kid.ref = export'[numbers[at]]
  OBVIOUS
<1> HIDE DEF kid
<1>3. /\ at \in 2 .. Len(tree) /\ Finished' = Finished \cup {at}
      /\ StackOK' /\ InodesOK' /\ LinksOK' /\ Growing /\ Total' = Total
      /\ Len(stack') = Len(stack) /\ \A i \in 1 .. Len(stack) - 1 : stack'[i] = stack[i]
      /\ stack'[Len(stack)].kids = Append(stack[Len(stack)].kids, kid)
  BY LeafWrites DEF kid
<1>4. kid.name \in Finished' /\ kid.ref = export'[numbers'[kid.name]]
  BY <1>1, <1>2, <1>3
<1>5. ASSUME NEW i \in 1 .. Len(stack')
      PROVE  \/ i \in 1 .. Len(stack) /\ stack'[i].kids = stack[i].kids
             \/ i \in 1 .. Len(stack) /\ stack'[i].kids = Append(stack[i].kids, kid)
  <2>1. i = Len(stack) \/ i \in 1 .. Len(stack) - 1
    BY <1>3, TableTypes
  <2> QED BY <1>3, <2>1
<1>6. KidsOK'
  BY <1>3, <1>4, <1>5, TableTypes, KidsStay
<1>7. DirsOK'
  BY <1>1, <1>3, TableTypes, DirsStay
<1>8. at' \in 2 .. Len(tree) + 1
  BY <1>1, <1>3, TableTypes
<1> QED BY <1>1, <1>3, <1>6, <1>7, <1>8 DEF TablesOK, InTables

LEMMA EnterKeeps ==
  ASSUME AtNode, EnterDir
  PROVE  TablesOK' /\ Total' = Total /\ phase' = "tables" /\ at' \in 2 .. Len(tree) + 1
         /\ Growing
         /\ UNCHANGED <<tree, next, numbers, hlNum, collVars, dataVars>>
<1>1. /\ UNCHANGED <<phase, tree, next, numbers, hlNum, collVars, dataVars, inodes, dirs, hlRef,
                     export>>
      /\ at' = at + 1 /\ phase = "tables"
  BY DEF EnterDir, AtNode, scanVars, numVars
<1>2. at' \in 2 .. Len(tree) + 1
  <2>1. at \in 2 .. Len(tree) /\ Len(tree) \in Nat
    BY EnterStack, TableTypes
  <2> QED BY <1>1, <2>1
<1>3. Finished' = Finished /\ StackOK'
  BY EnterStack
<1>4. Growing
  BY <1>1, <1>3 DEF Growing
<1>5. InodesOK /\ LinksOK /\ KidsOK /\ DirsOK
  BY TableTypes
<1>6. KidsOK'
  BY <1>4, <1>5, EnterStack, KidsStay
<1>7. DirsOK'
  BY <1>1, <1>4, <1>5, DirsStay
<1>8. Total' = Total /\ \A j : Linked(j)' = Linked(j)
  BY <1>1 DEF Total, Linked, IsFile
<1>9. InodesOK' /\ LinksOK'
  BY <1>1, <1>3, <1>5, <1>8 DEF InodesOK, LinksOK
<1> QED BY <1>1, <1>2, <1>3, <1>4, <1>6, <1>7, <1>8, <1>9 DEF TablesOK, InTables

-----------------------------------------------------------------------------
(* Induction over numbers, from their least elements.                      *)

LEMMA LeastElement ==
  ASSUME NEW T, T \subseteq Nat, T # {}
  PROVE  \E m \in T : \A n \in T : m <= n
<1> DEFINE R == OpToRel(<, Nat)
<1>1. IsWellFoundedOn(R, Nat)
  BY NatLessThanWellFounded
<1>2. \A x, y \in Nat : x < y => <<x, y>> \in R
  BY DEF OpToRel
<1> HIDE DEF R
<1>3. PICK x \in T : \A y \in T : ~ (<<y, x>> \in R)
  BY <1>1, WFMin
<1>4. ASSUME NEW y \in T PROVE x <= y
  <2>1. x \in Nat /\ y \in Nat
    OBVIOUS
  <2>2. ~(y < x)
    BY <1>2, <1>3, <2>1, Zenon
  <2> QED BY <2>1, <2>2
<1> QED BY <1>3, <1>4

(* A set of numbers with 0 and every member's successor has all of them.   *)
LEMMA Induction ==
  ASSUME NEW S, 0 \in S, \A n \in Nat : n \in S => n + 1 \in S
  PROVE  Nat \subseteq S
<1> DEFINE T == Nat \ S
<1> SUFFICES ASSUME T # {} PROVE FALSE
  OBVIOUS
<1>1. T \subseteq Nat
  OBVIOUS
<1> HIDE DEF T
<1>2. PICK m \in T : \A n \in T : m <= n
  BY <1>1, LeastElement
<1>3. m \in Nat /\ m # 0 /\ m \notin S
  BY DEF T
<1>4. m - 1 \in Nat /\ m - 1 \notin T /\ (m - 1) + 1 = m
  BY <1>1, <1>2, <1>3
<1>5. m - 1 \in S
  BY <1>4 DEF T
<1> QED BY <1>3, <1>4, <1>5

-----------------------------------------------------------------------------
(* The groups of a directory.                                              *)

(* The groups as build_directory_data makes them, entry by entry.          *)
Builds(kids, f, m) ==
  f[0] = <<>> /\ \A i \in 1 .. m : f[i] = AddEntry(f[i - 1], kids[i])

LEMMA BuildsExist ==
  ASSUME NEW kids
  PROVE  \A m \in Nat : \E f : Builds(kids, f, m)
<1> DEFINE S == {m \in Nat : \E f : Builds(kids, f, m)}
<1>1. 0 \in S
  <2>1. Builds(kids, [i \in {0} |-> <<>>], 0)
    BY DEF Builds
  <2> QED BY <2>1
<1>2. ASSUME NEW m \in Nat, m \in S PROVE m + 1 \in S
  <2>1. PICK f : Builds(kids, f, m)
    BY <1>2
  <2> DEFINE new == AddEntry(f[m], kids[m + 1])
             e   == [i \in 0 .. m + 1 |-> IF i = m + 1 THEN new ELSE f[i]]
  <2>2. e[m + 1] = new /\ \A i \in 0 .. m : e[i] = f[i]
    <3> HIDE DEF new
    <3> QED OBVIOUS
  <2> HIDE DEF e
  <2>3. e[0] = <<>>
    BY <2>1, <2>2 DEF Builds
  <2>4. ASSUME NEW i \in 1 .. m + 1 PROVE e[i] = AddEntry(e[i - 1], kids[i])
    <3>1. CASE i = m + 1
      <4>1. i - 1 = m /\ m \in 0 .. m
        BY <3>1
      <4> QED BY <2>2, <3>1, <4>1
    <3>2. CASE i # m + 1
      <4>1. i \in 1 .. m /\ i \in 0 .. m /\ i - 1 \in 0 .. m
        BY <3>2
      <4> QED BY <2>1, <2>2, <4>1 DEF Builds
    <3> QED BY <3>1, <3>2
  <2>5. Builds(kids, e, m + 1)
    BY <2>3, <2>4 DEF Builds
  <2> QED BY <2>5
<1> HIDE DEF S
<1>3. Nat \subseteq S
  BY <1>1, <1>2, Induction
<1> QED BY <1>3 DEF S

LEMMA GroupsAre ==
  ASSUME NEW kids, NEW n \in Nat, Len(kids) = n
  PROVE  \E f : Builds(kids, f, n) /\ Groups(kids) = f[n]
<1> DEFINE g == CHOOSE g : g = [i \in 0 .. n |->
                                 IF i = 0 THEN <<>> ELSE AddEntry(g[i - 1], kids[i])]
<1>1. Groups(kids) = g[n]
  BY DEF Groups
<1>2. PICK f : Builds(kids, f, n)
  BY BuildsExist
<1> DEFINE h == [i \in 0 .. n |-> f[i]]
<1>3. ASSUME NEW i \in 0 .. n
      PROVE  h[i] = IF i = 0 THEN <<>> ELSE AddEntry(h[i - 1], kids[i])
  <2>1. CASE i = 0
    BY <1>2, <2>1 DEF Builds
  <2>2. CASE i # 0
    <3>1. i \in 1 .. n /\ i - 1 \in 0 .. n
      BY <2>2
    <3> QED BY <1>2, <2>2, <3>1 DEF Builds
  <2> QED BY <2>1, <2>2
<1>4. h = [i \in 0 .. n |-> IF i = 0 THEN <<>> ELSE AddEntry(h[i - 1], kids[i])]
  BY <1>3
<1> HIDE DEF h
<1>5. g = [i \in 0 .. n |-> IF i = 0 THEN <<>> ELSE AddEntry(g[i - 1], kids[i])]
  BY <1>4
<1> HIDE DEF g
<1>6. Builds(kids, g, n)
  <2>1. g[0] = <<>>
    <3>1. 0 \in 0 .. n
      OBVIOUS
    <3> QED BY <1>5, <3>1
  <2>2. ASSUME NEW i \in 1 .. n PROVE g[i] = AddEntry(g[i - 1], kids[i])
    <3>1. i \in 0 .. n /\ i # 0
      OBVIOUS
    <3> QED BY <1>5, <3>1
  <2> QED BY <2>1, <2>2 DEF Builds
<1> QED BY <1>1, <1>6

IsGroup(g) == g = [block |-> g.block, base |-> g.base, entries |-> g.entries]

Grouped(groups) == GroupsRefer(groups) /\ \A g \in 1 .. Len(groups) : IsGroup(groups[g])

(* An entry leads to what the child's reference leads to: it stands under  *)
(* a header of the block.                                                  *)
LEMMA AddEntryRefers ==
  ASSUME NEW groups, Grouped(groups), NEW kid, Refers(kid.name, <<kid.ref[1], kid.ref[2]>>)
  PROVE  Grouped(AddEntry(groups, kid))
<1> DEFINE new   == groups = <<>> \/ ~Fits(groups[Len(groups)], kid)
           group == [block |-> kid.ref[1], base |-> kid.number, entries |-> <<>>]
           gs    == IF new THEN Append(groups, group) ELSE groups
           n     == Len(gs)
           entry == [name |-> kid.name, off |-> kid.ref[2], kind |-> kid.kind,
                     delta |-> AsDelta(kid.number - gs[Len(gs)].base)]
<1>1. AddEntry(groups, kid) = [gs EXCEPT ![n].entries = Append(@, entry)]
  BY DEF AddEntry
<1>2. IsSeq(groups) /\ Len(groups) \in Nat
  BY SeqFacts DEF Grouped, GroupsRefer
<1>3. Grouped(gs) /\ IsSeq(gs) /\ n \in 1 .. Len(gs) /\ gs[n].block = kid.ref[1]
  <2>1. CASE new
    <3> HIDE DEF new
    <3>1. group.block = kid.ref[1] /\ group.entries = <<>> /\ IsGroup(group)
      BY DEF IsGroup
    <3> HIDE DEF group
    <3>2. gs = Append(groups, group)
      BY <2>1
    <3> HIDE DEF gs
    <3>3. /\ IsSeq(gs) /\ Len(gs) = Len(groups) + 1 /\ gs[Len(groups) + 1] = group
          /\ \A i \in 1 .. Len(groups) : gs[i] = groups[i]
      BY <1>2, <3>2, AppendFacts
    <3>4. \A i \in 1 .. Len(gs) : i \in 1 .. Len(groups) \/ i = Len(groups) + 1
      BY <1>2, <3>3
    <3>5. GroupsRefer(gs)
      BY <1>2, <3>1, <3>3, <3>4, EmptyFacts DEF GroupsRefer, Grouped
    <3>6. \A i \in 1 .. Len(gs) : IsGroup(gs[i])
      BY <3>1, <3>3, <3>4 DEF Grouped
    <3>7. n = Len(groups) + 1 /\ n \in 1 .. Len(gs)
      BY <1>2, <3>3
    <3> HIDE DEF n
    <3> QED BY <3>1, <3>3, <3>5, <3>6, <3>7 DEF Grouped
  <2>2. CASE ~new
    <3>1. gs = groups /\ groups # <<>> /\ Fits(groups[Len(groups)], kid)
      BY <2>2
    <3>2. n \in 1 .. Len(gs)
      <4>1. Len(groups) # 0
        BY <1>2, <3>1, EmptySeq DEF IsSeq
      <4> QED BY <1>2, <3>1, <4>1
    <3>3. gs[n].block = kid.ref[1]
      BY <3>1 DEF Fits
    <3> HIDE DEF gs, new
    <3> QED BY <1>2, <3>1, <3>2, <3>3
  <2> QED BY <2>1, <2>2
<1> DEFINE last == gs[n]
           all  == Append(last.entries, entry)
           with == [block |-> last.block, base |-> last.base, entries |-> all]
<1>4. entry.name = kid.name /\ entry.off = kid.ref[2]
  OBVIOUS
<1> HIDE DEF entry, gs, group, new
<1>5. IsGroup(last) /\ IsSeq(last.entries) /\ last.block = kid.ref[1]
  BY <1>3 DEF Grouped, GroupsRefer
<1>6. AddEntry(groups, kid) = [gs EXCEPT ![n] = with]
  <2>1. [gs EXCEPT ![n].entries = Append(@, entry)]
          = [gs EXCEPT ![n] = [last EXCEPT !.entries = all]]
    BY <1>3, SeqFacts
  <2>2. [last EXCEPT !.entries = all] = with
    <3> HIDE DEF all, last
    <3> QED BY <1>5 DEF IsGroup
  <2> QED BY <1>1, <2>1, <2>2
<1>7. /\ IsSeq(all) /\ Len(all) = Len(last.entries) + 1 /\ all[Len(last.entries) + 1] = entry
      /\ \A e \in 1 .. Len(last.entries) : all[e] = last.entries[e]
      /\ Len(last.entries) \in Nat
  BY <1>5, AppendFacts, SeqFacts
<1>8. \A e \in 1 .. Len(last.entries) : Refers(last.entries[e].name, <<last.block, last.entries[e].off>>)
  BY <1>3 DEF Grouped, GroupsRefer
<1> HIDE DEF all
<1>9. \A e \in 1 .. Len(all) : e \in 1 .. Len(last.entries) \/ e = Len(last.entries) + 1
  BY <1>7
<1>10. \A e \in 1 .. Len(all) : Refers(all[e].name, <<last.block, all[e].off>>)
  <2> HIDE DEF last
  <2> QED BY <1>4, <1>5, <1>7, <1>8, <1>9
<1>11. with.block = last.block /\ with.entries = all /\ IsGroup(with)
  BY DEF IsGroup
<1> HIDE DEF with
<1> DEFINE res == [gs EXCEPT ![n] = with]
<1> HIDE DEF last
<1>12. /\ IsSeq(res) /\ Len(res) = Len(gs) /\ res[n] = with
       /\ \A i \in 1 .. Len(gs) : i # n => res[i] = gs[i]
  <2> HIDE DEF n
  <2> QED BY <1>3, ExceptFacts
<1> HIDE DEF res, n
<1>13. GroupsRefer(res)
  <2>1. ASSUME NEW i \in 1 .. Len(gs)
        PROVE  /\ IsSeq(res[i].entries)
               /\ \A e \in 1 .. Len(res[i].entries) :
                    Refers(res[i].entries[e].name, <<res[i].block, res[i].entries[e].off>>)
    <3>1. CASE i = n
      BY <1>7, <1>10, <1>11, <1>12, <3>1
    <3>2. CASE i # n
      BY <1>3, <1>12, <3>2 DEF Grouped, GroupsRefer
    <3> QED BY <3>1, <3>2
  <2> QED BY <1>12, <2>1 DEF GroupsRefer
<1>14. \A i \in 1 .. Len(res) : IsGroup(res[i])
  BY <1>3, <1>11, <1>12 DEF Grouped
<1> QED BY <1>6, <1>13, <1>14 DEF Grouped, res

LEMMA GroupsReferToKids ==
  ASSUME NEW kids, IsSeq(kids),
         \A e \in 1 .. Len(kids) : Refers(kids[e].name, <<kids[e].ref[1], kids[e].ref[2]>>)
  PROVE  GroupsRefer(Groups(kids))
<1> DEFINE n == Len(kids)
<1>1. n \in Nat
  BY SeqFacts
<1>2. PICK f : Builds(kids, f, n) /\ Groups(kids) = f[n]
  BY <1>1, GroupsAre
<1> HIDE DEF n
<1> DEFINE S == {i \in Nat : i <= n => Grouped(f[i])}
<1>3. 0 \in S
  <2>1. f[0] = <<>>
    BY <1>2 DEF Builds
  <2> QED BY <2>1, EmptyFacts DEF Grouped, GroupsRefer
<1>4. ASSUME NEW i \in Nat, i \in S PROVE i + 1 \in S
  <2> SUFFICES ASSUME i + 1 <= n PROVE Grouped(f[i + 1])
    OBVIOUS
  <2>1. i + 1 \in 1 .. n /\ i <= n /\ (i + 1) - 1 = i
    BY <1>1
  <2>2. f[i + 1] = AddEntry(f[i], kids[i + 1])
    BY <1>2, <2>1 DEF Builds
  <2>3. Refers(kids[i + 1].name, <<kids[i + 1].ref[1], kids[i + 1].ref[2]>>)
    BY <2>1 DEF n
  <2>4. Grouped(f[i])
    BY <1>4, <2>1
  <2> QED BY <2>2, <2>3, <2>4, AddEntryRefers
<1>5. n \in S
  <2> HIDE DEF S
  <2> QED BY <1>1, <1>3, <1>4, Induction
<1>6. Grouped(f[n])
  BY <1>1, <1>5
<1> QED BY <1>2, <1>6 DEF Grouped

(* The kids of a directory have the references of their nodes.             *)
LEMMA KidsReferences ==
  ASSUME AtNode
  PROVE  \A e \in 1 .. Len(Top.kids) :
           Refers(Top.kids[e].name, <<Top.kids[e].ref[1], Top.kids[e].ref[2]>>)
<1> SUFFICES ASSUME NEW e \in 1 .. Len(Top.kids)
             PROVE  Refers(Top.kids[e].name, <<Top.kids[e].ref[1], Top.kids[e].ref[2]>>)
  OBVIOUS
<1> DEFINE kid == Top.kids[e]
<1>1. Refers(kid.name, kid.ref)
  <2>1. Len(stack) \in 1 .. Len(stack) /\ KidsOK
    BY TableTypes
  <2> QED BY <2>1 DEF KidsOK, Top
<1> HIDE DEF kid
<1>2. kid.name \in Finished /\ kid.ref = export[numbers[kid.name]] /\ kid.ref # NoRef
  BY <1>1, TableTypes DEF Refers, LinksOK
<1>3. numbers[kid.name] \in 1 .. Total
  BY <1>2, TableTypes, TableNumbers DEF AtNode
<1>4. PICK j \in 1 .. Len(inodes) : kid.ref = RefOf(j)
  BY <1>2, <1>3, TableTypes, SMTT(60) DEF InodesOK
<1>5. j \in Nat \ {0}
  BY <1>4, TableTypes
<1>6. kid.ref = <<kid.ref[1], kid.ref[2]>>
  BY <1>4, <1>5, RefFacts
<1> QED BY <1>1, <1>6 DEF kid

(* When there is nothing left in the directory, no node that is still to   *)
(* come is in it, and there is none at all when it is the root.            *)
LEMMA NothingLeft ==
  ASSUME AtNode, ~AtChild
  PROVE  /\ \A k \in at .. Len(tree) : tree[k].parent # Top.dir
         /\ Len(stack) = 1 => at = Len(tree) + 1
<1> DEFINE n == Len(stack)
           d == Top.dir
<1>1. /\ n \in Nat \ {0} /\ d = stack[n].dir /\ d \in 1 .. at - 1 /\ StackOK
      /\ at \in 2 .. Len(tree) + 1 /\ Len(tree) \in Nat /\ TreeOK
  BY TableTypes DEF AtNode
<1>2. \A i \in 1 .. n : stack[i].dir \in Nat /\ stack[i].dir <= d
  <2> TAKE i \in 1 .. n
  <2>1. stack[i].dir \in 1 .. at - 1
    BY <1>1 DEF StackOK
  <2>2. CASE i = n
    BY <1>1, <2>2
  <2>3. CASE i # n
    <3>1. i \in 1 .. n - 1 /\ n \in 1 .. n
      BY <1>1, <2>3
    <3>2. stack[i].dir < stack[n].dir
      BY <1>1, <3>1 DEF StackOK
    <3> QED BY <1>1, <2>1, <3>2, SMTT(60)
  <2> QED BY <2>2, <2>3
<1>3. at <= Len(tree) => /\ tree[at].parent # d /\ tree[at].parent \in 1 .. at - 1
                         /\ \E i \in 1 .. n : stack[i].dir = tree[at].parent
  <2> SUFFICES ASSUME at <= Len(tree)
               PROVE  /\ tree[at].parent # d /\ tree[at].parent \in 1 .. at - 1
                      /\ \E i \in 1 .. n : stack[i].dir = tree[at].parent
    OBVIOUS
  <2>1. at \in at .. Len(tree) /\ at \in 2 .. Len(tree)
    BY <1>1
  <2>2. tree[at].parent \in 1 .. at - 1 /\ tree[at].parent # d
    BY <1>1, <2>1 DEF TreeOK, AtChild, AtNode
  <2>3. ~(tree[at].parent >= at)
    BY <1>1, <2>2
  <2> QED BY <1>1, <2>1, <2>2, <2>3 DEF StackOK
<1>4. ASSUME NEW k \in at .. Len(tree), tree[k].parent = d PROVE FALSE
  <2>1. at <= Len(tree) /\ k \in 2 .. Len(tree) /\ at \in 2 .. k
    BY <1>1
  <2>2. tree[k].parent < at
    BY <1>1, <1>4
  <2>3. tree[at].parent >= d
    BY <1>1, <1>4, <2>1, <2>2 DEF TreeOK
  <2>4. tree[at].parent <= d /\ tree[at].parent # d /\ tree[at].parent \in Nat
    BY <1>2, <1>3, <2>1
  <2> QED BY <1>1, <2>3, <2>4
<1>5. ASSUME n = 1, at <= Len(tree) PROVE FALSE
  <2>1. PICK i \in 1 .. n : stack[i].dir = tree[at].parent
    BY <1>3, <1>5
  <2>2. i = n
    BY <1>5
  <2> QED BY <1>1, <1>3, <1>5, <2>1, <2>2
<1>6. n = 1 => at = Len(tree) + 1
  BY <1>1, <1>5
<1> QED BY <1>4, <1>6

LEMMA LeaveStack ==
  ASSUME AtNode, LeaveDir
  PROVE  LET d == Top.dir IN
         /\ d \in 1 .. Len(tree) /\ IsDir(d) /\ d \notin Finished /\ Finished' = Finished \cup {d}
         /\ StackOK' /\ at' = at /\ UNCHANGED tree
         /\ Len(stack') = Len(stack) - 1
         /\ \A i \in 1 .. Len(stack') :
              i \in 1 .. Len(stack) /\ stack'[i].dir = stack[i].dir
         /\ \A i \in 1 .. Len(stack') - 1 : stack'[i].kids = stack[i].kids
         /\ IF Len(stack) = 1 THEN phase' = "done" /\ d = 1 /\ root' = NextRef
            ELSE /\ phase' = "tables"
                 /\ stack'[Len(stack) - 1].kids =
                      Append(stack[Len(stack) - 1].kids,
                             [name |-> d, number |-> numbers[d], ref |-> NextRef,
                              kind |-> tree[d].kind])
<1> DEFINE n == Len(stack)
           d == Top.dir
           rest == SubSeq(stack, 1, n - 1)
<1>1. /\ n \in Nat \ {0} /\ IsSeq(stack) /\ d = stack[n].dir /\ d \in 1 .. at - 1 /\ IsDir(d)
      /\ d \in 1 .. Len(tree) /\ StackOK /\ KidsOK
      /\ at \in 2 .. Len(tree) + 1 /\ Len(tree) \in Nat
  BY TableTypes
<1>0. n \in Nat \ {0}
  BY <1>1
<1>2. /\ ~AtChild /\ phase = "tables" /\ at' = at /\ UNCHANGED tree
      /\ IF rest = <<>> THEN phase' = "done" /\ stack' = rest /\ root' = NextRef
         ELSE stack' = WithChild(rest, d, numbers[d], NextRef) /\ UNCHANGED phase
  BY DEF LeaveDir, scanVars
<1>3. /\ \A k \in at .. Len(tree) : tree[k].parent # d
      /\ n = 1 => at = Len(tree) + 1
  BY <1>2, NothingLeft
<1>4. IsSeq(rest) /\ Len(rest) = n - 1 /\ \A i \in 1 .. n - 1 : rest[i] = stack[i]
  <2>1. stack \in Seq(ToSet(stack)) /\ 1 \in 1 .. n + 1 /\ n - 1 \in 1 - 1 .. n
    BY <1>1 DEF IsSeq
  <2>2. /\ SubSeq(stack, 1, n - 1) \in Seq(ToSet(stack))
        /\ Len(SubSeq(stack, 1, n - 1)) = IF 1 <= n - 1 THEN n - 1 - 1 + 1 ELSE 0
        /\ \A i \in 1 .. n - 1 - 1 + 1 : SubSeq(stack, 1, n - 1)[i] = stack[1 + i - 1]
    BY <2>1, SubSeqProperties
  <2>3. n - 1 - 1 + 1 = n - 1 /\ \A i \in 1 .. n - 1 : 1 + i - 1 = i
    BY <1>1
  <2>4. Len(rest) = n - 1
    BY <1>1, <2>2, <2>3
  <2> QED BY <2>2, <2>3, <2>4, WidenSeq
<1> HIDE DEF rest, d
<1>5. \A i \in 1 .. n - 1 : /\ i \in 1 .. n /\ stack[i].dir \in 1 .. at - 1 /\ IsDir(stack[i].dir)
                            /\ stack[i] = [dir |-> stack[i].dir, kids |-> stack[i].kids]
                            /\ IsSeq(stack[i].kids) /\ stack[i].dir # d
  <2> TAKE i \in 1 .. n - 1
  <2>1. i \in 1 .. n /\ n \in 1 .. n
    BY <1>1
  <2>2. stack[i].dir \in 1 .. at - 1 /\ stack[i].dir < stack[n].dir
    BY <1>1, <2>1 DEF StackOK
  <2>3. stack[i].dir # d
    BY <1>1, <2>2
  <2> QED BY <1>1, <2>1, <2>2, <2>3 DEF StackOK, KidsOK
<1> DEFINE kid == [name |-> d, number |-> numbers[d], ref |-> NextRef, kind |-> tree[d].kind]
<1>7. /\ IsSeq(stack') /\ Len(stack') = n - 1
      /\ \A i \in 1 .. n - 1 :
           /\ stack'[i].dir = stack[i].dir
           /\ stack'[i] = [dir |-> stack'[i].dir, kids |-> stack'[i].kids]
           /\ i # n - 1 => stack'[i].kids = stack[i].kids
           /\ i = n - 1 => stack'[i].kids = Append(stack[i].kids, kid)
      /\ phase' = IF n = 1 THEN "done" ELSE "tables"
      /\ n = 1 => root' = NextRef
  <2>1. CASE n = 1
    <3>1. rest = <<>>
      BY <1>4, <2>1, EmptySeq DEF IsSeq
    <3>2. /\ stack' = rest /\ phase' = "done" /\ root' = NextRef
          /\ \A i \in 1 .. n - 1 : FALSE
      BY <1>2, <2>1, <3>1
    <3> QED BY <1>4, <2>1, <3>2
  <2>2. CASE n # 1
    <3>1. rest # <<>> /\ Len(rest) \in Nat \ {0}
      BY <1>1, <1>4, <2>2, EmptyFacts
    <3>2. stack' = WithChild(rest, d, numbers[d], NextRef) /\ phase' = "tables"
      BY <1>2, <3>1
    <3>3. n - 1 \in 1 .. n - 1
      <4> HIDE DEF n
      <4> QED BY <1>0, <2>2
    <3> DEFINE m == Len(rest)
    <3>4. /\ m = n - 1 /\ IsSeq(rest[m].kids) /\ IsSeq(rest)
          /\ rest[m] = [dir |-> rest[m].dir, kids |-> rest[m].kids]
      BY <1>4, <1>5, <3>3
    <3> DEFINE number == numbers[d]
               ref    == NextRef
    <3> HIDE DEF number, ref
    <3>5. stack' = WithChild(rest, d, number, ref)
      BY <3>2 DEF number, ref
    <3>6. kid = [name |-> d, number |-> number, ref |-> ref, kind |-> tree[d].kind]
      BY DEF number, ref
    <3> HIDE DEF kid
    <3>7. /\ IsSeq(stack') /\ Len(stack') = m
          /\ \A i \in 1 .. m : i # m => stack'[i] = rest[i]
          /\ stack'[m] = [dir |-> rest[m].dir, kids |-> Append(rest[m].kids, kid)]
      <4> DEFINE t == WithChild(rest, d, number, ref)
      <4>1. /\ IsSeq(t) /\ Len(t) = Len(rest)
            /\ \A i \in 1 .. Len(rest) : i # Len(rest) => t[i] = rest[i]
            /\ t[Len(rest)] = [dir |-> rest[Len(rest)].dir,
                               kids |-> Append(rest[Len(rest)].kids,
                                 [name |-> d, number |-> number, ref |-> ref,
                                  kind |-> tree[d].kind])]
        <5>1. /\ Len(rest) \in Nat \ {0} /\ IsSeq(rest[Len(rest)].kids)
              /\ rest[Len(rest)] = [dir |-> rest[Len(rest)].dir, kids |-> rest[Len(rest)].kids]
          BY <3>1, <3>4
        <5>2. IsSeq(rest)
          BY <1>4
        <5> HIDE DEF m
        <5> HIDE DEF t
        <5>3. t = WithChild(rest, d, number, ref)
          BY DEF t
        <5> QED BY <5>1, <5>2, <5>3, WithChildIs, SMTT(30)
      <4>2. stack' = t
        BY <3>5
      <4> HIDE DEF t
      <4> QED BY <3>6, <4>1, <4>2
    <3>8. ASSUME NEW i \in 1 .. n - 1
          PROVE  /\ stack'[i].dir = stack[i].dir
                 /\ stack'[i] = [dir |-> stack'[i].dir, kids |-> stack'[i].kids]
                 /\ i # n - 1 => stack'[i].kids = stack[i].kids
                 /\ i = n - 1 => stack'[i].kids = Append(stack[i].kids, kid)
      <4>1. CASE i = m
        BY <1>4, <3>3, <3>4, <3>7, <4>1, SMTT(60)
      <4>2. CASE i # m
        BY <1>4, <1>5, <3>4, <3>7, <4>2
      <4> QED BY <4>1, <4>2
    <3> QED BY <2>2, <3>2, <3>4, <3>7, <3>8
  <2> QED BY <2>1, <2>2, SMTT(60)
<1> HIDE DEF kid
<1>8. Finished' = Finished \cup {d} /\ d \notin Finished
  <2>1. Finished' = {k \in 1 .. at - 1 : \A i \in 1 .. n - 1 : stack[i].dir # k}
    <3>1. at' - 1 = at - 1 /\ Len(stack') = n - 1
      BY <1>2, <1>7
    <3>2. Finished' = {k \in 1 .. at - 1 : \A i \in 1 .. n - 1 : stack'[i].dir # k}
      BY <3>1 DEF Finished
    <3> HIDE DEF n
    <3> QED BY <1>7, <3>2
  <2>2. \A i \in 1 .. n : i = n \/ i \in 1 .. n - 1
    BY <1>1
  <2>3. Finished = {k \in 1 .. at - 1 : k # d /\ \A i \in 1 .. n - 1 : stack[i].dir # k}
    <3>1. n \in 1 .. n /\ \A i \in 1 .. n - 1 : i \in 1 .. n
      BY <1>1
    <3> QED BY <1>1, <2>2, <3>1 DEF Finished
  <2> QED BY <1>1, <1>5, <2>1, <2>3
<1>9. StackOK'
  <2>1. phase' = "tables" => Len(stack') > 0 /\ stack'[1].dir = 1
    <3> SUFFICES ASSUME n # 1 PROVE Len(stack') > 0 /\ stack'[1].dir = 1
      BY <1>7
    <3>1. 1 \in 1 .. n - 1 /\ n - 1 > 0
      <4> HIDE DEF n
      <4> QED BY <1>0
    <3>2. stack[1].dir = 1
      BY <1>1, <1>2 DEF StackOK
    <3>3. Len(stack') = n - 1 /\ stack'[1].dir = stack[1].dir
      BY <1>7, <3>1
    <3> QED BY <3>1, <3>2, <3>3
  <2>2. phase' = "done" => stack' = <<>> /\ at' = Len(tree') + 1
    <3> SUFFICES ASSUME n = 1 PROVE stack' = <<>> /\ at = Len(tree) + 1
      BY <1>2, <1>7
    <3> QED BY <1>3, <1>7, EmptySeq DEF IsSeq
  <2>3. ASSUME NEW i \in 1 .. n - 1
        PROVE  /\ stack'[i] = [dir |-> stack'[i].dir, kids |-> stack'[i].kids]
               /\ stack'[i].dir \in 1 .. at - 1 /\ tree'[stack'[i].dir].kind = "dir"
    BY <1>2, <1>5, <1>7 DEF IsDir
  <2>4. ASSUME NEW i \in 1 .. n - 1, NEW j \in 1 .. i - 1 PROVE stack'[j].dir < stack'[i].dir
    <3>1. j \in 1 .. n - 1 /\ i \in 1 .. n
      BY <1>1
    <3>2. stack[j].dir < stack[i].dir
      BY <1>1, <3>1 DEF StackOK
    <3> QED BY <1>7, <3>1, <3>2
  <2>5. ASSUME NEW k \in at .. Len(tree)
        PROVE  tree[k].parent >= at \/ \E i \in 1 .. n - 1 : stack'[i].dir = tree[k].parent
    <3>1. tree[k].parent >= at \/ \E i \in 1 .. n : stack[i].dir = tree[k].parent
      BY <1>1 DEF StackOK
    <3>2. ASSUME NEW i \in 1 .. n, stack[i].dir = tree[k].parent
          PROVE  \E j \in 1 .. n - 1 : stack'[j].dir = tree[k].parent
      <4>1. i # n
        BY <1>1, <1>3, <3>2
      <4>2. i \in 1 .. n - 1
        BY <1>1, <4>1
      <4> QED BY <1>7, <3>2, <4>2
    <3> QED BY <3>1, <3>2
  <2> QED BY <1>2, <1>7, <2>1, <2>2, <2>3, <2>4, <2>5 DEF StackOK, IsDir
<1>10. ASSUME NEW i \in 1 .. Len(stack')
       PROVE  i \in 1 .. Len(stack) /\ stack'[i].dir = stack[i].dir
  <2>1. i \in 1 .. n - 1
    BY <1>7
  <2> QED BY <1>5, <1>7, <2>1
<1>11. ASSUME NEW i \in 1 .. Len(stack') - 1 PROVE stack'[i].kids = stack[i].kids
  <2>1. i \in 1 .. n - 1 /\ i # n - 1
    BY <1>1, <1>7
  <2> QED BY <1>7, <2>1
<1>12. CASE n = 1
  <2>1. stack[1].dir = 1
    BY <1>1, <1>2 DEF StackOK
  <2>2. d = 1 /\ phase' = "done" /\ root' = NextRef
    BY <1>1, <1>7, <1>12, <2>1, SMTT(60)
  <2> QED BY <1>1, <1>2, <1>7, <1>8, <1>9, <1>10, <1>11, <1>12, <2>2 DEF d
<1>13. CASE n # 1
  <2>1. n - 1 \in 1 .. n - 1
    <3> HIDE DEF n
    <3> QED BY <1>0, <1>13
  <2>2. phase' = "tables" /\ stack'[n - 1].kids = Append(stack[n - 1].kids, kid)
    BY <1>7, <1>13, <2>1
  <2> QED BY <1>1, <1>2, <1>7, <1>8, <1>9, <1>10, <1>11, <1>13, <2>2 DEF d, kid
<1> QED BY <1>12, <1>13

(* What the step leaves: the directory is finished, its inode is new and   *)
(* leads to its entries.                                                   *)
LEMMA LeaveWrites ==
  ASSUME AtNode, LeaveDir
  PROVE  /\ InodesOK' /\ LinksOK' /\ Total' = Total /\ Growing
         /\ export'[numbers[Top.dir]] = NextRef
         /\ \A k \in Finished : numbers[k] # numbers[Top.dir]
         /\ GroupsRefer(Groups(Top.kids)) /\ dirs' = Append(dirs, Groups(Top.kids))
         /\ \E inode : /\ inodes' = Append(inodes, inode) /\ inode.number = numbers[Top.dir]
                       /\ inode.kind = "dir" /\ inode.dir = Len(dirs) + 1
                       /\ inode.parent = ParentNumber(Top.dir)
         /\ UNCHANGED <<at, tree, next, numbers, hlNum, collVars, dataVars>>
<1> DEFINE d == Top.dir
<1>1. UNCHANGED <<at, tree, next, numbers, hlNum, collVars, dataVars, hlRef>>
  BY DEF LeaveDir, scanVars, numVars
<1>2. d \in 1 .. Len(tree) /\ IsDir(d) /\ d \notin Finished /\ Finished' = Finished \cup {d}
  BY LeaveStack
<1>3. InodesOK /\ LinksOK /\ KidsOK /\ DirsOK /\ IsSeq(dirs) /\ Len(dirs) \in Nat
  BY TableTypes, SeqFacts DEF DirsOK
<1>4. dirs' = Append(dirs, Groups(Top.kids)) /\ GroupsRefer(Groups(Top.kids))
  <2>1. IsSeq(Top.kids)
    <3>1. Len(stack) \in 1 .. Len(stack)
      BY TableTypes
    <3> QED BY <1>3, <3>1 DEF KidsOK, Top
  <2> QED BY <2>1, KidsReferences, GroupsReferToKids DEF LeaveDir
<1>5. Len(dirs') = Len(dirs) + 1 /\ Len(dirs') \in Nat /\ Len(dirs) <= Len(dirs')
  BY <1>3, <1>4, AppendFacts
<1>6. ~Linked(d)
  BY <1>2 DEF Linked, IsFile, IsDir
<1>7. PICK inode : /\ AddInode(inode) /\ inode.number = numbers[d] /\ inode.kind = "dir"
                   /\ inode.dir = Len(dirs) + 1 /\ inode.parent = ParentNumber(d)
  <2> DEFINE inode == [kind |-> "dir", number |-> numbers[d], dir |-> Len(dirs) + 1,
                       nlink |-> 2 + Cardinality({k \in 1 .. Len(tree) :
                                                    IsDir(k) /\ tree[k].parent = d}),
                       parent |-> ParentNumber(d)]
  <2>1. AddInode(inode)
    BY DEF LeaveDir
  <2>2. /\ inode.number = numbers[d] /\ inode.dir = Len(dirs) + 1 /\ inode.kind = "dir"
        /\ inode.parent = ParentNumber(d)
    OBVIOUS
  <2> HIDE DEF inode
  <2> QED BY <2>1, <2>2
<1> HIDE DEF d
<1>8. /\ InodesOK' /\ LinksOK' /\ Total' = Total
      /\ export'[numbers[d]] = NextRef
      /\ \A j \in Finished : export'[numbers[j]] = export[numbers[j]]
  <2>1. inode.kind = "dir" => inode.dir \in 1 .. Len(dirs')
    BY <1>3, <1>5, <1>7
  <2>2. hlRef' = IF Linked(d) THEN [hlRef EXCEPT ![tree[d].host] = NextRef] ELSE hlRef
    BY <1>1, <1>6
  <2>3. UNCHANGED <<tree, numbers>>
    BY <1>1
  <2> QED BY <1>2, <1>3, <1>5, <1>6, <1>7, <2>1, <2>2, <2>3, AddInodeKeeps
<1>9. Growing
  BY <1>1, <1>2, <1>8 DEF Growing
<1>10. \A k \in Finished : numbers[k] # numbers[d]
  BY <1>2, <1>6, NewNumber
<1>11. inodes' = Append(inodes, inode)
  BY <1>7 DEF AddInode
<1> QED BY <1>1, <1>4, <1>7, <1>8, <1>9, <1>10, <1>11 DEF d

LEMMA LeaveKeeps ==
  ASSUME AtNode, LeaveDir
  PROVE  TablesOK' /\ Total' = Total /\ InTables' /\ at' = at
         /\ UNCHANGED <<tree, next, numbers, hlNum, collVars, dataVars>>
<1> DEFINE d == Top.dir
           kid == [name |-> d, number |-> numbers[d], ref |-> NextRef, kind |-> tree[d].kind]
           n == Len(stack)
<1>1. kid.name = d /\ kid.ref = NextRef
  OBVIOUS
<1>2. /\ d \in 1 .. Len(tree) /\ Finished' = Finished \cup {d} /\ StackOK' /\ InTables'
      /\ Len(stack') = n - 1
      /\ \A i \in 1 .. Len(stack') : i \in 1 .. n
      /\ \A i \in 1 .. Len(stack') - 1 : stack'[i].kids = stack[i].kids
      /\ n # 1 => stack'[n - 1].kids = Append(stack[n - 1].kids, kid)
  BY LeaveStack DEF InTables
<1> HIDE DEF kid, d
<1>3. /\ InodesOK' /\ LinksOK' /\ Total' = Total /\ Growing
      /\ export'[numbers[d]] = NextRef
      /\ \E groups : dirs' = Append(dirs, groups) /\ GroupsRefer(groups)
      /\ UNCHANGED <<at, tree, next, numbers, hlNum, collVars, dataVars>>
  BY LeaveWrites DEF d
<1>4. kid.name \in Finished' /\ kid.ref = export'[numbers'[kid.name]]
  BY <1>1, <1>2, <1>3
<1>5. ASSUME NEW i \in 1 .. Len(stack')
      PROVE  \/ i \in 1 .. n /\ stack'[i].kids = stack[i].kids
             \/ i \in 1 .. n /\ stack'[i].kids = Append(stack[i].kids, kid)
  <2>1. i \in 1 .. Len(stack') - 1 \/ (i = n - 1 /\ n # 1)
    <3>1. n \in Nat \ {0} /\ Len(stack') = n - 1
      BY <1>2, TableTypes
    <3> HIDE DEF n
    <3> QED BY <3>1
  <2> QED BY <1>2, <2>1
<1>6. KidsOK'
  BY <1>3, <1>4, <1>5, TableTypes, KidsStay
<1>7. DirsOK'
  BY <1>3, TableTypes, DirsStay
<1> QED BY <1>2, <1>3, <1>6, <1>7 DEF TablesOK

-----------------------------------------------------------------------------
(* The invariant.                                                          *)

LEMMA SameTree ==
  ASSUME TreeOK, UNCHANGED tree
  PROVE  TreeOK'
BY DEF TreeOK, IsDir, IsFile

(* Before the tables are written they are empty.                           *)
LEMMA TablesStayEmpty ==
  ASSUME TablesOK, ~InTables, ~InTables', UNCHANGED tableVars,
         phase \in {"scan", "number"} <=> phase' \in {"scan", "number"}
  PROVE  TablesOK' /\ Total' = Total
<1>1. UNCHANGED <<inodes, dirs, hlRef, stack, export>>
  BY DEF tableVars
<1>2. Total' = Total
  BY <1>1 DEF Total
<1> QED BY <1>1, <1>2 DEF TablesOK

LEMMA ImageInit ==
  ASSUME Init
  PROVE  ImageInv
<1> DEFINE node == [kind |-> "dir", parent |-> NoNode, content |-> <<>>, host |-> NotLinked]
<1>1. /\ MaxNodes \in Nat \ {0} /\ BlockSize \in Nat \ {0}
      /\ phase = "scan" /\ at = 2 /\ tree = <<node>> /\ path = <<1>> /\ next = 1
      /\ numbers = <<0>> /\ hlNum = [l \in Links |-> 0] /\ queue = <<>> /\ firsts = {}
      /\ copies = {} /\ hlFirst = [l \in Links |-> NoNode] /\ fileData = <<>> /\ out = {}
      /\ buf = <<>> /\ frags = <<>> /\ inodes = <<>> /\ dirs = <<>>
      /\ hlRef = [l \in Links |-> NoRef] /\ stack = <<>> /\ export = <<>>
  BY SizesAssumption DEF Init
<1>2. /\ node \in Node /\ node.kind = "dir" /\ node.parent = NoNode /\ node.content = <<>>
      /\ node.host = NotLinked
  BY <1>1 DEF Node, NoNode
<1> HIDE DEF node
<1>3. tree \in Seq(Node) /\ Len(tree) = 1 /\ tree[1] = node
  BY <1>1, <1>2
<1>4. TreeOK
  <2>1. \A k \in 1 .. Len(tree) : tree[k] = node
    BY <1>3
  <2>2. \A k \in 2 .. Len(tree) : FALSE
    BY <1>3
  <2>3. 1 \in 1 .. Len(tree) /\ Len(tree) \in 1 .. MaxNodes
    BY <1>1, <1>3
  <2> QED BY <1>2, <1>3, <2>1, <2>2, <2>3 DEF TreeOK, IsDir
<1>5. PathOK
  <2>1. path \in Seq(1 .. Len(tree)) /\ Len(path) = 1 /\ path[1] = 1
    BY <1>1, <1>3
  <2>2. IsDir(1) /\ \A k \in 2 .. Len(tree) : FALSE
    BY <1>2, <1>3 DEF IsDir
  <2>3. \A i \in 1 .. Len(path) : i = 1
    BY <2>1
  <2>4. ASSUME NEW i \in 1 .. Len(path)
        PROVE  IsDir(path[i]) /\ \A j \in 1 .. i : path[j] <= path[i]
    <3>1. i = 1 /\ \A j \in 1 .. i : j = 1
      BY <2>3
    <3> QED BY <2>1, <2>2, <3>1
  <2> QED BY <2>1, <2>2, <2>4 DEF PathOK
<1>6. NumbersOK
  <2>1. Numbered = {}
    BY <1>1 DEF Numbered
  <2>2. numbers \in Seq(0 .. MaxNodes) /\ Len(numbers) = 1 /\ numbers[1] = 0
    BY <1>1
  <2>3. next \in 1 .. MaxNodes + 1 /\ at \in 2 .. Len(tree) + 1 /\ next \in 1 .. at - 1
        /\ \A n \in 1 .. next - 1 : FALSE
    BY <1>1, <1>3
  <2>4. hlNum \in [Links -> Nat] /\ \A l \in Links : hlNum[l] = 0
    BY <1>1
  <2>5. Len(numbers) = at - 1
    BY <1>1, <2>2
  <2> QED BY <1>1, <2>1, <2>2, <2>3, <2>4, <2>5 DEF NumbersOK
<1>7. DataOK
  <2>1. Collected = {}
    BY <1>1 DEF Collected
  <2>2. queue \in Seq(1 .. Len(tree))
    BY <1>1, EmptySeq
  <2>3. hlFirst \in [Links -> 0 .. Len(tree)] /\ \A l \in Links : hlFirst[l] = NoNode
    BY <1>1, <1>3 DEF NoNode
  <2> QED BY <1>1, <2>1, <2>2, <2>3 DEF DataOK
<1>8. BlocksOK
  <2>1. Len(buf) = 0 /\ IsSeq(buf) /\ IsSeq(frags) /\ Len(frags) = 0
    BY <1>1, EmptyFacts
  <2> QED BY <1>1, <2>1 DEF BlocksOK
<1>9. TablesOK
  BY <1>1 DEF TablesOK, InTables
<1> QED BY <1>1, <1>4, <1>5, <1>6, <1>7, <1>8, <1>9 DEF ImageInv, Phases

(* The tables begin with the root's directory.                             *)
LEMMA TablesBegin ==
  ASSUME ImageInv, WritingEnds
  PROVE  /\ TablesOK' /\ Total' = Total /\ Finished' = {} /\ at' = 2
         /\ Len(stack') = 1 /\ stack'[1] = [dir |-> 1, kids |-> <<>>]
<1> DEFINE first == [dir |-> 1, kids |-> <<>>]
<1>1. /\ phase = "write" /\ phase' = "tables" /\ at = 2 /\ at' = 2 /\ stack' = <<first>>
      /\ UNCHANGED <<tree, numbers, inodes, dirs, hlRef, export>>
      /\ TreeOK /\ TablesOK /\ Len(tree) \in Nat \ {0}
  BY TreeTypes DEF WritingEnds, ImageInv, DataOK, scanVars, numVars
<1>2. /\ inodes = <<>> /\ dirs = <<>> /\ hlRef = [l \in Links |-> NoRef] /\ IsSeq(export)
      /\ \A n \in 1 .. Total : export[n] = NoRef
  BY <1>1 DEF TablesOK, InTables
<1>3. first.dir = 1 /\ first.kids = <<>> /\ first = [dir |-> first.dir, kids |-> first.kids]
  OBVIOUS
<1> HIDE DEF first
<1>4. IsSeq(stack') /\ Len(stack') = 1 /\ stack'[1] = first
  <2>1. <<first>> \in Seq({first}) /\ Len(<<first>>) = 1 /\ <<first>>[1] = first
    OBVIOUS
  <2> QED BY <1>1, <2>1, WidenSeq
<1>5. \A i \in 1 .. Len(stack') : i = 1 /\ stack'[i] = first
  BY <1>4
<1>6. Finished' = {}
  <2>1. at' - 1 = 1 /\ 1 \in 1 .. Len(stack') /\ stack'[1].dir = 1
    BY <1>1, <1>3, <1>4
  <2>2. \A k \in 1 .. at' - 1 : k = 1
    BY <2>1
  <2> QED BY <2>1, <2>2 DEF Finished
<1>7. StackOK'
  <2>1. ASSUME NEW k \in 2 .. Len(tree)
        PROVE  tree[k].parent >= 2 \/ \E i \in 1 .. Len(stack') : stack'[i].dir = tree[k].parent
    <3>1. tree[k].parent \in Nat \ {0}
      BY <1>1 DEF TreeOK
    <3>2. CASE tree[k].parent = 1
      <4>1. 1 \in 1 .. Len(stack') /\ stack'[1].dir = 1
        BY <1>3, <1>4
      <4> QED BY <3>2, <4>1
    <3>3. CASE tree[k].parent # 1
      BY <3>1, <3>3
    <3> QED BY <3>2, <3>3
  <2>2. ASSUME NEW i \in 1 .. Len(stack')
        PROVE  /\ stack'[i] = [dir |-> stack'[i].dir, kids |-> stack'[i].kids]
               /\ stack'[i].dir \in 1 .. at' - 1 /\ tree'[stack'[i].dir].kind = "dir"
               /\ \A j \in 1 .. i - 1 : FALSE
    <3>1. i = 1 /\ stack'[i] = first
      BY <1>5
    <3>2. tree'[1].kind = "dir" /\ 1 \in 1 .. at' - 1
      BY <1>1 DEF TreeOK, IsDir
    <3> QED BY <1>3, <3>1, <3>2
  <2>3. Len(stack') > 0 /\ stack'[1].dir = 1
    BY <1>3, <1>4
  <2> QED BY <1>1, <1>4, <2>1, <2>2, <2>3 DEF StackOK, IsDir
<1>8. Total' = Total /\ IsSeq(<<>>) /\ \A i \in 1 .. Len(<<>>) : FALSE
  BY <1>1, EmptyFacts DEF Total
<1>9. InodesOK'
  BY <1>1, <1>2, <1>8 DEF InodesOK
<1>10. LinksOK'
  BY <1>1, <1>2, <1>6 DEF LinksOK
<1>11. KidsOK'
  <2>1. \A i \in 1 .. Len(stack') : stack'[i].kids = <<>>
    BY <1>3, <1>5
  <2> QED BY <1>8, <2>1 DEF KidsOK
<1>12. DirsOK'
  BY <1>1, <1>2, <1>8 DEF DirsOK
<1> QED BY <1>1, <1>4, <1>6, <1>7, <1>8, <1>9, <1>10, <1>11, <1>12 DEF TablesOK, InTables, first

LEMMA ScanningKeeps ==
  ASSUME ImageInv,
         \/ \E d \in 1 .. Len(path), kind \in {"dir", "file", "symlink"},
               content \in Contents \cup {<<>>}, host \in Links \cup {NotLinked} :
              Scan(d, kind, content, host)
         \/ ScanEnds
  PROVE  ImageInv'
<1>1. BlocksOK'
  BY BlocksNext DEF ImageInv, Next
<1>2. TreeOK /\ NumbersOK /\ DataOK /\ TablesOK /\ Len(tree) \in Nat \ {0}
  BY TreeTypes DEF ImageInv
<1>3. ASSUME NEW d \in 1 .. Len(path), NEW kind \in {"dir", "file", "symlink"},
             NEW content \in Contents \cup {<<>>}, NEW host \in Links \cup {NotLinked},
             Scan(d, kind, content, host)
      PROVE  ImageInv'
  <2>1. phase = "scan" /\ phase' = "scan" /\ UNCHANGED <<collVars, dataVars, tableVars>>
    BY <1>3 DEF Scan
  <2>2. PathOK
    BY <2>1 DEF ImageInv
  <2>3. TreeOK' /\ PathOK' /\ Len(tree') = Len(tree) + 1
    BY <1>2, <1>3, <2>2, ScanKeepsTree
  <2>4. NumbersOK'
    BY <1>2, <1>3, <2>2, ScanKeepsNumbers
  <2>5. Len(tree') \in Nat /\ Len(tree) <= Len(tree')
    BY <1>2, <2>3
  <2>6. DataOK'
    BY <1>2, <2>1, <2>5, EarlierKeepsData
  <2>7. TablesOK'
    BY <1>2, <2>1, TablesStayEmpty DEF InTables
  <2> QED BY <1>1, <2>1, <2>3, <2>4, <2>6, <2>7, SMTT(60) DEF ImageInv, Phases
<1>4. CASE ScanEnds
  <2>1. /\ phase = "scan" /\ phase' = "number"
        /\ UNCHANGED <<at, tree, next, numbers, hlNum, collVars, dataVars, tableVars>>
    BY <1>4 DEF ScanEnds, numVars
  <2>2. TablesOK' /\ Total' = Total
    BY <1>2, <2>1, TablesStayEmpty DEF InTables
  <2>3. NumbersOK'
    BY <1>2, <2>1, <2>2, SameNumbers
  <2>4. DataOK'
    <3>1. Len(tree') \in Nat /\ Len(tree) <= Len(tree')
      BY <1>2, <2>1
    <3> QED BY <1>2, <2>1, <3>1, EarlierKeepsData
  <2>5. TreeOK'
    BY <1>2, <2>1, SameTree
  <2> QED BY <1>1, <2>1, <2>2, <2>3, <2>4, <2>5 DEF ImageInv, Phases
<1> QED BY <1>3, <1>4

LEMMA NumberingKeeps ==
  ASSUME ImageInv, Number \/ NumberingEnds
  PROVE  ImageInv'
<1>1. BlocksOK'
  BY BlocksNext DEF ImageInv, Next
<1>2. TreeOK /\ NumbersOK /\ DataOK /\ TablesOK /\ Len(tree) \in Nat \ {0}
  BY TreeTypes DEF ImageInv
<1>3. /\ phase = "number" /\ UNCHANGED <<tree, collVars, dataVars>>
      /\ Len(tree') \in Nat /\ Len(tree) <= Len(tree') /\ Len(tree') # 0
  BY <1>2 DEF Number, NumberingEnds, scanVars
<1>4. TreeOK'
  BY <1>2, <1>3, SameTree
<1>5. CASE Number
  <2>1. phase' = "number" /\ UNCHANGED tableVars
    BY <1>3, <1>5 DEF Number
  <2>2. TablesOK'
    BY <1>2, <1>3, <2>1, TablesStayEmpty DEF InTables
  <2>3. NumbersOK'
    BY <1>2, <1>5, NumberKeeps
  <2>4. DataOK'
    BY <1>2, <1>3, <2>1, EarlierKeepsData
  <2> QED BY <1>1, <1>4, <2>1, <2>2, <2>3, <2>4 DEF ImageInv, Phases
<1>6. CASE NumberingEnds
  <2>1. /\ phase' = "collect" /\ at' = 2 /\ UNCHANGED <<inodes, dirs, hlRef, stack>>
        /\ export' = [n \in 1 .. next |-> NoRef]
    BY <1>6 DEF NumberingEnds
  <2>2. NumbersOK' /\ IsSeq(export') /\ Len(export') = next
    BY <1>2, <1>6, NumberingEndsKeeps
  <2>3. TablesOK'
    <3>1. \A n \in 1 .. Total' : export'[n] = NoRef
      BY <2>1, <2>2 DEF Total
    <3> QED BY <1>2, <1>3, <2>1, <2>2, <3>1 DEF TablesOK, InTables
  <2>4. DataOK'
    BY <1>2, <1>3, <2>1, EarlierKeepsData
  <2> QED BY <1>1, <1>4, <2>1, <2>2, <2>3, <2>4 DEF ImageInv, Phases
<1> QED BY <1>5, <1>6

LEMMA CollectingKeeps ==
  ASSUME ImageInv, Collect \/ CollectingEnds
  PROVE  ImageInv'
<1>1. BlocksOK'
  BY BlocksNext DEF ImageInv, Next
<1>2. TreeOK /\ NumbersOK /\ DataOK /\ TablesOK
  BY DEF ImageInv
<1>3. /\ phase = "collect" /\ phase' \in {"collect", "write"}
      /\ UNCHANGED <<tree, next, numbers, hlNum, tableVars>>
  BY DEF Collect, CollectingEnds, scanVars, numVars
<1>4. TreeOK'
  BY <1>2, <1>3, SameTree
<1>5. TablesOK' /\ Total' = Total
  BY <1>2, <1>3, TablesStayEmpty DEF InTables
<1>6. NumbersOK'
  BY <1>2, <1>3, <1>5, SameNumbers
<1>7. DataOK'
  BY <1>2, CollectKeeps, CollectingEndsKeeps
<1> QED BY <1>1, <1>3, <1>4, <1>5, <1>6, <1>7 DEF ImageInv, Phases

LEMMA WritingKeeps ==
  ASSUME ImageInv, WriteBlocks \/ AddFragment \/ WriteEmpty \/ WritingEnds
  PROVE  ImageInv'
<1>1. BlocksOK'
  BY BlocksNext DEF ImageInv, Next
<1>2. TreeOK /\ NumbersOK /\ DataOK /\ TablesOK
  BY DEF ImageInv
<1>3. phase = "write" /\ UNCHANGED <<tree, next, numbers, hlNum>>
  BY DEF WriteBlocks, AddFragment, WriteEmpty, WritingEnds, Writing, scanVars, numVars
<1>4. TreeOK'
  BY <1>2, <1>3, SameTree
<1>5. CASE WritingEnds
  <2>1. phase' = "tables"
    BY <1>5 DEF WritingEnds
  <2>2. TablesOK' /\ Total' = Total
    BY <1>5, TablesBegin
  <2>3. NumbersOK'
    BY <1>2, <1>3, <2>1, <2>2, SameNumbers
  <2>4. DataOK'
    BY <1>2, <1>5, WritingEndsKeeps
  <2> QED BY <1>1, <1>4, <2>1, <2>2, <2>3, <2>4 DEF ImageInv, Phases
<1>6. CASE WriteBlocks \/ AddFragment \/ WriteEmpty
  <2>1. /\ Writing /\ queue' = Tail(queue)
        /\ UNCHANGED <<phase, at, scanVars, firsts, copies, hlFirst, tableVars>>
    BY <1>6 DEF WriteBlocks, AddFragment, WriteEmpty
  <2>2. \E info : Placed(info)
    BY <1>6 DEF WriteBlocks, AddFragment, WriteEmpty
  <2>3. DataOK'
    BY <1>2, <2>1, <2>2, WrittenKeeps
  <2>4. TablesOK' /\ Total' = Total
    BY <1>2, <1>3, <2>1, TablesStayEmpty DEF InTables
  <2>5. NumbersOK'
    BY <1>2, <1>3, <2>1, <2>4, SameNumbers
  <2> QED BY <1>1, <1>3, <1>4, <2>1, <2>3, <2>4, <2>5 DEF ImageInv, Phases
<1> QED BY <1>5, <1>6

LEMMA TablesKeep ==
  ASSUME ImageInv, WriteFile \/ WriteSymlink \/ EnterDir \/ LeaveDir
  PROVE  ImageInv'
<1>1. BlocksOK'
  BY BlocksNext DEF ImageInv, Next
<1>2. TreeOK /\ NumbersOK /\ DataOK /\ TablesOK /\ phase = "tables"
  BY DEF ImageInv, WriteFile, WriteSymlink, EnterDir, LeaveDir, AtChild
<1>3. AtNode
  BY <1>2 DEF AtNode
<1>4. /\ TablesOK' /\ Total' = Total /\ InTables' /\ at' \in 2 .. Len(tree) + 1
      /\ UNCHANGED <<tree, next, numbers, hlNum, collVars, dataVars>>
  <2>1. CASE WriteFile \/ WriteSymlink
    BY <1>3, <2>1, LeafKeeps DEF InTables
  <2>2. CASE EnterDir
    BY <1>3, <2>2, EnterKeeps DEF InTables
  <2>3. CASE LeaveDir
    BY <1>3, <2>3, LeaveKeeps, TableTypes
  <2> QED BY <2>1, <2>2, <2>3
<1>5. TreeOK'
  BY <1>2, <1>4, SameTree
<1>6. phase' \in {"tables", "done"}
  BY <1>4 DEF InTables
<1>7. NumbersOK'
  BY <1>2, <1>4, <1>6, SameNumbers
<1>8. DataOK'
  BY <1>2, <1>4, TablesKeepData DEF InTables
<1> QED BY <1>1, <1>4, <1>5, <1>6, <1>7, <1>8 DEF ImageInv, Phases

LEMMA StutterKeeps ==
  ASSUME ImageInv, UNCHANGED vars
  PROVE  ImageInv'
<1>1. BlocksOK'
  BY BlocksNext DEF ImageInv
<1>2. UNCHANGED <<phase, tree, path, at, next, numbers, hlNum, queue, firsts, copies, hlFirst,
                  fileData, inodes, dirs, hlRef, stack, export>>
  BY DEF vars, scanVars, numVars, collVars, dataVars, tableVars
<1>3. TreeOK' /\ NumbersOK' /\ Total' = Total
  BY <1>2, SameTree, SameNumbers DEF ImageInv, Total
<1>4. phase = "scan" => PathOK'
  BY <1>2 DEF ImageInv, PathOK, IsDir
<1>5. \A k : IsFile(k)' = IsFile(k) /\ Linked(k)' = Linked(k) /\ IsDir(k)' = IsDir(k)
  BY <1>2 DEF IsFile, Linked, IsDir
<1>6. DataOK'
  <2>1. WithData' = WithData /\ Collected' = Collected
    BY <1>2 DEF WithData, Collected
  <2> QED BY <1>2, <1>5, <2>1 DEF ImageInv, DataOK
<1>7. TablesOK'
  <2>1. Finished' = Finished
    BY <1>2 DEF Finished
  <2>2. CASE InTables
    <3>1. StackOK' /\ InodesOK' /\ LinksOK'
      BY <1>2, <1>3, <1>5, <2>1, <2>2 DEF ImageInv, TablesOK, StackOK, InodesOK, LinksOK
    <3>2. Growing /\ KidsOK /\ DirsOK
      BY <1>2, <2>1, <2>2 DEF Growing, ImageInv, TablesOK
    <3>3. KidsOK'
      BY <1>2, <3>2, KidsStay
    <3>4. DirsOK'
      BY <1>2, <3>2, DirsStay
    <3> QED BY <1>2, <2>2, <3>1, <3>3, <3>4 DEF TablesOK, InTables
  <2>3. CASE ~InTables
    BY <1>2, <1>3, <2>3 DEF ImageInv, TablesOK, InTables
  <2> QED BY <2>2, <2>3
<1> QED BY <1>1, <1>2, <1>3, <1>4, <1>6, <1>7 DEF ImageInv

(* What the passes hand on to each other is there, whatever they did.      *)
THEOREM PassesKeepImage == Spec => []ImageInv
<1>1. Init => ImageInv
  BY ImageInit
<1>2. ImageInv /\ [Next]_vars => ImageInv'
  <2> SUFFICES ASSUME ImageInv, [Next]_vars PROVE ImageInv'
    OBVIOUS
  <2>1. CASE UNCHANGED vars
    BY <2>1, StutterKeeps
  <2>2. CASE Next
    BY <2>2, ScanningKeeps, NumberingKeeps, CollectingKeeps, WritingKeeps, TablesKeep,
       StutterKeeps
    DEF Next, Returned
  <2> QED BY <2>1, <2>2
<1> QED BY <1>1, <1>2, PTL DEF Spec

-----------------------------------------------------------------------------
(* What the invariant says of the image.                                   *)

(* The passes stay within the tree, buffer and blocks within their sizes,  *)
(* and a fragment that has an entry is in the image; create_squashfs never *)
(* looks for the data of a file that has none.                             *)
THEOREM ImageTypeCorrect == Spec => []TypeOK
<1>1. ImageInv => TypeOK
  <2> SUFFICES ASSUME ImageInv PROVE TypeOK
    OBVIOUS
  <2>1. /\ phase \in Phases /\ TreeOK /\ NumbersOK /\ DataOK /\ BlocksOK /\ TablesOK
        /\ Len(tree) \in 1 .. MaxNodes /\ MaxNodes \in Nat
    BY TreeTypes DEF ImageInv, TreeOK
  <2>2. at \in 2 .. Len(tree) + 1
    <3>1. CASE phase \in {"scan", "number"}
      BY <2>1, <3>1 DEF NumbersOK
    <3>2. CASE phase \in {"collect", "tables"}
      BY <2>1, <3>2 DEF DataOK
    <3>3. CASE phase = "write"
      BY <2>1, <3>3 DEF DataOK
    <3>4. CASE phase = "done"
      BY <2>1, <3>4 DEF TablesOK, InTables, StackOK
    <3> QED BY <2>1, <3>1, <3>2, <3>3, <3>4 DEF Phases
  <2>3. at \in 2 .. MaxNodes + 1
    BY <2>1, <2>2
  <2> QED BY <2>1, <2>3 DEF TypeOK, Phases, TreeOK, NumbersOK, BlocksOK
<1> QED BY <1>1, PassesKeepImage, PTL

(* When the tables are written every node is finished.                     *)
LEMMA AllFinished ==
  ASSUME ImageInv, Done
  PROVE  /\ TreeOK /\ NumbersOK /\ InodesOK /\ LinksOK /\ DirsOK
         /\ phase \notin {"scan", "number"} /\ Total \in Nat /\ Len(tree) \in Nat
         /\ Finished = 1 .. Len(tree)
<1>1. /\ TreeOK /\ NumbersOK /\ InodesOK /\ LinksOK /\ DirsOK /\ StackOK
      /\ phase = "done" /\ Len(tree) \in Nat
  BY TreeTypes DEF ImageInv, TablesOK, InTables, Done
<1>2. at = Len(tree) + 1 /\ stack = <<>>
  BY <1>1 DEF StackOK
<1>3. Finished = 1 .. Len(tree)
  <2>1. Len(stack) = 0 /\ at - 1 = Len(tree)
    BY <1>1, <1>2, EmptyFacts
  <2>2. \A i \in 1 .. Len(stack) : FALSE
    BY <2>1
  <2> QED BY <2>1, <2>2 DEF Finished
<1> QED BY <1>1, <1>3, TableNumbers

LEMMA InodeOfNumber ==
  ASSUME ImageInv, Done, NEW n \in 1 .. Total
  PROVE  /\ export[n] # NoRef
         /\ \E j \in 1 .. Len(inodes) :
              export[n] = RefOf(j) /\ inodes[j].number = n /\ InodeAt(export[n]) = inodes[j]
<1>1. PICK k \in 1 .. Len(tree) : numbers[k] = n
  BY AllFinished, TableNumbers
<1>2. export[n] # NoRef
  BY <1>1, AllFinished DEF LinksOK
<1>3. PICK j \in 1 .. Len(inodes) : export[n] = RefOf(j) /\ inodes[j].number = n
  BY <1>2, AllFinished DEF InodesOK
<1>4. j \in Nat \ {0}
  BY <1>3, AllFinished, SeqFacts DEF InodesOK
<1>5. InodeAt(export[n]) = inodes[j]
  BY <1>3, <1>4, InodeAtRef
<1> QED BY <1>2, <1>3, <1>5

(* Every number from 1 to inode_count is one inode's, and the export table *)
(* leads to it.                                                            *)
THEOREM ExportIsComplete == Spec => []ExportTableComplete
<1>1. ImageInv => ExportTableComplete
  <2> SUFFICES ASSUME ImageInv, Done
               PROVE  /\ Len(inodes) = Total
                      /\ \A n \in 1 .. Total :
                           export[n] # NoRef /\ InodeAt(export[n]).number = n
    BY DEF ExportTableComplete
  <2>1. \A n \in 1 .. Total : export[n] # NoRef /\ InodeAt(export[n]).number = n
    BY InodeOfNumber
  <2> DEFINE l == Len(inodes)
             f == [j \in 1 .. l |-> inodes[j].number]
  <2>2. /\ l \in Nat /\ Total \in Nat
        /\ \A j \in 1 .. l : inodes[j].number \in 1 .. Total
                             /\ export[inodes[j].number] = RefOf(j)
    BY AllFinished, SeqFacts DEF InodesOK
  <2>3. f \in [1 .. l -> 1 .. Total] /\ \A j \in 1 .. l : f[j] = inodes[j].number
    BY <2>2
  <2>4. ASSUME NEW i \in 1 .. l, NEW j \in 1 .. l, f[i] = f[j] PROVE i = j
    <3>1. RefOf(i) = RefOf(j) /\ i \in Nat \ {0} /\ j \in Nat \ {0}
      BY <2>2, <2>3, <2>4
    <3> QED BY <3>1, RefsDiffer
  <2>5. \A n \in 1 .. Total : \E j \in 1 .. l : f[j] = n
    BY <2>3, InodeOfNumber
  <2> HIDE DEF f, l
  <2>6. f \in Bijection(1 .. l, 1 .. Total)
    BY <2>3, <2>4, <2>5 DEF Bijection, Injection, Surjection, IsInjective
  <2>7. /\ IsFiniteSet(1 .. l) /\ Cardinality(1 .. l) = l /\ Cardinality(1 .. Total) = Total
    <3>1. /\ IsFiniteSet(1 .. l) /\ Cardinality(1 .. l) = IF 1 > l THEN 0 ELSE l - 1 + 1
          /\ Cardinality(1 .. Total) = IF 1 > Total THEN 0 ELSE Total - 1 + 1
      BY <2>2, FS_Interval
    <3> QED BY <2>2, <3>1
  <2>8. Cardinality(1 .. Total) = Cardinality(1 .. l)
    BY <2>6, <2>7, FS_Bijection DEF ExistsBijection
  <2> QED BY <2>1, <2>7, <2>8 DEF l
<1> QED BY <1>1, PassesKeepImage, PTL

-----------------------------------------------------------------------------
(* The concatenations of FlattenSeq, one after the other.                  *)
Flattens(ss, f, m) ==
  f[1] = ss[1] /\ \A i \in 2 .. m : f[i] = f[i - 1] \o ss[i]

LEMMA FlattensExist ==
  ASSUME NEW ss
  PROVE  \A m \in Nat : \E f : Flattens(ss, f, m)
<1> DEFINE S == {m \in Nat : \E f : Flattens(ss, f, m)}
<1>1. 0 \in S
  <2> DEFINE f == [i \in {1} |-> ss[1]]
  <2>1. f[1] = ss[1] /\ \A i \in 2 .. 0 : FALSE
    OBVIOUS
  <2> QED BY <2>1 DEF Flattens
<1>2. ASSUME NEW m \in Nat, m \in S PROVE m + 1 \in S
  <2>1. PICK f : Flattens(ss, f, m)
    BY <1>2
  <2> DEFINE joined == f[m] \o ss[m + 1]
             new    == IF m = 0 THEN ss[1] ELSE joined
             e      == [i \in 1 .. m + 1 |-> IF i = m + 1 THEN new ELSE f[i]]
  <2> HIDE DEF joined
  <2>2. e[m + 1] = new /\ \A i \in 1 .. m : e[i] = f[i]
    <3> HIDE DEF new
    <3> QED OBVIOUS
  <2> HIDE DEF e
  <2>3. e[1] = ss[1]
    <3>1. CASE m = 0
      BY <2>2, <3>1
    <3>2. CASE m # 0
      <4>1. 1 \in 1 .. m
        BY <3>2
      <4> QED BY <2>1, <2>2, <4>1 DEF Flattens
    <3> QED BY <3>1, <3>2
  <2>4. ASSUME NEW i \in 2 .. m + 1 PROVE e[i] = e[i - 1] \o ss[i]
    <3>1. CASE i = m + 1
      <4>1. m # 0 /\ i - 1 = m /\ m \in 1 .. m
        BY <3>1
      <4>2. e[i - 1] = f[m] /\ e[i] = joined
        BY <2>2, <3>1, <4>1
      <4> QED BY <3>1, <4>2 DEF joined
    <3>2. CASE i # m + 1
      <4>1. i \in 2 .. m /\ i \in 1 .. m /\ i - 1 \in 1 .. m
        BY <3>2
      <4>2. e[i] = f[i] /\ e[i - 1] = f[i - 1]
        BY <2>2, <4>1
      <4>3. f[i] = f[i - 1] \o ss[i]
        BY <2>1, <4>1 DEF Flattens
      <4> QED BY <4>2, <4>3
    <3> QED BY <3>1, <3>2
  <2>5. Flattens(ss, e, m + 1)
    BY <2>3, <2>4 DEF Flattens
  <2> QED BY <2>5
<1> HIDE DEF S
<1>3. Nat \subseteq S
  BY <1>1, <1>2, Induction
<1> QED BY <1>3 DEF S

LEMMA FlattenIs ==
  ASSUME NEW ss, NEW n \in Nat, n # 0, Len(ss) = n
  PROVE  \E f : Flattens(ss, f, n) /\ FlattenSeq(ss) = f[n]
<1> DEFINE g == CHOOSE g : g = [i \in 1 .. n |-> IF i = 1 THEN ss[i] ELSE g[i - 1] \o ss[i]]
<1>1. FlattenSeq(ss) = g[n]
  BY DEF FlattenSeq
<1>2. PICK f : Flattens(ss, f, n)
  BY FlattensExist
<1> DEFINE h == [i \in 1 .. n |-> f[i]]
<1>3. ASSUME NEW i \in 1 .. n
      PROVE  h[i] = IF i = 1 THEN ss[i] ELSE h[i - 1] \o ss[i]
  <2>1. CASE i = 1
    BY <1>2, <2>1 DEF Flattens
  <2>2. CASE i # 1
    <3>1. i \in 2 .. n /\ i - 1 \in 1 .. n
      BY <2>2
    <3>2. f[i] = f[i - 1] \o ss[i]
      BY <1>2, <3>1 DEF Flattens
    <3>3. h[i] = f[i] /\ h[i - 1] = f[i - 1]
      BY <3>1
    <3> QED BY <2>2, <3>2, <3>3
  <2> QED BY <2>1, <2>2
<1>4. h = [i \in 1 .. n |-> IF i = 1 THEN ss[i] ELSE h[i - 1] \o ss[i]]
  BY <1>3
<1> HIDE DEF h
<1>5. g = [i \in 1 .. n |-> IF i = 1 THEN ss[i] ELSE g[i - 1] \o ss[i]]
  BY <1>4
<1> HIDE DEF g
<1>6. Flattens(ss, g, n)
  <2>1. g[1] = ss[1]
    <3>1. 1 \in 1 .. n
      OBVIOUS
    <3> QED BY <1>5, <3>1
  <2>2. ASSUME NEW i \in 2 .. n PROVE g[i] = g[i - 1] \o ss[i]
    <3>1. i \in 1 .. n /\ i # 1
      OBVIOUS
    <3> QED BY <1>5, <3>1
  <2> QED BY <2>1, <2>2 DEF Flattens
<1> QED BY <1>1, <1>6

LEMMA JoinElements ==
  ASSUME NEW s, NEW t, IsSeq(s), IsSeq(t)
  PROVE  IsSeq(s \o t) /\ ToSet(s \o t) \subseteq ToSet(s) \cup ToSet(t)
<1> DEFINE S == ToSet(s) \cup ToSet(t)
<1>1. s \in Seq(S) /\ t \in Seq(S)
  BY SeqMonotonic DEF IsSeq
<1> HIDE DEF S
<1>2. s \o t \in Seq(S)
  BY <1>1, ConcatProperties
<1> QED BY <1>2, WidenSeq DEF S

(* A flattened sequence has the elements of its parts.                     *)
LEMMA FlattenElements ==
  ASSUME NEW ss, NEW n \in Nat, Len(ss) = n, IsSeq(ss), \A i \in 1 .. n : IsSeq(ss[i]),
         NEW x \in ToSet(FlattenSeq(ss))
  PROVE  \E i \in 1 .. n : x \in ToSet(ss[i])
<1>1. CASE n = 0
  <2>1. FlattenSeq(ss) = ss /\ ss = <<>>
    BY <1>1, EmptySeq DEF FlattenSeq, IsSeq
  <2> QED BY <2>1, EmptyFacts
<1>2. CASE n # 0
  <2>1. PICK f : Flattens(ss, f, n) /\ FlattenSeq(ss) = f[n]
    BY <1>2, FlattenIs
  <2> DEFINE Good(i) == IsSeq(f[i]) /\ \A y \in ToSet(f[i]) : \E j \in 1 .. n : y \in ToSet(ss[j])
             S == {i \in Nat : i + 1 <= n => Good(i + 1)}
  <2>2. 0 \in S
    <3>1. 1 \in 1 .. n /\ f[1] = ss[1] /\ 0 + 1 = 1
      BY <1>2, <2>1 DEF Flattens
    <3>2. Good(1)
      BY <3>1
    <3> HIDE DEF Good
    <3> QED BY <3>1, <3>2
  <2>3. ASSUME NEW i \in Nat, i \in S PROVE i + 1 \in S
    <3> SUFFICES ASSUME (i + 1) + 1 <= n PROVE Good((i + 1) + 1)
      <4> HIDE DEF Good
      <4> QED OBVIOUS
    <3> DEFINE m == i + 1
    <3>1. m + 1 \in 2 .. n /\ (m + 1) - 1 = m /\ m <= n /\ m + 1 \in 1 .. n
      OBVIOUS
    <3>2. f[m + 1] = f[m] \o ss[m + 1]
      <4>1. \A k \in 2 .. n : f[k] = f[k - 1] \o ss[k]
        BY <2>1 DEF Flattens
      <4> HIDE DEF m
      <4> QED BY <3>1, <4>1
    <3>3. Good(m)
      <4> HIDE DEF Good
      <4> QED BY <2>3, <3>1
    <3> HIDE DEF m
    <3>4. IsSeq(ss[m + 1])
      BY <3>1
    <3>5. IsSeq(f[m + 1]) /\ ToSet(f[m + 1]) \subseteq ToSet(f[m]) \cup ToSet(ss[m + 1])
      BY <3>2, <3>3, <3>4, JoinElements
    <3>6. Good(m + 1)
      BY <3>1, <3>3, <3>5
    <3> QED BY <3>6 DEF m
  <2>4. n - 1 \in S /\ (n - 1) + 1 = n
    <3>1. n - 1 \in Nat /\ (n - 1) + 1 = n
      BY <1>2
    <3> HIDE DEF S
    <3> QED BY <2>2, <2>3, <3>1, Induction
  <2>5. Good(n)
    <3> HIDE DEF Good
    <3> QED BY <2>4
  <2> QED BY <2>1, <2>5
<1> QED BY <1>1, <1>2

(* What read_dir finds refers to nodes as their parents did.               *)
LEMMA ReadEntriesRefer ==
  ASSUME ImageInv, Done, NEW d \in Entries
  PROVE  Refers(d.name, d.ref)
<1>1. PICK i \in ToSet(inodes) : i.kind = "dir" /\ d \in ToSet(ReadDir(i))
  BY DEF Entries
<1>2. i.dir \in 1 .. Len(dirs) /\ DirsOK
  <2>1. PICK j \in 1 .. Len(inodes) : i = inodes[j]
    BY AllFinished, SeqFacts DEF ToSet, InodesOK
  <2> QED BY <1>1, <2>1, AllFinished DEF InodesOK
<1> DEFINE groups == dirs[i.dir]
           n  == Len(groups)
           ss == [g \in 1 .. n |-> ReadGroup(groups[g])]
<1>3. GroupsRefer(groups) /\ IsSeq(groups) /\ n \in Nat
  BY <1>2, SeqFacts DEF DirsOK, GroupsRefer
<1>4. ReadDir(i) = FlattenSeq(ss)
  BY DEF ReadDir
<1> HIDE DEF n
<1>5. \A g \in 1 .. n : ss[g] = ReadGroup(groups[g])
  OBVIOUS
<1>6. ss = [g \in 1 .. n |-> ss[g]]
  OBVIOUS
<1> HIDE DEF ss, groups
<1>7. IsSeq(ss) /\ Len(ss) = n
  BY <1>3, <1>6, FunIsSeq
<1>8. ASSUME NEW g \in 1 .. n
      PROVE  /\ IsSeq(ss[g])
             /\ \A x \in ToSet(ss[g]) : Refers(x.name, x.ref)
  <2> DEFINE es == groups[g].entries
             m  == Len(es)
  <2>1. /\ IsSeq(es) /\ m \in Nat
        /\ \A e \in 1 .. m : Refers(es[e].name, <<groups[g].block, es[e].off>>)
    BY <1>3, SeqFacts DEF GroupsRefer, n
  <2>2. ss[g] = [e \in 1 .. m |-> ReadEntry(groups[g], es[e])]
    BY <1>5 DEF ReadGroup
  <2>3. \A e \in 1 .. m : /\ ReadEntry(groups[g], es[e]).name = es[e].name
                          /\ ReadEntry(groups[g], es[e]).ref = <<groups[g].block, es[e].off>>
    BY DEF ReadEntry
  <2> HIDE DEF es, m
  <2>4. ss[g] = [e \in 1 .. m |-> ss[g][e]] /\ DOMAIN ss[g] = 1 .. m
    BY <2>2
  <2>5. IsSeq(ss[g])
    BY <2>1, <2>4, FunIsSeq
  <2>6. ASSUME NEW x \in ToSet(ss[g]) PROVE Refers(x.name, x.ref)
    <3>1. PICK e \in 1 .. m : x = ss[g][e]
      BY <2>4 DEF ToSet
    <3> QED BY <2>1, <2>2, <2>3, <3>1, ZenonT(60)
  <2> QED BY <2>5, <2>6
<1>9. PICK g \in 1 .. n : d \in ToSet(ss[g])
  BY <1>1, <1>3, <1>4, <1>7, <1>8, FlattenElements
<1> QED BY <1>8, <1>9

(* The names of one file of the host, and only they, share an inode.       *)
THEOREM LinksShareTheirInode == Spec => []LinksShareInode
<1>1. ImageInv => LinksShareInode
  <2> SUFFICES ASSUME ImageInv, Done, NEW d \in Entries, NEW e \in Entries
               PROVE  d.ref = e.ref <=> \/ d.name = e.name
                                        \/ SameFile(d.name, e.name)
    BY DEF LinksShareInode, SameFile
  <2>1. /\ d.name \in 1 .. Len(tree) /\ d.ref = export[numbers[d.name]]
        /\ e.name \in 1 .. Len(tree) /\ e.ref = export[numbers[e.name]]
    BY AllFinished, ReadEntriesRefer DEF Refers
  <2> DEFINE m == numbers[d.name]
             n == numbers[e.name]
  <2>2. m \in 1 .. Total /\ n \in 1 .. Total
    BY <2>1, AllFinished, TableNumbers
  <2>3. m = n <=> d.name = e.name \/ SameFile(d.name, e.name)
    <3>1. m = n => d.name = e.name \/ SameFile(d.name, e.name)
      BY <2>1, AllFinished, TableNumbers
    <3>2. ASSUME SameFile(d.name, e.name) PROVE m = n
      <4>1. \A k \in 1 .. Len(tree) : Linked(k) => hlNum[tree[k].host] = numbers[k]
        BY AllFinished, TableNumbers
      <4> QED BY <2>1, <3>2, <4>1 DEF SameFile
    <3> QED BY <3>1, <3>2
  <2> HIDE DEF m, n
  <2>4. ASSUME export[m] = export[n] PROVE m = n
    <3>1. PICK i \in 1 .. Len(inodes) : export[m] = RefOf(i) /\ inodes[i].number = m
      BY <2>2, InodeOfNumber
    <3>2. PICK j \in 1 .. Len(inodes) : export[n] = RefOf(j) /\ inodes[j].number = n
      BY <2>2, InodeOfNumber
    <3>3. i \in Nat \ {0} /\ j \in Nat \ {0}
      BY <3>1, <3>2, AllFinished, SeqFacts DEF InodesOK
    <3>4. i = j
      BY <2>4, <3>1, <3>2, <3>3, RefsDiffer
    <3> QED BY <3>1, <3>2, <3>4
  <2> QED BY <2>1, <2>3, <2>4 DEF m, n
<1> QED BY <1>1, PassesKeepImage, PTL

-----------------------------------------------------------------------------
(* What the reader finds.                                                  *)

(* The contents are those of the first files.                              *)
SourcesOK ==
  /\ \A j, k \in 1 .. Len(tree) : SameFile(j, k) => tree[j].content = tree[k].content
  /\ \A l \in Links : hlFirst[l] # NoNode =>
       /\ hlFirst[l] \in 1 .. Len(tree) /\ Linked(hlFirst[l]) /\ tree[hlFirst[l]].host = l
  /\ \A c \in copies : tree[c[1]].content = tree[c[2]].content
  /\ phase \in {"scan", "number"} => copies = {}

(* No two blocks lie at one place, and the next is written behind them.    *)
OutIs(o, p) ==
  /\ p \in Nat
  /\ \A b \in o : b.at \in Nat /\ b.at < p /\ IsSeq(b.bytes)
  /\ \A b, c \in o : b.at = c.at => b = c

OutOK == OutIs(out, pos)

(* Where a file's bytes are, in blocks o, with the fragment entries fs and *)
(* the fragments bs that are not written yet.                              *)
StoredIn(o, off, size) == {b \in o : b.at = off /\ b.stored = size}

FragmentIn(o, fs, bs, f) ==
  IF f < Len(fs) THEN (CHOOSE b \in StoredIn(o, fs[f + 1].start, fs[f + 1].size) : TRUE).bytes
  ELSE bs

InFragment(o, fs, bs, info, c) ==
  /\ info.size \in 1 .. BlockSize - 1 /\ info.sizes = <<>> /\ info.start \in Nat
  /\ info.frag \in 0 .. Len(fs) /\ info.off \in Nat
  /\ info.off + info.size <= Len(FragmentIn(o, fs, bs, info.frag))
  /\ \A i \in 1 .. info.size : FragmentIn(o, fs, bs, info.frag)[info.off + i] = c[i]

InBlocks(o, info, c) ==
  /\ info.frag = NoFragment /\ info.start \in Nat
  /\ IsSeq(info.sizes) /\ Len(info.sizes) = BlockCount(info.size)
  /\ info.size = 0 \/ info.size >= BlockSize
  /\ \A i \in 1 .. BlockCount(info.size) :
       /\ info.sizes[i] \in Nat
       /\ IF info.sizes[i] = 0 THEN Sparse(BlockOf(c, i))
          ELSE [at |-> info.start + SumTo(info.sizes, i - 1), stored |-> info.sizes[i],
                bytes |-> BlockOf(c, i)] \in o

HeldIn(o, fs, bs, info, c) ==
  /\ c \in Contents \cup {<<>>} /\ info.size = Len(c)
  /\ InBlocks(o, info, c) \/ InFragment(o, fs, bs, info, c)

(* The image has the bytes where info says.                                *)
Holds(info, c) == HeldIn(out, frags, buf, info, c)

FilesOK ==
  /\ phase \in {"scan", "number", "collect"} => fileData = <<>>
  /\ \A k \in DOMAIN fileData : Holds(fileData[k], tree[k].content)

(* The directories that write_tables_dfs is in lie in each other, and what *)
(* came since one was entered is in it.                                    *)
StackPaths ==
  \A i \in 1 .. Len(stack) :
    /\ i # 1 => tree[stack[i].dir].parent = stack[i - 1].dir
    /\ \A j \in stack[i].dir + 1 .. at - 1 : tree[j].parent >= stack[i].dir

(* The state that entries refer to: the nodes that are finished, the       *)
(* references and the numbers.                                             *)
EntryIs(e, fin, refs, nums, t) ==
  /\ e = [name |-> e.name, number |-> e.number, ref |-> <<e.ref[1], e.ref[2]>>, kind |-> e.kind]
  /\ e.name \in fin /\ e.ref = refs[nums[e.name]]
  /\ e.number = nums[e.name] /\ e.kind = t[e.name].kind

(* The entries are those of the nodes, in their order.                     *)
Lists(es, nodes, fin, refs, nums, t) ==
  /\ IsSeq(es) /\ \A e \in ToSet(es) : EntryIs(e, fin, refs, nums, t)
  /\ {e.name : e \in ToSet(es)} = nodes
  /\ \A n \in 2 .. Len(es) : es[n - 1].name < es[n].name

FinishedIn(d) == {k \in Finished : tree[k].parent = d}

KidsListed ==
  \A i \in 1 .. Len(stack) :
    Lists(stack[i].kids, FinishedIn(stack[i].dir), Finished, export, numbers, tree)

(* The entries of all groups.                                              *)
EntriesIn(groups) == FlattenSeq([g \in 1 .. Len(groups) |-> ReadGroup(groups[g])])

(* A directory's inode leads to the directory's entries and its parent.    *)
DirIs(i, nodes, parent, ds, fin, refs, nums, t) ==
  /\ i.dir \in 1 .. Len(ds) /\ Lists(EntriesIn(ds[i.dir]), nodes, fin, refs, nums, t)
  /\ i.parent = parent

(* The inode has what the node has.                                        *)
InodeOf(k, i) ==
  /\ i.kind = tree[k].kind
  /\ i.kind = "file" => HeldIn(out, frags, buf, i, tree[k].content)
  /\ i.kind = "dir" =>
       DirIs(i, Kids(k), ParentNumber(k), dirs, Finished, export, numbers, tree)

NodesOK ==
  \A j \in 1 .. Len(inodes) : \A k \in Finished :
    inodes[j].number = numbers[k] => InodeOf(k, inodes[j])

ReadInv ==
  /\ ImageInv /\ SourcesOK /\ OutOK /\ FilesOK
  /\ InTables => StackPaths /\ KidsListed /\ NodesOK
  /\ Done => root = export[numbers[1]] /\ buf = <<>>
  /\ phase = "tables" => buf = <<>>

-----------------------------------------------------------------------------
(* Sequences of bytes.                                                     *)

LEMMA JoinFacts ==
  ASSUME NEW s, NEW t, IsSeq(s), IsSeq(t)
  PROVE  /\ IsSeq(s \o t) /\ Len(s \o t) = Len(s) + Len(t)
         /\ \A i \in 1 .. Len(s) : (s \o t)[i] = s[i]
         /\ \A i \in 1 .. Len(t) : (s \o t)[Len(s) + i] = t[i]
<1> DEFINE S == ToSet(s) \cup ToSet(t)
<1>1. s \in Seq(S) /\ t \in Seq(S) /\ Len(s) \in Nat /\ Len(t) \in Nat
  BY SeqMonotonic, SeqFacts DEF IsSeq
<1> HIDE DEF S
<1>2. /\ s \o t \in Seq(S) /\ Len(s \o t) = Len(s) + Len(t)
      /\ \A i \in 1 .. Len(s) + Len(t) : (s \o t)[i] = IF i <= Len(s) THEN s[i] ELSE t[i - Len(s)]
  BY <1>1, ConcatProperties
<1> DEFINE w == s \o t
<1>3. \A i \in 1 .. Len(s) + Len(t) : w[i] = IF i <= Len(s) THEN s[i] ELSE t[i - Len(s)]
  BY <1>2
<1> HIDE DEF w
<1>4. \A i \in 1 .. Len(s) : w[i] = s[i]
  BY <1>1, <1>3
<1>5. ASSUME NEW i \in 1 .. Len(t) PROVE w[Len(s) + i] = t[i]
  <2>1. Len(s) + i \in 1 .. Len(s) + Len(t) /\ ~(Len(s) + i <= Len(s)) /\ (Len(s) + i) - Len(s) = i
    BY <1>1
  <2> QED BY <1>3, <2>1
<1> QED BY <1>2, <1>4, <1>5, WidenSeq DEF w

LEMMA SameSeq ==
  ASSUME NEW s, NEW t, IsSeq(s), IsSeq(t), Len(s) = Len(t), \A i \in 1 .. Len(s) : s[i] = t[i]
  PROVE  s = t
<1>1. s = [i \in 1 .. Len(s) |-> s[i]] /\ t = [i \in 1 .. Len(s) |-> t[i]]
  BY SeqFacts
<1>2. [i \in 1 .. Len(s) |-> s[i]] = [i \in 1 .. Len(s) |-> t[i]]
  OBVIOUS
<1> QED BY <1>1, <1>2

-----------------------------------------------------------------------------
(* The sizes of a file's blocks, added up.                                 *)

Sums(sizes, f, m) ==
  f[0] = 0 /\ \A i \in 1 .. m : f[i] = f[i - 1] + sizes[i]

LEMMA SumsExist ==
  ASSUME NEW sizes
  PROVE  \A m \in Nat : \E f : Sums(sizes, f, m)
<1> DEFINE S == {m \in Nat : \E f : Sums(sizes, f, m)}
<1>1. 0 \in S
  <2>1. Sums(sizes, [i \in {0} |-> 0], 0)
    BY DEF Sums
  <2> QED BY <2>1
<1>2. ASSUME NEW m \in Nat, m \in S PROVE m + 1 \in S
  <2>1. PICK f : Sums(sizes, f, m)
    BY <1>2
  <2> DEFINE new == f[m] + sizes[m + 1]
             e   == [i \in 0 .. m + 1 |-> IF i = m + 1 THEN new ELSE f[i]]
  <2>2. e[m + 1] = new /\ \A i \in 0 .. m : e[i] = f[i]
    <3> HIDE DEF new
    <3> QED OBVIOUS
  <2> HIDE DEF e
  <2>3. e[0] = 0
    BY <2>1, <2>2 DEF Sums
  <2>4. ASSUME NEW i \in 1 .. m + 1 PROVE e[i] = e[i - 1] + sizes[i]
    <3>1. CASE i = m + 1
      <4>1. i - 1 = m /\ m \in 0 .. m
        BY <3>1
      <4> QED BY <2>2, <3>1, <4>1
    <3>2. CASE i # m + 1
      <4>1. i \in 1 .. m /\ i \in 0 .. m /\ i - 1 \in 0 .. m
        BY <3>2
      <4> QED BY <2>1, <2>2, <4>1 DEF Sums
    <3> QED BY <3>1, <3>2
  <2>5. Sums(sizes, e, m + 1)
    BY <2>3, <2>4 DEF Sums
  <2> QED BY <2>5
<1> HIDE DEF S
<1>3. Nat \subseteq S
  BY <1>1, <1>2, Induction
<1> QED BY <1>3 DEF S

LEMMA SumIsLast ==
  ASSUME NEW sizes, NEW n \in Nat
  PROVE  \E f : Sums(sizes, f, n) /\ SumTo(sizes, n) = f[n]
<1> DEFINE g == CHOOSE g : g = [i \in 0 .. n |-> IF i = 0 THEN 0 ELSE g[i - 1] + sizes[i]]
<1>1. SumTo(sizes, n) = g[n]
  BY DEF SumTo
<1>2. PICK f : Sums(sizes, f, n)
  BY SumsExist
<1> DEFINE h == [i \in 0 .. n |-> f[i]]
<1>3. ASSUME NEW i \in 0 .. n
      PROVE  h[i] = IF i = 0 THEN 0 ELSE h[i - 1] + sizes[i]
  <2>1. CASE i = 0
    BY <1>2, <2>1 DEF Sums
  <2>2. CASE i # 0
    <3>1. i \in 1 .. n /\ i - 1 \in 0 .. n
      BY <2>2
    <3> QED BY <1>2, <2>2, <3>1 DEF Sums
  <2> QED BY <2>1, <2>2
<1>4. h = [i \in 0 .. n |-> IF i = 0 THEN 0 ELSE h[i - 1] + sizes[i]]
  BY <1>3, ZenonT(30)
<1> HIDE DEF h
<1>5. g = [i \in 0 .. n |-> IF i = 0 THEN 0 ELSE g[i - 1] + sizes[i]]
  BY <1>4, ZenonT(30)
<1> HIDE DEF g
<1>6. Sums(sizes, g, n)
  <2>1. g[0] = 0
    <3>1. 0 \in 0 .. n
      OBVIOUS
    <3> QED BY <1>5, <3>1
  <2>2. ASSUME NEW i \in 1 .. n PROVE g[i] = g[i - 1] + sizes[i]
    <3>1. i \in 0 .. n /\ i # 0
      OBVIOUS
    <3> QED BY <1>5, <3>1
  <2> QED BY <2>1, <2>2 DEF Sums
<1> QED BY <1>1, <1>6

LEMMA SumsAgree ==
  ASSUME NEW sizes, NEW f, NEW g, NEW m \in Nat, Sums(sizes, f, m), Sums(sizes, g, m)
  PROVE  f[m] = g[m]
<1> DEFINE S == {i \in Nat : i <= m => f[i] = g[i]}
<1>1. 0 \in S
  BY DEF Sums
<1>2. ASSUME NEW i \in Nat, i \in S PROVE i + 1 \in S
  <2> SUFFICES ASSUME i + 1 <= m PROVE f[i + 1] = g[i + 1]
    OBVIOUS
  <2>1. i + 1 \in 1 .. m /\ (i + 1) - 1 = i /\ i <= m
    OBVIOUS
  <2>2. f[i] = g[i]
    BY <1>2, <2>1
  <2>3. f[i + 1] = f[i] + sizes[i + 1] /\ g[i + 1] = g[i] + sizes[i + 1]
    BY <2>1 DEF Sums
  <2> QED BY <2>2, <2>3
<1> HIDE DEF S
<1>3. m \in S
  BY <1>1, <1>2, Induction
<1> QED BY <1>3 DEF S

LEMMA SumFacts ==
  ASSUME NEW n \in Nat, NEW sizes \in [1 .. n -> Nat]
  PROVE  /\ SumTo(sizes, 0) = 0
         /\ \A m \in 1 .. n : SumTo(sizes, m) = SumTo(sizes, m - 1) + sizes[m]
         /\ \A m \in 0 .. n : SumTo(sizes, m) \in Nat
<1>1. SumTo(sizes, 0) = 0
  BY SumIsLast DEF Sums
<1>2. ASSUME NEW m \in 1 .. n PROVE SumTo(sizes, m) = SumTo(sizes, m - 1) + sizes[m]
  <2>0. m \in Nat /\ m - 1 \in Nat /\ m \in 1 .. m /\ \A i \in 1 .. m - 1 : i \in 1 .. m
    OBVIOUS
  <2>1. PICK f : Sums(sizes, f, m) /\ SumTo(sizes, m) = f[m]
    BY <2>0, SumIsLast
  <2>2. PICK g : Sums(sizes, g, m - 1) /\ SumTo(sizes, m - 1) = g[m - 1]
    BY <2>0, SumIsLast
  <2>3. Sums(sizes, f, m - 1)
    BY <2>0, <2>1 DEF Sums
  <2>4. f[m - 1] = g[m - 1]
    BY <2>0, <2>2, <2>3, SumsAgree
  <2>5. f[m] = f[m - 1] + sizes[m]
    BY <2>0, <2>1 DEF Sums
  <2> QED BY <2>1, <2>2, <2>4, <2>5
<1> DEFINE S == {m \in Nat : m <= n => SumTo(sizes, m) \in Nat}
<1>3. 0 \in S
  BY <1>1
<1>4. ASSUME NEW m \in Nat, m \in S PROVE m + 1 \in S
  <2> SUFFICES ASSUME m + 1 <= n PROVE SumTo(sizes, m + 1) \in Nat
    OBVIOUS
  <2>1. m + 1 \in 1 .. n /\ (m + 1) - 1 = m /\ m <= n
    OBVIOUS
  <2>2. SumTo(sizes, m) \in Nat /\ sizes[m + 1] \in Nat
    BY <1>4, <2>1
  <2>3. SumTo(sizes, m + 1) = SumTo(sizes, m) + sizes[m + 1]
    BY <1>2, <2>1
  <2> QED BY <2>2, <2>3
<1> HIDE DEF S
<1>5. Nat \subseteq S
  BY <1>3, <1>4, Induction
<1>6. \A m \in 0 .. n : SumTo(sizes, m) \in Nat
  BY <1>5 DEF S
<1> QED BY <1>1, <1>2, <1>6

(* Later sums are no less.                                                 *)
LEMMA SumsGrow ==
  ASSUME NEW n \in Nat, NEW sizes \in [1 .. n -> Nat], NEW a \in 0 .. n, NEW b \in a .. n
  PROVE  SumTo(sizes, a) <= SumTo(sizes, b)
<1> DEFINE S == {k \in Nat : a + k <= n => SumTo(sizes, a) <= SumTo(sizes, a + k)}
<1>1. /\ \A m \in 1 .. n : SumTo(sizes, m) = SumTo(sizes, m - 1) + sizes[m]
      /\ \A m \in 0 .. n : SumTo(sizes, m) \in Nat
  BY SumFacts
<1>2. 0 \in S
  <2>1. a + 0 = a /\ SumTo(sizes, a) \in Nat
    BY <1>1
  <2> QED BY <2>1
<1>3. ASSUME NEW k \in Nat, k \in S PROVE k + 1 \in S
  <2> SUFFICES ASSUME a + (k + 1) <= n PROVE SumTo(sizes, a) <= SumTo(sizes, a + (k + 1))
    OBVIOUS
  <2>1. a + (k + 1) \in 1 .. n /\ (a + (k + 1)) - 1 = a + k /\ a + k <= n /\ a + k \in 0 .. n
    OBVIOUS
  <2>2. SumTo(sizes, a) <= SumTo(sizes, a + k)
    BY <1>3, <2>1
  <2>3. SumTo(sizes, a + (k + 1)) = SumTo(sizes, a + k) + sizes[a + (k + 1)]
        /\ sizes[a + (k + 1)] \in Nat
    BY <1>1, <2>1
  <2>4. SumTo(sizes, a) \in Nat /\ SumTo(sizes, a + k) \in Nat
    BY <1>1, <2>1
  <2> QED BY <2>2, <2>3, <2>4
<1> HIDE DEF S
<1>4. b - a \in Nat /\ a + (b - a) = b /\ b <= n
  OBVIOUS
<1>5. b - a \in S
  BY <1>2, <1>3, <1>4, Induction
<1> QED BY <1>4, <1>5 DEF S

-----------------------------------------------------------------------------
(* The data area, while it grows.                                          *)

Prefix(s, t) ==
  Len(s) \in Nat /\ Len(t) \in Nat /\ Len(s) <= Len(t) /\ \A i \in 1 .. Len(s) : t[i] = s[i]

(* Blocks are only added, behind the others.                               *)
MoreOut(o, p, o2) ==
  OutIs(o, p) /\ o \subseteq o2 /\ \A b \in o2 \ o : b.at \in Nat /\ p <= b.at

(* Entries are only added, and there are blocks for those there are.       *)
MoreFrags(o, fs, fs2) ==
  /\ Len(fs) \in Nat /\ Len(fs2) \in Nat /\ Len(fs) <= Len(fs2)
  /\ \A i \in 1 .. Len(fs) : fs2[i] = fs[i] /\ StoredIn(o, fs[i].start, fs[i].size) # {}

(* The fragments are where they were.                                      *)
KeepsFragments(o, fs, bs, o2, fs2, bs2) ==
  \A f \in 0 .. Len(fs) : Prefix(FragmentIn(o, fs, bs, f), FragmentIn(o2, fs2, bs2, f))

(* What is held in the data area stays there.                              *)
LEMMA HeldStays ==
  ASSUME NEW o, NEW fs, NEW bs, NEW o2, NEW fs2, NEW bs2,
         Len(fs) \in Nat, Len(fs2) \in Nat, Len(fs) <= Len(fs2), o \subseteq o2,
         KeepsFragments(o, fs, bs, o2, fs2, bs2),
         NEW info, NEW c, HeldIn(o, fs, bs, info, c)
  PROVE  HeldIn(o2, fs2, bs2, info, c)
<1>1. CASE InBlocks(o, info, c)
  <2>1. InBlocks(o2, info, c)
    BY <1>1 DEF InBlocks
  <2> QED BY <2>1 DEF HeldIn
<1>2. CASE InFragment(o, fs, bs, info, c)
  <2> DEFINE s == FragmentIn(o, fs, bs, info.frag)
             t == FragmentIn(o2, fs2, bs2, info.frag)
  <2>1. /\ info.size \in 1 .. BlockSize - 1 /\ info.sizes = <<>> /\ info.start \in Nat
        /\ info.frag \in 0 .. Len(fs) /\ info.off \in Nat
        /\ info.off + info.size <= Len(s) /\ \A i \in 1 .. info.size : s[info.off + i] = c[i]
    BY <1>2 DEF InFragment
  <2>2. Prefix(s, t)
    BY <2>1 DEF KeepsFragments
  <2>3. BlockSize \in Nat
    BY SizesAssumption
  <2> HIDE DEF s, t
  <2>4. info.off + info.size <= Len(t) /\ info.frag \in 0 .. Len(fs2)
    BY <2>1, <2>2, <2>3, SMTT(60) DEF Prefix
  <2>5. ASSUME NEW i \in 1 .. info.size PROVE t[info.off + i] = c[i]
    <3>1. info.off + i \in 1 .. Len(s)
      BY <2>1, <2>2, <2>3, SMTT(60) DEF Prefix
    <3> QED BY <2>1, <2>2, <3>1 DEF Prefix
  <2>6. InFragment(o2, fs2, bs2, info, c)
    BY <2>1, <2>4, <2>5 DEF InFragment, t
  <2> QED BY <2>6 DEF HeldIn
<1> QED BY <1>1, <1>2 DEF HeldIn

(* What was written is found again when more is behind it.                 *)
LEMMA StoredStays ==
  ASSUME NEW o, NEW p, NEW o2, MoreOut(o, p, o2), NEW off, NEW size, StoredIn(o, off, size) # {}
  PROVE  StoredIn(o2, off, size) = StoredIn(o, off, size)
<1>1. off \in Nat /\ off < p /\ p \in Nat
  BY DEF StoredIn, OutIs, MoreOut
<1>2. ASSUME NEW b \in o2, b.at = off PROVE b \in o
  BY <1>1, <1>2 DEF MoreOut
<1> QED BY <1>2 DEF StoredIn, MoreOut

LEMMA FragmentStays ==
  ASSUME NEW o, NEW p, NEW o2, MoreOut(o, p, o2), NEW fs, NEW fs2, MoreFrags(o, fs, fs2),
         NEW bs, NEW bs2, NEW f \in 0 .. Len(fs) - 1
  PROVE  /\ FragmentIn(o2, fs2, bs2, f) = FragmentIn(o, fs, bs, f)
         /\ IsSeq(FragmentIn(o, fs, bs, f))
<1>1. f + 1 \in 1 .. Len(fs) /\ f < Len(fs) /\ f < Len(fs2)
  BY DEF MoreFrags
<1> DEFINE e == fs[f + 1]
<1>2. fs2[f + 1] = e /\ StoredIn(o, e.start, e.size) # {}
  BY <1>1 DEF MoreFrags
<1> HIDE DEF e
<1>3. StoredIn(o2, e.start, e.size) = StoredIn(o, e.start, e.size)
  BY <1>2, StoredStays
<1>4. /\ FragmentIn(o, fs, bs, f) = (CHOOSE b \in StoredIn(o, e.start, e.size) : TRUE).bytes
      /\ FragmentIn(o2, fs2, bs2, f) = (CHOOSE b \in StoredIn(o2, e.start, e.size) : TRUE).bytes
  BY <1>1, <1>2 DEF FragmentIn, e
<1>5. (CHOOSE b \in StoredIn(o, e.start, e.size) : TRUE) \in o
  BY <1>2 DEF StoredIn
<1> QED BY <1>3, <1>4, <1>5 DEF OutIs, MoreOut

(* A flush: the fragments are found in the new block.                      *)
FlushedBlock(p, s, bs) == [at |-> p, stored |-> s, bytes |-> bs]
FlushedEntry(p, s) == [start |-> p, size |-> s]

LEMMA FlushedFragment ==
  ASSUME NEW o, NEW p, OutIs(o, p), NEW bs, NEW s, NEW fs, IsSeq(fs), NEW bs2
  PROVE  FragmentIn(o \cup {FlushedBlock(p, s, bs)}, Append(fs, FlushedEntry(p, s)), bs2, Len(fs))
           = bs
<1> DEFINE b == FlushedBlock(p, s, bs)
           e == FlushedEntry(p, s)
           o2 == o \cup {b}
           fs2 == Append(fs, e)
<1>1. b.at = p /\ b.stored = s /\ b.bytes = bs /\ e.start = p /\ e.size = s
  BY DEF FlushedBlock, FlushedEntry
<1> HIDE DEF b, e
<1>3. Len(fs) \in Nat /\ Len(fs2) = Len(fs) + 1 /\ fs2[Len(fs) + 1] = e /\ Len(fs) < Len(fs2)
  BY AppendFacts, SeqFacts
<1>4. StoredIn(o2, p, s) = {b}
  <2>1. \A c \in o : c.at # p
    BY DEF OutIs
  <2> QED BY <1>1, <2>1 DEF StoredIn
<1> HIDE DEF o2, fs2
<1>5. FragmentIn(o2, fs2, bs2, Len(fs)) = (CHOOSE c \in StoredIn(o2, p, s) : TRUE).bytes
  BY <1>1, <1>3 DEF FragmentIn
<1>6. FragmentIn(o2, fs2, bs2, Len(fs)) = bs
  BY <1>1, <1>4, <1>5
<1> QED BY <1>6 DEF o2, fs2, b, e

LEMMA OneMoreBlock ==
  ASSUME NEW o, NEW p, OutIs(o, p), NEW bs, IsSeq(bs), NEW s \in Nat \ {0}
  PROVE  OutIs(o \cup {FlushedBlock(p, s, bs)}, p + s)
<1> DEFINE b == FlushedBlock(p, s, bs)
<1>1. b.at = p /\ b.bytes = bs
  BY DEF FlushedBlock
<1> HIDE DEF b
<1>2. p \in Nat /\ p + s \in Nat /\ p < p + s /\ \A c \in o : c.at \in Nat /\ c.at < p /\ c.at < p + s /\ c.at # p
  BY DEF OutIs
<1> QED BY <1>1, <1>2 DEF OutIs, b

-----------------------------------------------------------------------------
(* A file is its blocks.                                                   *)
UpTo(c, i) == IF i * BlockSize < Len(c) THEN i * BlockSize ELSE Len(c)

LEMMA BlockCounts ==
  ASSUME NEW size \in Nat
  PROVE  /\ BlockCount(size) \in Nat /\ size <= BlockCount(size) * BlockSize
         /\ \A i \in 1 .. BlockCount(size) : (i - 1) * BlockSize \in Nat /\ (i - 1) * BlockSize < size
         /\ size = 0 => BlockCount(size) = 0
<1> DEFINE m == size + BlockSize - 1
           n == m \div BlockSize
           r == m % BlockSize
<1>1. BlockSize \in Nat \ {0} /\ m \in Nat
  BY SizesAssumption
<1>2. n \in Nat /\ r \in 0 .. BlockSize - 1 /\ m = BlockSize * n + r
  <2> HIDE DEF m
  <2> QED BY <1>1, DivFacts
<1>3. BlockCount(size) = n
  BY DEF BlockCount
<1>4. m = size + BlockSize - 1
  OBVIOUS
<1> HIDE DEF n, r, m
<1>5. BlockSize * n = n * BlockSize /\ n * BlockSize \in Nat
  BY <1>1, <1>2
<1>6. size <= n * BlockSize
  BY <1>1, <1>2, <1>4, <1>5
<1>7. ASSUME NEW i \in 1 .. n PROVE (i - 1) * BlockSize \in Nat /\ (i - 1) * BlockSize < size
  <2>1. i - 1 \in Nat /\ n - i \in Nat /\ n = (n - i) + (i - 1) + 1
    BY <1>2
  <2>2. (i - 1) * BlockSize \in Nat /\ (n - i) * BlockSize \in Nat
    BY <1>1, <2>1
  <2>3. n * BlockSize = (n - i) * BlockSize + (i - 1) * BlockSize + BlockSize
    <3>1. ASSUME NEW a \in Nat, NEW b \in Nat, NEW q \in Nat
          PROVE  (a + b + 1) * q = a * q + b * q + q
      OBVIOUS
    <3> QED BY <1>1, <2>1, <3>1
  <2> QED BY <1>1, <1>2, <1>4, <1>5, <2>2, <2>3
<1>8. size = 0 => n = 0
  <2> SUFFICES ASSUME size = 0, n # 0 PROVE FALSE
    OBVIOUS
  <2>1. n \in 1 .. n
    BY <1>2
  <2> QED BY <1>7, <2>1
<1> QED BY <1>2, <1>3, <1>6, <1>7, <1>8

LEMMA BlockIs ==
  ASSUME NEW c \in Seq(Nat), NEW i \in 1 .. BlockCount(Len(c))
  PROVE  /\ IsSeq(BlockOf(c, i)) /\ Len(BlockOf(c, i)) \in Nat
         /\ SubSeq(c, 1, UpTo(c, i - 1)) \o BlockOf(c, i) = SubSeq(c, 1, UpTo(c, i))
         /\ \A j \in 1 .. Len(BlockOf(c, i)) : BlockOf(c, i)[j] \in Nat
<1> DEFINE from == (i - 1) * BlockSize
           to   == UpTo(c, i)
<1>1. BlockSize \in Nat \ {0} /\ Len(c) \in Nat /\ i \in Nat \ {0}
  BY SizesAssumption
<1>2. from \in Nat /\ from < Len(c)
  BY <1>1, BlockCounts
<1>3. i * BlockSize = from + BlockSize
  <2>1. ASSUME NEW a \in Nat \ {0}, NEW q \in Nat PROVE a * q = (a - 1) * q + q
    OBVIOUS
  <2> QED BY <1>1, <2>1
<1>4. to \in from + 1 .. Len(c)
  BY <1>1, <1>2, <1>3 DEF UpTo
<1>5. UpTo(c, i - 1) = from
  BY <1>2 DEF UpTo
<1>6. BlockOf(c, i) = SubSeq(c, from + 1, to)
  BY DEF BlockOf, UpTo
<1> HIDE DEF from, to
<1>7. /\ SubSeq(c, from + 1, to) \in Seq(Nat)
  <2>1. from + 1 \in Int /\ to \in Int /\ \A k \in from + 1 .. to : c[k] \in Nat
    <3>1. \A k \in from + 1 .. to : k \in 1 .. Len(c)
      BY <1>1, <1>2, <1>4
    <3> QED BY <1>2, <1>4, <3>1, ElementOfSeq
  <2> QED BY <2>1, SubSeqProperties
<1>8. SubSeq(c, 1, from) \o SubSeq(c, from + 1, to) = SubSeq(c, 1, to)
  <2>1. 1 \in 1 .. Len(c) + 1 /\ from \in 1 - 1 .. Len(c) /\ to \in from .. Len(c)
    BY <1>1, <1>2, <1>4
  <2> QED BY <2>1, ConcatAdjacentSubSeq
<1> DEFINE w == BlockOf(c, i)
<1>9. w \in Seq(Nat)
  BY <1>6, <1>7
<1> HIDE DEF w
<1>10. IsSeq(w) /\ Len(w) \in Nat /\ \A j \in 1 .. Len(w) : w[j] \in Nat
  BY <1>9, WidenSeq, LenProperties, ElementOfSeq
<1> QED BY <1>5, <1>6, <1>8, <1>10 DEF w, to

(* Blocks that are written one behind the other.                           *)
NewBlocks(p, c, n, sizes) ==
  {[at |-> p + SumTo(sizes, i - 1), stored |-> sizes[i], bytes |-> BlockOf(c, i)] :
     i \in {j \in 1 .. n : sizes[j] # 0}}

LEMMA MoreBlocks ==
  ASSUME NEW o, NEW p, OutIs(o, p), NEW c \in Seq(Nat), NEW n, n = BlockCount(Len(c)),
         NEW sizes \in [1 .. n -> Nat]
  PROVE  /\ OutIs(o \cup NewBlocks(p, c, n, sizes), p + SumTo(sizes, n))
         /\ MoreOut(o, p, o \cup NewBlocks(p, c, n, sizes))
<1> DEFINE o2 == o \cup NewBlocks(p, c, n, sizes)
           start(i) == p + SumTo(sizes, i - 1)
           block(i) == [at |-> start(i), stored |-> sizes[i], bytes |-> BlockOf(c, i)]
           new == {j \in 1 .. n : sizes[j] # 0}
           end == p + SumTo(sizes, n)
<1>1. p \in Nat /\ \A b \in o : b.at \in Nat /\ b.at < p
  BY DEF OutIs
<1>0. n \in Nat /\ \A i \in 1 .. n : IsSeq(BlockOf(c, i))
  BY BlockIs, BlockCounts, LenProperties
<1>2. /\ \A m \in 1 .. n : SumTo(sizes, m) = SumTo(sizes, m - 1) + sizes[m]
      /\ \A m \in 0 .. n : SumTo(sizes, m) \in Nat
  BY <1>0, SumFacts
<1>3. ASSUME NEW i \in new, NEW m \in i .. n
      PROVE  start(i) \in Nat /\ p <= start(i) /\ start(i) < p + SumTo(sizes, m)
  <2>1. i \in 1 .. n /\ i - 1 \in 0 .. n /\ i \in 0 .. n /\ m \in 0 .. n
    BY <1>0
  <2>2. sizes[i] \in Nat \ {0}
    BY <2>1
  <2>3. SumTo(sizes, i) <= SumTo(sizes, m)
    BY <1>0, <2>1, SumsGrow
  <2>4. SumTo(sizes, i - 1) \in Nat /\ SumTo(sizes, i) \in Nat /\ SumTo(sizes, m) \in Nat
        /\ SumTo(sizes, i) = SumTo(sizes, i - 1) + sizes[i]
    BY <1>2, <2>1
  <2> QED BY <1>1, <2>2, <2>3, <2>4, SMTT(60)
<1>4. \A i : block(i).at = start(i) /\ block(i).bytes = BlockOf(c, i)
  OBVIOUS
<1>5. o2 = o \cup {block(i) : i \in new}
  BY DEF NewBlocks
<1>6. end \in Nat /\ p <= end
  <2>1. n \in 0 .. n
    BY <1>0
  <2> QED BY <1>1, <1>2, <2>1
<1>7. ASSUME NEW i \in new PROVE start(i) \in Nat /\ p <= start(i) /\ start(i) < end
  <2>1. n \in i .. n
    BY <1>0
  <2> QED BY <1>3, <2>1
<1>8. ASSUME NEW i \in new, NEW j \in new, i < j PROVE start(i) < start(j)
  <2>1. j - 1 \in i .. n
    BY <1>0, <1>8
  <2> QED BY <1>3, <2>1
<1>9. new \subseteq 1 .. n
  OBVIOUS
<1> HIDE DEF start, end, new, block, o2
<1>10. ASSUME NEW a \in o2, NEW b \in o2, a.at = b.at PROVE a = b
  <2>1. CASE a \in o /\ b \in o
    BY <1>10, <2>1 DEF OutIs
  <2>2. ASSUME NEW i \in new, NEW d \in o, block(i).at = d.at PROVE FALSE
    BY <1>1, <1>4, <1>7, <2>2
  <2>3. ASSUME NEW i \in new, NEW j \in new, block(i).at = block(j).at PROVE i = j
    <3>1. start(i) = start(j) /\ i \in Nat /\ j \in Nat
      BY <1>0, <1>4, <1>9, <2>3
    <3>2. start(i) \in Nat
      BY <1>7
    <3>3. ~(i < j) /\ ~(j < i)
      BY <1>8, <3>1, <3>2
    <3> QED BY <3>1, <3>3
  <2> QED BY <1>5, <1>10, <2>1, <2>2, <2>3
<1>11. ASSUME NEW b \in o2 PROVE b.at \in Nat /\ b.at < end /\ IsSeq(b.bytes)
  <2>1. CASE b \in o
    BY <1>1, <1>6, <2>1 DEF OutIs
  <2>2. CASE b \notin o
    <3>1. PICK i \in new : b = block(i)
      BY <1>5, <2>2
    <3> QED BY <1>0, <1>4, <1>7, <1>9, <3>1
  <2> QED BY <2>1, <2>2
<1>12. \A b \in o2 \ o : b.at \in Nat /\ p <= b.at
  BY <1>4, <1>5, <1>7
<1>13. OutIs(o2, end)
  BY <1>6, <1>10, <1>11 DEF OutIs
<1>14. MoreOut(o, p, o2)
  BY <1>5, <1>12 DEF MoreOut
<1> QED BY <1>13, <1>14 DEF end, o2

-----------------------------------------------------------------------------
(* Where contents come from.                                               *)

LEMMA SourcesOfScan ==
  ASSUME ImageInv, SourcesOK,
         NEW d \in 1 .. Len(path), NEW kind \in {"dir", "file", "symlink"},
         NEW content \in Contents \cup {<<>>}, NEW host \in Links \cup {NotLinked},
         Scan(d, kind, content, host)
  PROVE  SourcesOK'
<1> DEFINE n    == Len(tree) + 1
           node == [kind |-> kind, parent |-> path[d], content |-> content, host |-> host]
<1>1. /\ phase = "scan" /\ phase' = "scan" /\ UNCHANGED <<hlFirst, copies>>
      /\ copies = {} /\ Len(tree) \in Nat \ {0} /\ IsSeq(tree)
  BY TreeTypes DEF Scan, SourcesOK, ImageInv, collVars
<1>2. /\ Len(tree') = n /\ tree'[n] = node
      /\ \A k \in 1 .. Len(tree) : tree'[k] = tree[k]
  BY <1>1, AppendFacts DEF Scan
<1>3. /\ node.kind = kind /\ node.content = content /\ node.host = host
      /\ kind # "file" => host = NotLinked
      /\ \A k \in 1 .. Len(tree) : host # NotLinked /\ tree[k].host = host => tree[k].content = content
  BY DEF Scan
<1> HIDE DEF node
<1>4. \A k \in 1 .. n : k = n \/ k \in 1 .. Len(tree)
  BY <1>1
<1>5. \A k \in 1 .. Len(tree) : Linked(k)' = Linked(k)
  BY <1>2 DEF Linked, IsFile
<1>6. ASSUME NEW j \in 1 .. n, NEW k \in 1 .. n, SameFile(j, k)'
      PROVE  tree'[j].content = tree'[k].content
  <2>1. tree'[j].host = tree'[k].host /\ tree'[j].host # NotLinked
    BY <1>6 DEF SameFile, Linked
  <2>2. CASE j \in 1 .. Len(tree) /\ k \in 1 .. Len(tree)
    <3>1. SameFile(j, k)
      BY <1>2, <1>5, <1>6, <2>2 DEF SameFile
    <3> QED BY <1>2, <2>2, <3>1 DEF SourcesOK
  <2> QED BY <1>2, <1>3, <1>4, <2>1, <2>2
<1>7. ASSUME NEW l \in Links, hlFirst'[l] # NoNode
      PROVE  /\ hlFirst'[l] \in 1 .. n
             /\ tree'[hlFirst'[l]].kind = "file" /\ tree'[hlFirst'[l]].host # NotLinked
             /\ tree'[hlFirst'[l]].host = l
  <2>1. hlFirst[l] \in 1 .. Len(tree) /\ Linked(hlFirst[l]) /\ tree[hlFirst[l]].host = l
    BY <1>1, <1>7 DEF SourcesOK
  <2>2. hlFirst[l] \in 1 .. n /\ hlFirst'[l] = hlFirst[l]
    BY <1>1, <2>1
  <2> QED BY <1>2, <2>1, <2>2 DEF Linked, IsFile
<1> QED BY <1>1, <1>2, <1>6, <1>7 DEF SourcesOK, Linked, IsFile

LEMMA SourcesOfCollect ==
  ASSUME ImageInv, SourcesOK, Collect
  PROVE  SourcesOK'
<1>1. /\ phase = "collect" /\ phase' = "collect" /\ UNCHANGED tree
      /\ at \in 2 .. Len(tree) /\ at \in 1 .. Len(tree) /\ Len(tree) \in Nat
  <2>1. at \in 2 .. Len(tree) + 1 /\ at <= Len(tree) /\ Len(tree) \in Nat
    BY TreeTypes DEF Collect, ImageInv, DataOK
  <2> QED BY <2>1 DEF Collect, scanVars
<1>2. \A c \in copies' : c \in copies \/ \E f \in SameContent(at) : c = <<at, f>>
  BY DEF Collect, collVars
<1>3. hlFirst' = hlFirst \/ (Linked(at) /\ hlFirst' = [hlFirst EXCEPT ![tree[at].host] = at])
  BY DEF Collect, collVars
<1>4. hlFirst \in [Links -> 0 .. Len(tree)]
  BY DEF ImageInv, DataOK
<1>5. \A k : Linked(k)' = Linked(k)
  BY <1>1 DEF Linked, IsFile
<1>6. \A c \in copies' : tree[c[1]].content = tree[c[2]].content
  <2>1. \A f \in SameContent(at) : tree[f].content = tree[at].content
    BY DEF SameContent
  <2>2. \A f : <<at, f>>[1] = at /\ <<at, f>>[2] = f
    OBVIOUS
  <2> QED BY <1>2, <2>1, <2>2 DEF SourcesOK
<1>7. ASSUME NEW l \in Links, hlFirst'[l] # NoNode
      PROVE  hlFirst'[l] \in 1 .. Len(tree) /\ Linked(hlFirst'[l]) /\ tree[hlFirst'[l]].host = l
  <2>1. CASE hlFirst'[l] = hlFirst[l]
    BY <1>7, <2>1 DEF SourcesOK
  <2>2. CASE hlFirst'[l] # hlFirst[l]
    <3>1. Linked(at) /\ l = tree[at].host /\ hlFirst'[l] = at
      BY <1>3, <1>4, <2>2
    <3> QED BY <1>1, <3>1
  <2> QED BY <2>1, <2>2
<1>8. \A j, k : SameFile(j, k)' = SameFile(j, k)
  BY <1>1, <1>5 DEF SameFile
<1>9. \A l \in Links : hlFirst'[l] # NoNode =>
         /\ hlFirst'[l] \in 1 .. Len(tree) /\ tree[hlFirst'[l]].host = l
         /\ tree[hlFirst'[l]].kind = "file" /\ tree[hlFirst'[l]].host # NotLinked
  BY <1>7 DEF Linked, IsFile
<1>10. \A j, k \in 1 .. Len(tree) : SameFile(j, k)' => tree[j].content = tree[k].content
  BY <1>8 DEF SourcesOK
<1> QED BY <1>1, <1>6, <1>9, <1>10 DEF SourcesOK, Linked, IsFile

LEMMA SourcesNext ==
  ASSUME ImageInv, SourcesOK, [Next]_vars
  PROVE  SourcesOK'
<1>1. CASE /\ UNCHANGED <<tree, hlFirst, copies>>
           /\ phase' \in {"scan", "number"} => phase \in {"scan", "number"}
  <2>1. \A k : Linked(k)' = Linked(k)
    BY <1>1 DEF Linked, IsFile
  <2>2. \A j, k : SameFile(j, k)' = SameFile(j, k)
    BY <1>1, <2>1 DEF SameFile
  <2>3. \A j, k \in 1 .. Len(tree) : SameFile(j, k)' => tree[j].content = tree[k].content
    BY <2>2 DEF SourcesOK
  <2> QED BY <1>1, <2>3 DEF SourcesOK, Linked, IsFile
<1>2. CASE \E d \in 1 .. Len(path), kind \in {"dir", "file", "symlink"},
              content \in Contents \cup {<<>>}, host \in Links \cup {NotLinked} :
             Scan(d, kind, content, host)
  BY <1>2, SourcesOfScan
<1>3. CASE Collect
  BY <1>3, SourcesOfCollect
<1>4. CASE ScanEnds BY <1>1, <1>4 DEF ScanEnds, collVars
<1>5. CASE Number BY <1>1, <1>5 DEF Number, scanVars, collVars
<1>6. CASE NumberingEnds BY <1>1, <1>6 DEF NumberingEnds, scanVars, collVars
<1>7. CASE CollectingEnds BY <1>1, <1>7 DEF CollectingEnds, scanVars, collVars
<1>8. CASE WriteBlocks BY <1>1, <1>8 DEF WriteBlocks, scanVars
<1>9. CASE AddFragment BY <1>1, <1>9 DEF AddFragment, scanVars
<1>10. CASE WriteEmpty BY <1>1, <1>10 DEF WriteEmpty, scanVars
<1>11. CASE WritingEnds BY <1>1, <1>11 DEF WritingEnds, scanVars, collVars
<1>12. CASE WriteFile BY <1>1, <1>12 DEF WriteFile, AtChild, scanVars, collVars
<1>13. CASE WriteSymlink BY <1>1, <1>13 DEF WriteSymlink, scanVars, collVars
<1>14. CASE EnterDir BY <1>1, <1>14 DEF EnterDir, scanVars, collVars
<1>15. CASE LeaveDir BY <1>1, <1>15 DEF LeaveDir, scanVars, collVars
<1>16. CASE UNCHANGED vars BY <1>1, <1>16 DEF vars, scanVars, collVars
<1> QED
  BY <1>2, <1>3, <1>4, <1>5, <1>6, <1>7, <1>8, <1>9, <1>10, <1>11, <1>12, <1>13, <1>14, <1>15,
     <1>16
  DEF Next, Returned

-----------------------------------------------------------------------------
(* The data passes.                                                        *)

KeepsData ==
  /\ Len(frags) \in Nat /\ Len(frags') \in Nat /\ Len(frags) <= Len(frags') /\ out \subseteq out'
  /\ KeepsFragments(out, frags, buf, out', frags', buf')

LEMMA PrefixFacts ==
  ASSUME NEW s, IsSeq(s)
  PROVE  Prefix(s, s) /\ \A t : IsSeq(t) => Prefix(s, s \o t)
BY SeqFacts, JoinFacts DEF Prefix

LEMMA FragmentsStay ==
  ASSUME NEW o, NEW p, NEW o2, MoreOut(o, p, o2), NEW fs, NEW fs2, MoreFrags(o, fs, fs2),
         NEW bs, NEW bs2, Prefix(bs, FragmentIn(o2, fs2, bs2, Len(fs)))
  PROVE  KeepsFragments(o, fs, bs, o2, fs2, bs2)
<1> SUFFICES ASSUME NEW f \in 0 .. Len(fs)
             PROVE  Prefix(FragmentIn(o, fs, bs, f), FragmentIn(o2, fs2, bs2, f))
  BY DEF KeepsFragments
<1>1. CASE f = Len(fs)
  BY <1>1 DEF FragmentIn
<1>2. CASE f # Len(fs)
  <2>1. f \in 0 .. Len(fs) - 1
    BY <1>2 DEF MoreFrags
  <2> DEFINE s == FragmentIn(o, fs, bs, f)
             s2 == FragmentIn(o2, fs2, bs2, f)
  <2>2. s2 = s /\ IsSeq(s)
    BY <2>1, FragmentStays
  <2> HIDE DEF s, s2
  <2>3. Prefix(s, s2)
    BY <2>2, PrefixFacts
  <2> QED BY <2>3 DEF s, s2
<1> QED BY <1>1, <1>2

(* The state of the data area, as the lemmas above need it.                *)
LEMMA DataArea ==
  ASSUME ImageInv, OutOK
  PROVE  /\ OutIs(out, pos) /\ IsSeq(buf) /\ Len(buf) \in Nat /\ IsSeq(frags) /\ Len(frags) \in Nat
         /\ \A i \in 1 .. Len(frags) : StoredIn(out, frags[i].start, frags[i].size) # {}
         /\ BlockSize \in Nat \ {0} /\ IsSeq(queue)
<1>1. \A off, size : StoredAt(off, size) = StoredIn(out, off, size)
  BY DEF StoredAt, StoredIn
<1> QED BY <1>1, SeqFacts, SizesAssumption, DataTypes DEF ImageInv, BlocksOK, OutOK

LEMMA SameFragments ==
  ASSUME ImageInv, OutOK, UNCHANGED <<out, pos, frags>>, Prefix(buf, buf')
  PROVE  OutOK' /\ KeepsData
<1>1. OutOK'
  BY DEF OutOK, OutIs
<1>2. FragmentIn(out, frags, buf', Len(frags)) = buf'
  BY DataArea DEF FragmentIn
<1>3. MoreOut(out, pos, out) /\ MoreFrags(out, frags, frags)
  BY DataArea DEF MoreOut, MoreFrags
<1>4. KeepsFragments(out, frags, buf, out, frags, buf')
  BY <1>2, <1>3, FragmentsStay
<1> QED BY <1>1, <1>4, DataArea DEF KeepsData

LEMMA FlushGrows ==
  ASSUME ImageInv, OutOK, FlushFragments
  PROVE  OutOK' /\ KeepsData
<1>1. PICK s \in 1 .. Len(buf) :
        /\ out' = out \cup {FlushedBlock(pos, s, buf)}
        /\ frags' = Append(frags, FlushedEntry(pos, s))
        /\ pos' = pos + s
  BY DEF FlushFragments, FlushedBlock, FlushedEntry
<1> DEFINE b == FlushedBlock(pos, s, buf)
           e == FlushedEntry(pos, s)
<1>2. s \in Nat \ {0} /\ pos \in Nat
  BY <1>1, DataArea DEF OutIs
<1>3. OutIs(out', pos')
  <2>1. OutIs(out \cup {b}, pos + s)
    BY <1>2, DataArea, OneMoreBlock
  <2> QED BY <1>1, <2>1
<1>4. FragmentIn(out', frags', buf', Len(frags)) = buf
  <2>1. FragmentIn(out \cup {b}, Append(frags, e), buf', Len(frags)) = buf
    <3>1. OutIs(out, pos) /\ IsSeq(frags)
      BY DataArea
    <3> QED BY <3>1, FlushedFragment
  <2> QED BY <1>1, <2>1
<1>5. \A c \in out' \ out : c.at \in Nat /\ pos <= c.at
  <2>1. b.at = pos
    BY DEF FlushedBlock
  <2> HIDE DEF b
  <2> QED BY <1>1, <1>2, <2>1 DEF b
<1>6. /\ Len(frags') = Len(frags) + 1 /\ \A i \in 1 .. Len(frags) : frags'[i] = frags[i]
  BY <1>1, DataArea, AppendFacts
<1>7. /\ Len(frags) \in Nat /\ Len(frags') \in Nat /\ Len(frags) <= Len(frags') /\ out \subseteq out'
  BY <1>1, <1>6, DataArea
<1>8. Prefix(buf, FragmentIn(out', frags', buf', Len(frags)))
  BY <1>4, DataArea, PrefixFacts
<1>9. MoreFrags(out, frags, frags') /\ MoreOut(out, pos, out')
  BY <1>5, <1>6, <1>7, DataArea DEF MoreFrags, MoreOut
<1>10. KeepsFragments(out, frags, buf, out', frags', buf')
  BY <1>8, <1>9, FragmentsStay
<1> QED BY <1>3, <1>7, <1>10 DEF OutOK, KeepsData

(* A file of blocks.                                                       *)
LEMMA BlocksHeld ==
  ASSUME ImageInv, OutOK, WriteBlocks
  PROVE  /\ OutOK' /\ KeepsData
         /\ \E info : Placed(info) /\ HeldIn(out', frags', buf', info, Current)
<1> DEFINE n == BlockCount(Len(Current))
<1>1. Current \in Seq(Nat) /\ Len(Current) \in Nat /\ n \in Nat /\ Len(Current) >= BlockSize
  BY CurrentIs, BlockCounts DEF WriteBlocks, ImageInv
<1>2. Current \in Contents \cup {<<>>}
  BY DataTypes, TailFacts, TreeTypes DEF WriteBlocks, Writing, ImageInv, Current, Node
<1>3. PICK sizes \in [1 .. n -> 0 .. BlockSize] :
       /\ \A i \in 1 .. n :
            IF Sparse(BlockOf(Current, i)) THEN sizes[i] = 0
            ELSE sizes[i] \in 1 .. Len(BlockOf(Current, i))
       /\ out' = out \cup {[at |-> pos + SumTo(sizes, i - 1), stored |-> sizes[i],
                            bytes |-> BlockOf(Current, i)] :
                            i \in {j \in 1 .. n : sizes[j] # 0}}
       /\ pos' = pos + SumTo(sizes, n)
       /\ Placed(Info(Len(Current), pos, sizes, NoFragment, 0))
  BY DEF WriteBlocks
<1>4. UNCHANGED <<buf, frags>>
  BY DEF WriteBlocks
<1> DEFINE info == Info(Len(Current), pos, sizes, NoFragment, 0)
<1>5. /\ info.size = Len(Current) /\ info.start = pos /\ info.sizes = sizes
      /\ info.frag = NoFragment /\ Placed(info)
  BY <1>3 DEF Info
<1>7. sizes \in [1 .. n -> Nat] /\ out' = out \cup NewBlocks(pos, Current, n, sizes)
  BY <1>3, DataArea DEF NewBlocks
<1> HIDE DEF info
<1>8. OutIs(out', pos') /\ MoreOut(out, pos, out')
  <2> DEFINE o2 == out \cup NewBlocks(pos, Current, n, sizes)
             p2 == pos + SumTo(sizes, n)
  <2>1. OutIs(o2, p2) /\ MoreOut(out, pos, o2)
    BY <1>1, <1>7, DataArea, MoreBlocks
  <2> HIDE DEF n
  <2> QED BY <1>3, <1>7, <2>1
<1> HIDE DEF n
<1>9. KeepsData
  <2>1. FragmentIn(out', frags, buf, Len(frags)) = buf /\ Prefix(buf, buf)
    BY DataArea, PrefixFacts DEF FragmentIn
  <2>2. MoreFrags(out, frags, frags)
    BY DataArea DEF MoreFrags
  <2>3. KeepsFragments(out, frags, buf, out', frags, buf)
    BY <1>8, <2>1, <2>2, FragmentsStay
  <2> QED BY <1>4, <1>8, <2>3, DataArea DEF KeepsData, MoreOut
<1>10. IsSeq(sizes) /\ Len(sizes) = n
  <2>1. sizes = [i \in 1 .. n |-> sizes[i]]
    BY <1>7
  <2> QED BY <1>1, <2>1, FunIsSeq
<1>11. InBlocks(out', info, Current)
  <2>1. pos \in Nat
    BY DataArea DEF OutIs
  <2>2. ASSUME NEW i \in 1 .. n
        PROVE  /\ sizes[i] \in Nat
               /\ IF sizes[i] = 0 THEN Sparse(BlockOf(Current, i))
                  ELSE [at |-> pos + SumTo(sizes, i - 1), stored |-> sizes[i],
                        bytes |-> BlockOf(Current, i)] \in out'
    <3>1. sizes[i] \in Nat
      BY <1>7
    <3>2. sizes[i] = 0 => Sparse(BlockOf(Current, i))
      BY <1>3
    <3>3. sizes[i] # 0 => [at |-> pos + SumTo(sizes, i - 1), stored |-> sizes[i],
                           bytes |-> BlockOf(Current, i)] \in out'
      BY <1>3
    <3> QED BY <3>1, <3>2, <3>3
  <2> QED BY <1>1, <1>5, <1>10, <2>1, <2>2 DEF InBlocks, n
<1> QED BY <1>2, <1>5, <1>8, <1>9, <1>11 DEF HeldIn, OutOK

(* A short file.                                                           *)
LEMMA FragmentHeld ==
  ASSUME ImageInv, OutOK, AddFragment
  PROVE  /\ OutOK' /\ KeepsData
         /\ \E info : Placed(info) /\ HeldIn(out', frags', buf', info, Current)
<1> DEFINE full == buf # <<>> /\ Len(buf) + Len(Current) > BlockSize
           old  == IF full THEN <<>> ELSE buf
           at0  == IF full THEN 0 ELSE Len(buf)
           info == Info(Len(Current), 0, <<>>, Len(frags'), at0)
<1>1. /\ IsSeq(Current) /\ Len(Current) \in 1 .. BlockSize - 1 /\ Len(Current) \in Nat
      /\ IF full THEN FlushFragments ELSE UNCHANGED <<out, pos, frags>>
      /\ Placed(info) /\ buf' = old \o Current
  BY CurrentIs DEF AddFragment, ImageInv
<1>2. Current \in Contents \cup {<<>>}
  BY DataTypes, TailFacts, TreeTypes DEF AddFragment, Writing, ImageInv, Current, Node
<1>3. IsSeq(old) /\ Len(old) = at0 /\ at0 \in Nat
  BY DataArea, EmptyFacts
<1>4. /\ info.size = Len(Current) /\ info.sizes = <<>> /\ info.start = 0
      /\ info.frag = Len(frags') /\ info.off = at0
  BY DEF Info
<1>5. OutOK' /\ KeepsData
  <2>1. CASE full
    BY <1>1, <2>1, FlushGrows
  <2>2. CASE ~full
    <3>1. Prefix(buf, buf')
      BY <1>1, <2>2, DataArea, PrefixFacts
    <3> QED BY <1>1, <2>2, <3>1, SameFragments
  <2> QED BY <2>1, <2>2
<1> HIDE DEF info, at0, old, full
<1>6. /\ Len(buf') = at0 + Len(Current)
      /\ \A i \in 1 .. Len(Current) : buf'[at0 + i] = Current[i]
  <2>1. /\ Len(old \o Current) = Len(old) + Len(Current)
        /\ \A i \in 1 .. Len(Current) : (old \o Current)[Len(old) + i] = Current[i]
    <3>1. IsSeq(old) /\ IsSeq(Current)
      BY <1>1, <1>3
    <3> QED BY <3>1, JoinFacts
  <2> QED BY <1>1, <1>3, <2>1
<1>7. FragmentIn(out', frags', buf', Len(frags')) = buf'
  BY <1>5 DEF FragmentIn, KeepsData
<1>8. InFragment(out', frags', buf', info, Current)
  <2>1. Len(frags') \in 0 .. Len(frags')
    BY <1>5 DEF KeepsData
  <2>2. at0 + Len(Current) <= Len(buf')
    BY <1>1, <1>3, <1>6
  <2> QED BY <1>1, <1>3, <1>4, <1>6, <1>7, <2>1, <2>2 DEF InFragment
<1> QED BY <1>1, <1>2, <1>4, <1>5, <1>8 DEF HeldIn

LEMMA NothingHeld ==
  ASSUME ImageInv, OutOK, WriteEmpty
  PROVE  /\ OutOK' /\ KeepsData
         /\ \E info : Placed(info) /\ HeldIn(out', frags', buf', info, Current)
<1> DEFINE info == Info(0, 0, <<>>, NoFragment, 0)
<1>1. Current = <<>> /\ Placed(info) /\ UNCHANGED <<out, pos, buf, frags>>
  BY DEF WriteEmpty
<1>2. /\ info.size = 0 /\ info.start = 0 /\ info.sizes = <<>> /\ info.frag = NoFragment
  BY DEF Info
<1> HIDE DEF info
<1>3. OutOK' /\ KeepsData
  BY <1>1, DataArea, PrefixFacts, SameFragments
<1>4. BlockCount(info.size) = 0
  BY <1>2, BlockCounts
<1>5. InBlocks(out', info, Current)
  BY <1>2, <1>4, EmptyFacts DEF InBlocks
<1> QED BY <1>1, <1>2, <1>3, <1>5, EmptyFacts DEF HeldIn

LEMMA StillHeld ==
  ASSUME KeepsData, NEW info, NEW c, Holds(info, c)
  PROVE  HeldIn(out', frags', buf', info, c)
<1>1. HeldIn(out, frags, buf, info, c)
  BY DEF Holds
<1>2. /\ Len(frags) \in Nat /\ Len(frags') \in Nat /\ Len(frags) <= Len(frags') /\ out \subseteq out'
      /\ KeepsFragments(out, frags, buf, out', frags', buf')
  BY DEF KeepsData
<1> QED BY <1>1, <1>2, HeldStays

LEMMA PlacedFiles ==
  ASSUME ImageInv, FilesOK, Writing, KeepsData, UNCHANGED <<tree, phase>>, NEW info,
         Placed(info), HeldIn(out', frags', buf', info, Current)
  PROVE  FilesOK'
<1>1. phase = "write" /\ phase' = "write"
  BY DEF Writing
<1>2. ASSUME NEW k \in DOMAIN fileData'
      PROVE  HeldIn(out', frags', buf', fileData'[k], tree[k].content)
  <2>1. CASE k = Head(queue)
    <3>1. fileData'[k] = info
      BY <2>1 DEF Placed
    <3> QED BY <2>1, <3>1 DEF Current
  <2>2. CASE k # Head(queue)
    <3>1. k \in DOMAIN fileData /\ fileData'[k] = fileData[k]
      BY <1>2, <2>2 DEF Placed
    <3>2. Holds(fileData[k], tree[k].content)
      BY <3>1 DEF FilesOK
    <3> QED BY <3>1, <3>2, StillHeld
  <2> QED BY <2>1, <2>2
<1> QED BY <1>1, <1>2 DEF FilesOK, Holds

(* The copies of a file's data are its own content.                        *)
LEMMA CopiedFiles ==
  ASSUME ImageInv, SourcesOK, OutOK, FilesOK, WritingEnds
  PROVE  OutOK' /\ FilesOK'
<1>1. /\ queue = <<>> /\ phase' = "tables" /\ buf' = <<>> /\ UNCHANGED tree
      /\ IF buf = <<>> THEN UNCHANGED <<out, pos, frags>> ELSE FlushFragments
  BY DEF WritingEnds, scanVars
<1>2. OutOK' /\ KeepsData
  <2>1. CASE buf = <<>>
    BY <1>1, <2>1, EmptyFacts, PrefixFacts, SameFragments
  <2>2. CASE buf # <<>>
    BY <1>1, <2>2, FlushGrows
  <2> QED BY <2>1, <2>2
<1>3. \A c \in copies : c[2] \in DOMAIN fileData /\ tree[c[1]].content = tree[c[2]].content
  BY <1>1, EmptyFacts DEF ImageInv, DataOK, SourcesOK
<1>4. ASSUME NEW k \in DOMAIN fileData'
      PROVE  HeldIn(out', frags', buf', fileData'[k], tree[k].content)
  <2>1. /\ k \in DOMAIN fileData \/ \E c \in copies : c[1] = k
        /\ fileData'[k] = IF k \in DOMAIN fileData THEN fileData[k]
                          ELSE fileData[(CHOOSE c \in copies : c[1] = k)[2]]
    BY <1>4 DEF WritingEnds
  <2>2. CASE k \in DOMAIN fileData
    <3>1. fileData'[k] = fileData[k] /\ Holds(fileData[k], tree[k].content)
      BY <2>1, <2>2 DEF FilesOK
    <3> QED BY <1>2, <3>1, StillHeld
  <2>3. CASE k \notin DOMAIN fileData
    <3> DEFINE c == CHOOSE d \in copies : d[1] = k
    <3>1. c \in copies /\ c[1] = k
      BY <2>1, <2>3
    <3>2. fileData'[k] = fileData[c[2]]
      BY <2>1, <2>3
    <3> HIDE DEF c
    <3>3. c[2] \in DOMAIN fileData /\ tree[k].content = tree[c[2]].content
      BY <1>3, <3>1
    <3>4. Holds(fileData[c[2]], tree[k].content)
      BY <3>3 DEF FilesOK
    <3> QED BY <1>2, <3>2, <3>4, StillHeld
  <2> QED BY <2>2, <2>3
<1> QED BY <1>1, <1>2, <1>4 DEF FilesOK, Holds

LEMMA DataNext ==
  ASSUME ImageInv, SourcesOK, OutOK, FilesOK, [Next]_vars
  PROVE  OutOK' /\ FilesOK'
<1>1. CASE WriteBlocks \/ AddFragment \/ WriteEmpty
  <2>1. /\ OutOK' /\ KeepsData
        /\ \E info : Placed(info) /\ HeldIn(out', frags', buf', info, Current)
    BY <1>1, BlocksHeld, FragmentHeld, NothingHeld
  <2>2. Writing /\ UNCHANGED <<tree, phase>>
    BY <1>1 DEF WriteBlocks, AddFragment, WriteEmpty, scanVars
  <2> QED BY <2>1, <2>2, PlacedFiles
<1>2. CASE WritingEnds
  BY <1>2, CopiedFiles
<1>3. CASE UNCHANGED dataVars /\ UNCHANGED tree
           /\ (phase' \in {"scan", "number", "collect"} => phase \in {"scan", "number", "collect"})
  BY <1>3 DEF dataVars, OutOK, FilesOK, Holds
<1>4. CASE UNCHANGED dataVars /\ phase = "scan"
  <2>1. fileData = <<>> /\ fileData' = <<>>
    BY <1>4 DEF FilesOK, dataVars
  <2>2. DOMAIN fileData' = {}
    BY <2>1
  <2> QED BY <1>4, <2>1, <2>2 DEF dataVars, OutOK, FilesOK
<1>5. CASE UNCHANGED vars
  BY <1>3, <1>5 DEF vars, scanVars
<1>6. CASE \E d \in 1 .. Len(path), kind \in {"dir", "file", "symlink"},
              content \in Contents \cup {<<>>}, host \in Links \cup {NotLinked} :
             Scan(d, kind, content, host)
  BY <1>4, <1>6 DEF Scan
<1>7. CASE ScanEnds \/ Number \/ NumberingEnds \/ Collect \/ CollectingEnds
  BY <1>3, <1>7 DEF ScanEnds, Number, NumberingEnds, Collect, CollectingEnds, scanVars
<1>8. CASE WriteFile \/ WriteSymlink \/ EnterDir \/ LeaveDir
  <2>1. UNCHANGED dataVars /\ UNCHANGED tree /\ phase = "tables"
        /\ phase' \in {"tables", "done", "panic"}
    BY <1>8 DEF WriteFile, WriteSymlink, EnterDir, LeaveDir, AtChild, scanVars
  <2> QED BY <1>3, <2>1
<1> QED BY <1>1, <1>2, <1>5, <1>6, <1>7, <1>8 DEF Next, Returned

-----------------------------------------------------------------------------
(* Files are read back.                                                    *)

(* What read_file has read after each block.                               *)
Reading(i, n, f) ==
  f = [k \in 0 .. n |-> IF k = 0 THEN [bytes |-> <<>>, off |-> i.start]
                        ELSE ReadBlock(f[k - 1], i.sizes[k])]

LEMMA ReadingsAgree ==
  ASSUME NEW i, NEW n \in Nat, NEW g, NEW h, Reading(i, n, g), Reading(i, n, h)
  PROVE  g[n] = h[n]
<1> DEFINE S == {k \in Nat : k <= n => g[k] = h[k]}
<1>1. ASSUME NEW f, Reading(i, n, f)
      PROVE  /\ f[0] = [bytes |-> <<>>, off |-> i.start]
             /\ \A k \in 1 .. n : f[k] = ReadBlock(f[k - 1], i.sizes[k])
  <2>1. 0 \in 0 .. n /\ \A k \in 1 .. n : k \in 0 .. n /\ k # 0
    OBVIOUS
  <2>2. \A k \in 0 .. n : f[k] = IF k = 0 THEN [bytes |-> <<>>, off |-> i.start]
                                 ELSE ReadBlock(f[k - 1], i.sizes[k])
    BY <1>1, ZenonT(30) DEF Reading
  <2> QED BY <2>1, <2>2
<1>2. 0 \in S
  BY <1>1
<1>3. ASSUME NEW k \in Nat, k \in S PROVE k + 1 \in S
  <2> SUFFICES ASSUME k + 1 <= n PROVE g[k + 1] = h[k + 1]
    OBVIOUS
  <2>1. k + 1 \in 1 .. n /\ (k + 1) - 1 = k /\ k <= n
    OBVIOUS
  <2>2. g[k] = h[k]
    BY <1>3, <2>1
  <2> QED BY <1>1, <2>1, <2>2
<1> HIDE DEF S
<1>4. n \in S
  BY <1>2, <1>3, Induction
<1> QED BY <1>4 DEF S

(* What read_file gives, from what it has read after the last block and    *)
(* the part of a fragment behind it.                                       *)
BlocksToRead(i) == IF i.frag = NoFragment THEN BlockCount(i.size) ELSE i.size \div BlockSize
TailToRead(i, s) ==
  IF i.frag = NoFragment THEN <<>>
  ELSE SubSeq((CHOOSE b \in StoredAt(frags[i.frag + 1].start,
                                     frags[i.frag + 1].size) : TRUE).bytes,
              i.off + 1, i.off + i.size - Len(s))

LEMMA ReadFileIs ==
  ASSUME NEW i, NEW n \in Nat, n = BlocksToRead(i), Len(i.sizes) = n, NEW h, Reading(i, n, h),
         NEW s, NEW off \in Nat, h[n] = [bytes |-> s, off |-> off],
         Len(s \o TailToRead(i, s)) = i.size
  PROVE  ReadFile(i).bytes = s \o TailToRead(i, s)
<1> DEFINE tail == TailToRead(i, s)
           count == IF i.frag = NoFragment THEN BlockCount(i.size) ELSE i.size \div BlockSize
           g == CHOOSE g : g = [k \in 0 .. count |->
                                 IF k = 0 THEN [bytes |-> <<>>, off |-> i.start]
                                 ELSE ReadBlock(g[k - 1], i.sizes[k])]
           last == IF i.frag = NoFragment THEN <<>>
                   ELSE SubSeq((CHOOSE b \in StoredAt(frags[i.frag + 1].start,
                                                      frags[i.frag + 1].size) : TRUE).bytes,
                               i.off + 1, i.off + i.size - Len(g[count].bytes))
<1>1. ReadFile(i) =
        IF Len(i.sizes) # count \/ g[count] = Unreadable \/ Len(g[count].bytes \o last) # i.size
        THEN Unreadable ELSE [g[count] EXCEPT !.bytes = @ \o last]
  BY DEF ReadFile
<1>2. count = n
  BY DEF BlocksToRead
<1> HIDE DEF count
<1>3. Reading(i, count, h)
  BY <1>2
<1>4. Reading(i, count, g)
  <2>1. h = [k \in 0 .. count |-> IF k = 0 THEN [bytes |-> <<>>, off |-> i.start]
                                  ELSE ReadBlock(h[k - 1], i.sizes[k])]
    BY <1>3 DEF Reading
  <2>2. g = [k \in 0 .. count |-> IF k = 0 THEN [bytes |-> <<>>, off |-> i.start]
                                  ELSE ReadBlock(g[k - 1], i.sizes[k])]
    BY <2>1, ZenonT(30)
  <2> HIDE DEF g
  <2> QED BY <2>2 DEF Reading
<1> DEFINE r == g[count]
<1>5. r = [bytes |-> s, off |-> off]
  <2> HIDE DEF g
  <2>1. g[count] = h[count]
    BY <1>2, <1>3, <1>4, ReadingsAgree, ZenonT(30)
  <2>2. h[count] = [bytes |-> s, off |-> off]
    BY <1>2, Zenon
  <2> QED BY <2>1, <2>2, Zenon
<1>6. ReadFile(i) = IF Len(i.sizes) # count \/ r = Unreadable \/ Len(r.bytes \o last) # i.size
                    THEN Unreadable ELSE [r EXCEPT !.bytes = @ \o last]
  BY <1>1
<1>7. last = IF i.frag = NoFragment THEN <<>>
             ELSE SubSeq((CHOOSE b \in StoredAt(frags[i.frag + 1].start,
                                                frags[i.frag + 1].size) : TRUE).bytes,
                         i.off + 1, i.off + i.size - Len(r.bytes))
  OBVIOUS
<1> HIDE DEF r, g, last
<1>8. r.bytes = s /\ r.off = off
  BY <1>5
<1>9. last = tail
  BY <1>7, <1>8 DEF TailToRead
<1> HIDE DEF tail
<1>10. r # Unreadable
  <2>1. Unreadable.off = -1
    BY DEF Unreadable
  <2> QED BY <1>8, <2>1
<1>11. ReadFile(i) = [r EXCEPT !.bytes = @ \o tail]
  <2>1. Len(s \o tail) = i.size
    BY DEF tail
  <2> QED BY <1>2, <1>6, <1>8, <1>9, <1>10, <2>1
<1> QED BY <1>5, <1>11 DEF tail

(* One more block, stored or not.                                          *)
LEMMA ReadBlockIs ==
  ASSUME OutOK, NEW c \in Seq(Nat), SparseIsWhole(c), NEW info, info.size = Len(c),
         InBlocks(out, info, c), NEW n \in 1 .. BlockCount(Len(c)),
         NEW off \in Nat, off = info.start + SumTo(info.sizes, n - 1)
  PROVE  ReadBlock([bytes |-> SubSeq(c, 1, UpTo(c, n - 1)), off |-> off], info.sizes[n]) =
           [bytes |-> SubSeq(c, 1, UpTo(c, n)), off |-> off + info.sizes[n]]
<1> DEFINE b    == BlockOf(c, n)
           size == info.sizes[n]
           s    == SubSeq(c, 1, UpTo(c, n - 1))
           t    == SubSeq(c, 1, UpTo(c, n))
           r    == [bytes |-> s, off |-> off]
           w    == [at |-> off, stored |-> size, bytes |-> b]
<1>1. IsSeq(b) /\ Len(b) \in Nat /\ s \o b = t
  BY BlockIs
<1>2. size \in Nat /\ (size = 0 => Sparse(b)) /\ (size # 0 => w \in out)
  BY DEF InBlocks
<1>3. r.bytes = s /\ r.off = off /\ Unreadable.off = -1 /\ w.at = off /\ w.stored = size /\ w.bytes = b
  BY DEF Unreadable
<1>4. r # Unreadable
  BY <1>3
<1>5. CASE size = 0
  <2>1. Len(b) = BlockSize
    <3>1. Len(c) >= BlockSize
      <4>1. Len(c) # 0
        BY BlockCounts
      <4> QED BY <4>1 DEF InBlocks
    <3> QED BY <1>2, <1>5, <3>1 DEF SparseIsWhole
  <2> DEFINE z == [i \in 1 .. BlockSize |-> 0]
  <2>2. b = z
    <3>1. IsSeq(z) /\ Len(z) = BlockSize /\ \A i \in 1 .. BlockSize : z[i] = 0
      BY SizesAssumption, FunIsSeq
    <3>2. \A i \in 1 .. BlockSize : b[i] = 0
      BY <1>2, <1>5, <2>1 DEF Sparse
    <3> HIDE DEF z, b
    <3> QED BY <1>1, <2>1, <3>1, <3>2, SameSeq
  <2> HIDE DEF b, s, t, w, size
  <2>3. ReadBlock(r, size) = [r EXCEPT !.bytes = @ \o z]
    BY <1>4, <1>5 DEF ReadBlock
  <2>4. ReadBlock(r, size) = [bytes |-> s \o z, off |-> off]
    BY <2>3
  <2>5. off + size = off
    BY <1>5
  <2> QED BY <1>1, <2>2, <2>4, <2>5 DEF s, t, size
<1>6. CASE size # 0
  <2>1. w \in out
    BY <1>2, <1>6
  <2> HIDE DEF w, r, b, s, t, size
  <2>2. StoredAt(off, size) = {w}
    BY <1>3, <2>1 DEF StoredAt, OutOK, OutIs
  <2>3. ReadBlock(r, size) = [bytes |-> s \o b, off |-> off + size]
    <3>1. (CHOOSE x \in StoredAt(r.off, size) : TRUE) = w /\ StoredAt(r.off, size) # {}
      BY <1>3, <2>2
    <3>2. ReadBlock(r, size) =
            [bytes |-> r.bytes \o (CHOOSE x \in StoredAt(r.off, size) : TRUE).bytes,
             off |-> r.off + size]
      BY <1>4, <1>6, <3>1 DEF ReadBlock
    <3> QED BY <1>3, <3>1, <3>2
  <2> QED BY <1>1, <2>3 DEF s, t, size, r
<1> QED BY <1>5, <1>6

(* A file of blocks.                                                       *)
LEMMA BlocksReadBack ==
  ASSUME OutOK, NEW c \in Seq(Nat), SparseIsWhole(c), NEW i, i.size = Len(c), InBlocks(out, i, c)
  PROVE  ReadFile(i).bytes = c
<1> DEFINE n == BlockCount(Len(c))
           E(k) == [bytes |-> SubSeq(c, 1, UpTo(c, k)), off |-> i.start + SumTo(i.sizes, k)]
           h == [k \in 0 .. n |-> E(k)]
<1>1. /\ n \in Nat /\ Len(c) \in Nat /\ Len(c) <= n * BlockSize /\ BlockSize \in Nat \ {0}
      /\ n * BlockSize \in Nat
  <2>1. Len(c) \in Nat /\ BlockSize \in Nat \ {0}
    BY LenProperties, SizesAssumption
  <2>2. n \in Nat /\ Len(c) <= n * BlockSize
    BY <2>1, BlockCounts
  <2> HIDE DEF n
  <2>3. n * BlockSize \in Nat
    BY <2>1, <2>2
  <2> QED BY <2>1, <2>2, <2>3
<1>2. /\ i.frag = NoFragment /\ i.start \in Nat /\ IsSeq(i.sizes) /\ Len(i.sizes) = n
      /\ \A k \in 1 .. n : i.sizes[k] \in Nat
  BY DEF InBlocks
<1>3. i.sizes \in [1 .. n -> Nat]
  BY <1>1, <1>2, SeqFacts
<1>4. /\ SumTo(i.sizes, 0) = 0
      /\ \A m \in 1 .. n : SumTo(i.sizes, m) = SumTo(i.sizes, m - 1) + i.sizes[m]
      /\ \A m \in 0 .. n : SumTo(i.sizes, m) \in Nat
  BY <1>1, <1>3, SumFacts
<1>5. E(0) = [bytes |-> <<>>, off |-> i.start]
  <2>1. UpTo(c, 0) = 0
    BY <1>1 DEF UpTo
  <2>2. SubSeq(c, 1, 0) = <<>>
    BY SubSeqEmpty
  <2>3. i.start + SumTo(i.sizes, 0) = i.start
    BY <1>2, <1>4
  <2> QED BY <2>1, <2>2, <2>3
<1>6. ASSUME NEW k \in 1 .. n PROVE E(k) = ReadBlock(E(k - 1), i.sizes[k])
  <2> DEFINE off == i.start + SumTo(i.sizes, k - 1)
  <2>1. k - 1 \in 0 .. n /\ k \in 0 .. n
    BY <1>1
  <2>2. off \in Nat /\ off + i.sizes[k] = i.start + SumTo(i.sizes, k)
    <3>1. /\ SumTo(i.sizes, k - 1) \in Nat /\ i.sizes[k] \in Nat /\ i.start \in Nat
          /\ SumTo(i.sizes, k) = SumTo(i.sizes, k - 1) + i.sizes[k]
      BY <1>2, <1>4, <2>1
    <3>2. \A x, y, z \in Nat : x + y \in Nat /\ (x + y) + z = x + (y + z)
      OBVIOUS
    <3> QED BY <3>1, <3>2, SMTT(60)
  <2>3. ReadBlock([bytes |-> SubSeq(c, 1, UpTo(c, k - 1)), off |-> off], i.sizes[k]) =
          [bytes |-> SubSeq(c, 1, UpTo(c, k)), off |-> off + i.sizes[k]]
    BY <2>2, ReadBlockIs
  <2> QED BY <2>2, <2>3
<1>7. E(n).bytes = c /\ E(n).off \in Nat
  <2>1. UpTo(c, n) = Len(c)
    BY <1>1 DEF UpTo
  <2>2. SubSeq(c, 1, Len(c)) = c
    BY SubSeqFull
  <2>3. n \in 0 .. n
    BY <1>1
  <2> QED BY <1>2, <1>4, <2>1, <2>2, <2>3
<1> HIDE DEF n, E
<1>8. ASSUME NEW k \in 0 .. n
      PROVE  h[k] = IF k = 0 THEN [bytes |-> <<>>, off |-> i.start]
                    ELSE ReadBlock(h[k - 1], i.sizes[k])
  <2>1. CASE k = 0
    BY <1>5, <2>1
  <2>2. CASE k # 0
    <3>1. k \in 1 .. n /\ k - 1 \in 0 .. n
      BY <1>1, <2>2
    <3> QED BY <1>6, <2>2, <3>1
  <2> QED BY <2>1, <2>2
<1>9. Reading(i, n, h)
  <2>1. h = [k \in 0 .. n |-> IF k = 0 THEN [bytes |-> <<>>, off |-> i.start]
                              ELSE ReadBlock(h[k - 1], i.sizes[k])]
    BY <1>8, ZenonT(30)
  <2> HIDE DEF h
  <2> QED BY <2>1 DEF Reading
<1>10. h[n] = E(n)
  <2>1. n \in 0 .. n
    BY <1>1
  <2> QED BY <2>1
<1> HIDE DEF h
<1> DEFINE off == i.start + SumTo(i.sizes, n)
<1>11. h[n] = [bytes |-> c, off |-> off] /\ off \in Nat
  BY <1>7, <1>10 DEF E
<1> HIDE DEF off
<1>12. n = BlocksToRead(i) /\ TailToRead(i, c) = <<>>
  BY <1>2 DEF n, BlocksToRead, TailToRead
<1>13. c \o <<>> = c
  BY ConcatEmptySeq
<1>14. Len(c \o <<>>) = i.size
  BY <1>13
<1>15. ReadFile(i).bytes = c \o TailToRead(i, c)
  <2>1. Len(c \o TailToRead(i, c)) = i.size
    BY <1>12, <1>14
  <2>2. n \in Nat /\ n = BlocksToRead(i) /\ Len(i.sizes) = n /\ off \in Nat
        /\ h[n] = [bytes |-> c, off |-> off]
    BY <1>1, <1>2, <1>11, <1>12
  <2> QED BY <1>9, <2>1, <2>2, ReadFileIs
<1> QED BY <1>12, <1>13, <1>15

(* A file that is a fragment.                                              *)
LEMMA FragmentReadsBack ==
  ASSUME ImageInv, OutOK, buf = <<>>, NEW c \in Seq(Nat), NEW i, i.size = Len(c),
         InFragment(out, frags, buf, i, c)
  PROVE  ReadFile(i).bytes = c
<1> DEFINE F == FragmentIn(out, frags, buf, i.frag)
           t == SubSeq(F, i.off + 1, i.off + i.size)
<1>1. /\ i.size \in 1 .. BlockSize - 1 /\ i.sizes = <<>> /\ i.start \in Nat
      /\ i.frag \in 0 .. Len(frags) /\ i.off \in Nat /\ i.off + i.size <= Len(F)
      /\ \A k \in 1 .. i.size : F[i.off + k] = c[k]
  BY DEF InFragment
<1>2. BlockSize \in Nat \ {0} /\ Len(frags) \in Nat
  BY DataArea
<1>3. i.frag # Len(frags)
  <2> SUFFICES ASSUME i.frag = Len(frags) PROVE FALSE
    OBVIOUS
  <2>1. F = <<>>
    BY <1>2 DEF FragmentIn
  <2> HIDE DEF F
  <2> QED BY <1>1, <1>2, <2>1, EmptyFacts
<1>4. i.frag \in 0 .. Len(frags) - 1 /\ i.frag < Len(frags) /\ i.frag # NoFragment
  BY <1>1, <1>2, <1>3, SMTT(60) DEF NoFragment
<1>5. IsSeq(F) /\ Len(F) \in Nat
  <2>1. MoreOut(out, pos, out) /\ MoreFrags(out, frags, frags)
    BY DataArea DEF MoreOut, MoreFrags
  <2>2. IsSeq(F)
    BY <1>4, <2>1, FragmentStays
  <2> HIDE DEF F
  <2> QED BY <2>2, SeqFacts
<1>6. F = (CHOOSE b \in StoredAt(frags[i.frag + 1].start, frags[i.frag + 1].size) : TRUE).bytes
  BY <1>4 DEF FragmentIn, StoredAt, StoredIn
<1> HIDE DEF F
<1>7. t = c
  <2>1. IsSeq(t) /\ Len(t) = i.size /\ \A k \in 1 .. i.size : t[k] = F[i.off + k]
    <3> DEFINE a == i.off + 1
               z == i.off + i.size
    <3>0. ASSUME NEW o \in Nat, NEW m \in Nat \ {0}, NEW l \in Nat, o + m <= l
          PROVE  /\ o + 1 \in Int /\ o + m \in Int /\ o + 1 <= o + m
                 /\ (o + m) - (o + 1) + 1 = m
                 /\ \A k \in o + 1 .. o + m : k \in 1 .. l
                 /\ \A k \in 1 .. m : (o + 1) + k - 1 = o + k
      BY <3>0
    <3>1. /\ a \in Int /\ z \in Int /\ a <= z /\ z - a + 1 = i.size
          /\ \A k \in a .. z : k \in 1 .. Len(F)
          /\ \A k \in 1 .. i.size : a + k - 1 = i.off + k
      <4>1. i.off \in Nat /\ i.size \in Nat \ {0} /\ Len(F) \in Nat /\ i.off + i.size <= Len(F)
        BY <1>1, <1>2, <1>5
      <4> QED BY <3>0, <4>1
    <3>2. F \in Seq(ToSet(F))
      BY <1>5 DEF IsSeq
    <3>3. \A k \in a .. z : F[k] \in ToSet(F)
      BY <3>1, <3>2, ElementOfSeq
    <3> HIDE DEF a, z
    <3>4. /\ SubSeq(F, a, z) \in Seq(ToSet(F))
          /\ Len(SubSeq(F, a, z)) = IF a <= z THEN z - a + 1 ELSE 0
          /\ \A k \in 1 .. z - a + 1 : SubSeq(F, a, z)[k] = F[a + k - 1]
      BY <3>1, <3>3, SubSeqProperties
    <3>5. IsSeq(SubSeq(F, a, z))
      BY <3>4, WidenSeq
    <3>6. t = SubSeq(F, a, z)
      BY DEF a, z
    <3> HIDE DEF t
    <3> QED BY <3>1, <3>4, <3>5, <3>6
  <2>2. IsSeq(c)
    BY WidenSeq
  <2> HIDE DEF t
  <2> QED BY <1>1, <2>1, <2>2, SameSeq
<1>8. i.size \div BlockSize = 0
  <2>1. ASSUME NEW a \in Nat, NEW q \in Nat \ {0}, a < q PROVE a \div q = 0
    <3>1. a \div q \in Nat /\ a % q \in Nat /\ a = q * (a \div q) + (a % q)
      BY DivFacts
    <3> DEFINE e == a \div q
               m == a % q
    <3>2. e \in Nat /\ m \in Nat /\ a = q * e + m
      BY <3>1
    <3> HIDE DEF e, m
    <3>3. e # 0 => q * e >= q
      <4>1. ASSUME NEW x \in Nat \ {0}, NEW y \in Nat PROVE x * (y + 1) = x * y + x /\ x * y \in Nat
        OBVIOUS
      <4>2. e # 0 => e - 1 \in Nat /\ e = (e - 1) + 1
        BY <3>2
      <4> QED BY <4>1, <4>2
    <3>4. q * e \in Nat
      BY <3>2
    <3>5. e = 0
      BY <2>1, <3>2, <3>3, <3>4
    <3> QED BY <3>5 DEF e
  <2>2. i.size \in Nat /\ i.size < BlockSize
    BY <1>1, <1>2, SMTT(60)
  <2> QED BY <1>2, <2>1, <2>2
<1> DEFINE h == [k \in 0 .. 0 |-> [bytes |-> <<>>, off |-> i.start]]
<1>9. Reading(i, 0, h) /\ h[0] = [bytes |-> <<>>, off |-> i.start]
  <2>1. \A k \in 0 .. 0 : k = 0
    OBVIOUS
  <2>2. h = [k \in 0 .. 0 |-> IF k = 0 THEN [bytes |-> <<>>, off |-> i.start]
                              ELSE ReadBlock(h[k - 1], i.sizes[k])]
    BY <2>1, ZenonT(30)
  <2>3. h[0] = [bytes |-> <<>>, off |-> i.start]
    OBVIOUS
  <2> HIDE DEF h
  <2> QED BY <2>2, <2>3 DEF Reading
<1> HIDE DEF h
<1> DEFINE tail == TailToRead(i, <<>>)
<1>10. tail = c
  <2>1. i.off + i.size - Len(<<>>) = i.off + i.size
    BY <1>1, <1>2, EmptyFacts
  <2>2. tail = SubSeq(F, i.off + 1, i.off + i.size - Len(<<>>))
    BY <1>4, <1>6 DEF TailToRead
  <2> HIDE DEF tail
  <2> QED BY <1>7, <2>1, <2>2
<1>11. <<>> \o c = c /\ Len(i.sizes) = 0
  BY <1>1, ConcatEmptySeq, EmptyFacts
<1>12. 0 = BlocksToRead(i)
  BY <1>4, <1>8 DEF BlocksToRead
<1>13. ReadFile(i).bytes = <<>> \o tail
  <2>1. 0 \in Nat /\ i.start \in Nat /\ Len(<<>> \o TailToRead(i, <<>>)) = i.size
    BY <1>1, <1>10, <1>11
  <2> QED BY <1>9, <1>11, <1>12, <2>1, ReadFileIs
<1> QED BY <1>10, <1>11, <1>13

LEMMA HeldReadsBack ==
  ASSUME ImageInv, OutOK, buf = <<>>, \A c \in Contents : SparseIsWhole(c), NEW i, NEW c, Holds(i, c)
  PROVE  ReadFile(i).bytes = c
<1>1. HeldIn(out, frags, buf, i, c)
  BY DEF Holds
<1>2. c \in Seq(Nat) /\ i.size = Len(c)
  <2>1. <<>> \in Seq(Nat)
    BY EmptySeq
  <2> QED BY <1>1, <2>1, SizesAssumption DEF HeldIn
<1>3. SparseIsWhole(c)
  <2>1. BlockCount(Len(<<>>)) = 0
    BY EmptyFacts, BlockCounts
  <2>2. SparseIsWhole(<<>>)
    BY <2>1 DEF SparseIsWhole
  <2> QED BY <1>1, <2>2 DEF HeldIn
<1>4. InBlocks(out, i, c) \/ InFragment(out, frags, buf, i, c)
  BY <1>1 DEF HeldIn
<1> QED BY <1>2, <1>3, <1>4, BlocksReadBack, FragmentReadsBack

-----------------------------------------------------------------------------
(* The groups read back the entries they were made of.                     *)

LEMMA FlattenLast ==
  ASSUME NEW ss, NEW n \in Nat \ {0}, Len(ss) = n, IsSeq(ss[n]),
         NEW ts, IsSeq(ts), Len(ts) = n - 1, \A i \in 1 .. n - 1 : ts[i] = ss[i]
  PROVE  FlattenSeq(ss) = FlattenSeq(ts) \o ss[n]
<1>1. PICK f : Flattens(ss, f, n) /\ FlattenSeq(ss) = f[n]
  BY FlattenIs
<1>2. CASE n = 1
  <2>1. ts = <<>>
    BY <1>2, EmptySeq DEF IsSeq
  <2>2. FlattenSeq(ts) = <<>>
    BY <2>1 DEF FlattenSeq
  <2>3. <<>> \o ss[n] = ss[n]
    BY ConcatEmptySeq DEF IsSeq
  <2> QED BY <1>1, <1>2, <2>2, <2>3 DEF Flattens
<1>3. CASE n # 1
  <2>0. n - 1 \in Nat /\ n - 1 # 0 /\ n \in 2 .. n
    BY <1>3
  <2>1. PICK g : Flattens(ts, g, n - 1) /\ FlattenSeq(ts) = g[n - 1]
    BY <2>0, FlattenIs
  <2> DEFINE S == {i \in Nat : i + 1 <= n - 1 => f[i + 1] = g[i + 1]}
  <2>2. 0 \in S
    <3>1. 1 \in 1 .. n - 1 /\ 0 + 1 = 1
      BY <2>0
    <3>2. f[1] = ss[1] /\ g[1] = ts[1]
      BY <1>1, <2>1 DEF Flattens
    <3> QED BY <3>1, <3>2
  <2>3. ASSUME NEW i \in Nat, i \in S PROVE i + 1 \in S
    <3> SUFFICES ASSUME (i + 1) + 1 <= n - 1 PROVE f[(i + 1) + 1] = g[(i + 1) + 1]
      OBVIOUS
    <3> DEFINE m == i + 1
    <3>1. /\ m + 1 \in 2 .. n /\ m + 1 \in 2 .. n - 1 /\ (m + 1) - 1 = m /\ m + 1 \in 1 .. n - 1
          /\ m <= n - 1
      BY <2>0
    <3>2. f[m] = g[m]
      BY <2>3, <3>1
    <3> HIDE DEF m
    <3>3. f[m + 1] = f[m] \o ss[m + 1]
      <4>1. \A k \in 2 .. n : f[k] = f[k - 1] \o ss[k]
        BY <1>1 DEF Flattens
      <4> QED BY <3>1, <4>1
    <3>4. g[m + 1] = g[m] \o ts[m + 1]
      <4>1. \A k \in 2 .. n - 1 : g[k] = g[k - 1] \o ts[k]
        BY <2>1 DEF Flattens
      <4> QED BY <3>1, <4>1
    <3>5. ts[m + 1] = ss[m + 1]
      BY <3>1
    <3>6. f[m + 1] = g[m + 1]
      BY <3>2, <3>3, <3>4, <3>5
    <3> QED BY <3>6 DEF m
  <2> HIDE DEF S
  <2>4. Nat \subseteq S
    BY <2>2, <2>3, Induction
  <2>5. f[n - 1] = g[n - 1]
    <3>1. n - 2 \in Nat /\ (n - 2) + 1 = n - 1
      BY <2>0
    <3>2. n - 2 \in S
      BY <2>4, <3>1
    <3> QED BY <3>1, <3>2 DEF S
  <2>6. f[n] = f[n - 1] \o ss[n]
    BY <1>1, <2>0 DEF Flattens
  <2> QED BY <1>1, <2>1, <2>5, <2>6
<1> QED BY <1>2, <1>3

LEMMA FlattenIsSeq ==
  ASSUME NEW ss, NEW n \in Nat, Len(ss) = n, IsSeq(ss), \A i \in 1 .. n : IsSeq(ss[i])
  PROVE  IsSeq(FlattenSeq(ss))
<1>1. CASE n = 0
  <2>1. FlattenSeq(ss) = ss
    BY <1>1 DEF FlattenSeq
  <2> QED BY <2>1
<1>2. CASE n # 0
  <2>1. PICK f : Flattens(ss, f, n) /\ FlattenSeq(ss) = f[n]
    BY <1>2, FlattenIs
  <2> DEFINE S == {i \in Nat : i + 1 <= n => IsSeq(f[i + 1])}
  <2>2. 0 \in S
    <3>1. 1 \in 1 .. n /\ f[1] = ss[1] /\ 0 + 1 = 1
      BY <1>2, <2>1 DEF Flattens
    <3> QED BY <3>1
  <2>3. ASSUME NEW i \in Nat, i \in S PROVE i + 1 \in S
    <3> SUFFICES ASSUME (i + 1) + 1 <= n PROVE IsSeq(f[(i + 1) + 1])
      OBVIOUS
    <3> DEFINE m == i + 1
    <3>1. m + 1 \in 2 .. n /\ (m + 1) - 1 = m /\ m <= n /\ m + 1 \in 1 .. n
      OBVIOUS
    <3>2. IsSeq(f[m])
      BY <2>3, <3>1
    <3> HIDE DEF m
    <3>3. f[m + 1] = f[m] \o ss[m + 1]
      <4>1. \A k \in 2 .. n : f[k] = f[k - 1] \o ss[k]
        BY <2>1 DEF Flattens
      <4> QED BY <3>1, <4>1
    <3>4. IsSeq(ss[m + 1])
      BY <3>1
    <3>5. IsSeq(f[m + 1])
      BY <3>2, <3>3, <3>4, JoinElements
    <3> QED BY <3>5 DEF m
  <2> HIDE DEF S
  <2>4. n - 1 \in Nat /\ (n - 1) + 1 = n
    BY <1>2
  <2>5. n - 1 \in S
    BY <2>2, <2>3, <2>4, Induction
  <2> QED BY <2>1, <2>4, <2>5 DEF S
<1> QED BY <1>1, <1>2

(* Groups of whatever entries.                                             *)
AreGroups(groups) ==
  IsSeq(groups) /\ \A g \in 1 .. Len(groups) : IsGroup(groups[g]) /\ IsSeq(groups[g].entries)

(* The entries of all groups but the last.                                 *)
EntriesBefore(groups) == FlattenSeq([g \in 1 .. Len(groups) - 1 |-> ReadGroup(groups[g])])

LEMMA ReadGroupIs ==
  ASSUME NEW g, IsSeq(g.entries)
  PROVE  /\ IsSeq(ReadGroup(g)) /\ Len(ReadGroup(g)) = Len(g.entries)
         /\ \A e \in 1 .. Len(g.entries) : ReadGroup(g)[e] = ReadEntry(g, g.entries[e])
<1> DEFINE m == Len(g.entries)
           r == ReadGroup(g)
<1>1. m \in Nat
  BY SeqFacts
<1>2. r = [e \in 1 .. m |-> ReadEntry(g, g.entries[e])]
  BY DEF ReadGroup
<1> HIDE DEF r, m
<1>3. \A e \in 1 .. m : r[e] = ReadEntry(g, g.entries[e])
  BY <1>2
<1>4. r = [e \in 1 .. m |-> r[e]]
  BY <1>2
<1>5. IsSeq(r) /\ Len(r) = m
  BY <1>1, <1>4, FunIsSeq
<1> QED BY <1>3, <1>5 DEF r, m

LEMMA EntriesAre ==
  ASSUME NEW groups, AreGroups(groups), NEW n \in Nat \ {0}, n = Len(groups)
  PROVE  /\ EntriesIn(groups) = EntriesBefore(groups) \o ReadGroup(groups[n])
         /\ IsSeq(EntriesBefore(groups)) /\ IsSeq(ReadGroup(groups[n]))
<1> DEFINE ss == [g \in 1 .. n |-> ReadGroup(groups[g])]
           ts == [g \in 1 .. n - 1 |-> ReadGroup(groups[g])]
<1>1. n \in 1 .. n /\ n - 1 \in Nat /\ \A i \in 1 .. n - 1 : i \in 1 .. n
  OBVIOUS
<1>2. \A g \in 1 .. n : ss[g] = ReadGroup(groups[g]) /\ IsSeq(ss[g])
  <2>1. \A g \in 1 .. n : IsSeq(ReadGroup(groups[g]))
    BY ReadGroupIs DEF AreGroups
  <2> QED BY <2>1
<1>3. \A g \in 1 .. n - 1 : ts[g] = ss[g]
  BY <1>1
<1>4. ss = [g \in 1 .. n |-> ss[g]] /\ ts = [g \in 1 .. n - 1 |-> ts[g]]
  OBVIOUS
<1>5. EntriesIn(groups) = FlattenSeq(ss) /\ EntriesBefore(groups) = FlattenSeq(ts)
  BY DEF EntriesIn, EntriesBefore
<1> HIDE DEF ss, ts
<1>6. IsSeq(ss) /\ Len(ss) = n
  BY <1>4, FunIsSeq
<1>7. IsSeq(ts) /\ Len(ts) = n - 1
  BY <1>1, <1>4, FunIsSeq
<1>8. FlattenSeq(ss) = FlattenSeq(ts) \o ss[n] /\ IsSeq(ss[n]) /\ ss[n] = ReadGroup(groups[n])
  <2>1. IsSeq(ss[n]) /\ ss[n] = ReadGroup(groups[n])
    BY <1>1, <1>2
  <2> QED BY <1>3, <1>6, <1>7, <2>1, FlattenLast
<1>9. IsSeq(FlattenSeq(ts))
  <2>1. \A g \in 1 .. n - 1 : IsSeq(ts[g])
    BY <1>1, <1>2, <1>3
  <2> QED BY <1>1, <1>7, <2>1, FlattenIsSeq
<1> QED BY <1>5, <1>8, <1>9

LEMMA SameBefore ==
  ASSUME NEW gs, NEW hs, NEW n \in Nat \ {0}, Len(gs) = n, \A g \in 1 .. n - 1 : hs[g] = gs[g],
         Len(hs) = n
  PROVE  EntriesBefore(hs) = EntriesBefore(gs)
<1>1. [g \in 1 .. n - 1 |-> ReadGroup(hs[g])] = [g \in 1 .. n - 1 |-> ReadGroup(gs[g])]
  OBVIOUS
<1> QED BY <1>1 DEF EntriesBefore

(* A header without entries.                                               *)
LEMMA EmptyHeader ==
  ASSUME NEW groups, AreGroups(groups), NEW g, IsGroup(g), g.entries = <<>>
  PROVE  AreGroups(Append(groups, g)) /\ EntriesIn(Append(groups, g)) = EntriesIn(groups)
<1> DEFINE gs == Append(groups, g)
           n  == Len(groups)
<1>1. IsSeq(groups) /\ n \in Nat
  BY SeqFacts DEF AreGroups
<1>2. IsSeq(gs) /\ Len(gs) = n + 1 /\ gs[n + 1] = g /\ \A i \in 1 .. n : gs[i] = groups[i]
  BY <1>1, AppendFacts
<1> HIDE DEF gs
<1>3. AreGroups(gs)
  <2>1. \A i \in 1 .. n + 1 : i \in 1 .. n \/ i = n + 1
    BY <1>1
  <2> QED BY <1>2, <2>1, EmptyFacts DEF AreGroups
<1> HIDE DEF n
<1>4. n + 1 \in Nat \ {0} /\ (n + 1) - 1 = n
  BY <1>1
<1>5. EntriesIn(gs) = EntriesBefore(gs) \o ReadGroup(gs[n + 1]) /\ IsSeq(EntriesBefore(gs))
  BY <1>2, <1>3, <1>4, EntriesAre
<1>6. EntriesBefore(gs) = EntriesIn(groups)
  <2>1. [i \in 1 .. n |-> ReadGroup(gs[i])] = [i \in 1 .. n |-> ReadGroup(groups[i])]
    BY <1>2
  <2> QED BY <1>2, <1>4, <2>1 DEF EntriesBefore, EntriesIn, n
<1>7. ReadGroup(g) = <<>>
  <2>1. IsSeq(ReadGroup(g)) /\ Len(ReadGroup(g)) = 0
    BY EmptyFacts, ReadGroupIs
  <2> QED BY <2>1, EmptySeq DEF IsSeq
<1>8. EntriesBefore(gs) \o <<>> = EntriesBefore(gs)
  BY <1>5, ConcatEmptySeq DEF IsSeq
<1> QED BY <1>2, <1>3, <1>5, <1>6, <1>7, <1>8 DEF gs

LEMMA AppendIsJoin ==
  ASSUME NEW s, NEW t, IsSeq(s), IsSeq(t), NEW x
  PROVE  s \o Append(t, x) = Append(s \o t, x)
<1> DEFINE S == (ToSet(s) \cup ToSet(t)) \cup {x}
<1>1. s \in Seq(S) /\ t \in Seq(S) /\ <<x>> \in Seq(S)
  <2>1. s \in Seq(S) /\ t \in Seq(S)
    BY SeqMonotonic DEF IsSeq
  <2>2. <<x>> \in Seq(S)
    OBVIOUS
  <2> QED BY <2>1, <2>2
<1> HIDE DEF S
<1>2. Append(t, x) = t \o <<x>>
  BY <1>1, AppendIsConcat
<1>3. s \o t \in Seq(S)
  BY <1>1, ConcatProperties
<1>4. Append(s \o t, x) = (s \o t) \o <<x>>
  BY <1>1, <1>3, AppendIsConcat
<1>5. (s \o t) \o <<x>> = s \o (t \o <<x>>)
  BY <1>1, ConcatAssociative, SMTT(60)
<1> QED BY <1>2, <1>4, <1>5

(* One more entry under the last header.                                   *)
WithEntry(gs, n, entry) == [gs EXCEPT ![n].entries = Append(@, entry)]

LEMMA EntryUnderLast ==
  ASSUME NEW gs, AreGroups(gs), NEW n \in Nat \ {0}, n = Len(gs), NEW entry
  PROVE  /\ AreGroups(WithEntry(gs, n, entry))
         /\ EntriesIn(WithEntry(gs, n, entry)) = Append(EntriesIn(gs), ReadEntry(gs[n], entry))
         /\ Len(WithEntry(gs, n, entry)) = n
         /\ \A i \in 1 .. n : WithEntry(gs, n, entry)[i].base = gs[i].base
<1> DEFINE last == gs[n]
           all  == Append(last.entries, entry)
           with == [block |-> last.block, base |-> last.base, entries |-> all]
           res  == [gs EXCEPT ![n] = with]
<1>1. IsSeq(gs) /\ n \in 1 .. n /\ n \in 1 .. Len(gs) /\ \A i \in 1 .. n - 1 : i \in 1 .. n /\ i # n
  BY DEF AreGroups
<1>2. IsGroup(last) /\ IsSeq(last.entries)
  BY <1>1 DEF AreGroups
<1>3. WithEntry(gs, n, entry) = res
  <2>1. [gs EXCEPT ![n].entries = Append(@, entry)] = [gs EXCEPT ![n] = [last EXCEPT !.entries = all]]
    BY <1>1, SeqFacts
  <2>2. [last EXCEPT !.entries = all] = with
    <3> HIDE DEF all, last
    <3> QED BY <1>2 DEF IsGroup
  <2> QED BY <2>1, <2>2 DEF WithEntry
<1>4. /\ IsSeq(all) /\ Len(all) = Len(last.entries) + 1 /\ all[Len(last.entries) + 1] = entry
      /\ \A e \in 1 .. Len(last.entries) : all[e] = last.entries[e]
      /\ Len(last.entries) \in Nat
  BY <1>2, AppendFacts, SeqFacts
<1>5. with.block = last.block /\ with.base = last.base /\ with.entries = all /\ IsGroup(with)
  BY DEF IsGroup
<1> HIDE DEF with, all
<1>6. IsSeq(res) /\ Len(res) = n /\ res[n] = with /\ \A i \in 1 .. n : i # n => res[i] = gs[i]
  <2>1. IsSeq(gs) /\ n \in 1 .. Len(gs)
    BY <1>1
  <2>2. /\ IsSeq(res) /\ Len(res) = Len(gs) /\ res[n] = with
        /\ \A i \in 1 .. Len(gs) : i # n => res[i] = gs[i]
    <3>1. IsSeq(res) /\ Len(res) = Len(gs)
      <4>1. DOMAIN gs = 1 .. n
        BY <2>1, SeqFacts
      <4>2. res = [i \in 1 .. n |-> res[i]]
        BY <4>1
      <4> HIDE DEF res
      <4> QED BY <4>2, FunIsSeq
    <3>2. res[n] = with
      BY <2>1, ExceptFacts
    <3>3. \A i \in 1 .. Len(gs) : i # n => res[i] = gs[i]
      BY <2>1, ExceptFacts
    <3> QED BY <3>1, <3>2, <3>3
  <2> QED BY <2>2
<1> HIDE DEF res
<1>7. AreGroups(res) /\ \A i \in 1 .. n : res[i].base = gs[i].base
  BY <1>4, <1>5, <1>6 DEF AreGroups
<1> HIDE DEF last
<1>8. ReadGroup(with) = Append(ReadGroup(last), ReadEntry(last, entry))
  <2> DEFINE a == ReadGroup(with)
             b == Append(ReadGroup(last), ReadEntry(last, entry))
             m == Len(last.entries)
  <2>1. \A e : ReadEntry(with, e) = ReadEntry(last, e)
    BY <1>5 DEF ReadEntry
  <2>2. IsSeq(a) /\ Len(a) = m + 1 /\ \A e \in 1 .. m + 1 : a[e] = ReadEntry(last, all[e])
    BY <1>4, <1>5, <2>1, ReadGroupIs
  <2>3. /\ IsSeq(ReadGroup(last)) /\ Len(ReadGroup(last)) = m
        /\ \A e \in 1 .. m : ReadGroup(last)[e] = ReadEntry(last, last.entries[e])
    BY <1>2, ReadGroupIs
  <2>4. /\ IsSeq(b) /\ Len(b) = m + 1 /\ b[m + 1] = ReadEntry(last, entry)
        /\ \A e \in 1 .. m : b[e] = ReadGroup(last)[e]
    BY <2>3, AppendFacts
  <2> HIDE DEF a, b
  <2>5. ASSUME NEW e \in 1 .. m + 1 PROVE a[e] = b[e]
    <3>1. CASE e = m + 1
      BY <1>4, <2>2, <2>4, <3>1
    <3>2. CASE e # m + 1
      <4>1. e \in 1 .. m
        BY <1>4, <3>2
      <4> QED BY <1>4, <2>2, <2>3, <2>4, <4>1
    <3> QED BY <3>1, <3>2
  <2>6. a = b
    <3> HIDE DEF m
    <3> QED BY <2>2, <2>4, <2>5, SameSeq
  <2> QED BY <2>6 DEF a, b
<1> DEFINE before == EntriesBefore(gs)
           rest   == ReadGroup(last)
           x      == ReadEntry(last, entry)
<1>9. EntriesIn(gs) = before \o rest /\ IsSeq(before) /\ IsSeq(rest)
  BY EntriesAre DEF last
<1>10. EntriesIn(res) = EntriesBefore(res) \o ReadGroup(res[n])
  BY <1>6, <1>7, EntriesAre
<1>11. EntriesBefore(res) = before
  <2>1. \A i \in 1 .. n - 1 : res[i] = gs[i]
    BY <1>1, <1>6
  <2> QED BY <1>6, <2>1, SameBefore
<1>12. EntriesIn(res) = before \o Append(rest, x)
  BY <1>6, <1>8, <1>10, <1>11
<1> HIDE DEF before, rest, x
<1>13. before \o Append(rest, x) = Append(before \o rest, x)
  BY <1>9, AppendIsJoin
<1>14. EntriesIn(res) = Append(EntriesIn(gs), x)
  BY <1>9, <1>12, <1>13
<1> QED BY <1>3, <1>6, <1>7, <1>14 DEF last, x

(* No difference at all is one that 16 bits hold.                          *)
LEMMA SmallQuotient ==
  ASSUME NEW a \in Nat, NEW q \in Nat \ {0}, a < q
  PROVE  a \div q = 0 /\ a % q = a
<1> DEFINE e == a \div q
           m == a % q
<1>1. e \in Nat /\ m \in Nat /\ a = q * e + m
  BY DivFacts
<1> HIDE DEF e, m
<1>2. e # 0 => q * e >= q
  <2>1. ASSUME NEW x \in Nat \ {0}, NEW y \in Nat PROVE x * (y + 1) = x * y + x /\ x * y \in Nat
    OBVIOUS
  <2>2. e # 0 => e - 1 \in Nat /\ e = (e - 1) + 1
    BY <1>1
  <2> QED BY <2>1, <2>2
<1>3. q * e \in Nat
  BY <1>1
<1>4. e = 0
  BY <1>1, <1>2, <1>3
<1>5. q * e = 0
  BY <1>4
<1>6. m = a
  BY <1>1, <1>5
<1> QED BY <1>4, <1>6 DEF e, m

LEMMA NoDelta == AsDelta(0) = 0
<1> DEFINE d == DeltaMax + 1
<1>1. d \in Nat \ {0} /\ 2 * d \in Nat \ {0} /\ d < 2 * d /\ 0 + DeltaMax + 1 = d
  BY SizesAssumption
<1>2. AsDelta(0) = ((0 + DeltaMax + 1) % (2 * d)) - d
  BY DEF AsDelta
<1> HIDE DEF d
<1>3. d % (2 * d) = d
  BY <1>1, SmallQuotient
<1> QED BY <1>1, <1>2, <1>3

(* An entry as write_tables_dfs hands it on.                               *)
IsEntry(e) ==
  /\ e = [name |-> e.name, number |-> e.number, ref |-> <<e.ref[1], e.ref[2]>>, kind |-> e.kind]
  /\ e.number \in Nat

(* The base of every group is a number.                                    *)
HaveBases(groups) == \A g \in 1 .. Len(groups) : groups[g].base \in Nat

LEMMA AddEntryReads ==
  ASSUME NEW groups, AreGroups(groups), HaveBases(groups), NEW kid, IsEntry(kid)
  PROVE  /\ AreGroups(AddEntry(groups, kid)) /\ HaveBases(AddEntry(groups, kid))
         /\ EntriesIn(AddEntry(groups, kid)) = Append(EntriesIn(groups), kid)
<1> DEFINE new   == groups = <<>> \/ ~Fits(groups[Len(groups)], kid)
           group == [block |-> kid.ref[1], base |-> kid.number, entries |-> <<>>]
           gs    == IF new THEN Append(groups, group) ELSE groups
           n     == Len(gs)
           entry == [name |-> kid.name, off |-> kid.ref[2], kind |-> kid.kind,
                     delta |-> AsDelta(kid.number - gs[Len(gs)].base)]
           res   == WithEntry(gs, n, entry)
<1>1. AddEntry(groups, kid) = res
  BY DEF AddEntry, WithEntry
<1>2. IsSeq(groups) /\ Len(groups) \in Nat /\ kid.number \in Nat
  BY SeqFacts DEF AreGroups, IsEntry
<1>3. group.block = kid.ref[1] /\ group.base = kid.number /\ group.entries = <<>> /\ IsGroup(group)
  BY DEF IsGroup
<1>4. entry.name = kid.name /\ entry.off = kid.ref[2] /\ entry.kind = kid.kind
      /\ entry.delta = AsDelta(kid.number - gs[n].base)
  OBVIOUS
<1> HIDE DEF entry, group
<1>5. /\ AreGroups(gs) /\ EntriesIn(gs) = EntriesIn(groups) /\ n \in Nat \ {0}
      /\ gs[n].block = kid.ref[1] /\ gs[n].base \in Nat /\ HaveBases(gs)
      /\ AsDelta(kid.number - gs[n].base) = kid.number - gs[n].base
  <2>1. CASE new
    <3> HIDE DEF new
    <3>1. gs = Append(groups, group)
      BY <2>1
    <3> HIDE DEF gs
    <3>2. AreGroups(gs) /\ EntriesIn(gs) = EntriesIn(groups)
      BY <1>3, <3>1, EmptyHeader
    <3>3. n = Len(groups) + 1 /\ gs[n] = group /\ \A i \in 1 .. Len(groups) : gs[i] = groups[i]
      BY <1>2, <3>1, AppendFacts
    <3>4. kid.number - kid.number = 0 /\ n \in Nat \ {0}
          /\ \A i \in 1 .. n : i \in 1 .. Len(groups) \/ i = n
      BY <1>2, <3>3
    <3>5. HaveBases(gs)
      BY <1>2, <1>3, <3>3, <3>4 DEF HaveBases
    <3> HIDE DEF n
    <3> QED BY <1>2, <1>3, <3>2, <3>3, <3>4, <3>5, NoDelta
  <2>2. CASE ~new
    <3>1. gs = groups /\ groups # <<>> /\ Fits(groups[Len(groups)], kid)
      BY <2>2
    <3>2. n \in Nat \ {0} /\ n \in 1 .. Len(groups)
      <4>1. Len(groups) # 0
        BY <1>2, <3>1, EmptySeq DEF IsSeq
      <4> QED BY <1>2, <3>1, <4>1
    <3>3. gs[n].block = kid.ref[1] /\ AsDelta(kid.number - gs[n].base) = kid.number - gs[n].base
      BY <3>1 DEF Fits
    <3> HIDE DEF gs, new
    <3> QED BY <3>1, <3>2, <3>3 DEF HaveBases
  <2> QED BY <2>1, <2>2
<1> HIDE DEF gs, n, new
<1>6. n = Len(gs)
  BY DEF n
<1>7. /\ AreGroups(res) /\ EntriesIn(res) = Append(EntriesIn(gs), ReadEntry(gs[n], entry))
      /\ Len(res) = n /\ \A i \in 1 .. n : res[i].base = gs[i].base
  BY <1>5, <1>6, EntryUnderLast
<1> HIDE DEF res
<1>8. ReadEntry(gs[n], entry) = kid
  <2>1. gs[n].base + entry.delta = kid.number
    <3>1. entry.delta = kid.number - gs[n].base
      BY <1>4, <1>5
    <3> QED BY <1>2, <1>5, <3>1
  <2>2. ReadEntry(gs[n], entry) = [name |-> kid.name, kind |-> kid.kind, number |-> kid.number,
                                   ref |-> <<kid.ref[1], kid.ref[2]>>]
    BY <1>4, <1>5, <2>1 DEF ReadEntry
  <2> QED BY <2>2 DEF IsEntry
<1>9. HaveBases(res)
  BY <1>5, <1>6, <1>7 DEF HaveBases
<1> QED BY <1>1, <1>5, <1>7, <1>8, <1>9

(* What build_directory_data writes is read back as it was given.          *)
LEMMA GroupsReadBack ==
  ASSUME NEW kids, IsSeq(kids), \A e \in 1 .. Len(kids) : IsEntry(kids[e])
  PROVE  EntriesIn(Groups(kids)) = kids
<1> DEFINE n == Len(kids)
<1>1. n \in Nat
  BY SeqFacts
<1>2. PICK f : Builds(kids, f, n) /\ Groups(kids) = f[n]
  BY <1>1, GroupsAre
<1>3. \A e \in 1 .. n : IsEntry(kids[e])
  OBVIOUS
<1> HIDE DEF n
<1> DEFINE E(i) == EntriesIn(f[i])
           Good(i) == /\ AreGroups(f[i]) /\ HaveBases(f[i])
                      /\ IsSeq(E(i)) /\ Len(E(i)) = i /\ \A j \in 1 .. i : E(i)[j] = kids[j]
           S == {i \in Nat : i <= n => Good(i)}
<1>4. 0 \in S
  <2>1. f[0] = <<>>
    BY <1>2 DEF Builds
  <2>2. AreGroups(<<>>) /\ HaveBases(<<>>)
    BY EmptyFacts DEF AreGroups, HaveBases
  <2>3. EntriesIn(<<>>) = <<>>
    <3> DEFINE ss == [g \in 1 .. Len(<<>>) |-> ReadGroup(<<>>[g])]
    <3>1. ss = [g \in 1 .. 0 |-> ss[g]]
      BY EmptyFacts
    <3>2. EntriesIn(<<>>) = FlattenSeq(ss)
      BY DEF EntriesIn
    <3> HIDE DEF ss
    <3>3. IsSeq(ss) /\ Len(ss) = 0
      BY <3>1, FunIsSeq
    <3>4. ss = <<>>
      BY <3>3, EmptySeq DEF IsSeq
    <3> QED BY <3>2, <3>3, <3>4 DEF FlattenSeq
  <2>4. Good(0)
    BY <2>1, <2>2, <2>3, EmptyFacts
  <2> QED BY <2>4
<1>5. ASSUME NEW i \in Nat, i \in S PROVE i + 1 \in S
  <2> SUFFICES ASSUME i + 1 <= n PROVE Good(i + 1)
    OBVIOUS
  <2>1. i + 1 \in 1 .. n /\ i <= n /\ (i + 1) - 1 = i
    BY <1>1
  <2>2. f[i + 1] = AddEntry(f[i], kids[i + 1])
    BY <1>2, <2>1 DEF Builds
  <2>3. IsEntry(kids[i + 1])
    BY <1>3, <2>1
  <2>4. Good(i)
    BY <1>5, <2>1
  <2>5. /\ AreGroups(f[i + 1]) /\ HaveBases(f[i + 1])
        /\ E(i + 1) = Append(E(i), kids[i + 1])
    BY <2>2, <2>3, <2>4, AddEntryReads
  <2> DEFINE old == E(i)
             all == E(i + 1)
  <2>6. IsSeq(old) /\ Len(old) = i /\ (\A j \in 1 .. i : old[j] = kids[j])
        /\ all = Append(old, kids[i + 1])
    BY <2>4, <2>5
  <2> HIDE DEF old, all
  <2>7. IsSeq(all) /\ Len(all) = i + 1 /\ all[i + 1] = kids[i + 1]
        /\ \A j \in 1 .. i : all[j] = old[j]
    BY <2>6, AppendFacts
  <2>8. \A j \in 1 .. i + 1 : all[j] = kids[j]
    <3>1. \A j \in 1 .. i + 1 : j \in 1 .. i \/ j = i + 1
      OBVIOUS
    <3> QED BY <2>6, <2>7, <3>1
  <2> QED BY <2>5, <2>7, <2>8 DEF all
<1>6. Good(n)
  <2> HIDE DEF Good
  <2>1. n \in S
    <3> HIDE DEF S
    <3> QED BY <1>1, <1>4, <1>5, Induction
  <2> QED BY <1>1, <2>1
<1>7. IsSeq(EntriesIn(f[n])) /\ Len(EntriesIn(f[n])) = Len(kids)
      /\ \A j \in 1 .. Len(kids) : EntriesIn(f[n])[j] = kids[j]
  BY <1>6 DEF n
<1> DEFINE all == EntriesIn(f[n])
<1>8. IsSeq(all) /\ Len(all) = Len(kids) /\ \A j \in 1 .. Len(kids) : all[j] = kids[j]
  BY <1>7
<1> HIDE DEF all
<1>9. all = kids
  BY <1>8, SameSeq
<1> QED BY <1>2, <1>9 DEF all

-----------------------------------------------------------------------------
(* The lists of entries while the tables are written.                      *)

LEMMA ListsStay ==
  ASSUME NEW es, NEW nodes, NEW fin, NEW refs, NEW nums, NEW t,
         Lists(es, nodes, fin, refs, nums, t),
         NEW fin2, NEW refs2, fin \subseteq fin2, \A k \in fin : refs2[nums[k]] = refs[nums[k]]
  PROVE  Lists(es, nodes, fin2, refs2, nums, t)
<1>1. \A e \in ToSet(es) : EntryIs(e, fin2, refs2, nums, t)
  BY DEF Lists, EntryIs
<1> QED BY <1>1 DEF Lists

LEMMA ListsNothing ==
  ASSUME NEW fin, NEW refs, NEW nums, NEW t
  PROVE  Lists(<<>>, {}, fin, refs, nums, t)
BY EmptyFacts DEF Lists

LEMMA ListsOneMore ==
  ASSUME NEW es, NEW nodes, NEW fin, NEW refs, NEW nums, NEW t,
         Lists(es, nodes, fin, refs, nums, t),
         NEW e, EntryIs(e, fin, refs, nums, t), \A k \in nodes : k < e.name
  PROVE  Lists(Append(es, e), nodes \cup {e.name}, fin, refs, nums, t)
<1> DEFINE all == Append(es, e)
           l   == Len(es)
<1>1. IsSeq(es) /\ l \in Nat /\ DOMAIN es = 1 .. l /\ {x.name : x \in ToSet(es)} = nodes
  BY SeqFacts DEF Lists
<1>2. /\ IsSeq(all) /\ Len(all) = l + 1 /\ all[l + 1] = e /\ \A i \in 1 .. l : all[i] = es[i]
      /\ ToSet(all) = ToSet(es) \cup {e}
  BY <1>1, AppendFacts
<1> HIDE DEF all
<1>3. \A x \in ToSet(all) : EntryIs(x, fin, refs, nums, t)
  BY <1>2 DEF Lists
<1>4. {x.name : x \in ToSet(all)} = nodes \cup {e.name}
  BY <1>1, <1>2
<1>5. ASSUME NEW n \in 2 .. Len(all) PROVE all[n - 1].name < all[n].name
  <2>1. n - 1 \in 1 .. l /\ (n = l + 1 \/ n \in 2 .. l)
    BY <1>1, <1>2
  <2>2. all[n - 1] = es[n - 1]
    BY <1>2, <2>1
  <2>3. CASE n = l + 1
    <3>1. es[n - 1] \in ToSet(es)
      BY <1>1, <2>1 DEF ToSet
    <3>2. es[n - 1].name \in nodes
      BY <1>1, <3>1
    <3> QED BY <1>2, <2>2, <2>3, <3>2
  <2>4. CASE n \in 2 .. l
    <3>1. n \in 1 .. l
      BY <2>4
    <3>2. all[n] = es[n] /\ es[n - 1].name < es[n].name
      BY <1>2, <2>4, <3>1 DEF Lists
    <3> QED BY <2>2, <3>2
  <2> QED BY <2>1, <2>3, <2>4
<1> QED BY <1>2, <1>3, <1>4, <1>5 DEF Lists, all

(* Entries that are listed are ones that Groups can write.                 *)
LEMMA ListedEntries ==
  ASSUME NEW es, NEW nodes, NEW fin, NEW refs, NEW nums, NEW t,
         Lists(es, nodes, fin, refs, nums, t), \A k \in fin : nums[k] \in Nat
  PROVE  EntriesIn(Groups(es)) = es
<1>1. IsSeq(es) /\ DOMAIN es = 1 .. Len(es)
  BY SeqFacts DEF Lists
<1>2. \A e \in 1 .. Len(es) : es[e] \in ToSet(es)
  BY <1>1 DEF ToSet
<1>3. \A e \in ToSet(es) : IsEntry(e)
  BY DEF Lists, EntryIs, IsEntry
<1> QED BY <1>1, <1>2, <1>3, GroupsReadBack

(* Directories that are written stay.                                      *)
MoreDirs(ds, ds2) ==
  /\ IsSeq(ds) /\ IsSeq(ds2) /\ Len(ds) <= Len(ds2)
  /\ \A d \in 1 .. Len(ds) : ds2[d] = ds[d]

LEMMA DirStays ==
  ASSUME NEW i, NEW nodes, NEW parent, NEW ds, NEW fin, NEW refs, NEW nums, NEW t,
         DirIs(i, nodes, parent, ds, fin, refs, nums, t),
         NEW ds2, MoreDirs(ds, ds2),
         NEW fin2, NEW refs2, fin \subseteq fin2, \A k \in fin : refs2[nums[k]] = refs[nums[k]]
  PROVE  DirIs(i, nodes, parent, ds2, fin2, refs2, nums, t)
<1>1. i.dir \in 1 .. Len(ds2) /\ ds2[i.dir] = ds[i.dir]
  BY SeqFacts DEF DirIs, MoreDirs
<1>2. Lists(EntriesIn(ds[i.dir]), nodes, fin2, refs2, nums, t)
  BY ListsStay DEF DirIs
<1> QED BY <1>1, <1>2 DEF DirIs

-----------------------------------------------------------------------------
(* The inodes while the tables are written.                                *)

(* The inode has what the node has after a step.                           *)
Became(k, i) ==
  /\ i.kind = tree[k].kind
  /\ i.kind = "file" => HeldIn(out, frags, buf, i, tree[k].content)
  /\ i.kind = "dir" =>
       DirIs(i, Kids(k), ParentNumber(k), dirs', Finished', export', numbers, tree)

TablesGrow ==
  /\ Growing /\ Total' = Total /\ MoreDirs(dirs, dirs')
  /\ UNCHANGED <<tree, numbers, out, frags, buf>>

LEMMA InodeStays ==
  ASSUME TablesGrow, NEW k, NEW i, InodeOf(k, i)
  PROVE  Became(k, i)
<1>1. \A m \in Finished : export'[numbers[m]] = export[numbers[m]]
  BY DEF TablesGrow, Growing
<1>2. Finished \subseteq Finished' /\ MoreDirs(dirs, dirs')
  BY DEF TablesGrow, Growing
<1>3. i.kind = "dir" =>
        DirIs(i, Kids(k), ParentNumber(k), dirs', Finished', export', numbers, tree)
  <2> DEFINE kids   == Kids(k)
             parent == ParentNumber(k)
  <2>1. i.kind = "dir" => DirIs(i, kids, parent, dirs, Finished, export, numbers, tree)
    BY DEF InodeOf
  <2> HIDE DEF kids, parent
  <2>2. i.kind = "dir" => DirIs(i, kids, parent, dirs', Finished', export', numbers, tree)
    BY <1>1, <1>2, <2>1, DirStays
  <2> QED BY <2>2 DEF kids, parent
<1> QED BY <1>3 DEF InodeOf, Became

LEMMA NodesStay ==
  ASSUME NodesOK, TablesGrow,
         \A j \in 1 .. Len(inodes') : \A k \in Finished' : inodes'[j].number = numbers[k] =>
           \/ j \in 1 .. Len(inodes) /\ inodes'[j] = inodes[j] /\ k \in Finished
           \/ Became(k, inodes'[j])
  PROVE  NodesOK'
<1>1. ASSUME NEW j \in 1 .. Len(inodes'), NEW k \in Finished', inodes'[j].number = numbers[k]
      PROVE  Became(k, inodes'[j])
  <2>1. CASE j \in 1 .. Len(inodes) /\ inodes'[j] = inodes[j] /\ k \in Finished
    <3>1. InodeOf(k, inodes[j])
      BY <1>1, <2>1 DEF NodesOK
    <3> QED BY <2>1, <3>1, InodeStays
  <2> QED BY <1>1, <2>1
<1>2. UNCHANGED <<tree, numbers, out, frags, buf>> /\ Total' = Total
  BY DEF TablesGrow
<1>3. \A k : Kids(k)' = Kids(k) /\ ParentNumber(k)' = ParentNumber(k)
  BY <1>2 DEF Kids, ParentNumber
<1>4. ASSUME NEW k, NEW i, Became(k, i)
      PROVE  /\ i.kind = tree'[k].kind
             /\ i.kind = "file" => HeldIn(out', frags', buf', i, tree'[k].content)
             /\ i.kind = "dir" =>
                  DirIs(i, Kids(k)', ParentNumber(k)', dirs', Finished', export', numbers', tree')
  BY <1>2, <1>3, <1>4 DEF Became
<1> QED BY <1>1, <1>2, <1>4 DEF NodesOK, InodeOf

(* An inode that is written is a finished node's.                          *)
LEMMA InodesAreNodes ==
  ASSUME AtNode, NEW j \in 1 .. Len(inodes)
  PROVE  \E k \in Finished : numbers[k] = inodes[j].number
<1>1. /\ inodes[j].number \in 1 .. Total /\ export[inodes[j].number] = RefOf(j)
      /\ j \in Nat \ {0}
  BY TableTypes DEF InodesOK
<1>2. export[inodes[j].number] # NoRef
  BY <1>1, RefFacts
<1> QED BY <1>1, <1>2, TableTypes DEF InodesOK

(* The inode has the places of the data it was given.                      *)
LEMMA FileInodeHolds ==
  ASSUME NEW info, NEW c, HeldIn(out, frags, buf, info, c), NEW k
  PROVE  HeldIn(out, frags, buf, FileInode(k, info), c)
<1> DEFINE i == FileInode(k, info)
<1>1. /\ i.size = info.size /\ i.start = info.start /\ i.sizes = info.sizes
      /\ i.frag = info.frag /\ i.off = info.off
  BY DEF FileInode
<1> HIDE DEF i
<1>2. InBlocks(out, info, c) => InBlocks(out, i, c)
  BY <1>1 DEF InBlocks
<1>3. InFragment(out, frags, buf, info, c) => InFragment(out, frags, buf, i, c)
  BY <1>1 DEF InFragment
<1> QED BY <1>1, <1>2, <1>3 DEF HeldIn, i

-----------------------------------------------------------------------------
(* A file or a symlink is written.                                         *)

(* The node's place among the directories that write_tables_dfs is in.     *)
LEMMA ChildPlace ==
  ASSUME AtNode, AtChild
  PROVE  /\ at \in 2 .. Len(tree) /\ tree[at].parent = stack[Len(stack)].dir
         /\ \A i \in 1 .. Len(stack) : /\ stack[i].dir \in Nat /\ stack[i].dir <= tree[at].parent
                                       /\ i # Len(stack) => stack[i].dir # tree[at].parent
<1> DEFINE n == Len(stack)
<1>1. /\ n \in Nat \ {0} /\ StackOK /\ Len(tree) \in Nat /\ at \in 2 .. Len(tree)
      /\ tree[at].parent = stack[n].dir
  BY TableTypes DEF AtChild
<1>2. ASSUME NEW i \in 1 .. n
      PROVE  /\ stack[i].dir \in Nat /\ stack[i].dir <= stack[n].dir
             /\ i # n => stack[i].dir # stack[n].dir
  <2>0. stack[i].dir \in 1 .. at - 1
    BY <1>1 DEF StackOK
  <2>1. n \in 1 .. n /\ stack[i].dir \in 1 .. at - 1
    <3>1. n \in 1 .. n
      <4> HIDE DEF n
      <4> QED BY <1>1
    <3> QED BY <2>0, <3>1
  <2>2. stack[i].dir \in Nat
    BY <1>1, <2>1
  <2>3. CASE i # n
    <3>1. i \in 1 .. n - 1
      BY <1>1, <2>3
    <3>2. stack[i].dir < stack[n].dir /\ stack[n].dir \in 1 .. at - 1
      BY <1>1, <2>1, <3>1 DEF StackOK
    <3>3. stack[n].dir \in Nat
      BY <1>1, <3>2
    <3> QED BY <2>2, <3>2, <3>3
  <2> QED BY <2>2, <2>3
<1> QED BY <1>1, <1>2

LEMMA LeafPaths ==
  ASSUME AtNode, StackPaths, AtChild, at' = at + 1, UNCHANGED tree, Len(stack') = Len(stack),
         \A i \in 1 .. Len(stack) : stack'[i].dir = stack[i].dir
  PROVE  StackPaths'
<1>1. at \in 2 .. Len(tree) /\ Len(tree) \in Nat /\ at' - 1 = at /\ Len(stack) \in Nat \ {0}
  BY ChildPlace, TableTypes
<1>2. ASSUME NEW i \in 1 .. Len(stack')
      PROVE  /\ i # 1 => tree'[stack'[i].dir].parent = stack'[i - 1].dir
             /\ \A j \in stack'[i].dir + 1 .. at : tree'[j].parent >= stack'[i].dir
  <2>1. i \in 1 .. Len(stack) /\ stack'[i].dir = stack[i].dir
    OBVIOUS
  <2>2. i # 1 => i - 1 \in 1 .. Len(stack)
    BY <1>1, <2>1
  <2>3. i # 1 => tree[stack[i].dir].parent = stack[i - 1].dir
    BY <2>1 DEF StackPaths
  <2>4. stack[i].dir \in Nat /\ stack[i].dir <= tree[at].parent
    BY <2>1, ChildPlace
  <2>5. ASSUME NEW j \in stack[i].dir + 1 .. at PROVE tree[j].parent >= stack[i].dir
    <3>1. CASE j = at
      <4>1. tree[at].parent \in Nat
        BY <1>1, TableTypes, SMTT(60) DEF AtNode, TreeOK
      <4> QED BY <2>4, <3>1, <4>1
    <3>2. CASE j # at
      <4>1. j \in stack[i].dir + 1 .. at - 1
        BY <1>1, <2>4, <3>2
      <4> QED BY <2>1, <4>1 DEF StackPaths
    <3> QED BY <3>1, <3>2
  <2> QED BY <2>1, <2>2, <2>3, <2>5
<1> QED BY <1>1, <1>2 DEF StackPaths

(* One more node is finished, whose entry is in the last directory.        *)
LEMMA KidsOneMore ==
  ASSUME AtNode, KidsListed, TablesGrow, NEW n \in 1 .. Len(tree), n \notin Finished,
         Finished' = Finished \cup {n},
         NEW l \in Nat, l <= Len(stack), Len(stack') = l,
         \A i \in 1 .. l : stack'[i].dir = stack[i].dir,
         \A i \in 1 .. l - 1 : stack'[i].kids = stack[i].kids,
         l # 0 => stack'[l].kids = Append(stack[l].kids,
                    [name |-> n, number |-> numbers[n], ref |-> export'[numbers[n]],
                     kind |-> tree[n].kind]),
         l # 0 => tree[n].parent = stack[l].dir,
         l # 0 => \A k \in Finished : tree[k].parent = stack[l].dir => k < n,
         \A i \in 1 .. l - 1 : tree[n].parent # stack[i].dir,
         l # 0 => export'[numbers[n]] = <<export'[numbers[n]][1], export'[numbers[n]][2]>>
  PROVE  KidsListed'
<1> DEFINE kid == [name |-> n, number |-> numbers[n], ref |-> export'[numbers[n]],
                   kind |-> tree[n].kind]
<1>1. /\ Finished \subseteq Finished' /\ UNCHANGED <<tree, numbers>>
      /\ \A k \in Finished : export'[numbers[k]] = export[numbers[k]]
  BY DEF TablesGrow, Growing
<1>2. \A i \in 1 .. l : i \in 1 .. Len(stack)
  BY TableTypes
<1>3. ASSUME NEW i \in 1 .. l
      PROVE  Lists(stack[i].kids, FinishedIn(stack[i].dir), Finished', export', numbers, tree)
  <2> DEFINE es == stack[i].kids
             nodes == FinishedIn(stack[i].dir)
  <2>1. Lists(es, nodes, Finished, export, numbers, tree)
    BY <1>2 DEF KidsListed
  <2> HIDE DEF es, nodes
  <2>2. Lists(es, nodes, Finished', export', numbers, tree)
    BY <1>1, <2>1, ListsStay
  <2> QED BY <2>2 DEF es, nodes
<1>4. ASSUME NEW i \in 1 .. l
      PROVE  Lists(stack'[i].kids, {k \in Finished' : tree[k].parent = stack[i].dir},
                   Finished', export', numbers, tree)
  <2>1. CASE i = l
    <3> DEFINE es == stack[i].kids
               nodes == FinishedIn(stack[i].dir)
    <3>1. l # 0 /\ stack'[i].kids = Append(es, kid)
      BY <2>1
    <3>2. /\ kid.name = n /\ kid.ref = export'[numbers[n]] /\ kid.number = numbers[n]
          /\ kid.kind = tree[n].kind
          /\ kid = [name |-> kid.name, number |-> kid.number,
                    ref |-> <<kid.ref[1], kid.ref[2]>>, kind |-> kid.kind]
      BY <2>1, <3>1
    <3>3. nodes \cup {n} = {k \in Finished' : tree[k].parent = stack[i].dir}
      BY <2>1, <3>1 DEF FinishedIn
    <3>4. \A k \in nodes : k < n
      BY <2>1, <3>1 DEF FinishedIn
    <3>5. Lists(es, nodes, Finished', export', numbers, tree)
      BY <1>3
    <3> HIDE DEF kid, es, nodes
    <3>6. EntryIs(kid, Finished', export', numbers, tree)
      BY <3>2 DEF EntryIs
    <3>7. \A k \in nodes : k < kid.name
      BY <3>2, <3>4
    <3>8. Lists(Append(es, kid), nodes \cup {kid.name}, Finished', export', numbers, tree)
      BY <3>5, <3>6, <3>7, ListsOneMore
    <3> QED BY <3>1, <3>2, <3>3, <3>8
  <2>2. CASE i # l
    <3>1. i \in 1 .. l - 1
      BY <2>2
    <3>2. stack'[i].kids = stack[i].kids /\ tree[n].parent # stack[i].dir
      BY <3>1
    <3>3. FinishedIn(stack[i].dir) = {k \in Finished' : tree[k].parent = stack[i].dir}
      BY <3>2 DEF FinishedIn
    <3> QED BY <1>3, <3>2, <3>3
  <2> QED BY <2>1, <2>2
<1>5. ASSUME NEW i \in 1 .. Len(stack')
      PROVE  Lists(stack'[i].kids, {k \in Finished' : tree'[k].parent = stack'[i].dir},
                   Finished', export', numbers', tree')
  BY <1>1, <1>4, ZenonT(30)
<1> QED BY <1>5 DEF KidsListed, FinishedIn

(* References are pairs.                                                   *)
LEMMA NewRefIs ==
  ASSUME AtNode, NEW n \in 1 .. Len(tree), InodesOK', LinksOK', Total' = Total,
         UNCHANGED <<tree, numbers>>, n \in Finished'
  PROVE  export'[numbers[n]] = <<export'[numbers[n]][1], export'[numbers[n]][2]>>
<1> DEFINE m == numbers[n]
<1>1. export'[m] # NoRef /\ m \in 1 .. Total
  BY TableNumbers DEF AtNode, LinksOK
<1> HIDE DEF m
<1>2. PICK j \in 1 .. Len(inodes') : export'[m] = RefOf(j)
  BY <1>1 DEF InodesOK
<1>3. j \in Nat \ {0}
  BY <1>2, SeqFacts DEF InodesOK
<1> QED BY <1>2, <1>3, RefFacts DEF m

LEMMA LeafPathsAndKids ==
  ASSUME AtNode, StackPaths, KidsListed, WriteFile \/ WriteSymlink
  PROVE  TablesGrow /\ StackPaths' /\ KidsListed'
<1> DEFINE l == Len(stack)
<1>1. /\ at \in 2 .. Len(tree) /\ at' = at + 1 /\ AtChild /\ ~IsDir(at)
      /\ UNCHANGED <<tree, numbers, dataVars, dirs>> /\ at \in 1 .. Len(tree)
  BY LeafInodes
<1>2. /\ at \notin Finished /\ Finished' = Finished \cup {at}
      /\ InodesOK' /\ LinksOK' /\ Growing /\ Total' = Total
      /\ stack' = WithChild(stack, at, numbers[at], export'[numbers[at]])
      /\ Len(stack') = l /\ \A i \in 1 .. l - 1 : stack'[i] = stack[i]
      /\ stack'[l].kids =
           Append(stack[l].kids, [name |-> at, number |-> numbers[at],
                                  ref |-> export'[numbers[at]], kind |-> tree[at].kind])
  BY LeafWrites
<1>3. TablesGrow
  <2>1. IsSeq(dirs) /\ Len(dirs) \in Nat
    BY TableTypes, SeqFacts DEF DirsOK
  <2> QED BY <1>1, <1>2, <2>1 DEF TablesGrow, MoreDirs, dataVars
<1>4. /\ IsSeq(stack) /\ l \in Nat \ {0} /\ l \in 1 .. l /\ Finished \subseteq 1 .. at - 1
      /\ stack[l] = [dir |-> stack[l].dir, kids |-> stack[l].kids] /\ IsSeq(stack[l].kids)
  <2>1. /\ IsSeq(stack) /\ l \in Nat \ {0} /\ StackOK /\ KidsOK /\ Finished \subseteq 1 .. at - 1
    BY TableTypes
  <2>2. l \in 1 .. l
    <3> HIDE DEF l
    <3> QED BY <2>1
  <2> QED BY <2>1, <2>2 DEF StackOK, KidsOK
<1>5. stack'[l].dir = stack[l].dir
  <2> DEFINE more == Append(stack[l].kids, [name |-> at, number |-> numbers[at],
                                            ref |-> export'[numbers[at]], kind |-> tree[at].kind])
             new  == [stack[l] EXCEPT !.kids = more]
  <2>1. stack' = [stack EXCEPT ![l] = new]
    BY <1>2 DEF WithChild
  <2>2. new.dir = stack[l].dir
    <3> HIDE DEF more
    <3> QED BY <1>4
  <2>3. l \in DOMAIN stack
    BY <1>4, SeqFacts
  <2> HIDE DEF new
  <2> QED BY <2>1, <2>2, <2>3
<1>6. \A i \in 1 .. l : stack'[i].dir = stack[i].dir
  <2>1. \A i \in 1 .. l : i = l \/ i \in 1 .. l - 1
    <3> HIDE DEF l
    <3> QED BY <1>4
  <2> QED BY <1>2, <1>5, <2>1
<1>7. StackPaths'
  BY <1>1, <1>2, <1>6, LeafPaths
<1>8. KidsListed'
  <2>1. /\ tree[at].parent = stack[l].dir
        /\ \A i \in 1 .. l - 1 : tree[at].parent # stack[i].dir
    <3>1. \A i \in 1 .. l - 1 : i \in 1 .. l /\ i # l
      <4> HIDE DEF l
      <4> QED BY <1>4
    <3> QED BY <1>1, <3>1, ChildPlace
  <2>2. \A k \in Finished : k < at
    BY <1>1, <1>4, SMTT(60)
  <2>3. export'[numbers[at]] = <<export'[numbers[at]][1], export'[numbers[at]][2]>>
    BY <1>1, <1>2, NewRefIs
  <2>4. \A i \in 1 .. l - 1 : stack'[i].kids = stack[i].kids
    BY <1>2, SMTT(60)
  <2>5. l \in Nat /\ l <= Len(stack) /\ Len(stack') = l
    BY <1>2, <1>4
  <2>6. stack'[l].kids =
           Append(stack[l].kids, [name |-> at, number |-> numbers[at],
                                  ref |-> export'[numbers[at]], kind |-> tree[at].kind])
    BY <1>2
  <2>7. at \in 1 .. Len(tree) /\ at \notin Finished /\ Finished' = Finished \cup {at}
    BY <1>1, <1>2
  <2> HIDE DEF l
  <2> QED BY <1>3, <1>6, <2>1, <2>2, <2>3, <2>4, <2>5, <2>6, <2>7, KidsOneMore
<1> QED BY <1>3, <1>7, <1>8

LEMMA LeafNodes ==
  ASSUME AtNode, SourcesOK, FilesOK, NodesOK, TablesGrow, WriteFile \/ WriteSymlink
  PROVE  NodesOK'
<1>1. /\ at \in 2 .. Len(tree) /\ at \in 1 .. Len(tree) /\ Finished \subseteq 1 .. Len(tree)
      /\ ~IsDir(at) /\ IsSeq(inodes) /\ Len(inodes) \in Nat
  BY LeafInodes, TableTypes
<1>2. Finished' = Finished \cup {at}
  BY LeafWrites
<1>3. CASE UNCHANGED inodes /\ \E k \in Finished : SameFile(k, at)
  <2>1. PICK m \in Finished : SameFile(m, at)
    BY <1>3
  <2>2. /\ numbers[m] = numbers[at] /\ tree[m].kind = tree[at].kind
        /\ tree[m].content = tree[at].content /\ tree[at].kind = "file"
    <3>1. m \in 1 .. Len(tree)
      BY <1>1
    <3>2. numbers[m] = numbers[at]
      BY <1>1, <2>1, <3>1, TableNumbers DEF AtNode, SameFile
    <3>3. tree[m].content = tree[at].content
      BY <1>1, <2>1, <3>1 DEF SourcesOK
    <3> QED BY <2>1, <3>2, <3>3 DEF SameFile, Linked, IsFile
  <2>3. ASSUME NEW j \in 1 .. Len(inodes), inodes[j].number = numbers[at]
        PROVE  Became(at, inodes[j])
    <3> DEFINE i == inodes[j]
    <3>1. InodeOf(m, i)
      BY <2>2, <2>3 DEF NodesOK
    <3> HIDE DEF i
    <3>2. Became(m, i)
      BY <3>1, InodeStays
    <3>3. Became(at, i)
      BY <2>2, <3>2 DEF Became
    <3> QED BY <3>3 DEF i
  <2>4. \A j \in 1 .. Len(inodes') : \A k \in Finished' : inodes'[j].number = numbers[k] =>
          \/ j \in 1 .. Len(inodes) /\ inodes'[j] = inodes[j] /\ k \in Finished
          \/ Became(k, inodes'[j])
    BY <1>2, <1>3, <2>3
  <2> QED BY <2>4, NodesStay
<1>4. ASSUME \A k \in Finished : numbers[k] # numbers[at],
             NEW inode, LeafInode(at, inode), inodes' = Append(inodes, inode)
      PROVE  NodesOK'
  <2> DEFINE l == Len(inodes)
  <2>1. /\ IsSeq(inodes') /\ Len(inodes') = l + 1 /\ inodes'[l + 1] = inode
        /\ \A j \in 1 .. l : inodes'[j] = inodes[j]
    BY <1>1, <1>4, AppendFacts
  <2>2. inode.number = numbers[at] /\ inode.kind = tree[at].kind /\ tree[at].kind # "dir"
    BY <1>1, <1>4 DEF LeafInode, IsDir
  <2>3. tree[at].kind = "file" => HeldIn(out, frags, buf, inode, tree[at].content)
    <3> SUFFICES ASSUME IsFile(at) PROVE HeldIn(out, frags, buf, inode, tree[at].content)
      BY DEF IsFile
    <3> DEFINE k == IF Linked(at) THEN hlFirst[tree[at].host] ELSE at
    <3>1. k \in DOMAIN fileData /\ inode = FileInode(at, fileData[k])
      BY <1>4 DEF LeafInode
    <3>2. tree[k].content = tree[at].content
      <4>1. CASE Linked(at)
        <5>1. tree[at].host \in Links
          BY <1>1, <4>1, TableNumbers DEF AtNode
        <5>2. hlFirst[tree[at].host] # NoNode
          <6>1. at \in Collected /\ IsFile(at)
            BY <1>1 DEF AtNode, Collected
          <6> QED BY <4>1, <6>1 DEF AtNode, DataOK
        <5>3. SameFile(k, at) /\ k \in 1 .. Len(tree)
          BY <4>1, <5>1, <5>2 DEF SourcesOK, SameFile
        <5> QED BY <1>1, <5>3 DEF SourcesOK
      <4>2. CASE ~Linked(at)
        BY <4>2
      <4> QED BY <4>1, <4>2
    <3> HIDE DEF k
    <3> DEFINE info == fileData[k]
               c == tree[k].content
    <3>3. HeldIn(out, frags, buf, info, c)
      BY <3>1 DEF FilesOK, Holds
    <3> HIDE DEF info, c
    <3>4. HeldIn(out, frags, buf, FileInode(at, info), c)
      BY <3>3, FileInodeHolds
    <3> QED BY <3>1, <3>2, <3>4 DEF info, c
  <2>4. Became(at, inode)
    BY <2>2, <2>3 DEF Became
  <2>5. ASSUME NEW j \in 1 .. l, inodes[j].number = numbers[at] PROVE FALSE
    BY <1>4, <2>5, InodesAreNodes
  <2>6. ASSUME NEW j \in 1 .. Len(inodes'), NEW k \in Finished', inodes'[j].number = numbers[k]
        PROVE  \/ j \in 1 .. l /\ inodes'[j] = inodes[j] /\ k \in Finished
               \/ Became(k, inodes'[j])
    <3>1. j \in 1 .. l \/ j = l + 1
      BY <1>1, <2>1
    <3>2. CASE j \in 1 .. l
      <4>1. inodes'[j] = inodes[j]
        BY <2>1, <3>2
      <4>2. k # at
        BY <2>5, <2>6, <3>2, <4>1
      <4> QED BY <1>2, <3>2, <4>1, <4>2
    <3>3. CASE j = l + 1
      <4>1. k = at
        BY <1>2, <1>4, <2>1, <2>2, <2>6, <3>3
      <4> QED BY <2>1, <2>4, <3>3, <4>1
    <3> QED BY <3>1, <3>2, <3>3
  <2> QED BY <2>6, NodesStay
<1> QED BY <1>3, <1>4, LeafWrites

-----------------------------------------------------------------------------
(* A directory is entered.                                                 *)

LEMMA EnterReads ==
  ASSUME AtNode, StackPaths, KidsListed, NodesOK, EnterDir
  PROVE  StackPaths' /\ KidsListed' /\ NodesOK'
<1> DEFINE n   == Len(stack)
           new == [dir |-> at, kids |-> <<>>]
<1>1. /\ AtChild /\ at' = at + 1 /\ stack' = Append(stack, new) /\ at \in 2 .. Len(tree)
      /\ UNCHANGED <<tree, numbers, out, frags, buf, inodes, dirs, export>>
      /\ Finished' = Finished /\ Growing
  BY EnterStack, EnterKeeps DEF EnterDir, scanVars, numVars, dataVars
<1>2. /\ new.dir = at /\ new.kids = <<>>
  OBVIOUS
<1> HIDE DEF new
<1>3. IsSeq(stack) /\ n \in Nat \ {0} /\ Len(tree) \in Nat /\ Finished \subseteq 1 .. at - 1
  BY TableTypes
<1>4. /\ Len(stack') = n + 1 /\ stack'[n + 1] = new
      /\ \A i \in 1 .. n : stack'[i] = stack[i]
  BY <1>1, <1>3, AppendFacts
<1>5. /\ tree[at].parent = stack[n].dir
      /\ \A i \in 1 .. n : stack[i].dir \in Nat /\ stack[i].dir <= tree[at].parent
  BY <1>1, ChildPlace
<1>6. TablesGrow
  <2>1. IsSeq(dirs) /\ Len(dirs) \in Nat /\ Total' = Total
    BY <1>1, TableTypes, SeqFacts DEF DirsOK, Total
  <2> QED BY <1>1, <2>1 DEF TablesGrow, MoreDirs
<1> HIDE DEF n
<1>7. \A i \in 1 .. n + 1 : i = n + 1 \/ i \in 1 .. n
  BY <1>3
<1>8. ASSUME NEW i \in 1 .. n + 1
      PROVE  /\ i # 1 => tree[stack'[i].dir].parent = stack'[i - 1].dir
             /\ \A j \in stack'[i].dir + 1 .. at : tree[j].parent >= stack'[i].dir
  <2>1. CASE i = n + 1
    <3>1. i - 1 = n /\ n \in 1 .. n
      BY <1>3, <2>1
    <3>2. \A j \in at + 1 .. at : FALSE
      BY <1>1, <1>3
    <3> QED BY <1>2, <1>4, <1>5, <2>1, <3>1, <3>2
  <2>2. CASE i \in 1 .. n
    <3>1. i # 1 => i - 1 \in 1 .. n
      BY <1>3, <2>2
    <3>2. i # 1 => tree[stack[i].dir].parent = stack[i - 1].dir
      BY <2>2 DEF StackPaths, n
    <3>3. ASSUME NEW j \in stack[i].dir + 1 .. at PROVE tree[j].parent >= stack[i].dir
      <4>1. CASE j = at
        <5>1. tree[at].parent \in Nat
          BY <1>1, <1>3 DEF AtNode, TreeOK
        <5> QED BY <1>5, <2>2, <4>1, <5>1
      <4>2. CASE j # at
        <5>1. j \in stack[i].dir + 1 .. at - 1
          BY <1>1, <1>3, <1>5, <2>2, <4>2
        <5> QED BY <2>2, <5>1 DEF StackPaths, n
      <4> QED BY <4>1, <4>2
    <3> QED BY <1>4, <2>2, <3>1, <3>2, <3>3
  <2> QED BY <1>7, <2>1, <2>2
<1>9. StackPaths'
  <2>1. at' - 1 = at
    BY <1>1, <1>3
  <2> QED BY <1>1, <1>4, <1>8, <2>1 DEF StackPaths
<1>10. ASSUME NEW i \in 1 .. n + 1
       PROVE  Lists(stack'[i].kids, FinishedIn(stack'[i].dir), Finished, export, numbers, tree)
  <2>1. CASE i = n + 1
    <3>1. FinishedIn(at) = {}
      <4>1. ASSUME NEW k \in Finished PROVE tree[k].parent # at
        <5>1. k \in 1 .. at - 1
          BY <1>3
        <5>2. CASE k = 1
          BY <1>1, <5>2 DEF AtNode, TreeOK, NoNode
        <5>3. CASE k # 1
          <6>1. k \in 2 .. Len(tree) /\ k < at /\ at \in Nat
            BY <1>1, <1>3, <5>1, <5>3
          <6>2. tree[k].parent \in 1 .. k - 1
            BY <6>1 DEF AtNode, TreeOK
          <6> QED BY <6>1, <6>2
        <5> QED BY <5>2, <5>3
      <4> QED BY <4>1 DEF FinishedIn
    <3> QED BY <1>2, <1>4, <2>1, <3>1, ListsNothing
  <2>2. CASE i \in 1 .. n
    BY <1>4, <2>2 DEF KidsListed, n
  <2> QED BY <1>7, <2>1, <2>2
<1>11. KidsListed'
  BY <1>1, <1>4, <1>10 DEF KidsListed, FinishedIn
<1>12. NodesOK'
  BY <1>1, <1>6, NodesStay
<1> QED BY <1>9, <1>11, <1>12

-----------------------------------------------------------------------------
(* A directory is left.                                                    *)

(* The directories that write_tables_dfs is in come after the ones they    *)
(* lie in.                                                                 *)
LEMMA StackOrder ==
  ASSUME AtNode
  PROVE  /\ \A i \in 1 .. Len(stack) : stack[i].dir \in 1 .. at - 1
         /\ \A i, j \in 1 .. Len(stack) : j < i => stack[j].dir < stack[i].dir
<1>1. Len(stack) \in Nat /\ StackOK
  BY TableTypes
<1>2. \A i \in 1 .. Len(stack) : \A j \in 1 .. i - 1 : stack[j].dir < stack[i].dir
  BY <1>1 DEF StackOK
<1>3. \A i, j \in 1 .. Len(stack) : j < i => j \in 1 .. i - 1
  BY <1>1
<1> QED BY <1>1, <1>2, <1>3 DEF StackOK

(* Everything in the directory is finished by then.                        *)
LEMMA AllKidsFinished ==
  ASSUME AtNode, StackPaths, ~AtChild
  PROVE  FinishedIn(Top.dir) = Kids(Top.dir)
<1> DEFINE n == Len(stack)
           d == Top.dir
<1>1. /\ n \in Nat \ {0} /\ d = stack[n].dir /\ d \in 1 .. at - 1
      /\ at \in 2 .. Len(tree) + 1 /\ Len(tree) \in Nat /\ TreeOK
      /\ Finished \subseteq 1 .. Len(tree)
  BY TableTypes DEF AtNode
<1>2. n \in 1 .. n
  <2> HIDE DEF n
  <2> QED BY <1>1
<1>3. ASSUME NEW k \in Kids(d) PROVE k \in Finished
  <2>1. k \in 1 .. Len(tree) /\ tree[k].parent = d
    BY DEF Kids
  <2>2. k \notin at .. Len(tree)
    BY <2>1, NothingLeft
  <2>3. k \in 1 .. at - 1
    BY <1>1, <2>1, <2>2
  <2>4. ASSUME NEW i \in 1 .. n, stack[i].dir = k PROVE FALSE
    <3>1. CASE i = 1
      <4>1. stack[1].dir = 1
        BY TableTypes DEF StackOK, AtNode
      <4>2. tree[1].parent = NoNode
        BY <1>1 DEF TreeOK
      <4> QED BY <1>1, <2>1, <2>4, <3>1, <4>1, <4>2 DEF NoNode
    <3>2. CASE i # 1
      <4>1. i - 1 \in 1 .. n /\ i - 1 < n /\ tree[stack[i].dir].parent = stack[i - 1].dir
        <5>1. tree[stack[i].dir].parent = stack[i - 1].dir
          BY <3>2 DEF StackPaths
        <5> HIDE DEF n
        <5> QED BY <1>1, <3>2, <5>1
      <4>2. stack[i - 1].dir < stack[n].dir /\ stack[n].dir \in 1 .. at - 1
        BY <1>2, <4>1, StackOrder
      <4>3. stack[n].dir \in Nat
        BY <4>2
      <4> QED BY <1>1, <2>1, <2>4, <4>1, <4>2, <4>3
    <3> QED BY <3>1, <3>2
  <2> QED BY <2>3, <2>4 DEF Finished
<1>4. \A k \in Finished : k \in 1 .. Len(tree)
  BY <1>1
<1> QED BY <1>3, <1>4 DEF FinishedIn, Kids

LEMMA LeavePathsAndKids ==
  ASSUME AtNode, StackPaths, KidsListed, LeaveDir
  PROVE  TablesGrow /\ StackPaths' /\ KidsListed'
<1> DEFINE n == Len(stack)
           l == n - 1
           d == Top.dir
<1>1. /\ d \in 1 .. Len(tree) /\ d \notin Finished /\ Finished' = Finished \cup {d}
      /\ at' = at /\ UNCHANGED tree /\ Len(stack') = l
      /\ \A i \in 1 .. l : i \in 1 .. n /\ stack'[i].dir = stack[i].dir
      /\ \A i \in 1 .. l - 1 : stack'[i].kids = stack[i].kids
      /\ n # 1 => stack'[l].kids =
                    Append(stack[l].kids, [name |-> d, number |-> numbers[d], ref |-> NextRef,
                                           kind |-> tree[d].kind])
  BY LeaveStack
<1>2. /\ InodesOK' /\ LinksOK' /\ Total' = Total /\ Growing
      /\ export'[numbers[d]] = NextRef /\ dirs' = Append(dirs, Groups(Top.kids))
      /\ UNCHANGED <<tree, numbers, dataVars>>
  BY LeaveWrites
<1>3. TablesGrow
  <2>1. IsSeq(dirs) /\ Len(dirs) \in Nat
    BY TableTypes, SeqFacts DEF DirsOK
  <2>2. MoreDirs(dirs, dirs')
    BY <1>2, <2>1, AppendFacts DEF MoreDirs
  <2> QED BY <1>2, <2>2 DEF TablesGrow, dataVars
<1>4. /\ n \in Nat \ {0} /\ d = stack[n].dir
  BY TableTypes
<1>5. /\ n \in 1 .. n /\ l \in Nat /\ l <= n /\ (l # 0 <=> n # 1)
      /\ l # 0 => l \in 1 .. n /\ l < n /\ n # 1
      /\ \A i \in 1 .. l - 1 : i \in 1 .. n /\ i < l
      /\ \A i \in 1 .. l : i # 1 => i - 1 \in 1 .. l
  <2> HIDE DEF n
  <2> QED BY <1>4
<1>6. StackPaths'
  <2>1. ASSUME NEW i \in 1 .. Len(stack')
        PROVE  /\ i # 1 => tree'[stack'[i].dir].parent = stack'[i - 1].dir
               /\ \A j \in stack'[i].dir + 1 .. at' - 1 : tree'[j].parent >= stack'[i].dir
    <3>1. i \in 1 .. l /\ i \in 1 .. n /\ stack'[i].dir = stack[i].dir
      BY <1>1
    <3>2. i # 1 => stack'[i - 1].dir = stack[i - 1].dir
      BY <1>1, <1>5, <3>1
    <3> HIDE DEF n, l
    <3>3. /\ i # 1 => tree[stack[i].dir].parent = stack[i - 1].dir
          /\ \A j \in stack[i].dir + 1 .. at - 1 : tree[j].parent >= stack[i].dir
      BY <3>1 DEF StackPaths, n
    <3> QED BY <1>1, <3>1, <3>2, <3>3
  <2> QED BY <2>1 DEF StackPaths
<1>7. l # 0 => tree[d].parent = stack[l].dir
  BY <1>4, <1>5 DEF StackPaths
<1>8. ASSUME l # 0, NEW k \in Finished, tree[k].parent = stack[l].dir PROVE k < d
  <2>1. k \in 1 .. at - 1 /\ at \in Nat /\ d \in 1 .. at - 1
    BY TableTypes
  <2>2. stack[l].dir < d /\ stack[l].dir \in 1 .. at - 1
    BY <1>4, <1>5, <1>8, StackOrder
  <2>3. k # d
    BY <1>1
  <2>4. ASSUME k > d PROVE FALSE
    <3>1. k \in d + 1 .. at - 1
      BY <2>1, <2>4
    <3>2. tree[k].parent >= d
      BY <1>4, <1>5, <3>1 DEF StackPaths
    <3>3. stack[l].dir \in Nat /\ d \in Nat
      BY <2>1, <2>2
    <3> QED BY <1>8, <2>2, <3>2, <3>3
  <2>5. k \in Nat /\ d \in Nat
    BY <2>1
  <2> QED BY <2>3, <2>4, <2>5
<1>9. \A i \in 1 .. l - 1 : tree[d].parent # stack[i].dir
  <2> TAKE i \in 1 .. l - 1
  <2>1. l # 0 /\ i \in 1 .. n /\ l \in 1 .. n /\ i < l
    <3>1. i \in 1 .. n /\ i < l
      BY <1>5
    <3>2. l # 0
      <4> HIDE DEF l, n
      <4> QED BY <1>5, <3>1
    <3> QED BY <1>5, <3>1, <3>2
  <2>2. stack[i].dir < stack[l].dir /\ stack[i].dir \in 1 .. at - 1 /\ stack[l].dir \in 1 .. at - 1
    BY <2>1, StackOrder
  <2>3. stack[i].dir # stack[l].dir
    BY <2>2
  <2> QED BY <1>7, <2>1, <2>3
<1>10. KidsListed'
  <2>1. d \in Finished'
    BY <1>1
  <2>2. export'[numbers[d]] = <<export'[numbers[d]][1], export'[numbers[d]][2]>>
    BY <1>1, <1>2, <2>1, NewRefIs
  <2>3. l # 0 => stack'[l].kids =
           Append(stack[l].kids, [name |-> d, number |-> numbers[d],
                                  ref |-> export'[numbers[d]], kind |-> tree[d].kind])
    BY <1>1, <1>2, <1>5
  <2>4. l \in Nat /\ l <= Len(stack) /\ Len(stack') = l
    BY <1>1, <1>5
  <2>5. /\ \A i \in 1 .. l : stack'[i].dir = stack[i].dir
        /\ \A i \in 1 .. l - 1 : stack'[i].kids = stack[i].kids
    BY <1>1
  <2>6. d \in 1 .. Len(tree) /\ d \notin Finished /\ Finished' = Finished \cup {d}
    BY <1>1
  <2>7. l # 0 => \A k \in Finished : tree[k].parent = stack[l].dir => k < d
    BY <1>8
  <2> HIDE DEF d, l
  <2> QED BY <1>3, <1>7, <1>9, <2>2, <2>3, <2>4, <2>5, <2>6, <2>7, KidsOneMore
<1> QED BY <1>3, <1>6, <1>10

LEMMA LeaveNodes ==
  ASSUME AtNode, StackPaths, KidsListed, NodesOK, TablesGrow, LeaveDir
  PROVE  NodesOK'
<1> DEFINE n  == Len(stack)
           d  == Top.dir
           es == Top.kids
           l  == Len(inodes)
<1>1. /\ d \in 1 .. Len(tree) /\ IsDir(d) /\ Finished' = Finished \cup {d}
  BY LeaveStack
<1>2. /\ export'[numbers[d]] = NextRef /\ dirs' = Append(dirs, Groups(es))
      /\ \A k \in Finished : numbers[k] # numbers[d]
  BY LeaveWrites
<1>3. PICK inode : /\ inodes' = Append(inodes, inode) /\ inode.number = numbers[d]
                   /\ inode.kind = "dir" /\ inode.dir = Len(dirs) + 1
                   /\ inode.parent = ParentNumber(d)
  BY LeaveWrites
<1>4. /\ n \in Nat \ {0} /\ IsSeq(inodes) /\ l \in Nat /\ Top = stack[n]
      /\ IsSeq(dirs) /\ Len(dirs) \in Nat /\ Finished \subseteq 1 .. Len(tree)
  BY TableTypes, SeqFacts DEF DirsOK
<1>5. Lists(es, Kids(d), Finished, export, numbers, tree)
  <2>1. n \in 1 .. n
    <3> HIDE DEF n
    <3> QED BY <1>4
  <2>2. Lists(stack[n].kids, FinishedIn(stack[n].dir), Finished, export, numbers, tree)
    BY <2>1 DEF KidsListed
  <2>3. FinishedIn(d) = Kids(d)
    BY AllKidsFinished DEF LeaveDir
  <2> QED BY <1>4, <2>2, <2>3
<1>6. EntriesIn(Groups(es)) = es
  <2> DEFINE nodes == Kids(d)
  <2>1. Lists(es, nodes, Finished, export, numbers, tree)
    BY <1>5
  <2>2. \A k \in Finished : numbers[k] \in Nat
    BY <1>4, TableNumbers DEF AtNode
  <2> HIDE DEF es, nodes
  <2> QED BY <2>1, <2>2, ListedEntries
<1>7. Lists(es, Kids(d), Finished', export', numbers, tree)
  <2> DEFINE nodes == Kids(d)
  <2>1. Lists(es, nodes, Finished, export, numbers, tree)
    BY <1>5
  <2>2. /\ Finished \subseteq Finished'
        /\ \A k \in Finished : export'[numbers[k]] = export[numbers[k]]
    BY DEF TablesGrow, Growing
  <2> HIDE DEF es, nodes
  <2>3. Lists(es, nodes, Finished', export', numbers, tree)
    BY <2>1, <2>2, ListsStay
  <2> QED BY <2>3 DEF nodes
<1>8. /\ Len(dirs') = Len(dirs) + 1 /\ dirs'[Len(dirs) + 1] = Groups(es)
      /\ Len(dirs) + 1 \in 1 .. Len(dirs')
  <2> DEFINE groups == Groups(es)
  <2>1. dirs' = Append(dirs, groups)
    BY <1>2
  <2> HIDE DEF groups
  <2>2. Len(dirs') = Len(dirs) + 1 /\ dirs'[Len(dirs) + 1] = groups
    BY <1>4, <2>1, AppendFacts
  <2> QED BY <1>4, <2>2 DEF groups
<1>9. Became(d, inode)
  <2>1. tree[d].kind = "dir"
    BY <1>1 DEF IsDir
  <2>2. DirIs(inode, Kids(d), ParentNumber(d), dirs', Finished', export', numbers, tree)
    BY <1>3, <1>6, <1>7, <1>8 DEF DirIs
  <2> QED BY <1>3, <2>1, <2>2 DEF Became
<1>10. /\ Len(inodes') = l + 1 /\ inodes'[l + 1] = inode
       /\ \A j \in 1 .. l : inodes'[j] = inodes[j]
  BY <1>3, <1>4, AppendFacts
<1>11. ASSUME NEW j \in 1 .. l, inodes[j].number = numbers[d] PROVE FALSE
  BY <1>2, <1>11, InodesAreNodes
<1>12. ASSUME NEW j \in 1 .. Len(inodes'), NEW k \in Finished', inodes'[j].number = numbers[k]
       PROVE  \/ j \in 1 .. l /\ inodes'[j] = inodes[j] /\ k \in Finished
              \/ Became(k, inodes'[j])
  <2>1. j \in 1 .. l \/ j = l + 1
    BY <1>4, <1>10
  <2>2. CASE j \in 1 .. l
    <3>1. inodes'[j] = inodes[j]
      BY <1>10, <2>2
    <3>2. k # d
      BY <1>11, <1>12, <2>2, <3>1
    <3> QED BY <1>1, <2>2, <3>1, <3>2
  <2>3. CASE j = l + 1
    <3>1. k = d
      BY <1>1, <1>2, <1>3, <1>10, <1>12, <2>3
    <3> QED BY <1>9, <1>10, <2>3, <3>1
  <2> QED BY <2>1, <2>2, <2>3
<1> QED BY <1>12, NodesStay

(* The root is the last one left.                                          *)
LEMMA LeaveRoot ==
  ASSUME AtNode, LeaveDir, Done'
  PROVE  root' = export'[numbers'[1]]
<1>1. Top.dir = 1 /\ root' = NextRef
  BY LeaveStack DEF Done
<1>2. export'[numbers[1]] = NextRef /\ UNCHANGED numbers
  BY <1>1, LeaveWrites
<1> QED BY <1>1, <1>2

-----------------------------------------------------------------------------
(* What is read is what was there.                                         *)

LEMMA ReadInit ==
  ASSUME Init
  PROVE  ReadInv
<1>1. ImageInv
  BY ImageInit
<1>2. /\ Len(tree) = 1 /\ copies = {} /\ fileData = <<>> /\ out = {} /\ pos = 1
      /\ phase = "scan"
  BY DEF Init, SuperblockSize
<1>3. \A l \in Links : hlFirst[l] = NoNode
  BY DEF Init
<1>4. SourcesOK
  <2>1. \A j, k \in 1 .. Len(tree) : j = k
    BY <1>2
  <2> QED BY <1>2, <1>3, <2>1 DEF SourcesOK
<1>5. OutOK
  BY <1>2 DEF OutOK, OutIs
<1>6. FilesOK
  <2>1. \A k \in DOMAIN fileData : FALSE
    BY <1>2, EmptyFacts, SeqFacts
  <2> QED BY <1>2, <2>1 DEF FilesOK
<1> QED BY <1>1, <1>2, <1>4, <1>5, <1>6 DEF ReadInv, InTables, Done

(* The tables begin with nothing in them.                                  *)
LEMMA ReadingBegins ==
  ASSUME ReadInv, WritingEnds
  PROVE  StackPaths' /\ KidsListed' /\ NodesOK'
<1> DEFINE first == [dir |-> 1, kids |-> <<>>]
<1>1. /\ Finished' = {} /\ at' = 2 /\ Len(stack') = 1 /\ stack'[1] = first
  BY TablesBegin DEF ReadInv
<1>2. first.dir = 1 /\ first.kids = <<>>
  OBVIOUS
<1> HIDE DEF first
<1>3. StackPaths'
  <2>1. \A j \in 1 + 1 .. 2 - 1 : FALSE
    OBVIOUS
  <2>2. \A i \in 1 .. 1 : i = 1
    OBVIOUS
  <2> QED BY <1>1, <1>2, <2>1, <2>2 DEF StackPaths
<1>4. KidsListed'
  <2>1. Lists(<<>>, {}, Finished', export', numbers', tree')
    BY ListsNothing
  <2>2. {k \in Finished' : tree'[k].parent = 1} = {}
    BY <1>1
  <2>3. \A i \in 1 .. 1 : i = 1
    OBVIOUS
  <2> QED BY <1>1, <1>2, <2>1, <2>2, <2>3 DEF KidsListed, FinishedIn
<1>5. NodesOK'
  BY <1>1 DEF NodesOK
<1> QED BY <1>3, <1>4, <1>5

LEMMA ReadingTables ==
  ASSUME ReadInv, WriteFile \/ WriteSymlink \/ EnterDir \/ LeaveDir
  PROVE  /\ StackPaths' /\ KidsListed' /\ NodesOK' /\ buf' = <<>>
         /\ Done' => root' = export'[numbers'[1]]
<1>1. phase = "tables" /\ UNCHANGED buf
  BY DEF WriteFile, WriteSymlink, EnterDir, LeaveDir, AtChild, dataVars
<1>2. /\ AtNode /\ SourcesOK /\ FilesOK /\ StackPaths /\ KidsListed /\ NodesOK /\ buf = <<>>
  BY <1>1 DEF ReadInv, ImageInv, AtNode, InTables
<1>3. CASE WriteFile \/ WriteSymlink
  <2>1. TablesGrow /\ StackPaths' /\ KidsListed'
    BY <1>2, <1>3, LeafPathsAndKids
  <2>2. NodesOK'
    BY <1>2, <1>3, <2>1, LeafNodes
  <2>3. phase' = "tables"
    BY <1>2, <1>3, LeafKeeps
  <2> QED BY <1>1, <1>2, <2>1, <2>2, <2>3 DEF Done
<1>4. CASE EnterDir
  <2>1. StackPaths' /\ KidsListed' /\ NodesOK'
    BY <1>2, <1>4, EnterReads
  <2>2. phase' = "tables"
    BY <1>2, <1>4, EnterKeeps
  <2> QED BY <1>1, <1>2, <2>1, <2>2 DEF Done
<1>5. CASE LeaveDir
  <2>1. TablesGrow /\ StackPaths' /\ KidsListed'
    BY <1>2, <1>5, LeavePathsAndKids
  <2>2. NodesOK'
    BY <1>2, <1>5, <2>1, LeaveNodes
  <2>3. Done' => root' = export'[numbers'[1]]
    BY <1>2, <1>5, LeaveRoot
  <2> QED BY <1>1, <1>2, <2>1, <2>2, <2>3
<1> QED BY <1>3, <1>4, <1>5

LEMMA ReadingStays ==
  ASSUME ReadInv, UNCHANGED vars
  PROVE  /\ InTables' => StackPaths' /\ KidsListed' /\ NodesOK'
         /\ Done' => root' = export'[numbers'[1]] /\ buf' = <<>>
         /\ phase' = "tables" => buf' = <<>>
<1>1. UNCHANGED <<phase, tree, at, numbers, out, frags, buf, inodes, dirs, stack, export, root>>
  BY DEF vars, scanVars, numVars, dataVars, tableVars
<1>2. Finished' = Finished /\ Total' = Total
  BY <1>1 DEF Finished, Total
<1>3. InTables' => StackPaths' /\ KidsListed'
  BY <1>1, <1>2 DEF ReadInv, InTables, StackPaths, KidsListed, FinishedIn
<1>4. InTables' => NodesOK'
  <2> SUFFICES ASSUME InTables PROVE NodesOK'
    BY <1>1 DEF InTables
  <2>1. NodesOK /\ IsSeq(dirs) /\ Len(dirs) \in Nat
    BY SeqFacts DEF ReadInv, ImageInv, TablesOK, DirsOK
  <2>2. TablesGrow
    BY <1>1, <1>2, <2>1 DEF TablesGrow, Growing, MoreDirs
  <2> QED BY <1>1, <1>2, <2>1, <2>2, NodesStay
<1>5. /\ Done' => root' = export'[numbers'[1]] /\ buf' = <<>>
      /\ phase' = "tables" => buf' = <<>>
  BY <1>1 DEF ReadInv, Done
<1> QED BY <1>3, <1>4, <1>5

(* The passes keep everything that reading relies on.                      *)
THEOREM PassesKeepContent == Spec => []ReadInv
<1>1. Init => ReadInv
  BY ReadInit
<1>2. ReadInv /\ ImageInv' /\ [Next]_vars => ReadInv'
  <2> SUFFICES ASSUME ReadInv, ImageInv', [Next]_vars PROVE ReadInv'
    OBVIOUS
  <2>1. ImageInv /\ SourcesOK /\ OutOK /\ FilesOK
    BY DEF ReadInv
  <2>2. SourcesOK' /\ OutOK' /\ FilesOK'
    BY <2>1, SourcesNext, DataNext
  <2>3. /\ InTables' => StackPaths' /\ KidsListed' /\ NodesOK'
        /\ Done' => root' = export'[numbers'[1]] /\ buf' = <<>>
        /\ phase' = "tables" => buf' = <<>>
    <3>1. CASE UNCHANGED vars
      BY <3>1, ReadingStays
    <3>2. CASE WritingEnds
      BY <3>2, ReadingBegins DEF WritingEnds, Done
    <3>3. CASE WriteFile \/ WriteSymlink \/ EnterDir \/ LeaveDir
      BY <3>3, ReadingTables
    <3>4. CASE \/ \E d \in 1 .. Len(path), kind \in {"dir", "file", "symlink"},
                     content \in Contents \cup {<<>>}, host \in Links \cup {NotLinked} :
                    Scan(d, kind, content, host)
               \/ ScanEnds \/ Number \/ NumberingEnds \/ Collect \/ CollectingEnds
               \/ WriteBlocks \/ AddFragment \/ WriteEmpty
      <4>1. phase' \notin {"tables", "done"}
        BY <3>4 DEF Scan, ScanEnds, Number, NumberingEnds, Collect, CollectingEnds, WriteBlocks,
                    AddFragment, WriteEmpty, Writing
      <4> QED BY <4>1 DEF InTables, Done
    <3> QED BY <3>1, <3>2, <3>3, <3>4 DEF Next, Returned
  <2> QED BY <2>2, <2>3 DEF ReadInv
<1> QED BY <1>1, <1>2, PassesKeepImage, PTL DEF Spec

(* What an entry of a directory says is what the reader finds there.       *)
LEMMA NodeIsFound ==
  ASSUME ReadInv, Done, \A c \in Contents : SparseIsWhole(c), NEW k \in 1 .. Len(tree)
  PROVE  /\ Finds(k, export[numbers[k]])
         /\ InodeAt(export[numbers[k]]).number = numbers[k]
         /\ InodeAt(export[numbers[k]]).kind = tree[k].kind
         /\ IsDir(k) => InodeAt(export[numbers[k]]).parent = ParentNumber(k)
<1>1. /\ ImageInv /\ OutOK /\ buf = <<>> /\ NodesOK /\ TreeOK /\ Finished = 1 .. Len(tree)
      /\ \A m \in 1 .. Len(tree) : numbers[m] \in 1 .. Total
  BY AllFinished, TableNumbers DEF ReadInv, InTables, Done
<1>2. ASSUME NEW m \in 1 .. Len(tree)
      PROVE  LET i == InodeAt(export[numbers[m]]) IN InodeOf(m, i) /\ i.number = numbers[m]
  <2> DEFINE n == numbers[m]
  <2>1. n \in 1 .. Total
    BY <1>1
  <2> HIDE DEF n
  <2>2. PICK j \in 1 .. Len(inodes) : inodes[j].number = n /\ InodeAt(export[n]) = inodes[j]
    BY <1>1, <2>1, InodeOfNumber
  <2>3. InodeOf(m, inodes[j])
    BY <1>1, <2>2 DEF NodesOK, n
  <2> QED BY <2>2, <2>3 DEF n
<1> DEFINE i == InodeAt(export[numbers[k]])
<1>3. InodeOf(k, i) /\ i.number = numbers[k]
  BY <1>2
<1>4. ASSUME NEW m \in 1 .. Len(tree)
      PROVE  /\ InodeAt(export[numbers[m]]).number = numbers[m]
             /\ InodeAt(export[numbers[m]]).kind = tree[m].kind
             /\ IsDir(m) => InodeAt(export[numbers[m]]).parent = ParentNumber(m)
  <2>1. InodeOf(m, InodeAt(export[numbers[m]])) /\ InodeAt(export[numbers[m]]).number = numbers[m]
    BY <1>2
  <2> QED BY <2>1 DEF InodeOf, DirIs, IsDir
<1> HIDE DEF i
<1>5. i.kind = "file" => ReadFile(i).bytes = tree[k].content
  <2> SUFFICES ASSUME i.kind = "file" PROVE ReadFile(i).bytes = tree[k].content
    OBVIOUS
  <2> DEFINE c == tree[k].content
  <2>1. Holds(i, c)
    BY <1>3 DEF InodeOf, Holds
  <2> HIDE DEF c
  <2>2. ReadFile(i).bytes = c
    BY <1>1, <2>1, HeldReadsBack
  <2> QED BY <2>2 DEF c
<1>6. ASSUME i.kind = "dir"
      PROVE  LET es == ReadDir(i) IN
             /\ {e.name : e \in ToSet(es)} = Kids(k)
             /\ \A n \in 2 .. Len(es) : es[n - 1].name < es[n].name
             /\ \A e \in ToSet(es) :
                  LET kid == InodeAt(e.ref) IN
                  /\ e.number = kid.number /\ e.kind = kid.kind
                  /\ e.kind = "dir" => kid.parent = i.number
  <2> DEFINE es == ReadDir(i)
  <2>1. es = EntriesIn(dirs[i.dir])
    BY DEF ReadDir, EntriesIn
  <2>2. Lists(es, Kids(k), Finished, export, numbers, tree)
    BY <1>3, <1>6, <2>1 DEF InodeOf, DirIs
  <2> HIDE DEF es
  <2>3. /\ {e.name : e \in ToSet(es)} = Kids(k)
        /\ \A n \in 2 .. Len(es) : es[n - 1].name < es[n].name
    BY <2>2 DEF Lists
  <2>4. ASSUME NEW e \in ToSet(es)
        PROVE  /\ e.number = InodeAt(e.ref).number /\ e.kind = InodeAt(e.ref).kind
               /\ e.kind = "dir" => InodeAt(e.ref).parent = i.number
    <3> DEFINE m == e.name
    <3>1. /\ m \in 1 .. Len(tree) /\ e.ref = export[numbers[m]]
          /\ e.number = numbers[m] /\ e.kind = tree[m].kind
      BY <1>1, <2>2 DEF Lists, EntryIs
    <3>2. m \in Kids(k)
      BY <2>3
    <3> HIDE DEF m
    <3>3. /\ InodeAt(e.ref).number = numbers[m] /\ InodeAt(e.ref).kind = tree[m].kind
          /\ IsDir(m) => InodeAt(e.ref).parent = ParentNumber(m)
      BY <1>4, <3>1
    <3>4. tree[m].parent = k /\ m # 1
      BY <1>1, <3>2 DEF Kids, TreeOK, NoNode
    <3>5. ParentNumber(m) = i.number
      BY <1>3, <3>4 DEF ParentNumber
    <3> QED BY <3>1, <3>3, <3>5 DEF IsDir
  <2> QED BY <2>3, <2>4 DEF es
<1>7. Finds(k, export[numbers[k]])
  <2>1. i.kind = tree[k].kind
    BY <1>3 DEF InodeOf
  <2> QED BY <1>5, <1>6, <2>1 DEF Finds, i
<1> QED BY <1>4, <1>7

(* For contents whose blocks of zeros are whole blocks, whatever the tree, *)
(* the sizes and the compression: the tree that was scanned is read back,  *)
(* every directory with its entries in their order and every file with its *)
(* bytes.                                                                  *)
THEOREM ImageReadsBack ==
  ASSUME \A c \in Contents : SparseIsWhole(c)
  PROVE  Spec => []ReadsBackTree
<1>1. ReadInv => ReadsBackTree
  <2> SUFFICES ASSUME ReadInv, Done
               PROVE  /\ Finds(1, root) /\ InodeAt(root).parent = Total + 1
                      /\ \A e \in Entries : Finds(e.name, e.ref)
    BY DEF ReadsBackTree
  <2>1. /\ ImageInv /\ root = export[numbers[1]] /\ TreeOK /\ Finished = 1 .. Len(tree)
        /\ 1 \in 1 .. Len(tree) /\ IsDir(1)
    BY AllFinished, TreeTypes DEF ReadInv, TreeOK
  <2>2. Finds(1, root) /\ InodeAt(root).parent = Total + 1
    BY <2>1, NodeIsFound DEF ParentNumber
  <2>3. ASSUME NEW e \in Entries PROVE Finds(e.name, e.ref)
    <3>1. e.name \in 1 .. Len(tree) /\ e.ref = export[numbers[e.name]]
      BY <2>1, ReadEntriesRefer DEF Refers
    <3> QED BY <3>1, NodeIsFound
  <2> QED BY <2>2, <2>3
<1> QED BY <1>1, PassesKeepContent, PTL
=============================================================================
