---------------------------- MODULE SquashfsImage ----------------------------
(***************************************************************************)
(* create_squashfs: a directory tree is scanned, its inodes are numbered,  *)
(* the files' data is collected without duplicates, compressed and         *)
(* written, and the inode and directory tables are written.  The operators *)
(* at the end are SquashfsReader, which reads the image.                   *)
(*                                                                         *)
(* A node is known by its place in the order of the scan, which is also    *)
(* its name: siblings are scanned by name.  Permissions, symlink targets   *)
(* and times are passed through and left out.                              *)
(***************************************************************************)
EXTENDS Integers, SequencesExt

CONSTANTS
  BlockSize,      (* DATA_BLOCK_SIZE                                        *)
  Contents,       (* what files may contain: sequences of bytes             *)
  Links,          (* the inodes of the host that have several names         *)
  InodesPerBlock, (* how many inodes fit in a metadata block                *)
  GroupMax,       (* entries under one directory header (256)               *)
  DeltaMax,       (* i16::MAX                                               *)
  MaxNodes        (* bound: size of the tree                                *)

ASSUME SizesAssumption ==
  /\ {BlockSize, InodesPerBlock, GroupMax, DeltaMax, MaxNodes} \subseteq Nat \ {0}
  /\ Contents \subseteq Seq(Nat)
  /\ Links \subseteq Nat \ {0}

VARIABLES
  phase,      (* "scan", "number", "collect", "write", "tables", "done"     *)
  tree,       (* the scanned nodes; the first is the root                   *)
  path,       (* the directories scan_dir_recursive is in                   *)
  at,         (* the next node of a depth-first pass                        *)
  next,       (* next_inum                                                  *)
  numbers,    (* inode_numbers                                              *)
  hlNum,      (* hl_inum_map                                                *)
  queue,      (* data_files                                                 *)
  firsts,     (* dedup_map: the first file of each content                  *)
  copies,     (* dedup_copies: the others, each with the first              *)
  hlFirst,    (* hl_data_first                                              *)
  fileData,   (* file_data: where each file's bytes are                     *)
  out,        (* the data area of the image: stored blocks                  *)
  pos,        (* the output's stream position                               *)
  buf,        (* FragmentTable.buf                                          *)
  frags,      (* FragmentTable.entries                                      *)
  inodes,     (* the inode table                                            *)
  dirs,       (* the directory table                                        *)
  hlRef,      (* hl_iref_map                                                *)
  stack,      (* the calls of write_tables_dfs, each with its dir_children  *)
  export,     (* export_refs                                                *)
  root        (* root_inode_ref                                             *)

scanVars  == <<tree, path>>
numVars   == <<next, numbers, hlNum>>
collVars  == <<queue, firsts, copies, hlFirst>>
dataVars  == <<fileData, out, pos, buf, frags>>
tableVars == <<inodes, dirs, hlRef, stack, export, root>>
vars == <<phase, at, scanVars, numVars, collVars, dataVars, tableVars>>

NotLinked == 0
NoNode == 0
NoRef == <<>>
NoFragment == -1

Node == [kind: {"dir", "file", "symlink"}, parent: 0 .. MaxNodes,
         content: Contents \cup {<<>>}, host: Links \cup {NotLinked}]
IsFile(k) == tree[k].kind = "file"
IsDir(k)  == tree[k].kind = "dir"
Linked(k) == IsFile(k) /\ tree[k].host # NotLinked
Total == Len(export)

(* The superblock comes first.                                             *)
SuperblockSize == 1

Init ==
  /\ phase = "scan" /\ at = 2
  /\ tree = <<[kind |-> "dir", parent |-> NoNode, content |-> <<>>, host |-> NotLinked]>>
  /\ path = <<1>>
  /\ next = 1 /\ numbers = <<0>> /\ hlNum = [l \in Links |-> 0]
  /\ queue = <<>> /\ firsts = {} /\ copies = {} /\ hlFirst = [l \in Links |-> NoNode]
  /\ fileData = <<>> /\ out = {} /\ pos = SuperblockSize /\ buf = <<>> /\ frags = <<>>
  /\ inodes = <<>> /\ dirs = <<>> /\ hlRef = [l \in Links |-> NoRef]
  /\ stack = <<>> /\ export = <<>> /\ root = NoRef
-----------------------------------------------------------------------------
(* scan_dir_recursive meets a node in one of the directories it is in.     *)
(* The names of one inode of the host have one content.                    *)
Scan(d, kind, content, host) ==
  /\ phase = "scan" /\ Len(tree) < MaxNodes
  /\ kind # "file" => content = <<>> /\ host = NotLinked
  /\ \A k \in 1 .. Len(tree) :
       host # NotLinked /\ tree[k].host = host => tree[k].content = content
  /\ tree' = Append(tree, [kind |-> kind, parent |-> path[d], content |-> content,
                           host |-> host])
  /\ path' = SubSeq(path, 1, d) \o (IF kind = "dir" THEN <<Len(tree) + 1>> ELSE <<>>)
  /\ UNCHANGED <<phase, at, numVars, collVars, dataVars, tableVars>>

ScanEnds ==
  /\ phase = "scan"
  /\ phase' = "number" /\ path' = <<>>
  /\ UNCHANGED <<at, tree, numVars, collVars, dataVars, tableVars>>
-----------------------------------------------------------------------------
(* Mutant of Number: a further name of a linked file counts again.         *)
NumberEachName ==
  /\ phase = "number" /\ at <= Len(tree)
  /\ at' = at + 1 /\ next' = next + 1
  /\ numbers' = Append(numbers, next)
  /\ hlNum' = IF Linked(at) THEN [hlNum EXCEPT ![tree[at].host] = next] ELSE hlNum
  /\ UNCHANGED <<phase, scanVars, collVars, dataVars, tableVars>>

(* One child in assign_inode_numbers_dfs: a directory is numbered before   *)
(* what is in it.                                                          *)
Number ==
  /\ phase = "number" /\ at <= Len(tree)
  /\ at' = at + 1
  /\ IF Linked(at) /\ hlNum[tree[at].host] # 0
       THEN numbers' = Append(numbers, hlNum[tree[at].host]) /\ UNCHANGED <<next, hlNum>>
       ELSE /\ numbers' = Append(numbers, next) /\ next' = next + 1
            /\ hlNum' = IF Linked(at) THEN [hlNum EXCEPT ![tree[at].host] = next]
                        ELSE hlNum
  /\ UNCHANGED <<phase, scanVars, collVars, dataVars, tableVars>>

(* The root comes last; the export table gets room for every number.       *)
NumberingEnds ==
  /\ phase = "number" /\ at > Len(tree)
  /\ numbers' = [numbers EXCEPT ![1] = next] /\ next' = next + 1
  /\ export' = [n \in 1 .. next |-> NoRef]
  /\ phase' = "collect" /\ at' = 2
  /\ UNCHANGED <<scanVars, hlNum, collVars, dataVars, inodes, dirs, hlRef, stack, root>>
-----------------------------------------------------------------------------
SameContent(k) == {f \in firsts : tree[f].content = tree[k].content}

(* Mutant of Collect: a link is only remembered with its data.             *)
CollectCopiesFirst ==
  /\ phase = "collect" /\ at <= Len(tree)
  /\ at' = at + 1
  /\ IF ~IsFile(at) \/ (Linked(at) /\ hlFirst[tree[at].host] # NoNode)
       THEN UNCHANGED collVars
       ELSE IF tree[at].content # <<>> /\ SameContent(at) # {}
         THEN /\ copies' = copies \cup {<<at, f>> : f \in SameContent(at)}
              /\ UNCHANGED <<queue, firsts, hlFirst>>
         ELSE /\ queue' = Append(queue, at)
              /\ firsts' = firsts \cup {at}
              /\ hlFirst' = IF Linked(at) THEN [hlFirst EXCEPT ![tree[at].host] = at]
                            ELSE hlFirst
              /\ UNCHANGED copies
  /\ UNCHANGED <<phase, scanVars, numVars, dataVars, tableVars>>

(* One child in collect_data_files_dfs: further names of a linked file,    *)
(* and files with the content of an earlier one, bring no data.            *)
Collect ==
  /\ phase = "collect" /\ at <= Len(tree)
  /\ at' = at + 1
  /\ IF ~IsFile(at) \/ (Linked(at) /\ hlFirst[tree[at].host] # NoNode)
       THEN UNCHANGED collVars
       ELSE /\ hlFirst' = IF Linked(at) THEN [hlFirst EXCEPT ![tree[at].host] = at]
                          ELSE hlFirst
            /\ IF tree[at].content # <<>> /\ SameContent(at) # {}
                 THEN /\ copies' = copies \cup {<<at, f>> : f \in SameContent(at)}
                      /\ UNCHANGED <<queue, firsts>>
                 ELSE /\ queue' = Append(queue, at)
                      /\ firsts' = IF tree[at].content = <<>> THEN firsts
                                   ELSE firsts \cup {at}
                      /\ UNCHANGED copies
  /\ UNCHANGED <<phase, scanVars, numVars, dataVars, tableVars>>

CollectingEnds ==
  /\ phase = "collect" /\ at > Len(tree)
  /\ phase' = "write" /\ at' = 2
  /\ UNCHANGED <<scanVars, numVars, collVars, dataVars, tableVars>>
-----------------------------------------------------------------------------
(* The file whose data is written next.                                    *)
Writing == phase = "write" /\ queue # <<>>
Current == tree[Head(queue)].content

BlockCount(size) == (size + BlockSize - 1) \div BlockSize
BlockOf(bytes, i) == SubSeq(bytes, (i - 1) * BlockSize + 1,
                            IF i * BlockSize < Len(bytes) THEN i * BlockSize ELSE Len(bytes))
Sparse(bytes) == \A i \in 1 .. Len(bytes) : bytes[i] = 0

Info(size, start, sizes, frag, off) ==
  [size |-> size, start |-> start, sizes |-> sizes, frag |-> frag, off |-> off]
Placed(info) ==
  fileData' = [k \in DOMAIN fileData \cup {Head(queue)} |->
                IF k = Head(queue) THEN info ELSE fileData[k]]

SumTo(sizes, n) ==
  LET upTo[i \in 0 .. n] == IF i = 0 THEN 0 ELSE upTo[i - 1] + sizes[i] IN upTo[n]

(* write_compressed_file, for a file of a block or more: zstd may make a   *)
(* block any size, a block of zeros is not stored, the tail is a block.    *)
WriteBlocks ==
  LET n == BlockCount(Len(Current)) IN
  /\ Writing /\ Len(Current) >= BlockSize
  /\ \E sizes \in [1 .. n -> 0 .. BlockSize] :
       /\ \A i \in 1 .. n : LET b == BlockOf(Current, i) IN
            IF Sparse(b) THEN sizes[i] = 0 ELSE sizes[i] \in 1 .. Len(b)
       /\ out' = out \cup {[at |-> pos + SumTo(sizes, i - 1), stored |-> sizes[i],
                            bytes |-> BlockOf(Current, i)] :
                            i \in {j \in 1 .. n : sizes[j] # 0}}
       /\ pos' = pos + SumTo(sizes, n)
       /\ Placed(Info(Len(Current), pos, sizes, NoFragment, 0))
  /\ queue' = Tail(queue)
  /\ UNCHANGED <<phase, at, scanVars, numVars, firsts, copies, hlFirst, buf, frags, tableVars>>

(* flush_block of the fragment table.                                      *)
FlushFragments ==
  \E s \in 1 .. Len(buf) :
    /\ out' = out \cup {[at |-> pos, stored |-> s, bytes |-> buf]}
    /\ frags' = Append(frags, [start |-> pos, size |-> s])
    /\ pos' = pos + s

(* Mutant of AddFragment: the index is taken before the flush.             *)
AddFragmentEarlyIndex ==
  LET full == buf # <<>> /\ Len(buf) + Len(Current) > BlockSize IN
  /\ Writing /\ Len(Current) \in 1 .. BlockSize - 1
  /\ IF full THEN FlushFragments ELSE UNCHANGED <<out, pos, frags>>
  /\ Placed(Info(Len(Current), 0, <<>>, Len(frags), IF full THEN 0 ELSE Len(buf)))
  /\ buf' = (IF full THEN <<>> ELSE buf) \o Current
  /\ queue' = Tail(queue)
  /\ UNCHANGED <<phase, at, scanVars, numVars, firsts, copies, hlFirst, tableVars>>

(* add_fragment, for a shorter file: when it does not fit beside the       *)
(* others they are written out first.                                      *)
AddFragment ==
  LET full == buf # <<>> /\ Len(buf) + Len(Current) > BlockSize IN
  /\ Writing /\ Len(Current) \in 1 .. BlockSize - 1
  /\ IF full THEN FlushFragments ELSE UNCHANGED <<out, pos, frags>>
  /\ Placed(Info(Len(Current), 0, <<>>, Len(frags'), IF full THEN 0 ELSE Len(buf)))
  /\ buf' = (IF full THEN <<>> ELSE buf) \o Current
  /\ queue' = Tail(queue)
  /\ UNCHANGED <<phase, at, scanVars, numVars, firsts, copies, hlFirst, tableVars>>

WriteEmpty ==
  /\ Writing /\ Current = <<>>
  /\ Placed(Info(0, 0, <<>>, NoFragment, 0))
  /\ queue' = Tail(queue)
  /\ UNCHANGED <<phase, at, scanVars, numVars, firsts, copies, hlFirst, out, pos, buf, frags,
                 tableVars>>

(* The copies get the places of the first ones, and what is left of the    *)
(* fragments is written.                                                   *)
WritingEnds ==
  /\ phase = "write" /\ queue = <<>>
  /\ fileData' = [k \in DOMAIN fileData \cup {c[1] : c \in copies} |->
                    IF k \in DOMAIN fileData THEN fileData[k]
                    ELSE fileData[(CHOOSE c \in copies : c[1] = k)[2]]]
  /\ IF buf = <<>> THEN UNCHANGED <<out, pos, frags>> ELSE FlushFragments
  /\ buf' = <<>>
  /\ phase' = "tables" /\ stack' = <<[dir |-> 1, kids |-> <<>>]>>
  /\ UNCHANGED <<at, scanVars, numVars, collVars, inodes, dirs, hlRef, export, root>>
-----------------------------------------------------------------------------
Top == stack[Len(stack)]

(* The next node is a child of the directory write_tables_dfs is in.       *)
AtChild == phase = "tables" /\ at <= Len(tree) /\ tree[at].parent = Top.dir

(* position() of the inode table.                                          *)
NextRef == <<Len(inodes) \div InodesPerBlock, Len(inodes) % InodesPerBlock>>

AddInode(inode) ==
  /\ inodes' = Append(inodes, inode)
  /\ export' = [export EXCEPT ![inode.number] = NextRef]

WithChild(s, name, number, ref) ==
  [s EXCEPT ![Len(s)].kids = Append(@, [name |-> name, number |-> number, ref |-> ref,
                                         kind |-> tree[name].kind])]

(* add_file: an inode of the extended type if the host has more names.     *)
FileInode(k, info) ==
  [kind |-> "file", number |-> numbers[k], ext |-> Linked(k), size |-> info.size,
   start |-> info.start, sizes |-> info.sizes, frag |-> info.frag, off |-> info.off]

(* Mutant of WriteFile: the inode of a link is not remembered.             *)
WriteFileEachName ==
  LET k == IF Linked(at) THEN hlFirst[tree[at].host] ELSE at IN
  /\ AtChild /\ IsFile(at)
  /\ at' = at + 1
  /\ AddInode(FileInode(at, fileData[k]))
  /\ stack' = WithChild(stack, at, numbers[at], NextRef)
  /\ UNCHANGED <<phase, scanVars, numVars, collVars, dataVars, dirs, root, hlRef>>

(* A file: a further name of a linked one gets the inode that is there.    *)
(* Without data for it, the unwrap() panics.                               *)
WriteFile ==
  LET k == IF Linked(at) THEN hlFirst[tree[at].host] ELSE at IN
  /\ AtChild /\ IsFile(at)
  /\ at' = at + 1
  /\ IF Linked(at) /\ hlRef[tree[at].host] # NoRef
       THEN /\ stack' = WithChild(stack, at, hlNum[tree[at].host], hlRef[tree[at].host])
            /\ UNCHANGED <<phase, inodes, export, hlRef>>
       ELSE IF k \notin DOMAIN fileData
         THEN phase' = "panic" /\ UNCHANGED <<inodes, export, hlRef, stack>>
         ELSE /\ AddInode(FileInode(at, fileData[k]))
              /\ stack' = WithChild(stack, at, numbers[at], NextRef)
              /\ hlRef' = IF Linked(at) THEN [hlRef EXCEPT ![tree[at].host] = NextRef]
                          ELSE hlRef
              /\ UNCHANGED phase
  /\ UNCHANGED <<scanVars, numVars, collVars, dataVars, dirs, root>>

WriteSymlink ==
  /\ AtChild /\ tree[at].kind = "symlink"
  /\ at' = at + 1
  /\ AddInode([kind |-> "symlink", number |-> numbers[at]])
  /\ stack' = WithChild(stack, at, numbers[at], NextRef)
  /\ UNCHANGED <<phase, scanVars, numVars, collVars, dataVars, dirs, hlRef, root>>

EnterDir ==
  /\ AtChild /\ IsDir(at)
  /\ at' = at + 1
  /\ stack' = Append(stack, [dir |-> at, kids |-> <<>>])
  /\ UNCHANGED <<phase, scanVars, numVars, collVars, dataVars, inodes, dirs, hlRef, export,
                 root>>

(* A number as an i16 holds it.                                            *)
AsDelta(d) == ((d + DeltaMax + 1) % (2 * (DeltaMax + 1))) - (DeltaMax + 1)

(* Whether the entry can stand under the last header.                      *)
Fits(group, kid) ==
  /\ Len(group.entries) < GroupMax
  /\ kid.ref[1] = group.block
  /\ AsDelta(kid.number - group.base) = kid.number - group.base

(* build_directory_data.  (Where the directory has grown by a metadata     *)
(* block, a new header begins as well; that is left out.)                  *)
AddEntry(groups, kid) ==
  LET new  == groups = <<>> \/ ~Fits(groups[Len(groups)], kid)
      gs   == IF new THEN Append(groups, [block |-> kid.ref[1], base |-> kid.number,
                                          entries |-> <<>>])
              ELSE groups
      last == gs[Len(gs)]
  IN  [gs EXCEPT ![Len(gs)].entries =
         Append(@, [name |-> kid.name, off |-> kid.ref[2], kind |-> kid.kind,
                    delta |-> AsDelta(kid.number - last.base)])]
Groups(kids) ==
  LET upTo[n \in 0 .. Len(kids)] ==
        IF n = 0 THEN <<>> ELSE AddEntry(upTo[n - 1], kids[n])
  IN  upTo[Len(kids)]

ParentNumber(d) == IF d = 1 THEN Total + 1 ELSE numbers[tree[d].parent]

(* Everything in the directory is written: its entries, then its inode.    *)
LeaveDir ==
  LET d    == Top.dir
      rest == SubSeq(stack, 1, Len(stack) - 1)
  IN
  /\ phase = "tables" /\ ~AtChild
  /\ dirs' = Append(dirs, Groups(Top.kids))
  /\ AddInode([kind |-> "dir", number |-> numbers[d], dir |-> Len(dirs) + 1,
               nlink |-> 2 + Cardinality({k \in 1 .. Len(tree) :
                                            IsDir(k) /\ tree[k].parent = d}),
               parent |-> ParentNumber(d)])
  /\ IF rest = <<>>
       THEN phase' = "done" /\ root' = NextRef /\ stack' = rest
       ELSE stack' = WithChild(rest, d, numbers[d], NextRef) /\ UNCHANGED <<phase, root>>
  /\ UNCHANGED <<at, scanVars, numVars, collVars, dataVars, hlRef>>

(* create_squashfs has returned.                                           *)
Returned == phase = "done" /\ UNCHANGED vars

Next ==
  \/ \E d \in 1 .. Len(path), kind \in {"dir", "file", "symlink"},
        content \in Contents \cup {<<>>}, host \in Links \cup {NotLinked} :
       Scan(d, kind, content, host)
  \/ ScanEnds
  \/ Number \/ NumberingEnds
  \/ Collect \/ CollectingEnds
  \/ WriteBlocks \/ AddFragment \/ WriteEmpty \/ WritingEnds
  \/ WriteFile \/ WriteSymlink \/ EnterDir \/ LeaveDir
  \/ Returned

Spec == Init /\ [][Next]_vars
-----------------------------------------------------------------------------
(* The reader.                                                             *)
InodeAt(ref) == inodes[ref[1] * InodesPerBlock + ref[2] + 1]

(* read_dir: the entries of all groups.                                    *)
ReadEntry(group, entry) ==
  [name |-> entry.name, kind |-> entry.kind, number |-> group.base + entry.delta,
   ref |-> <<group.block, entry.off>>]
ReadGroup(group) ==
  [e \in 1 .. Len(group.entries) |-> ReadEntry(group, group.entries[e])]
ReadDir(i) == FlattenSeq([g \in 1 .. Len(dirs[i.dir]) |-> ReadGroup(dirs[i.dir][g])])

Unreadable == [bytes |-> <<>>, off |-> -1]

(* What lies at an offset with a stored size, if anything does.            *)
StoredAt(off, size) == {b \in out : b.at = off /\ b.stored = size}

(* One block in read_file: a sparse one counts as a whole block.           *)
ReadBlock(read, size) ==
  IF read = Unreadable \/ (size # 0 /\ StoredAt(read.off, size) = {}) THEN Unreadable
  ELSE IF size = 0
    THEN [read EXCEPT !.bytes = @ \o [i \in 1 .. BlockSize |-> 0]]
    ELSE [bytes |-> read.bytes \o (CHOOSE b \in StoredAt(read.off, size) : TRUE).bytes,
          off |-> read.off + size]

(* read_file; read_inode knows from the size how many blocks there are.    *)
ReadFile(i) ==
  LET count == IF i.frag = NoFragment THEN BlockCount(i.size) ELSE i.size \div BlockSize
      read[n \in 0 .. count] ==
        IF n = 0 THEN [bytes |-> <<>>, off |-> i.start] ELSE ReadBlock(read[n - 1], i.sizes[n])
      whole == read[count]
      tail  == IF i.frag = NoFragment THEN <<>>
               ELSE SubSeq((CHOOSE b \in StoredAt(frags[i.frag + 1].start,
                                                  frags[i.frag + 1].size) : TRUE).bytes,
                           i.off + 1, i.off + i.size - Len(whole.bytes))
  IN  IF \/ Len(i.sizes) # count \/ whole = Unreadable
         \/ Len(whole.bytes \o tail) # i.size
      THEN Unreadable ELSE [whole EXCEPT !.bytes = @ \o tail]
-----------------------------------------------------------------------------
TypeOK ==
  /\ phase \in {"scan", "number", "collect", "write", "tables", "done"}
  /\ tree \in Seq(Node) /\ at \in 2 .. MaxNodes + 1
  /\ next \in 1 .. MaxNodes + 1 /\ numbers \in Seq(0 .. MaxNodes)
  /\ Len(buf) <= BlockSize
  /\ \A b \in out : b.stored \in 1 .. Len(b.bytes) /\ Len(b.bytes) <= BlockSize
  /\ \A i \in 1 .. Len(frags) : StoredAt(frags[i].start, frags[i].size) # {}

Done == phase = "done"
Kids(k) == {j \in 1 .. Len(tree) : tree[j].parent = k}

(* The entries of all directories, as the reader finds them.               *)
Entries == UNION {ToSet(ReadDir(i)) : i \in {j \in ToSet(inodes) : j.kind = "dir"}}

(* What the reader finds at ref is node k: a file's bytes, a directory's   *)
(* entries in their order.  The number that an entry gives by its header's *)
(* and a difference of 16 bits is its inode's, and a directory's inode has *)
(* its parent's.                                                           *)
Finds(k, ref) ==
  LET i == InodeAt(ref) IN
  /\ i.kind = tree[k].kind
  /\ i.kind = "file" => ReadFile(i).bytes = tree[k].content
  /\ i.kind = "dir" =>
       LET es == ReadDir(i) IN
       /\ {e.name : e \in ToSet(es)} = Kids(k)
       /\ \A n \in 2 .. Len(es) : es[n - 1].name < es[n].name
       /\ \A e \in ToSet(es) :
            LET kid == InodeAt(e.ref) IN
            /\ e.number = kid.number /\ e.kind = kid.kind
            /\ e.kind = "dir" => kid.parent = i.number

(* Reading the image from the root down gives back the tree: every         *)
(* directory has the entries it had, in their order, each entry leads to   *)
(* its node, and every file has its bytes, however the passes shared       *)
(* blocks, fragments and inodes among them; the root's parent has a number *)
(* that no inode has.                                                      *)
ReadsBackTree ==
  Done => /\ Finds(1, root) /\ InodeAt(root).parent = Total + 1
          /\ \A e \in Entries : Finds(e.name, e.ref)

(* For which contents: the reader takes a block that is not stored for a   *)
(* whole one.                                                              *)
SparseIsWhole(c) ==
  \A i \in 1 .. BlockCount(Len(c)) :
    Len(c) >= BlockSize /\ Sparse(BlockOf(c, i)) => Len(BlockOf(c, i)) = BlockSize

(* Every inode number from 1 to inode_count belongs to one inode, and the  *)
(* export table leads to it.                                               *)
ExportTableComplete ==
  Done => /\ Len(inodes) = Total
          /\ \A n \in 1 .. Total : export[n] # NoRef /\ InodeAt(export[n]).number = n

(* The names of one file of the host, and only they, share an inode.       *)
LinksShareInode ==
  Done => \A d, e \in Entries :
            d.ref = e.ref <=> \/ d.name = e.name
                              \/ /\ Linked(d.name) /\ Linked(e.name)
                                 /\ tree[d.name].host = tree[e.name].host

(* The crate's documentation: an image that was just created can be read   *)
(* back and verified.                                                      *)
ImageVerifies ==
  Done => \A i \in ToSet(inodes) : i.kind = "file" => ReadFile(i) # Unreadable
=============================================================================
