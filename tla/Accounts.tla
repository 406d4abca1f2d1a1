------------------------------ MODULE Accounts ------------------------------
(***************************************************************************)
(* The static groups and users of an image: apply_services of              *)
(* cvmbuild-rootfs adds a line to /etc/group and /etc/gshadow for every    *)
(* group of the config and to /etc/passwd and /etc/shadow for every unit   *)
(* that names a user; rewrite_shells_to_nologin rewrites /etc/passwd later *)
(* in the same apply.                                                      *)
(*                                                                         *)
(* A build with --skip-container applies its config to the tree the last   *)
(* build left behind, wherever that build stopped, so that the allocation  *)
(* starts from files an earlier apply, of this or of another config, wrote *)
(* or truncated.  The passes over the config are modelled one entry at a   *)
(* time: what they build up is in memory until the file is written.        *)
(***************************************************************************)
EXTENDS Naturals, Sequences

CONSTANTS
  Names,        \* names of groups and users
  NoName,       \* an absent user or group key of a unit
  Absent,       \* the content of a shadow file the image does not have
  GidTop,       \* 990: the first group id tried
  GidLow,       \* 900: the last group id tried for the first group
  GidFallback,  \* 800: the group id when all of those are taken
  UidTop,       \* 900: the first user id tried
  IdMin,        \* 100: the last id tried
  BaseGroup,    \* /etc/group of the extracted image
  BaseGshadow,  \* /etc/gshadow of the extracted image, or Absent
  BasePasswd,   \* /etc/passwd of the extracted image
  BaseShadow,   \* /etc/shadow of the extracted image, or Absent
  Configs       \* the configs an image is built from

(* A line of /etc/group, and of /etc/passwd with whether its shell is one  *)
(* that rewrite_shells_to_nologin replaces.                                *)
GroupLine == [name : Names, gid : Nat]
UserLine  == [name : Names, uid : Nat, gid : Nat, login : BOOLEAN]

NamesOf(lines) == {e.name : e \in lines}
GidsOf(lines)  == {e.gid : e \in lines}
UidsOf(lines)  == {e.uid : e \in lines}

(* No two lines of an account file share an id.                            *)
GidsDiffer(lines) == \A e, f \in lines : e.gid = f.gid => e = f
UidsDiffer(lines) == \A e, f \in lines : e.uid = f.uid => e = f

(* The code's ranges; ids are found downwards, never 0.                    *)
ASSUME RangesAssumption ==
  /\ {GidTop, GidLow, GidFallback, UidTop} \subseteq Nat
  /\ IdMin \in Nat \ {0}

(* The image is consistent before the first apply.                         *)
ASSUME BaseAssumption ==
  /\ BaseGroup \subseteq GroupLine /\ GidsDiffer(BaseGroup)
  /\ BasePasswd \subseteq UserLine /\ UidsDiffer(BasePasswd)
  /\ BaseGshadow = Absent \/ BaseGshadow \subseteq Names
  /\ BaseShadow = Absent \/ BaseShadow \subseteq Names

(* What the account pass reads of a config.                                *)
ASSUME ConfigsAssumption ==
  \A c \in Configs :
    /\ c.groups \in Seq(Names)
    /\ \A k \in 1..Len(c.units) :
         c.units[k].user \in Names \cup {NoName}

VARIABLES
  group, gshadow, passwd, shadow,  \* the four files of the tree
  cfg,      \* the config being applied
  step,     \* where the account pass is
  k,        \* the entry of the config it has reached
  buf,      \* the lines it will write to /etc/group, then to /etc/passwd
  sbuf,     \* the names it will write to /etc/shadow
  used,     \* ids taken when the pass read the file
  next,     \* next_gid, then next_uid
  ranOut    \* some search since the tree was extracted found no free id

files  == <<group, gshadow, passwd, shadow>>
locals == <<k, buf, sbuf, used, next>>
accountVars == <<files, cfg, step, locals, ranOut>>

Steps == {"idle", "ready", "groups", "write group", "gshadow", "read users",
          "users", "write passwd", "write shadow", "done"}

(* (..).rev().find(free).unwrap_or(fallback): the greatest id of S.        *)
Found(S, fallback) ==
  IF S = {} THEN {fallback} ELSE {x \in S : \A y \in S : y <= x}

(* Mutant of Pred: u32 subtraction that does not saturate.                 *)
Minus1(n) == n - 1

Pred(n) == IF n = 0 THEN 0 ELSE n - 1

LocalsReset == k' = 1 /\ buf' = {} /\ sbuf' = {} /\ used' = {} /\ next' = 0

AccountsInit ==
  /\ group = BaseGroup /\ gshadow = BaseGshadow
  /\ passwd = BasePasswd /\ shadow = BaseShadow
  /\ cfg \in Configs /\ step = "idle"
  /\ k = 1 /\ buf = {} /\ sbuf = {} /\ used = {} /\ next = 0
  /\ ranOut = FALSE

(* A build starts to apply config c, to a newly extracted tree or to the   *)
(* one that is there.                                                      *)
Begin(c, fresh) ==
  /\ step = "idle"
  /\ cfg' = c
  /\ step' = "ready"
  /\ IF fresh
     THEN /\ group' = BaseGroup /\ gshadow' = BaseGshadow
          /\ passwd' = BasePasswd /\ shadow' = BaseShadow
          /\ ranOut' = FALSE
     ELSE UNCHANGED <<files, ranOut>>
  /\ LocalsReset

(* Mutant of ReadGroup: /etc/group is written from the config alone.       *)
StartOverGroup ==
  LET free == (GidLow..GidTop) \ GidsOf(group) IN
  /\ step = "ready"
  /\ cfg.groups # <<>>
  /\ buf' = {}
  /\ used' = GidsOf(group)
  /\ next' \in Found(free, GidFallback)
  /\ ranOut' = (ranOut \/ free = {})
  /\ step' = "groups"
  /\ k' = 1
  /\ UNCHANGED <<files, cfg, sbuf>>

ReadGroup ==
  LET free == (GidLow..GidTop) \ GidsOf(group) IN
  /\ step = "ready"
  /\ cfg.groups # <<>>
  /\ buf' = group
  /\ used' = GidsOf(group)
  /\ next' \in Found(free, GidFallback)
  /\ ranOut' = (ranOut \/ free = {})
  /\ step' = "groups"
  /\ k' = 1
  /\ UNCHANGED <<files, cfg, sbuf>>

NoGroups ==
  /\ step = "ready"
  /\ cfg.groups = <<>>
  /\ step' = "read users"
  /\ UNCHANGED <<files, cfg, locals, ranOut>>

(* Mutant of AddGroup: the next group is given the same id.                *)
AddGroupSameGid ==
  LET g    == cfg.groups[k]
      free == (IdMin..Pred(next)) \ used
  IN
  /\ step = "groups" /\ k <= Len(cfg.groups)
  /\ k' = k + 1
  /\ IF g \in NamesOf(buf)
     THEN UNCHANGED <<buf, next, ranOut>>
     ELSE /\ buf' = buf \cup {[name |-> g, gid |-> next]}
          /\ next' = next
          /\ ranOut' = (ranOut \/ free = {})
  /\ UNCHANGED <<files, cfg, step, sbuf, used>>

(* One group of the config: a name that has a line keeps it.               *)
AddGroup ==
  LET g    == cfg.groups[k]
      free == (IdMin..Pred(next)) \ used
  IN
  /\ step = "groups" /\ k <= Len(cfg.groups)
  /\ k' = k + 1
  /\ IF g \in NamesOf(buf)
     THEN UNCHANGED <<buf, next, ranOut>>
     ELSE /\ buf' = buf \cup {[name |-> g, gid |-> next]}
          /\ next' \in Found(free, Pred(next))
          /\ ranOut' = (ranOut \/ free = {})
  /\ UNCHANGED <<files, cfg, step, sbuf, used>>

GroupsAdded ==
  /\ step = "groups" /\ k > Len(cfg.groups)
  /\ step' = "write group"
  /\ UNCHANGED <<files, cfg, locals, ranOut>>

WriteGroup ==
  /\ step = "write group"
  /\ group' = buf
  /\ step' = "gshadow"
  /\ UNCHANGED <<gshadow, passwd, shadow, cfg, locals, ranOut>>

WriteGshadow ==
  /\ step = "gshadow"
  /\ gshadow' = IF gshadow = Absent THEN Absent
                ELSE gshadow \cup {cfg.groups[i] : i \in 1..Len(cfg.groups)}
  /\ step' = "read users"
  /\ UNCHANGED <<group, passwd, shadow, cfg, locals, ranOut>>

ReadUsers ==
  /\ step = "read users"
  /\ buf' = passwd
  /\ sbuf' = IF shadow = Absent THEN {} ELSE shadow
  /\ used' = UidsOf(passwd)
  /\ next' = UidTop
  /\ k' = 1
  /\ step' = "users"
  /\ UNCHANGED <<files, cfg, ranOut>>

(* Mutant of PrimaryGid: the fallback is always taken.                     *)
GidOfUser(unit, uid) == uid

(* The id of the unit's group, if /etc/group has it, else the user's id.   *)
PrimaryGid(unit, uid) ==
  IF unit.group \in NamesOf(group)
  THEN (CHOOSE g \in group : g.name = unit.group).gid
  ELSE uid

(* One unit of the config: a user that has a line keeps it.                *)
AddUser ==
  LET unit == cfg.units[k]
      free == (IdMin..next) \ used
  IN
  /\ step = "users" /\ k <= Len(cfg.units)
  /\ k' = k + 1
  /\ IF unit.user = NoName \/ unit.user \in NamesOf(buf)
     THEN UNCHANGED <<buf, sbuf, next, ranOut>>
     ELSE /\ \E uid \in Found(free, next) :
               /\ buf' = buf \cup
                    {[name |-> unit.user, uid |-> uid,
                      gid |-> PrimaryGid(unit, uid), login |-> FALSE]}
               /\ next' = Pred(uid)
          /\ sbuf' = sbuf \cup {unit.user}
          /\ ranOut' = (ranOut \/ free = {})
  /\ UNCHANGED <<files, cfg, step, used>>

UsersAdded ==
  /\ step = "users" /\ k > Len(cfg.units)
  /\ step' = "write passwd"
  /\ UNCHANGED <<files, cfg, locals, ranOut>>

WritePasswd ==
  /\ step = "write passwd"
  /\ passwd' = buf
  /\ step' = "write shadow"
  /\ UNCHANGED <<group, gshadow, shadow, cfg, locals, ranOut>>

WriteShadow ==
  /\ step = "write shadow"
  /\ shadow' = IF shadow = Absent THEN Absent ELSE sbuf
  /\ step' = "done"
  /\ LocalsReset
  /\ UNCHANGED <<group, gshadow, passwd, cfg, ranOut>>

(* Later in the apply, every login shell becomes nologin.                  *)
RewriteShells ==
  /\ step = "done"
  /\ passwd' = {[e EXCEPT !.login = FALSE] : e \in passwd}
  /\ step' = "idle"
  /\ UNCHANGED <<group, gshadow, shadow, cfg, locals, ranOut>>

(* The build stops between two of these steps: the pass is forgotten.      *)
Stop ==
  /\ step' = "idle"
  /\ LocalsReset
  /\ UNCHANGED <<files, cfg, ranOut>>

(* The build dies while it writes a file: fs::write truncates the file     *)
(* before it writes the content.                                           *)
Tear ==
  /\ \/ step = "write group" /\ group' = {}
        /\ UNCHANGED <<gshadow, passwd, shadow>>
     \/ step = "gshadow" /\ gshadow # Absent /\ gshadow' = {}
        /\ UNCHANGED <<group, passwd, shadow>>
     \/ step = "write passwd" /\ passwd' = {}
        /\ UNCHANGED <<group, gshadow, shadow>>
     \/ step = "write shadow" /\ shadow # Absent /\ shadow' = {}
        /\ UNCHANGED <<group, gshadow, passwd>>
     \/ step = "done" /\ (\E e \in passwd : e.login) /\ passwd' = {}
        /\ UNCHANGED <<group, gshadow, shadow>>
  /\ step' = "idle"
  /\ LocalsReset
  /\ UNCHANGED <<cfg, ranOut>>

(* The account pass, from the first read to the last write.                *)
AccountStep ==
  \/ ReadGroup \/ NoGroups \/ AddGroup \/ GroupsAdded \/ WriteGroup
  \/ WriteGshadow \/ ReadUsers \/ AddUser \/ UsersAdded \/ WritePasswd
  \/ WriteShadow

AccountsNext ==
  \/ \E c \in Configs, fresh \in BOOLEAN : Begin(c, fresh)
  \/ AccountStep
  \/ RewriteShells
  \/ step # "idle" /\ Stop
  \/ Tear

AccountsSpec == AccountsInit /\ [][AccountsNext]_accountVars

-----------------------------------------------------------------------------

(* The types of the files and of the pass's memory.                        *)
AccountsTypeOK ==
  /\ group \subseteq GroupLine
  /\ passwd \subseteq UserLine
  /\ gshadow = Absent \/ gshadow \subseteq Names
  /\ shadow = Absent \/ shadow \subseteq Names
  /\ cfg \in Configs
  /\ step \in Steps
  /\ k \in Nat \ {0}
  /\ step \in {"groups", "write group"} => buf \subseteq GroupLine
  /\ step \in {"users", "write passwd"} => buf \subseteq UserLine
  /\ sbuf \subseteq Names
  /\ used \subseteq Nat
  /\ next \in Nat
  /\ ranOut \in BOOLEAN

(* Two groups of an image never share a group id and two users never share *)
(* a user id, whatever configs were applied to its tree one after the      *)
(* other and wherever they stopped, as long as the searches found an id.   *)
IdsDistinct ==
  ranOut \/ (GidsDiffer(group) /\ UidsDiffer(passwd))

(* While a tree is reused, no group and no user of it loses its line or    *)
(* gets another id: units, and files owned by id, keep their meaning.  Only *)
(* a crash inside a write, which truncates the file, takes lines away.     *)
EntriesKept ==
  [][step = "idle" \/ Tear
     \/ /\ group \subseteq group'
        /\ \A e \in passwd : \E f \in passwd' :
             f.name = e.name /\ f.uid = e.uid /\ f.gid = e.gid]_accountVars

(* A user that gets its line for a unit whose group the config declares    *)
(* has that group's id as its primary group: the groups are in /etc/group  *)
(* before the users are resolved against it, on every path.                *)
UsersJoinTheirGroup ==
  [][step # "idle" =>
     \A e \in passwd' : e.name \notin NamesOf(passwd) =>
       \E i \in 1..Len(cfg.units) :
         LET unit == cfg.units[i] IN
         /\ unit.user = e.name
         /\ (\E j \in 1..Len(cfg.groups) : cfg.groups[j] = unit.group) =>
              \E g \in group : g.name = unit.group /\ g.gid = e.gid]_accountVars

=============================================================================
