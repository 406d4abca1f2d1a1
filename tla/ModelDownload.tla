---------------------------- MODULE ModelDownload ----------------------------
(***************************************************************************)
(* download_models (main.rs): the model files that go onto a verity disk   *)
(* are fetched into disks/models/<repo>, unless something is there already.*)
(* A fetch may fail, a copy may be cut and the command may be stopped.     *)
(***************************************************************************)
EXTENDS Naturals, SequencesExt

CONSTANTS
  Repos,        \* the config's [[models]], in order
  Siblings,     \* the files of each repository, in its order
  Includes,     \* bound: the files that the config's include patterns match
  Nested,       \* the files that lie in a directory of the repository
  MaxDownloads  \* bound: commands started

Models  == ToSet(Repos)
FilesOf(m) == ToSet(Siblings[m])
Files   == UNION {FilesOf(m) : m \in Models}

(* The directory is named after the last part of the repository's name and *)
(* Repos has no two with the same: the second would be taken as present.   *)
ASSUME DownloadAssumption ==
  /\ Repos \in Seq(Models) /\ IsInjective(Repos)
  /\ \A m \in Models : Siblings[m] \in Seq(FilesOf(m))
  /\ \A m, n \in Models : m # n => FilesOf(m) \cap FilesOf(n) = {}
  /\ Includes \subseteq SUBSET Files /\ MaxDownloads \in Nat

VARIABLES
  wanted,   \* the files that match
  link,     \* whether models_dir is a dangling link
  dirs,     \* the models that have a directory
  folders,  \* those that have a subdirectory in it
  entry,    \* per file: "missing", "dangling" (a link), "torn" or "whole"
  state,    \* "idle", "models", "files", "copy" or "ready"
  command, offline,  \* of the running command; offline is --no-download
  model, sibling,    \* how far its loops are
  half,     \* models that a download gave up on with something in place
  downloads

downloadVars == <<wanted, link, dirs, folders, entry, state, command, offline,
                  model, sibling, half, downloads>>
disksVars == <<link, dirs, folders, entry>>

(* Links that an earlier version left may dangle when the cache is gone.   *)
DownloadInit ==
  /\ wanted \in Includes
  /\ link \in BOOLEAN
  /\ dirs \in SUBSET Models /\ (link => dirs = {}) /\ folders = {}
  /\ entry \in [Files -> {"missing", "dangling"}]
  /\ \A m \in Models : \A f \in FilesOf(m) : entry[f] = "dangling" => m \in dirs /\ f \notin Nested
  /\ state = "idle" /\ command = "build" /\ offline = FALSE
  /\ model = 1 /\ sibling = 1 /\ half = {} /\ downloads = 0

Current == Repos[model]
Target  == Siblings[Current][sibling]
AtFile  == state = "files" /\ sibling <= Len(Siblings[Current])

IsReal(f) == entry[f] \in {"torn", "whole"}

(* Mutant of HasRealFiles: links count, wherever they lead.                *)
HasRealFilesOrLinks(m) ==
  m \in folders \/ \E f \in FilesOf(m) \ Nested : entry[f] # "missing"

(* An entry that metadata() can be read of, a directory included.          *)
HasRealFiles(m) == m \in folders \/ \E f \in FilesOf(m) \ Nested : IsReal(f)

Running == <<command, offline, model, sibling>>

(* A command that is not running has no state.                             *)
Ended == state' = "idle" /\ command' = "build" /\ offline' = FALSE /\ model' = 1 /\ sibling' = 1

StartDownload(c, off) ==
  /\ state = "idle" /\ downloads < MaxDownloads
  /\ downloads' = downloads + 1
  /\ command' = c /\ offline' = off
  /\ link' = FALSE
  /\ state' = "models" /\ model' = 1
  /\ UNCHANGED <<wanted, dirs, folders, entry, sibling, half>>

AlreadyExists ==
  /\ state = "models" /\ model <= Len(Repos)
  /\ Current \in dirs /\ HasRealFiles(Current)
  /\ model' = model + 1
  /\ UNCHANGED <<wanted, disksVars, state, command, offline, sibling, half, downloads>>

(* Dangling links go, then the directory is made; --no-download is an      *)
(* error, and asking the hub for the list of files may be one.             *)
BeginModel ==
  /\ state = "models" /\ model <= Len(Repos)
  /\ ~(Current \in dirs /\ HasRealFiles(Current))
  /\ entry' = [f \in Files |-> IF /\ f \in FilesOf(Current) \ Nested
                                  /\ entry[f] = "dangling"
                               THEN "missing" ELSE entry[f]]
  /\ dirs' = IF offline THEN dirs ELSE dirs \cup {Current}
  /\ \/ ~offline /\ state' = "files" /\ sibling' = 1 /\ UNCHANGED <<command, offline, model>>
     \/ Ended
  /\ UNCHANGED <<wanted, link, folders, half, downloads>>

Skip ==
  /\ AtFile /\ Target \notin wanted
  /\ sibling' = sibling + 1
  /\ UNCHANGED <<wanted, disksVars, state, command, offline, model, half, downloads>>

(* The directory of the file is made; a link that leads nowhere is         *)
(* removed, a real file is kept.  A hard link is whole at once.            *)
Place ==
  /\ AtFile /\ Target \in wanted
  /\ folders' = IF Target \in Nested THEN folders \cup {Current} ELSE folders
  /\ \/ /\ IsReal(Target) /\ UNCHANGED <<entry, state>>
        /\ sibling' = sibling + 1
     \/ /\ ~IsReal(Target) /\ entry' = [entry EXCEPT ![Target] = "whole"]
        /\ sibling' = sibling + 1 /\ UNCHANGED state
     \/ /\ ~IsReal(Target) /\ entry' = [entry EXCEPT ![Target] = "torn"]
        /\ state' = "copy" /\ UNCHANGED sibling
  /\ UNCHANGED <<wanted, link, dirs, command, offline, model, half, downloads>>

CopyEnds ==
  /\ state = "copy"
  /\ entry' = [entry EXCEPT ![Target] = "whole"]
  /\ state' = "files" /\ sibling' = sibling + 1
  /\ UNCHANGED <<wanted, link, dirs, folders, command, offline, model, half, downloads>>

ModelDone ==
  /\ state = "files" /\ sibling > Len(Siblings[Current])
  /\ state' = "models" /\ model' = model + 1
  /\ UNCHANGED <<wanted, disksVars, command, offline, sibling, half, downloads>>

(* cmd_build goes on; download-models is at its end.                       *)
DownloadDone ==
  /\ state = "models" /\ model > Len(Repos)
  /\ \/ command = "build" /\ state' = "ready" /\ UNCHANGED Running
     \/ command = "download-models" /\ Ended
  /\ UNCHANGED <<wanted, disksVars, half, downloads>>

(* A fetch or a copy fails, or the command is stopped.                     *)
GiveUp ==
  /\ state \in {"models", "files", "copy"}
  /\ Ended
  /\ half' = IF state # "models" /\ HasRealFiles(Current) THEN half \cup {Current} ELSE half
  /\ UNCHANGED <<wanted, disksVars, downloads>>

DownloadStep ==
  \/ AlreadyExists \/ BeginModel \/ Skip \/ Place \/ CopyEnds \/ ModelDone
  \/ DownloadDone \/ GiveUp

DownloadTypeOK ==
  /\ wanted \in Includes /\ link \in BOOLEAN
  /\ dirs \subseteq Models /\ folders \subseteq dirs /\ half \subseteq dirs
  /\ entry \in [Files -> {"missing", "dangling", "torn", "whole"}]
  /\ state \in {"idle", "models", "files", "copy", "ready"}
  /\ model \in 1 .. Len(Repos) + 1
  /\ state \in {"files", "copy"} => model <= Len(Repos)
  /\ downloads \in 0 .. MaxDownloads
=============================================================================
