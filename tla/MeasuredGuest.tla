---------------------------- MODULE MeasuredGuest ----------------------------
(***************************************************************************)
(* What a launch digest stands for: the hypervisor puts each page of the   *)
(* guest's initial memory in place once and in its turn, then the state of *)
(* each virtual CPU, and nothing else; or it gives up.                     *)
(***************************************************************************)
EXTENDS Naturals, Sequences, Functions

VARIABLES
  layout, \* the pages the guest is to start with, and each page's turn
  cpus,   \* how many virtual CPUs it has
  log,    \* the pages measured so far
  saved,  \* the CPU states measured so far
  state   \* "idle", "measuring", "measured", "refused"

vars == <<layout, cpus, log, saved, state>>

Init == state = "idle"

(* Every page measured is one of the guest's, once, and in its turn.       *)
(* (p and turn are bound for TLC, which so evaluates them once.)           *)
InPlace(pages, places) ==
  \A p \in {pages}, turn \in {places} :
    /\ Range(p) \subseteq DOMAIN turn
    /\ IsInjective(p)
    /\ \A i, j \in DOMAIN p : i < j => turn[p[i]] <= turn[p[j]]

Begin ==
  /\ state = "idle" /\ state' = "measuring"
  /\ InPlace(log', layout')
  /\ saved' = 0

Place ==
  /\ state = "measuring" /\ saved = 0
  /\ Len(log') >= Len(log) /\ SubSeq(log', 1, Len(log)) = log
  /\ InPlace(log', layout)
  /\ UNCHANGED <<layout, cpus, saved, state>>

Complete == Range(log) = DOMAIN layout

Save ==
  /\ state = "measuring" /\ Complete /\ saved < cpus
  /\ saved' = saved + 1
  /\ UNCHANGED <<layout, cpus, log, state>>

Finish ==
  /\ state = "measuring" /\ Complete /\ saved = cpus
  /\ state' = "measured"
  /\ UNCHANGED <<layout, cpus, log, saved>>

GiveUp == state \in {"idle", "measuring"} /\ state' = "refused"

Return == state \in {"measured", "refused"} /\ state' = "idle"

Next == Begin \/ Place \/ Save \/ Finish \/ GiveUp \/ Return

Spec == Init /\ [][Next]_vars
=============================================================================
