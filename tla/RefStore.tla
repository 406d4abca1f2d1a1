------------------------------ MODULE RefStore ------------------------------
(***************************************************************************)
(* What the tables of a squashfs image promise: put something in and get a *)
(* reference, present the reference later and get exactly that back.       *)
(*                                                                         *)
(* Bytes are told apart by their number in the stream of all bytes ever    *)
(* put: the writers never look at a byte, so which byte it is is all that  *)
(* can go wrong.                                                           *)
(***************************************************************************)
EXTENDS Naturals, Sequences

VARIABLES
  kept,    (* what was put: its reference, and its bytes from+1 .. from+size *)
  answer   (* what the last reference presented was answered with            *)

Bytes(item) == [i \in 1 .. item.size |-> item.from + i]

Init == kept = {} /\ answer = <<>>

Item == [ref: Nat, from: Nat, size: Nat \ {0}]

(* No reference is handed out twice.                                       *)
Put ==
  /\ \E item \in kept' :
       /\ item \in Item
       /\ \A other \in kept : other.ref # item.ref
       /\ kept' = kept \cup {item}
  /\ UNCHANGED answer

Get ==
  /\ \E item \in kept : answer' = Bytes(item)
  /\ UNCHANGED kept

Spec == Init /\ [][Put \/ Get]_<<kept, answer>>
=============================================================================
