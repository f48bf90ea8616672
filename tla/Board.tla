------------------------------- MODULE Board -------------------------------
(***************************************************************************)
(* What the queue of one pile promises to the runs that propose to it,     *)
(* without saying how: a gate presents all it has to propose in one        *)
(* indivisible step, and of two runs that propose the same item the first  *)
(* owns it for good ("Write every proposal as a pending item and stop",    *)
(* agent/stages.py stage_gate).  Module Gate takes that step as given;     *)
(* module Inserts shows it implemented by a transaction of single inserts. *)
(***************************************************************************)
CONSTANTS
  Gates,      \* the gates of the pile's runs
  Keys        \* dedupe keys

VARIABLES
  ask,        \* the keys each gate has to present
  board       \* the run that owns each key presented so far

vars == <<ask, board>>

Init ==
  /\ ask \in [Gates -> SUBSET Keys]
  /\ board = << >>

(* All of a gate's keys are on the board after the step; those that were   *)
(* there keep their owner.                                                 *)
Present(g) ==
  /\ board' = [k \in DOMAIN board \cup ask[g] |->
                 IF k \in DOMAIN board THEN board[k] ELSE g]
  /\ UNCHANGED ask

Next == \E g \in Gates : Present(g)

Spec == Init /\ [][Next]_vars
=============================================================================
