-------------------------------- MODULE MCRuns --------------------------------
(* Runs on a small instance: two or three workers.                         *)
EXTENDS Runs, TLC

CONSTANTS w1, w2, w3

WorkersAlike == Permutations(Workers)
=============================================================================
