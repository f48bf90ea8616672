------------------------------ MODULE MCWindow ------------------------------
(* Window on a small instance: sources state one field, one way or the     *)
(* other.                                                                  *)
EXTENDS Window, TLC

CONSTANTS r1, r2, r3, p, a, b

EitherValue == {[x \in Paths |-> a], [x \in Paths |-> b]}

Alike == Permutations(RunIds)
=============================================================================
