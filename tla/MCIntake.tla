------------------------------ MODULE MCIntake ------------------------------
(* Intake on a small instance: two files with texts of their own, which    *)
(* may be dropped again, and a third that is like the first.               *)
EXTENDS Intake

CONSTANTS t1, t2, u1

CopiedTexts == [f \in Files |-> IF f = 2 THEN t2 ELSE t1]
=============================================================================
