------------------------------ MODULE MCClient ------------------------------
(* Client on a small instance.                                             *)
EXTENDS Client, TLC

Calm == [stages |-> [x \in Purposes |-> 0], models |-> [t \in Tiers |-> 0],
         failStages |-> {}, failModels |-> {}]

(* A stage throttled for longer than one tier's retries, a model that is,  *)
(* a stage or a model gone, and no injected faults.                        *)
FaultPlans == {Calm,
               [Calm EXCEPT !.stages["extract"] = MaxRetries + 1],
               [Calm EXCEPT !.models["standard"] = MaxRetries + 1],
               [Calm EXCEPT !.failStages = {"extract"}],
               [Calm EXCEPT !.failModels = {"standard"}]}

StagePlans == {[Calm EXCEPT !.stages["extract"] = n] : n \in 0 .. 2 * MaxRetries}
=============================================================================
