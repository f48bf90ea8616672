------------------------------- MODULE MCGate -------------------------------
(* Gate on a small instance: two documents state one field, differently.   *)
EXTENDS Gate, TLC

CONSTANTS r1, r2, ann, bob, p, a, b, q1, q2

SaysA == [path |-> p, value |-> a, quote |-> q1]
SaysB == [path |-> p, value |-> b, quote |-> q2]

(* Each run reads one of the two documents; or a run may read both.        *)
OneEach == {{SaysA}, {SaysB}}
OneOrBoth == OneEach \cup {{SaysA, SaysB}}

(* Reviewers, runs and documents may be exchanged: a document takes its    *)
(* value and its quote with it.                                            *)
SwapSources == (a :> b) @@ (b :> a) @@ (q1 :> q2) @@ (q2 :> q1)
KeepSources == (a :> a) @@ (b :> b) @@ (q1 :> q1) @@ (q2 :> q2)

Alike == {f @@ g @@ h : f \in Permutations(Reviewers), g \in Permutations(RunIds),
                        h \in {KeepSources, SwapSources}}
=============================================================================
