----------------------------- MODULE MCInserts -----------------------------
(* Inserts on a small instance: three runs share three keys.               *)
EXTENDS Inserts, TLC

CONSTANTS g1, g2, g3, k1, k2, k3

(* Rings of two runs and of three; two of the proposals keep to one order. *)
Proposals == {<<k1, k2>>, <<k2, k3, k1>>, <<k3, k1>>}

ByRank == (k3 :> 1) @@ (k1 :> 2) @@ (k2 :> 3)
=============================================================================
