----------------------------- MODULE MCPipeline -----------------------------
(* Pipeline on a small instance: two documents; contracts may write both   *)
(* fields, invoices the amount only; an answer concerns one field, or both *)
(* in a paraphrase.                                                        *)
EXTENDS Pipeline, TLC

CONSTANTS contract, invoice, cap, amount

Patterns == {<<contract, cap>>, <<contract, amount>>, <<invoice, amount>>}

SomeAnswers ==
  {(p :> q) @@ [x \in Paths |-> "silent"] : p \in Paths, q \in Quotes}
  \cup {[x \in Paths |-> "paraphrases"]}
=============================================================================
