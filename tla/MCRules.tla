------------------------------ MODULE MCRules ------------------------------
(* Rules on a small instance: piles of documents about rates and bills,    *)
(* about amounts and a cap, about orders, about terms and notices.         *)
EXTENDS Rules, TLC

CONSTANTS po1, PO1, po2

Upper == (po1 :> PO1) @@ (PO1 :> PO1) @@ (po2 :> po2)

Section(sections, leaves) == {p \in Path : p[2] \in sections /\ p[3] \in leaves}

Topics ==
  {Section({"rate_table", "invoices"}, {"unit_price", "effective_from", "date"})
     \ {At("invoices", 2, "unit_price"), At("invoices", 2, "date")},
   Section({"invoices", "contract"}, {"amount", "spend_cap"}),
   Section({"invoices", "purchase_orders"}, {"po_ref", "number"}),
   Section({"contract", "notice"}, {"net_days", "liability_cap", "renewal_type",
                                    "notice_days", "sent_date"})}

(* Two prices and three days; a rate of which the date cannot be read; a   *)
(* number on either side of each limit, and on it.                         *)
Facts ==
  [p \in Path |->
     CASE p[3] = "unit_price" -> {7, 8}
       [] p[3] = "effective_from" -> {1, 2, 3, Words}
       [] p[3] = "date" -> {1, 2, Words}
       [] p[3] \in {"amount", "spend_cap"} -> {1, 2, 3, Words}
       [] p[3] \in {"po_ref", "number"} -> {po1, PO1, po2}
       [] p[3] = "renewal_type" -> {Automatic, Words}
       [] OTHER -> {1, 2, 3}]
=============================================================================
