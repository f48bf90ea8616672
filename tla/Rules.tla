------------------------------- MODULE Rules -------------------------------
(***************************************************************************)
(* The deterministic rules (rules/engine.py) of the playbook that comes    *)
(* with the code (rules/playbook.yaml), over a register that commits fill  *)
(* and now and then overwrite, field by field.                             *)
(*                                                                         *)
(* Fields: a path is <<section, segment, leaf>>; the segments of a section *)
(* are numbered in the order Register.match returns them (by path), and    *)
(* sections with a single set of fields have segment 0.  A field is absent *)
(* or holds a number, a date (numbered by day), a text that parses as      *)
(* neither (Words), or a reference as some document spells it.             *)
(*                                                                         *)
(* Abstracted: messages; the parsing of amounts and dates, of which only   *)
(* whether it succeeds is kept; sub-cent tolerance (prices are whole); the *)
(* cut of a finding's evidence at twelve.  numeric_min is in no rule of    *)
(* the playbook.  The judged rule is module Pipeline's.                    *)
(***************************************************************************)
EXTENDS Naturals, FiniteSetsExt

CONSTANTS
  Rates, Invoices, Orders,  \* segments of rate_table, invoices, purchase_orders
  Absent,                   \* the field is not in the register
  Words,                    \* a value that parses neither as number nor as date
  Automatic,                \* the value "auto" of contract.renewal.type
  References,               \* purchase order numbers as documents spell them
  Normal,                   \* a reference stripped and in upper case
  NetDaysLimit,             \* limits in the playbook
  NoticeLimit,
  Piles,                    \* the fields a pile's documents may be about
  Stated                    \* the values they may state for each field

Path ==
  Rates \X {"rate_table"} \X {"unit_price", "effective_from"}
    \cup Invoices \X {"invoices"} \X {"unit_price", "date", "amount", "po_ref"}
    \cup Orders \X {"purchase_orders"} \X {"number"}
    \cup {0} \X {"contract"} \X {"net_days", "liability_cap", "renewal_type",
                                "notice_days", "spend_cap"}
    \cup {0} \X {"notice"} \X {"sent_date"}
    \cup {0} \X {"derived"} \X {"notice_deadline"}

Cell == Nat \cup {Words, Automatic} \cup References

ASSUME SegmentsAssumption ==
  \A segments \in {Rates, Invoices, Orders} :
    segments \subseteq Nat /\ IsFiniteSet(segments)
ASSUME NormalAssumption == Normal \in [References -> References]
ASSUME LimitsAssumption == NetDaysLimit \in Nat /\ NoticeLimit \in Nat
ASSUME PilesAssumption == Piles \subseteq SUBSET Path /\ Stated \in [Path -> SUBSET Cell]
ASSUME AbsentAssumption == Absent \notin Cell

VARIABLES
  register,   \* RegisterField values
  pile        \* the fields the documents of this pile are about

vars == <<register, pile>>

At(section, n, leaf) == <<n, section, leaf>>
Contract(leaf) == At("contract", 0, leaf)

Has(reg, p) == reg[p] # Absent
IsNumber(v) == v \in Nat

(* Register.match: the stated fields of a section with this leaf.          *)
Match(reg, section, leaf) == {p \in Path : p[2] = section /\ p[3] = leaf /\ Has(reg, p)}
Sibling(p, leaf) == <<p[1], p[2], leaf>>

Finding(rule, p, cites) == [rule |-> rule, path |-> p, cites |-> cites]
Cited(reg, ps) == {p \in ps : Has(reg, p)}
----------------------------------------------------------------------------
(* The checks, one for each type.                                          *)

Required(reg, rule, p) ==
  {Finding(rule, q, {}) : q \in {x \in {p} : ~Has(reg, x)}}

NumericMax(reg, rule, p, limit) ==
  {Finding(rule, q, {q}) : q \in {x \in {p} : IsNumber(reg[x]) /\ reg[x] > limit}}

(* A number that is not stated, or not readable, is a finding here.        *)
ConditionalNumericMin(reg, rule, condition, equals, p, limit) ==
  {Finding(rule, q, Cited(reg, {condition, q})) :
     q \in {x \in {p} : /\ reg[condition] = equals
                        /\ ~(IsNumber(reg[x]) /\ reg[x] >= limit)}}

(* Mutant: equal amounts are added once.                                   *)
Total_Distinct(reg, ps) == FoldSet(LAMBDA x, y : x + y, 0,
                                   {reg[p] : p \in {q \in ps : IsNumber(reg[q])}})

(* What cannot be read adds nothing.                                       *)
Total(reg, ps) == MapThenSumSet(LAMBDA p : reg[p], {q \in ps : IsNumber(reg[q])})

AggregateMax(reg, rule, ps, limit) ==
  {Finding(rule, l, {l} \cup ps) :
     l \in {x \in {limit} : IsNumber(reg[x]) /\ Total(reg, ps) > reg[x]}}

(* Mutant: the first purchase order is the only one looked at.             *)
Targets_First(reg, targets) ==
  {Normal[reg[p]] : p \in {q \in targets : \A x \in targets : q[1] <= x[1]}}

Targets(reg, targets) == {Normal[reg[p]] : p \in targets}

ReferenceExists(reg, rule, ps, targets) ==
  {Finding(rule, p, {p}) : p \in {q \in ps : Normal[reg[q]] \notin Targets(reg, targets)}}

DateBefore(reg, rule, p, limit) ==
  {Finding(rule, q, {q, limit}) :
     q \in {x \in {p} : /\ IsNumber(reg[x]) /\ IsNumber(reg[limit])
                        /\ reg[x] > reg[limit]}}

(* The rows of the rate table of which price and date can be read.         *)
Rows(reg) ==
  LET from(p) == reg[Sibling(p, "effective_from")]
  IN  {[from |-> from(p), price |-> reg[p], path |-> p] :
         p \in {q \in Match(reg, "rate_table", "unit_price") : /\ IsNumber(reg[q])
                                                             /\ IsNumber(from(q))}}

(* By the date they take effect; the sort keeps one date's in path order.  *)
Earlier(x, y) == x.from < y.from \/ (x.from = y.from /\ x.path[1] < y.path[1])

(* The readable rows, sorted.                                              *)
Schedule(reg) ==
  LET places == 1 .. Cardinality(Rows(reg))
  IN  CHOOSE s \in [places -> Rows(reg)] :
        \A i, j \in places : i < j => Earlier(s[i], s[j])

(* Mutant: the latest rate there is, in force or not.                      *)
InForce_Latest(schedule, day) == DOMAIN schedule

(* Mutant: a rate that takes effect on the day is not in force yet.        *)
InForce_Strict(schedule, day) == {i \in DOMAIN schedule : schedule[i].from < day}

(* The places of the rows that took effect by that day.                    *)
InForce(schedule, day) == {i \in DOMAIN schedule : schedule[i].from <= day}

RateConsistency(reg, rule, ps) ==
  LET date(p) == Sibling(p, "date")
      places(p) == InForce(Schedule(reg), reg[date(p)])
      rate(p) == Schedule(reg)[Max(places(p))]
      dated == {p \in ps : /\ IsNumber(reg[p]) /\ IsNumber(reg[date(p)])
                           /\ places(p) # {}}
  IN  {Finding(rule, p, {p, date(p), rate(p).path}) :
         p \in {q \in dated : reg[q] # rate(q).price}}

(* evaluate_deterministic, on the rules of playbook.yaml.                  *)
Evaluate(reg) ==
  NumericMax(reg, "PAY_TERMS_MAX", Contract("net_days"), NetDaysLimit)
    \cup Required(reg, "CAP_STATED", Contract("liability_cap"))
    \cup ConditionalNumericMin(reg, "AUTORENEW_NOTICE", Contract("renewal_type"),
                               Automatic, Contract("notice_days"), NoticeLimit)
    \cup AggregateMax(reg, "SPEND_CAP", Match(reg, "invoices", "amount"),
                      Contract("spend_cap"))
    \cup ReferenceExists(reg, "INVOICE_PO_REF", Match(reg, "invoices", "po_ref"),
                         Match(reg, "purchase_orders", "number"))
    \cup RateConsistency(reg, "RATE_CONSISTENCY", Match(reg, "invoices", "unit_price"))
    \cup DateBefore(reg, "NOTICE_DEADLINE", At("notice", 0, "sent_date"),
                    At("derived", 0, "notice_deadline"))
----------------------------------------------------------------------------
Init ==
  /\ register = [p \in Path |-> Absent]
  /\ pile \in Piles

(* commit_approved sets a field, empty or not.                             *)
SetField(p) ==
  /\ \E v \in Stated[p] : register' = [register EXCEPT ![p] = v]
  /\ UNCHANGED pile

Next == \E p \in pile : SetField(p)

Spec == Init /\ [][Next]_vars
----------------------------------------------------------------------------
(* Properties.                                                             *)

Faulted(reg, rule) == {f.path : f \in {g \in Evaluate(reg) : g.rule = rule}}

Price(n) == register[At("rate_table", n, "unit_price")]
From(n) == register[At("rate_table", n, "effective_from")]

(* "Which rate was in force on the invoice date, and did the invoice bill  *)
(* it?" (_check_rate_consistency): if every rate can be read, an invoice   *)
(* is faulted just when some rate took effect on or before its date and    *)
(* the one that did so last, by path among those of one day, has another   *)
(* price.                                                                  *)
RateInForceIsBilled ==
  (\A n \in Rates : IsNumber(Price(n)) <=> IsNumber(From(n))) =>
    \A i \in Invoices :
      LET billed == register[At("invoices", i, "unit_price")]
          day == register[At("invoices", i, "date")]
          due == {n \in Rates : IsNumber(From(n)) /\ IsNumber(day) /\ From(n) <= day}
          latest == {n \in due : \A m \in due : From(m) < From(n) \/ (From(m) = From(n) /\ m <= n)}
      IN  At("invoices", i, "unit_price") \in Faulted(register, "RATE_CONSISTENCY")
            <=> IsNumber(billed) /\ \E n \in latest : Price(n) # billed

(* A rate that is stated, or changed, to take effect after an invoice's    *)
(* date leaves the verdict on that invoice alone, if it did not take       *)
(* effect before that date until then.                                     *)
LaterRatesDoNotMatter ==
  [][\A n \in Rates, i \in Invoices :
       LET day == register[At("invoices", i, "date")]
           after(v) == ~IsNumber(v) \/ v > day
           bill == At("invoices", i, "unit_price")
       IN  /\ IsNumber(day)
           /\ after(From(n)) /\ after(From(n)')
           /\ \A p \in Path : p[1] # n \/ p[2] # "rate_table" => register'[p] = register[p]
           => (bill \in Faulted(register, "RATE_CONSISTENCY")
                 <=> bill \in Faulted(register', "RATE_CONSISTENCY"))]_vars

(* An invoice amount that is stated for the first time, or goes up, never  *)
(* clears the finding that the spend cap is exceeded.                      *)
AmountsOnlyAdd ==
  [][\A i \in Invoices :
       LET amount == At("invoices", i, "amount")
       IN  /\ IsNumber(register'[amount])
           /\ IsNumber(register[amount]) => register[amount] <= register'[amount]
           /\ \A p \in Path \ {amount} : register'[p] = register[p]
           => Faulted(register, "SPEND_CAP") \subseteq Faulted(register', "SPEND_CAP")]_vars

(* A purchase order that is stated later than the invoices never makes a   *)
(* reference dangle: it only clears findings (_check_reference_exists).    *)
OrdersOnlyClear ==
  [][\A o \in Orders :
       LET number == At("purchase_orders", o, "number")
       IN  /\ ~Has(register, number)
           /\ \A p \in Path \ {number} : register'[p] = register[p]
           => Faulted(register', "INVOICE_PO_REF") \subseteq Faulted(register, "INVOICE_PO_REF")]_vars

(* reconcile.py:43: derived fields are "Recomputed whenever any of their   *)
(* inputs is in the impacted set": where renewal notice and term are       *)
(* stated, so is the deadline that rule NOTICE_DEADLINE compares with.     *)
DeadlineIsDerived ==
  Has(register, Contract("notice_days")) /\ Has(register, At("notice", 0, "sent_date"))
    => Has(register, At("derived", 0, "notice_deadline"))
=============================================================================
