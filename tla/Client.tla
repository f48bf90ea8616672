------------------------------- MODULE Client -------------------------------
(***************************************************************************)
(* The one way in and out of every model call (llm/client.py): the client  *)
(* an execution makes for itself, TieredModelClient, which tries the model *)
(* of the tier a call asks for, again while it is throttled, then the      *)
(* models of the fallback tiers; inside it FaultyClient, which injects     *)
(* throttles and failures; inside that the model, which may answer, be     *)
(* throttled, fail, or raise an error the client knows nothing of.         *)
(*                                                                         *)
(* Covered: every order in which the attempts of a call can go, calls of   *)
(* all five kinds after each other on one client (the fault budgets carry  *)
(* over from call to call), and the cost report made at the end.           *)
(* Abstracted: what is asked and answered, tokens, prices, the time a      *)
(* retry sleeps.  Each tier has a model of its own, so a model is named by *)
(* its tier.                                                               *)
(***************************************************************************)
EXTENDS Naturals, Sequences, FiniteSets

CONSTANTS
  MaxRetries,   \* max_model_retries
  Plans,        \* fault plans to choose from
  Outcomes,     \* what the model itself may do with an attempt
  None,         \* no call, no report, no degradation
  MaxCalls      \* bound: calls on one client

Tiers == {"cheap", "standard", "deep"}

(* The stages that call a model, by the name they give themselves.         *)
Purposes == {"classify", "extract", "verify_judge", "extract_retry", "examine_judge"}

(* A plan: attempts to throttle and to fail, by stage and by model.        *)
Plan == [stages : [Purposes -> Nat], models : [Tiers -> Nat],
         failStages : SUBSET Purposes, failModels : SUBSET Tiers]

ASSUME RetriesAssumption == MaxRetries \in Nat \ {0}
ASSUME PlansAssumption == Plans \subseteq Plan
ASSUME OutcomesAssumption == Outcomes \subseteq {"answer", "throttle", "unavailable", "error"}
ASSUME NoneAssumption == None \notin Tiers
ASSUME CallsAssumption == MaxCalls \in Nat

VARIABLES
  plan,     \* the client's fault plan
  seen,     \* throttles injected so far, by stage and by model
  call,     \* the call in progress, or None
  usages,   \* TieredModelClient.usages
  report,   \* Run.cost_report, or None
  past      \* history: the calls that have ended, with all their attempts

vars == <<plan, seen, call, usages, report, past>>

(* Classification asks the cheapest tier, the judge of the text rules the  *)
(* deepest, and the judge of a single span the extractor's own.            *)
ClassifyTier == "cheap"
SpanJudgeTier == "standard"
ExamineJudgeTier == "deep"

(* The tier each stage asks for; extraction and its retry ask "standard".  *)
TierOf(purpose) ==
  CASE purpose = "classify" -> ClassifyTier
    [] purpose = "verify_judge" -> SpanJudgeTier
    [] purpose = "examine_judge" -> ExamineJudgeTier
    [] OTHER -> "standard"

(* The tier and its fallbacks; the deepest tier has none, so that the      *)
(* judge of the text rules never answers from the extractor's family.      *)
Chain(tier) == IF tier = "standard" THEN <<"standard", "cheap">> ELSE <<tier>>

Attempt == [model : Tiers, outcome : {"answer", "throttle", "unavailable", "error"}]

(* A call: where it is in the chain, how often it has tried that model,    *)
(* how often any, and (history) the attempts.                              *)
Call == [purpose : Purposes, position : 1 .. 2, retry : Nat, attempts : Nat,
         tries : Seq(Attempt)]

Usage == [stage : Purposes, model : Tiers, attempts : Nat, degradedFrom : Tiers \cup {None}]

PastCall == [purpose : Purposes, tries : Seq(Attempt),
             end : {"answered", "refused", "raised"}]

Report == [calls : [Purposes -> Nat], degraded : [Purposes -> Nat]]

ASSUME NoneIsNoRecord == None \notin Call /\ None \notin Report

Init ==
  /\ plan \in Plans
  /\ seen = [stages |-> [p \in Purposes |-> 0], models |-> [t \in Tiers |-> 0]]
  /\ call = None
  /\ usages = << >>
  /\ report = None
  /\ past = << >>
----------------------------------------------------------------------------
(* A stage asks.                                                           *)
Ask(purpose) ==
  /\ call = None
  /\ report = None
  /\ Len(past) < MaxCalls
  /\ call' = [purpose |-> purpose, position |-> 1, retry |-> 0, attempts |-> 0,
              tries |-> << >>]
  /\ UNCHANGED <<plan, seen, usages, report, past>>

Model == Chain(TierOf(call.purpose))[call.position]

(* FaultyClient.invoke: what comes back from an attempt and what it counts *)
(* as injected.  A stage's throttles are used up before a model's; a       *)
(* failure uses none.                                                      *)
Fails == call.purpose \in plan.failStages \/ Model \in plan.failModels
StageThrottles == ~Fails /\ seen.stages[call.purpose] < plan.stages[call.purpose]
ModelThrottles == ~Fails /\ ~StageThrottles /\ seen.models[Model] < plan.models[Model]

Inject ==
  \/ Fails /\ UNCHANGED seen
  \/ StageThrottles /\ seen' = [seen EXCEPT !.stages[call.purpose] = @ + 1]
  \/ ModelThrottles /\ seen' = [seen EXCEPT !.models[Model] = @ + 1]
  \/ ~(Fails \/ StageThrottles \/ ModelThrottles) /\ UNCHANGED seen

Answers ==
  IF Fails THEN {"unavailable"}
  ELSE IF StageThrottles \/ ModelThrottles THEN {"throttle"}
  ELSE Outcomes

(* The attempts of the call, one more made.                                *)
Tries(outcome) == Append(call.tries, [model |-> Model, outcome |-> outcome])

(* The call is over.                                                       *)
End(how, outcome) ==
  /\ call' = None
  /\ past' = Append(past, [purpose |-> call.purpose, tries |-> Tries(outcome), end |-> how])

(* Mutant: the attempts of the answering model alone.                      *)
UsageOf_LastTier ==
  [stage |-> call.purpose, model |-> Model, attempts |-> call.retry + 1,
   degradedFrom |-> IF call.position > 1 THEN TierOf(call.purpose) ELSE None]

(* Mutant: the degradation is not noted.                                   *)
UsageOf_Silent ==
  [stage |-> call.purpose, model |-> Model, attempts |-> call.attempts + 1,
   degradedFrom |-> None]

UsageOf ==
  [stage |-> call.purpose, model |-> Model, attempts |-> call.attempts + 1,
   degradedFrom |-> IF call.position > 1 THEN TierOf(call.purpose) ELSE None]

Answered ==
  /\ "answer" \in Answers
  /\ usages' = Append(usages, UsageOf)
  /\ End("answered", "answer")

(* There are attempts left for this model.                                 *)
Again == call.retry + 1 < MaxRetries

Retry ==
  /\ "throttle" \in Answers
  /\ Again
  /\ call' = [call EXCEPT !.retry = @ + 1, !.attempts = @ + 1, !.tries = Tries("throttle")]
  /\ UNCHANGED <<usages, past>>

(* The attempt was the last on its model.                                  *)
Spent(outcome) ==
  /\ outcome \in Answers
  /\ \/ outcome = "unavailable"
     \/ outcome = "throttle" /\ ~Again

(* Mutant: the count of retries is carried over to the next model.         *)
FirstRetry_Carried == call.retry

FirstRetry == 0

FallBack ==
  /\ call.position < Len(Chain(TierOf(call.purpose)))
  /\ \E outcome \in {"throttle", "unavailable"} :
       /\ Spent(outcome)
       /\ call' = [call EXCEPT !.position = @ + 1, !.retry = FirstRetry,
                               !.attempts = @ + 1, !.tries = Tries(outcome)]
  /\ UNCHANGED <<usages, past>>

(* ModelUnavailableError: the chain is exhausted.                          *)
Refused ==
  /\ call.position = Len(Chain(TierOf(call.purpose)))
  /\ \E outcome \in {"throttle", "unavailable"} :
       Spent(outcome) /\ End("refused", outcome)
  /\ UNCHANGED usages

(* Any other error passes the client by: a missing fixture, a timeout.     *)
Raised ==
  /\ "error" \in Answers
  /\ End("raised", "error")
  /\ UNCHANGED usages

Try ==
  /\ call # None
  /\ Inject
  /\ Answered \/ Retry \/ FallBack \/ Refused \/ Raised
  /\ UNCHANGED <<plan, report>>
----------------------------------------------------------------------------
(* cost_report.                                                            *)

UsagesOf(purpose) == {i \in DOMAIN usages : usages[i].stage = purpose}

CostReport ==
  [calls |-> [p \in Purposes |-> Cardinality(UsagesOf(p))],
   degraded |-> [p \in Purposes |->
                   Cardinality({i \in UsagesOf(p) : usages[i].degradedFrom # None})]]

(* The execution ends and stores the report of its client.                 *)
Close ==
  /\ call = None
  /\ report = None
  /\ report' = CostReport
  /\ UNCHANGED <<plan, seen, call, usages, past>>
----------------------------------------------------------------------------
Next == (\E purpose \in Purposes : Ask(purpose)) \/ Try \/ Close

Spec == Init /\ [][Next]_vars
----------------------------------------------------------------------------
(* Properties.                                                             *)

TypeOK ==
  /\ plan \in Plan
  /\ seen \in [stages : [Purposes -> Nat], models : [Tiers -> Nat]]
  /\ call \in Call \cup {None}
  /\ usages \in Seq(Usage)
  /\ report \in Report \cup {None}
  /\ past \in Seq(PastCall)

(* How often the attempts of a call on a model came out so.                *)
Times(tries, model, outcome) ==
  Cardinality({i \in DOMAIN tries : tries[i] = [model |-> model, outcome |-> outcome]})

(* A tier is left only when its model has failed or has been throttled     *)
(* max_model_retries times in this very call, whatever faults earlier      *)
(* calls used up: before a fallback tier answers, and for every tier of a  *)
(* chain that is exhausted (README.md:160: "A throttled model retries with *)
(* jittered backoff, then falls back a tier").                             *)
TiersAreLastResorts ==
  \A c \in {past[i] : i \in DOMAIN past} :
    LET chain == Chain(TierOf(c.purpose))
        last == c.tries[Len(c.tries)].model
        left == {i \in DOMAIN chain : c.end = "refused" \/ \A j \in 1 .. i : chain[j] # last}
    IN  \A i \in left : \/ Times(c.tries, chain[i], "unavailable") = 1
                         \/ Times(c.tries, chain[i], "throttle") = MaxRetries

AnsweredCalls == {i \in DOMAIN past : past[i].end = "answered"}

(* Each answered call has its usage, in order, with the model that         *)
(* answered and with all the attempts it took on any tier; a call that was *)
(* refused, or left by an error, has none (TieredModelClient.invoke).      *)
UsagesTellTheTruth ==
  /\ Len(usages) = Cardinality(AnsweredCalls)
  /\ \A i \in AnsweredCalls :
       LET usage == usages[Cardinality({j \in AnsweredCalls : j <= i})]
       IN  /\ usage.stage = past[i].purpose
           /\ usage.attempts = Len(past[i].tries)
           /\ usage.model = past[i].tries[Len(past[i].tries)].model

(* The stored report counts each stage's answered calls, and as degraded   *)
(* just those that a model of another tier than the asked one answered     *)
(* (cost_report, the degraded_calls of a stage).                           *)
ReportMatchesCalls ==
  report # None =>
    \A p \in Purposes :
      LET calls == {i \in AnsweredCalls : past[i].purpose = p}
          elsewhere == {i \in calls : past[i].tries[Len(past[i].tries)].model # TierOf(p)}
      IN  report.calls[p] = Cardinality(calls) /\ report.degraded[p] = Cardinality(elsewhere)

(* client.py:260, FaultPlan: "Only the model-keyed form can exercise tier  *)
(* fallback, because a stage-keyed throttle follows the request down every *)
(* tier and exhausts them all".                                            *)
StageFaultsNeverFallBack ==
  plan.failModels = {} /\ (\A t \in Tiers : plan.models[t] = 0)
    => \A i \in DOMAIN usages : usages[i].degradedFrom = None

(* README.md:166: "The judge is its own tier, with no fallback.  It is a   *)
(* separate call with a separate prompt that never sees the value it is    *)
(* checking": no judge is answered by a model that an extraction could be  *)
(* answered by.                                                            *)
JudgesStandApart ==
  \A i \in DOMAIN usages : usages[i].stage \in {"verify_judge", "examine_judge"} =>
    \A k \in DOMAIN Chain(TierOf("extract")) : usages[i].model # Chain(TierOf("extract"))[k]
=============================================================================
