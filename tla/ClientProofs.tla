---------------------------- MODULE ClientProofs ----------------------------
(***************************************************************************)
(* Theorems about module Client, for every number of retries, every plan   *)
(* of faults and everything the models may do with an attempt.             *)
(***************************************************************************)
EXTENDS Client, FiniteSetTheorems, TLAPS

----------------------------------------------------------------------------
(* Counting in sequences that grow.                                        *)

(* A set of positions is finite; the next position makes it one larger.    *)
LEMMA OneMore ==
  ASSUME NEW n \in Nat, NEW S \in SUBSET (1 .. n)
  PROVE  /\ IsFiniteSet(S) /\ Cardinality(S) \in Nat
         /\ Cardinality(S \cup {n + 1}) = Cardinality(S) + 1
<1>1. IsFiniteSet(1 .. n)
  BY FS_Interval
<1>2. IsFiniteSet(S)
  BY <1>1, FS_Subset
<1>3. n + 1 \notin S
  OBVIOUS
<1> QED
  BY <1>2, <1>3, FS_CardinalityType, FS_AddElement

(* One attempt more counts once more for what it was, and for nothing      *)
(* else.                                                                   *)
LEMMA TimesAppend ==
  ASSUME NEW tries \in Seq(Attempt), NEW a \in Attempt, NEW model, NEW outcome
  PROVE  /\ Times(tries, model, outcome) \in Nat
         /\ Times(Append(tries, a), model, outcome)
              = Times(tries, model, outcome)
                  + IF a = [model |-> model, outcome |-> outcome] THEN 1 ELSE 0
<1> DEFINE b == [model |-> model, outcome |-> outcome]
           S == {i \in DOMAIN tries : tries[i] = b}
           T == {i \in DOMAIN Append(tries, a) : Append(tries, a)[i] = b}
           n == Len(tries)
<1>1. n \in Nat /\ S \in SUBSET (1 .. n)
  OBVIOUS
<1>2. T = IF a = b THEN S \cup {n + 1} ELSE S
  OBVIOUS
<1>3. Cardinality(S) \in Nat /\ Cardinality(S \cup {n + 1}) = Cardinality(S) + 1
  BY <1>1, OneMore
<1>4. Times(tries, model, outcome) = Cardinality(S)
  BY DEF Times
<1>5. Times(Append(tries, a), model, outcome) = Cardinality(T)
  BY DEF Times
<1> HIDE DEF S, T, n, b
<1> QED
  BY <1>2, <1>3, <1>4, <1>5 DEF b
----------------------------------------------------------------------------
(* Type correctness.                                                       *)

(* A chain names one or two tiers, no tier twice, the asked one first.     *)
LEMMA ChainType ==
  ASSUME NEW purpose \in Purposes
  PROVE  LET chain == Chain(TierOf(purpose)) IN
         /\ TierOf(purpose) \in Tiers
         /\ Len(chain) \in {1, 2} /\ DOMAIN chain = 1 .. Len(chain)
         /\ \A i \in DOMAIN chain : chain[i] \in Tiers
         /\ \A i, j \in DOMAIN chain : chain[i] = chain[j] => i = j
         /\ chain[1] = TierOf(purpose)
<1>1. TierOf(purpose) \in Tiers
  BY DEF Purposes, TierOf, ClassifyTier, SpanJudgeTier, ExamineJudgeTier, Tiers
<1>2. CASE TierOf(purpose) = "standard"
  <2>1. Chain(TierOf(purpose)) = <<"standard", "cheap">>
    BY <1>2 DEF Chain
  <2> QED
    BY <1>1, <1>2, <2>1 DEF Tiers
<1>3. CASE TierOf(purpose) # "standard"
  <2>1. Chain(TierOf(purpose)) = <<TierOf(purpose)>>
    BY <1>3 DEF Chain
  <2> QED
    BY <1>1, <2>1
<1> QED
  BY <1>2, <1>3

(* A call stands at a place of its chain.                                  *)
Placed == call # None => call.position \in DOMAIN Chain(TierOf(call.purpose))

Typed == TypeOK /\ Placed

(* What an attempt of a call may come to is an attempt, and so is the      *)
(* usage it leaves.                                                        *)
LEMMA TryType ==
  ASSUME Typed, call # None
  PROVE  /\ call \in Call /\ Model \in Tiers
         /\ Answers \subseteq {"answer", "throttle", "unavailable", "error"}
         /\ \A outcome \in {"answer", "throttle", "unavailable", "error"} :
              /\ [model |-> Model, outcome |-> outcome] \in Attempt
              /\ Tries(outcome) \in Seq(Attempt)
         /\ UsageOf \in Usage
<1>1. call \in Call /\ call.purpose \in Purposes
  BY DEF Typed, TypeOK, Call
<1>2. Model \in Tiers /\ TierOf(call.purpose) \in Tiers
  BY <1>1, ChainType DEF Typed, Placed, Model
<1>3. Answers \subseteq {"answer", "throttle", "unavailable", "error"}
  BY OutcomesAssumption DEF Answers
<1>4. ASSUME NEW outcome \in {"answer", "throttle", "unavailable", "error"}
      PROVE  /\ [model |-> Model, outcome |-> outcome] \in Attempt
             /\ Tries(outcome) \in Seq(Attempt)
  <2>1. [model |-> Model, outcome |-> outcome] \in Attempt
    BY <1>2 DEF Attempt
  <2>2. call.tries \in Seq(Attempt)
    BY <1>1 DEF Call
  <2> QED
    BY <2>1, <2>2 DEF Tries
<1>5. UsageOf \in Usage
  BY <1>1, <1>2 DEF UsageOf, Usage, Call
<1> QED
  BY <1>1, <1>2, <1>3, <1>4, <1>5

(* The initial client has its shape.                                       *)
LEMMA TypeInit == Init => Typed
  BY PlansAssumption DEF Init, Typed, TypeOK, Placed

(* Every attempt, answer, retry, fallback and end keeps the shapes.        *)
LEMMA TypeStep == Typed /\ [Next]_vars => Typed'
<1> SUFFICES ASSUME Typed, [Next]_vars PROVE Typed'
  OBVIOUS
<1> USE DEF Typed, Placed
<1>1. ASSUME NEW purpose \in Purposes, Ask(purpose) PROVE Typed'
  <2>1. call' \in Call /\ call'.purpose = purpose /\ call'.position = 1
    BY <1>1 DEF Ask, Call
  <2>2. 1 \in DOMAIN Chain(TierOf(purpose))
    BY ChainType
  <2> QED
    BY <1>1, <2>1, <2>2 DEF TypeOK, Ask
<1>2. ASSUME Try PROVE Typed'
  <2>1. call # None /\ UNCHANGED <<plan, report>>
    BY <1>2 DEF Try
  <2>2. seen' \in [stages : [Purposes -> Nat], models : [Tiers -> Nat]]
    <3>1. call.purpose \in Purposes /\ Model \in Tiers
      BY <2>1, TryType DEF Call
    <3>2. /\ seen = [stages |-> seen.stages, models |-> seen.models]
          /\ seen.stages \in [Purposes -> Nat] /\ seen.models \in [Tiers -> Nat]
      BY DEF TypeOK
    <3>3. \/ seen' = seen
          \/ seen' = [seen EXCEPT !.stages[call.purpose] = @ + 1]
          \/ seen' = [seen EXCEPT !.models[Model] = @ + 1]
      BY <1>2 DEF Try, Inject
    <3>4. /\ [seen.stages EXCEPT ![call.purpose] = @ + 1] \in [Purposes -> Nat]
          /\ [seen.models EXCEPT ![Model] = @ + 1] \in [Tiers -> Nat]
      BY <3>1, <3>2
    <3>5. \/ seen' = [stages |-> seen.stages, models |-> seen.models]
          \/ seen' = [stages |-> [seen.stages EXCEPT ![call.purpose] = @ + 1],
                      models |-> seen.models]
          \/ seen' = [stages |-> seen.stages,
                      models |-> [seen.models EXCEPT ![Model] = @ + 1]]
      BY <3>2, <3>3
    <3> QED
      BY <3>2, <3>4, <3>5
  <2>3. ASSUME NEW how \in {"answered", "refused", "raised"},
               NEW outcome \in {"answer", "throttle", "unavailable", "error"},
               End(how, outcome)
        PROVE  call' = None /\ past' \in Seq(PastCall)
    <3>1. [purpose |-> call.purpose, tries |-> Tries(outcome), end |-> how] \in PastCall
      BY <2>1, TryType DEF PastCall, Call
    <3> QED
      BY <2>3, <3>1 DEF End, TypeOK
  <2>4. CASE Answered
    BY <2>1, <2>2, <2>3, <2>4, TryType DEF Answered, TypeOK
  <2>5. CASE Retry
    <3>1. call \in Call /\ Tries("throttle") \in Seq(Attempt)
      BY <2>1, TryType
    <3>2. call.retry + 1 \in Nat /\ call.attempts + 1 \in Nat
      BY <3>1 DEF Call
    <3>3. call' = [call EXCEPT !.retry = @ + 1, !.attempts = @ + 1, !.tries = Tries("throttle")]
      BY <2>5 DEF Retry
    <3>4. call' \in Call /\ call'.position = call.position /\ call'.purpose = call.purpose
      BY <3>1, <3>2, <3>3 DEF Call
    <3> QED
      BY <2>1, <2>2, <2>5, <3>4 DEF Retry, TypeOK
  <2>6. CASE FallBack
    <3>1. PICK outcome \in {"throttle", "unavailable"} :
            call' = [call EXCEPT !.position = @ + 1, !.retry = FirstRetry,
                                 !.attempts = @ + 1, !.tries = Tries(outcome)]
      BY <2>6 DEF FallBack
    <3>2. call \in Call /\ Tries(outcome) \in Seq(Attempt)
      BY <2>1, TryType
    <3>3. call.purpose \in Purposes /\ call.position \in Nat /\ call.attempts + 1 \in Nat
          /\ call.position < Len(Chain(TierOf(call.purpose)))
      BY <2>6, <3>2 DEF Call, FallBack
    <3>4. /\ call.position + 1 \in DOMAIN Chain(TierOf(call.purpose))
          /\ call.position + 1 \in 1 .. 2
      BY <3>3, ChainType
    <3>5. /\ call' \in Call /\ call'.purpose = call.purpose
          /\ call'.position = call.position + 1
      BY <3>1, <3>2, <3>3, <3>4 DEF Call, FirstRetry
    <3> QED
      BY <2>1, <2>2, <2>6, <3>4, <3>5 DEF FallBack, TypeOK
  <2>7. CASE Refused
    BY <2>1, <2>2, <2>3, <2>7 DEF Refused, TypeOK
  <2>8. CASE Raised
    BY <2>1, <2>2, <2>3, <2>8 DEF Raised, TypeOK
  <2> QED
    BY <1>2, <2>4, <2>5, <2>6, <2>7, <2>8 DEF Try
<1>3. ASSUME Close PROVE Typed'
  <2>1. ASSUME NEW S \in SUBSET DOMAIN usages PROVE Cardinality(S) \in Nat
    <3>1. Len(usages) \in Nat /\ S \in SUBSET (1 .. Len(usages))
      BY DEF TypeOK
    <3> QED
      BY <3>1, OneMore
  <2>2. \A p \in Purposes : UsagesOf(p) \subseteq DOMAIN usages
    BY DEF UsagesOf
  <2>3. CostReport \in Report
    BY <2>1, <2>2 DEF CostReport, Report
  <2> QED
    BY <1>3, <2>3 DEF Close, TypeOK
<1>4. CASE UNCHANGED vars
  BY <1>4 DEF vars, TypeOK
<1> QED
  BY <1>1, <1>2, <1>3, <1>4 DEF Next

(* Every reachable state is typed.                                         *)
LEMMA AlwaysTyped == Spec => []Typed
  BY TypeInit, TypeStep, PTL DEF Spec

(* The client's calls, usages and report keep their shape for every plan   *)
(* of faults (llm/client.py Usage, ModelRequest).                          *)
THEOREM TypeCorrect == Spec => []TypeOK
<1>1. Typed => TypeOK
  BY DEF Typed
<1> QED
  BY <1>1, AlwaysTyped, PTL
----------------------------------------------------------------------------
(* Fallbacks.                                                              *)

(* A tier's model has failed, or has been throttled as often as it is      *)
(* tried; or it has been throttled n times and nothing else.               *)
Worn(tries, tier) ==
  Times(tries, tier, "unavailable") = 1 \/ Times(tries, tier, "throttle") = MaxRetries
Tried(tries, tier, n) ==
  Times(tries, tier, "unavailable") = 0 /\ Times(tries, tier, "throttle") = n

(* The property, of one call.                                              *)
LastResort(c) ==
  LET chain == Chain(TierOf(c.purpose))
      last == c.tries[Len(c.tries)].model
      left == {i \in DOMAIN chain : c.end = "refused" \/ \A j \in 1 .. i : chain[j] # last}
  IN  \A i \in left : Worn(c.tries, chain[i])

(* A call has worn out the tiers behind it, knows how often it has tried   *)
(* the one it is at, and has not tried those before it.                    *)
Trail ==
  call # None =>
    LET chain == Chain(TierOf(call.purpose)) IN
    /\ call.retry < MaxRetries
    /\ \A i \in DOMAIN chain :
         /\ i < call.position => Worn(call.tries, chain[i])
         /\ i = call.position => Tried(call.tries, chain[i], call.retry)
         /\ i > call.position => Tried(call.tries, chain[i], 0)

Resorts == Trail /\ \A i \in DOMAIN past : LastResort(past[i])

(* No tier is worn out before the first call.                              *)
LEMMA ResortsInit == Init => Resorts
  BY DEF Init, Resorts, Trail

(* What an attempt changes in the counts: only its own model's, only its   *)
(* own outcome's.                                                          *)
LEMMA TryCounts ==
  ASSUME Typed, call # None,
         NEW outcome \in {"answer", "throttle", "unavailable", "error"},
         NEW i \in DOMAIN Chain(TierOf(call.purpose)), NEW n, NEW m \in Nat
  PROVE  LET tier == Chain(TierOf(call.purpose))[i] IN
         /\ i # call.position /\ Worn(call.tries, tier) => Worn(Tries(outcome), tier)
         /\ i # call.position /\ Tried(call.tries, tier, n) => Tried(Tries(outcome), tier, n)
         /\ i = call.position /\ outcome = "throttle" /\ Tried(call.tries, tier, m)
              => /\ Tried(Tries(outcome), tier, m + 1)
                 /\ m + 1 = MaxRetries => Worn(Tries(outcome), tier)
         /\ i = call.position /\ outcome = "unavailable" /\ Tried(call.tries, tier, m)
              => Worn(Tries(outcome), tier)
<1> DEFINE tier == Chain(TierOf(call.purpose))[i]
           a == [model |-> Model, outcome |-> outcome]
<1>1. /\ call.tries \in Seq(Attempt) /\ a \in Attempt /\ call.purpose \in Purposes
      /\ Tries(outcome) = Append(call.tries, a)
  BY TryType DEF Call, Tries
<1>2. tier = Model <=> i = call.position
  BY <1>1, ChainType DEF Typed, Placed, Model
<1>3. \A o : /\ Times(call.tries, tier, o) \in Nat
             /\ Times(Tries(outcome), tier, o)
                  = Times(call.tries, tier, o)
                      + IF a = [model |-> tier, outcome |-> o] THEN 1 ELSE 0
  BY <1>1, TimesAppend
<1>4. \A o : a = [model |-> tier, outcome |-> o] <=> i = call.position /\ o = outcome
  BY <1>2
<1> HIDE DEF a, tier
<1>5. i # call.position => \A o : Times(Tries(outcome), tier, o) = Times(call.tries, tier, o)
  BY <1>3, <1>4
<1>6. i = call.position /\ outcome = "throttle" =>
        /\ Times(Tries(outcome), tier, "throttle") = Times(call.tries, tier, "throttle") + 1
        /\ Times(Tries(outcome), tier, "unavailable") = Times(call.tries, tier, "unavailable")
  BY <1>3, <1>4
<1>7. i = call.position /\ outcome = "unavailable" =>
        Times(Tries(outcome), tier, "unavailable") = Times(call.tries, tier, "unavailable") + 1
  BY <1>3, <1>4
<1>8. /\ i # call.position /\ Worn(call.tries, tier) => Worn(Tries(outcome), tier)
      /\ i # call.position /\ Tried(call.tries, tier, n) => Tried(Tries(outcome), tier, n)
  BY <1>5 DEF Worn, Tried
<1>9. i = call.position /\ outcome = "throttle" /\ Tried(call.tries, tier, m)
        => /\ Tried(Tries(outcome), tier, m + 1)
           /\ m + 1 = MaxRetries => Worn(Tries(outcome), tier)
  BY <1>6 DEF Worn, Tried
<1>10. i = call.position /\ outcome = "unavailable" /\ Tried(call.tries, tier, m)
         => Worn(Tries(outcome), tier)
  BY <1>7 DEF Worn, Tried
<1> QED
  BY <1>8, <1>9, <1>10 DEF tier

(* An attempt that spends the tier wears it out.                           *)
LEMMA SpentWears ==
  ASSUME Typed, Trail, call # None, NEW outcome \in {"throttle", "unavailable"},
         Spent(outcome)
  PROVE  \A i \in DOMAIN Chain(TierOf(call.purpose)) :
           i <= call.position => Worn(Tries(outcome), Chain(TierOf(call.purpose))[i])
<1>1. call.retry \in Nat /\ call.retry < MaxRetries /\ call.position \in Nat
  BY TryType DEF Trail, Call
<1>2. outcome = "throttle" => call.retry + 1 = MaxRetries
  BY <1>1, RetriesAssumption DEF Spent, Again
<1> SUFFICES ASSUME NEW i \in DOMAIN Chain(TierOf(call.purpose)), i <= call.position
             PROVE  Worn(Tries(outcome), Chain(TierOf(call.purpose))[i])
  OBVIOUS
<1>3. i \in Nat
  BY TryType, ChainType DEF Call
<1>4. CASE i < call.position
  BY <1>1, <1>3, <1>4, TryCounts DEF Trail
<1>5. CASE i = call.position
  BY <1>1, <1>2, <1>5, TryCounts DEF Trail
<1> QED
  BY <1>1, <1>3, <1>4, <1>5

(* A call leaves a tier only worn out, and ends as a last resort.          *)
LEMMA ResortsStep == Typed /\ Resorts /\ [Next]_vars => Resorts'
<1> SUFFICES ASSUME Typed, Resorts, [Next]_vars PROVE Resorts'
  OBVIOUS
<1> USE DEF Resorts
<1>1. ASSUME NEW purpose \in Purposes, Ask(purpose) PROVE Resorts'
  <2>1. \A tier : Tried(<< >>, tier, 0)
    <3>1. \A tier, o : {i \in DOMAIN << >> : << >>[i] = [model |-> tier, outcome |-> o]} = {}
      OBVIOUS
    <3> QED
      BY <3>1, FS_EmptySet DEF Tried, Times
  <2>2. /\ call'.tries = << >> /\ call'.retry = 0 /\ call'.position = 1
        /\ call'.purpose = purpose /\ past' = past
    BY <1>1 DEF Ask
  <2>3. \A i \in DOMAIN Chain(TierOf(purpose)) : i \in Nat /\ i >= 1
    BY ChainType
  <2>4. Trail'
    BY <2>1, <2>2, <2>3, RetriesAssumption DEF Trail
  <2> QED
    BY <2>2, <2>4
<1>2. ASSUME Try PROVE Resorts'
  <2> DEFINE chain == Chain(TierOf(call.purpose))
  <2>1. call # None
    BY <1>2 DEF Try
  <2>2. /\ call \in Call /\ call.purpose \in Purposes /\ call.position \in DOMAIN chain
        /\ call.position \in Nat /\ call.retry \in Nat
        /\ DOMAIN chain = 1 .. Len(chain) /\ Len(chain) \in Nat
        /\ Model = chain[call.position]
    BY <2>1, TryType, ChainType DEF Call, Typed, Placed, Model
  <2>3. ASSUME NEW how \in {"answered", "refused", "raised"},
               NEW outcome \in {"answer", "throttle", "unavailable", "error"},
               End(how, outcome),
               how = "refused" => /\ call.position = Len(chain) /\ Spent(outcome)
                                  /\ outcome \in {"throttle", "unavailable"}
        PROVE  Resorts'
    <3> DEFINE c == [purpose |-> call.purpose, tries |-> Tries(outcome), end |-> how]
    <3>1. call' = None /\ past' = Append(past, c) /\ past \in Seq(PastCall)
      BY <2>3 DEF End, Typed, TypeOK
    <3>2. c.purpose = call.purpose /\ c.tries = Tries(outcome) /\ c.end = how
      OBVIOUS
    <3>3. Tries(outcome)[Len(Tries(outcome))].model = Model
      BY <2>1, TryType DEF Tries, Call
    <3> HIDE DEF c
    <3>4. ASSUME how # "refused" PROVE LastResort(c)
      <4>1. ASSUME NEW i \in DOMAIN chain, \A j \in 1 .. i : chain[j] # Model
            PROVE  i < call.position
        BY <2>2, <4>1
      <4>2. ASSUME NEW i \in DOMAIN chain, i < call.position
            PROVE  Worn(Tries(outcome), chain[i])
        BY <2>1, <2>2, <4>2, TryCounts DEF Trail
      <4> QED
        BY <3>2, <3>3, <3>4, <4>1, <4>2 DEF LastResort
    <3>5. ASSUME how = "refused" PROVE LastResort(c)
      <4>1. \A i \in DOMAIN chain : Worn(Tries(outcome), chain[i])
        <5>1. /\ call.position = Len(chain) /\ Spent(outcome)
              /\ outcome \in {"throttle", "unavailable"}
          BY <2>3, <3>5
        <5> QED
          BY <2>1, <2>2, <5>1, SpentWears
      <4> QED
        BY <3>2, <4>1 DEF LastResort
    <3>6. LastResort(c)
      BY <3>4, <3>5
    <3>7. \A i \in DOMAIN past' :
            \/ past'[i] = c
            \/ i \in DOMAIN past /\ past'[i] = past[i]
      BY <3>1
    <3> QED
      BY <3>1, <3>6, <3>7 DEF Trail
  <2>4. CASE Answered
    BY <2>3, <2>4 DEF Answered
  <2>5. CASE Retry
    <3>1. /\ call'.position = call.position /\ call'.purpose = call.purpose
          /\ call'.retry = call.retry + 1 /\ call'.tries = Tries("throttle")
          /\ past' = past /\ call.retry + 1 < MaxRetries
      BY <2>2, <2>5 DEF Retry, Again, Call
    <3>2. \A i \in DOMAIN chain :
            /\ i < call.position => Worn(Tries("throttle"), chain[i])
            /\ i = call.position => Tried(Tries("throttle"), chain[i], call.retry + 1)
            /\ i > call.position => Tried(Tries("throttle"), chain[i], 0)
      <4> SUFFICES ASSUME NEW i \in DOMAIN chain
                   PROVE  /\ i < call.position => Worn(Tries("throttle"), chain[i])
                          /\ i = call.position =>
                               Tried(Tries("throttle"), chain[i], call.retry + 1)
                          /\ i > call.position => Tried(Tries("throttle"), chain[i], 0)
        OBVIOUS
      <4>1. /\ i # call.position /\ Worn(call.tries, chain[i])
                 => Worn(Tries("throttle"), chain[i])
            /\ i # call.position /\ Tried(call.tries, chain[i], 0)
                 => Tried(Tries("throttle"), chain[i], 0)
            /\ i = call.position /\ Tried(call.tries, chain[i], call.retry)
                 => Tried(Tries("throttle"), chain[i], call.retry + 1)
        BY <2>1, <2>2, TryCounts
      <4> QED
        BY <2>1, <2>2, <4>1 DEF Trail
    <3>3. Trail'
      BY <3>1, <3>2 DEF Trail
    <3> QED
      BY <3>1, <3>3
  <2>6. CASE FallBack
    <3>1. PICK outcome \in {"throttle", "unavailable"} :
            /\ Spent(outcome)
            /\ call' = [call EXCEPT !.position = @ + 1, !.retry = FirstRetry,
                                    !.attempts = @ + 1, !.tries = Tries(outcome)]
      BY <2>6 DEF FallBack
    <3>2. /\ call'.position = call.position + 1 /\ call'.purpose = call.purpose
          /\ call'.retry = 0 /\ call'.tries = Tries(outcome) /\ past' = past
      BY <2>2, <2>6, <3>1 DEF FallBack, FirstRetry, Call
    <3>3. \A i \in DOMAIN chain : i <= call.position => Worn(Tries(outcome), chain[i])
      BY <2>1, <3>1, SpentWears
    <3>4. \A i \in DOMAIN chain : i > call.position => Tried(Tries(outcome), chain[i], 0)
      BY <2>1, <2>2, TryCounts DEF Trail
    <3>5. Trail'
      BY <2>2, <3>2, <3>3, <3>4, RetriesAssumption DEF Trail
    <3> QED
      BY <3>2, <3>5
  <2>7. CASE Refused
    BY <2>3, <2>7 DEF Refused
  <2>8. CASE Raised
    BY <2>3, <2>8 DEF Raised
  <2> QED
    BY <1>2, <2>4, <2>5, <2>6, <2>7, <2>8 DEF Try
<1>3. CASE Close \/ UNCHANGED vars
  BY <1>3 DEF Close, vars, Trail
<1> QED
  BY <1>1, <1>2, <1>3 DEF Next

(* No fallback answers, and no chain is given up, before the models in     *)
(* front have failed or been throttled to the limit in that very call      *)
(* (TieredModelClient.invoke).                                             *)
THEOREM LastResorts == Spec => []TiersAreLastResorts
<1>1. Resorts => TiersAreLastResorts
  BY DEF Resorts, LastResort, Worn, TiersAreLastResorts
<1> QED
  BY <1>1, AlwaysTyped, ResortsInit, ResortsStep, PTL DEF Spec
----------------------------------------------------------------------------
(* Usages and the report.                                                  *)

AnsweredOf(purpose) == {i \in AnsweredCalls : past[i].purpose = purpose}
ElsewhereOf(purpose) ==
  {i \in AnsweredOf(purpose) : past[i].tries[Len(past[i].tries)].model # TierOf(purpose)}
DegradedOf(purpose) == {i \in UsagesOf(purpose) : usages[i].degradedFrom # None}

(* A call counts the attempts it has made.                                 *)
Counted == call # None => call.attempts = Len(call.tries)

(* The usages of each stage are as many as its answered calls, those that  *)
(* degraded as those another tier's model answered.                        *)
Balanced ==
  \A p \in Purposes : /\ Cardinality(UsagesOf(p)) = Cardinality(AnsweredOf(p))
                      /\ Cardinality(DegradedOf(p)) = Cardinality(ElsewhereOf(p))

(* No call after the report.                                               *)
Closed == report # None => call = None

Accounts == Counted /\ Closed /\ UsagesTellTheTruth /\ Balanced /\ ReportMatchesCalls

(* Before the first call there is nothing to account for.                  *)
LEMMA AccountsInit == Init => Accounts
<1> SUFFICES ASSUME Init PROVE Accounts
  OBVIOUS
<1>1. AnsweredCalls = {} /\ usages = << >> /\ call = None /\ report = None
  BY DEF Init, AnsweredCalls
<1>2. \A p \in Purposes : /\ UsagesOf(p) = {} /\ AnsweredOf(p) = {}
                          /\ DegradedOf(p) = {} /\ ElsewhereOf(p) = {}
  BY <1>1 DEF UsagesOf, AnsweredOf, DegradedOf, ElsewhereOf
<1>3. Balanced
  BY <1>2 DEF Balanced
<1>4. UsagesTellTheTruth
  BY <1>1, FS_EmptySet DEF UsagesTellTheTruth
<1> QED
  BY <1>1, <1>3, <1>4 DEF Accounts, Counted, Closed, ReportMatchesCalls

(* The answer of a call is noted with its stage, its model, its attempts,  *)
(* and as degraded just when it is not the asked tier's.                   *)
LEMMA UsageTells ==
  ASSUME Typed, Counted, call # None,
         NEW outcome \in {"answer", "throttle", "unavailable", "error"}
  PROVE  /\ UsageOf.stage = call.purpose
         /\ UsageOf.attempts = Len(Tries(outcome))
         /\ UsageOf.model = Tries(outcome)[Len(Tries(outcome))].model
         /\ UsageOf.degradedFrom # None <=> UsageOf.model # TierOf(call.purpose)
<1>1. call.tries \in Seq(Attempt) /\ call.purpose \in Purposes /\ call.position \in Nat
  BY TryType DEF Call
<1>2. Len(Tries(outcome)) = Len(call.tries) + 1
      /\ Tries(outcome)[Len(Tries(outcome))].model = Model
  BY <1>1 DEF Tries
<1>3. call.position > 1 <=> Model # TierOf(call.purpose)
  <2>1. call.position \in DOMAIN Chain(TierOf(call.purpose))
    BY DEF Typed, Placed
  <2> QED
    BY <1>1, <2>1, ChainType DEF Model
<1>4. TierOf(call.purpose) # None
  BY <1>1, ChainType, NoneAssumption
<1> QED
  BY <1>2, <1>3, <1>4 DEF UsageOf, Counted

(* A call that ends without an answer leaves the accounts as they are.     *)
LEMMA Unanswered ==
  ASSUME Typed, Accounts, NEW c, c.end # "answered",
         past' = Append(past, c), UNCHANGED <<usages, report>>, call' = None
  PROVE  Accounts'
<1>1. past \in Seq(PastCall)
  BY DEF Typed, TypeOK
<1>2. AnsweredCalls' = AnsweredCalls /\ \A i \in AnsweredCalls : past'[i] = past[i]
  BY <1>1 DEF AnsweredCalls
<1>3. \A p : /\ AnsweredOf(p)' = AnsweredOf(p) /\ ElsewhereOf(p)' = ElsewhereOf(p)
             /\ UsagesOf(p)' = UsagesOf(p) /\ DegradedOf(p)' = DegradedOf(p)
  BY <1>2 DEF AnsweredOf, ElsewhereOf, UsagesOf, DegradedOf
<1>4. Balanced'
  BY <1>3 DEF Accounts, Balanced
<1>5. UsagesTellTheTruth'
  BY <1>2 DEF Accounts, UsagesTellTheTruth
<1>6. ReportMatchesCalls'
  <2>1. /\ ReportMatchesCalls <=> (report # None => \A p \in Purposes :
             /\ report.calls[p] = Cardinality(AnsweredOf(p))
             /\ report.degraded[p] = Cardinality(ElsewhereOf(p)))
        /\ ReportMatchesCalls' <=> (report' # None => \A p \in Purposes :
             /\ report'.calls[p] = Cardinality(AnsweredOf(p)')
             /\ report'.degraded[p] = Cardinality(ElsewhereOf(p)'))
    BY DEF ReportMatchesCalls, AnsweredOf, ElsewhereOf
  <2> QED
    BY <1>3, <2>1 DEF Accounts
<1> QED
  BY <1>4, <1>5, <1>6 DEF Accounts, Counted, Closed

(* An answered call adds its usage.                                        *)
LEMMA AnsweredAccounts ==
  ASSUME Typed, Accounts, call # None, Answered, UNCHANGED report
  PROVE  Accounts'
<1> DEFINE c == [purpose |-> call.purpose, tries |-> Tries("answer"), end |-> "answered"]
           n == Len(past)
           k == Len(usages)
<1>1. /\ past \in Seq(PastCall) /\ usages \in Seq(Usage) /\ UsageOf \in Usage
      /\ n \in Nat /\ k \in Nat
  BY TryType DEF Typed, TypeOK
<1>2. call' = None /\ past' = Append(past, c) /\ usages' = Append(usages, UsageOf)
  BY DEF Answered, End
<1>3. /\ c.purpose = call.purpose /\ c.tries = Tries("answer") /\ c.end = "answered"
      /\ call.purpose \in Purposes
  BY TryType DEF Call
<1>4. /\ UsageOf.stage = c.purpose /\ UsageOf.attempts = Len(c.tries)
      /\ UsageOf.model = c.tries[Len(c.tries)].model
      /\ UsageOf.degradedFrom # None <=> UsageOf.model # TierOf(c.purpose)
  BY <1>3, UsageTells DEF Accounts
<1> HIDE DEF c
<1>5. report = None /\ report' = None
  BY DEF Accounts, Closed
<1>6. /\ AnsweredCalls \in SUBSET (1 .. n) /\ AnsweredCalls' = AnsweredCalls \cup {n + 1}
      /\ \A i \in 1 .. n : past'[i] = past[i]
      /\ past'[n + 1] = c
  BY <1>1, <1>2, <1>3 DEF AnsweredCalls
<1>7. Cardinality(AnsweredCalls) = k /\ Cardinality(AnsweredCalls') = k + 1
  BY <1>1, <1>6, OneMore DEF Accounts, UsagesTellTheTruth
<1>8. /\ \A i \in 1 .. k : usages'[i] = usages[i]
      /\ usages'[k + 1] = UsageOf /\ Len(usages') = k + 1
  BY <1>1, <1>2
<1>9. UsagesTellTheTruth'
  <2> SUFFICES ASSUME NEW i \in AnsweredCalls'
               PROVE  LET usage == usages'[Cardinality({j \in AnsweredCalls' : j <= i})]
                      IN  /\ usage.stage = past'[i].purpose
                          /\ usage.attempts = Len(past'[i].tries)
                          /\ usage.model = past'[i].tries[Len(past'[i].tries)].model
    BY <1>7, <1>8 DEF UsagesTellTheTruth
  <2>1. CASE i = n + 1
    <3>1. {j \in AnsweredCalls' : j <= i} = AnsweredCalls'
      <4>1. \A j \in AnsweredCalls' : j \in 1 .. n \/ j = n + 1
        BY <1>6
      <4>2. \A j \in AnsweredCalls' : j <= i
        BY <1>1, <2>1, <4>1
      <4> QED
        BY <4>2
    <3> QED
      BY <1>4, <1>6, <1>7, <1>8, <2>1, <3>1
  <2>2. CASE i # n + 1
    <3> DEFINE S == {j \in AnsweredCalls : j <= i}
    <3>1. i \in AnsweredCalls /\ i \in 1 .. n /\ {j \in AnsweredCalls' : j <= i} = S
      BY <1>1, <1>6, <2>2
    <3>2. Cardinality(S) \in 1 .. k
      <4>1. S \in SUBSET (1 .. n) /\ S \subseteq AnsweredCalls /\ S # {}
        <5>1. i \in Nat /\ i <= i
          BY <1>1, <3>1
        <5>2. i \in S
          BY <3>1, <5>1
        <5> QED
          BY <1>6, <5>2
      <4>2. IsFiniteSet(AnsweredCalls) /\ IsFiniteSet(S) /\ Cardinality(S) \in Nat
        BY <1>1, <1>6, <4>1, OneMore
      <4>3. Cardinality(S) <= Cardinality(AnsweredCalls) /\ Cardinality(S) # 0
        BY <4>1, <4>2, FS_Subset, FS_EmptySet
      <4> QED
        BY <1>1, <1>7, <4>2, <4>3
    <3>3. LET usage == usages[Cardinality(S)]
          IN  /\ usage.stage = past[i].purpose
              /\ usage.attempts = Len(past[i].tries)
              /\ usage.model = past[i].tries[Len(past[i].tries)].model
      BY <3>1 DEF Accounts, UsagesTellTheTruth
    <3> HIDE DEF S
    <3> QED
      BY <1>6, <1>8, <3>1, <3>2, <3>3
  <2> QED
    BY <2>1, <2>2
<1>10. ASSUME NEW p \in Purposes
       PROVE  /\ Cardinality(UsagesOf(p)') = Cardinality(AnsweredOf(p)')
              /\ Cardinality(DegradedOf(p)') = Cardinality(ElsewhereOf(p)')
  <2>1. /\ UsagesOf(p) \in SUBSET (1 .. k) /\ DegradedOf(p) \in SUBSET (1 .. k)
        /\ AnsweredOf(p) \in SUBSET (1 .. n) /\ ElsewhereOf(p) \in SUBSET (1 .. n)
    <3>1. DOMAIN usages = 1 .. k
      BY <1>1
    <3>2. UsagesOf(p) \subseteq 1 .. k /\ AnsweredOf(p) \subseteq 1 .. n
      BY <1>6, <3>1 DEF UsagesOf, AnsweredOf
    <3> QED
      BY <3>2 DEF DegradedOf, ElsewhereOf
  <2>2. UsagesOf(p)' = IF c.purpose = p THEN UsagesOf(p) \cup {k + 1} ELSE UsagesOf(p)
    BY <1>1, <1>4, <1>8 DEF UsagesOf
  <2>3. AnsweredOf(p)' = IF c.purpose = p THEN AnsweredOf(p) \cup {n + 1} ELSE AnsweredOf(p)
    BY <1>6 DEF AnsweredOf
  <2>4. DegradedOf(p)' = IF c.purpose = p /\ UsageOf.degradedFrom # None
                         THEN DegradedOf(p) \cup {k + 1} ELSE DegradedOf(p)
    <3>1. \A i \in UsagesOf(p) : i \in 1 .. k /\ usages'[i] = usages[i]
      BY <1>8, <2>1
    <3> QED
      BY <1>8, <2>2, <3>1 DEF DegradedOf
  <2>5. ElsewhereOf(p)' = IF c.purpose = p /\ UsageOf.degradedFrom # None
                          THEN ElsewhereOf(p) \cup {n + 1} ELSE ElsewhereOf(p)
    <3>1. \A i \in AnsweredOf(p) : i \in 1 .. n /\ past'[i] = past[i]
      BY <1>6, <2>1
    <3> QED
      BY <1>4, <1>6, <2>3, <3>1 DEF ElsewhereOf
  <2>6. /\ Cardinality(UsagesOf(p) \cup {k + 1}) = Cardinality(UsagesOf(p)) + 1
        /\ Cardinality(DegradedOf(p) \cup {k + 1}) = Cardinality(DegradedOf(p)) + 1
        /\ Cardinality(AnsweredOf(p) \cup {n + 1}) = Cardinality(AnsweredOf(p)) + 1
        /\ Cardinality(ElsewhereOf(p) \cup {n + 1}) = Cardinality(ElsewhereOf(p)) + 1
    BY <1>1, <2>1, OneMore
  <2>7. /\ Cardinality(UsagesOf(p)) = Cardinality(AnsweredOf(p))
        /\ Cardinality(DegradedOf(p)) = Cardinality(ElsewhereOf(p))
    BY DEF Accounts, Balanced
  <2> QED
    BY <2>2, <2>3, <2>4, <2>5, <2>6, <2>7
<1>11. Balanced'
  BY <1>10 DEF Balanced
<1> QED
  BY <1>2, <1>5, <1>9, <1>11 DEF Accounts, Counted, Closed, ReportMatchesCalls

(* The accounts are of the ended calls and the usages alone.               *)
LEMMA SameAccounts ==
  ASSUME Accounts, UNCHANGED <<usages, past>>
  PROVE  Balanced' /\ UsagesTellTheTruth' /\ (UNCHANGED report => ReportMatchesCalls')
<1>1. AnsweredCalls' = AnsweredCalls
  BY DEF AnsweredCalls
<1>2. \A p : UsagesOf(p)' = UsagesOf(p) /\ AnsweredOf(p)' = AnsweredOf(p)
  BY <1>1 DEF UsagesOf, AnsweredOf
<1>3. \A p : DegradedOf(p)' = DegradedOf(p) /\ ElsewhereOf(p)' = ElsewhereOf(p)
  BY <1>2 DEF DegradedOf, ElsewhereOf
<1>4. Balanced'
  BY <1>2, <1>3 DEF Accounts, Balanced
<1>5. UsagesTellTheTruth'
  BY <1>1 DEF Accounts, UsagesTellTheTruth
<1>6. UNCHANGED report => ReportMatchesCalls'
  BY <1>1 DEF Accounts, ReportMatchesCalls
<1> QED
  BY <1>4, <1>5, <1>6

(* Every step keeps the accounts.                                          *)
LEMMA AccountsStep == Typed /\ Accounts /\ [Next]_vars => Accounts'
<1> SUFFICES ASSUME Typed, Accounts, [Next]_vars PROVE Accounts'
  OBVIOUS
<1>1. ASSUME UNCHANGED <<usages, report, past>>, Counted', Closed' PROVE Accounts'
  BY <1>1, SameAccounts DEF Accounts
<1>2. ASSUME NEW purpose \in Purposes, Ask(purpose) PROVE Accounts'
  <2>1. call'.attempts = 0 /\ call'.tries = << >> /\ report' = None
    BY <1>2 DEF Ask
  <2> QED
    BY <1>1, <1>2, <2>1 DEF Ask, Counted, Closed
<1>3. ASSUME Try PROVE Accounts'
  <2>1. call # None /\ UNCHANGED report
    BY <1>3 DEF Try
  <2>2. call \in Call /\ call.attempts = Len(call.tries) /\ report = None
    BY <2>1, TryType DEF Accounts, Counted, Closed
  <2>3. \A outcome \in {"throttle", "unavailable"} :
          Len(Tries(outcome)) = call.attempts + 1
    BY <2>2 DEF Tries, Call
  <2>4. CASE Answered
    BY <2>1, <2>4, AnsweredAccounts
  <2>5. CASE Retry
    <3>1. call'.attempts = call.attempts + 1 /\ call'.tries = Tries("throttle")
      BY <2>2, <2>5 DEF Retry, Call
    <3> QED
      BY <1>1, <2>1, <2>2, <2>3, <2>5, <3>1 DEF Retry, Counted, Closed
  <2>6. CASE FallBack
    <3>1. PICK outcome \in {"throttle", "unavailable"} :
            call' = [call EXCEPT !.position = @ + 1, !.retry = FirstRetry,
                                 !.attempts = @ + 1, !.tries = Tries(outcome)]
      BY <2>6 DEF FallBack
    <3>2. call'.attempts = call.attempts + 1 /\ call'.tries = Tries(outcome)
      BY <2>2, <3>1 DEF Call
    <3> QED
      BY <1>1, <2>1, <2>2, <2>3, <2>6, <3>2 DEF FallBack, Counted, Closed
  <2>7. ASSUME NEW how \in {"refused", "raised"}, NEW outcome, End(how, outcome),
               UNCHANGED usages
        PROVE  Accounts'
    <3> DEFINE c == [purpose |-> call.purpose, tries |-> Tries(outcome), end |-> how]
    <3>1. c.end # "answered" /\ past' = Append(past, c) /\ call' = None
      BY <2>7 DEF End
    <3> HIDE DEF c
    <3> QED
      BY <2>1, <2>7, <3>1, Unanswered
  <2>8. CASE Refused
    BY <2>7, <2>8 DEF Refused
  <2>9. CASE Raised
    BY <2>7, <2>9 DEF Raised
  <2> QED
    BY <1>3, <2>4, <2>5, <2>6, <2>8, <2>9 DEF Try
<1>4. ASSUME Close PROVE Accounts'
  <2>1. UNCHANGED <<call, usages, past>> /\ call = None /\ report' = CostReport
    BY <1>4 DEF Close
  <2>2. \A p \in Purposes : /\ report'.calls[p] = Cardinality(UsagesOf(p))
                            /\ report'.degraded[p] = Cardinality(DegradedOf(p))
    BY <2>1 DEF CostReport, DegradedOf
  <2>3. \A p \in Purposes : /\ report'.calls[p] = Cardinality(AnsweredOf(p))
                            /\ report'.degraded[p] = Cardinality(ElsewhereOf(p))
    BY <2>2 DEF Accounts, Balanced
  <2>4. \A p : AnsweredOf(p)' = AnsweredOf(p) /\ ElsewhereOf(p)' = ElsewhereOf(p)
    BY <2>1 DEF AnsweredOf, ElsewhereOf, AnsweredCalls
  <2>5. ReportMatchesCalls'
    BY <2>3, <2>4 DEF ReportMatchesCalls, AnsweredOf, ElsewhereOf
  <2>6. Balanced' /\ UsagesTellTheTruth'
    BY <2>1, SameAccounts
  <2> QED
    BY <2>1, <2>5, <2>6 DEF Accounts, Counted, Closed
<1>5. CASE UNCHANGED vars
  BY <1>1, <1>5 DEF vars, Accounts, Counted, Closed
<1> QED
  BY <1>2, <1>3, <1>4, <1>5 DEF Next

(* The accounts are right in every reachable state.                        *)
LEMMA AlwaysAccounts == Spec => []Accounts
  BY AlwaysTyped, AccountsInit, AccountsStep, PTL DEF Spec

(* Each answered call leaves the usage of what it took, every other call   *)
(* none (TieredModelClient.invoke).                                        *)
THEOREM UsagesTell == Spec => []UsagesTellTheTruth
<1>1. Accounts => UsagesTellTheTruth
  BY DEF Accounts
<1> QED
  BY <1>1, AlwaysAccounts, PTL

(* The cost report counts each stage's answered calls, and as degraded     *)
(* those another tier's model answered (cost_report).                      *)
THEOREM ReportMatches == Spec => []ReportMatchesCalls
<1>1. Accounts => ReportMatchesCalls
  BY DEF Accounts
<1> QED
  BY <1>1, AlwaysAccounts, PTL
=============================================================================
