--------------------------- MODULE PipelineProofs ---------------------------
(***************************************************************************)
(* Theorems about module Pipeline, for every number of documents, types    *)
(* and paths, whatever the model answers or fails to, and wherever the     *)
(* worker is killed.                                                       *)
(***************************************************************************)
EXTENDS Pipeline, TLAPS

----------------------------------------------------------------------------
(* What the stages' helpers make.                                          *)

(* The empty state, the state a stage opens with and the documents it goes *)
(* over have their shapes.                                                 *)
LEMMA EmptyType == EmptyState \in RunState
  BY DEF EmptyState, RunState

(* Opening a stage keeps the shape of the state; it goes over documents.   *)
LEMMA OpeningType ==
  ASSUME NEW s \in RunState, NEW stage
  PROVE  Opening(stage, s) \in RunState /\ Rounds(stage, s) \subseteq Docs
<1>1. EmptyState.classified \in [Docs -> DocTypes \cup {Unclassified}]
  BY DEF EmptyState
<1>2. Opening(stage, s) \in RunState
  BY <1>1 DEF Opening, Retryable, RunState
<1>3. Rounds(stage, s) \subseteq Docs
  BY DEF Rounds, Classified, Retryable, RunState, Refusal
<1> QED
  BY <1>2, <1>3

(* What a round of extraction accepts lies within what the document's type *)
(* may write, whoever graded it.                                           *)
LEMMA RoundType ==
  ASSUME NEW d \in Docs, NEW type, NEW answer \in Answers,
         NEW j \in Judgements(Unsettled(type, answer))
  PROVE  /\ Accepted(d, type, answer, j) \subseteq Claim
         /\ \A c \in Accepted(d, type, answer, j) :
              c.doc = d /\ <<type, c.path>> \in Allowed
         /\ Refused(d, answer, j) \subseteq Refusal
         /\ Barred(type, answer) \subseteq Paths
         /\ JudgeFailure(j) \subseteq {"verify_judge"}
<1>1. /\ j.agreed \subseteq Unsettled(type, answer)
      /\ j.refused \subseteq Unsettled(type, answer)
  BY DEF Judgements
<1>2. \A p \in Unsettled(type, answer) : p \in Paths /\ <<type, p>> \in Allowed
  BY DEF Unsettled, PathAllowed
<1>3. \A c \in Accepted(d, type, answer, j) :
        c \in Claim /\ c.doc = d /\ <<type, c.path>> \in Allowed
  <2>1. ASSUME NEW p \in Paths, <<type, p>> \in Allowed, NEW g \in {"literal", "judged"}
        PROVE  LET c == [doc |-> d, path |-> p, grade |-> g]
               IN  c \in Claim /\ c.doc = d /\ <<type, c.path>> \in Allowed
    BY <2>1 DEF Claim
  <2>2. j.agreed \subseteq {p \in Paths : <<type, p>> \in Allowed}
    BY <1>1, <1>2
  <2>3. \A c \in Accepted(d, type, answer, j) :
          \E p \in {q \in Paths : <<type, q>> \in Allowed}, g \in {"literal", "judged"} :
            c = [doc |-> d, path |-> p, grade |-> g]
    BY <2>2 DEF Accepted, PathAllowed
  <2>4. ASSUME NEW c \in Accepted(d, type, answer, j)
        PROVE  c \in Claim /\ c.doc = d /\ <<type, c.path>> \in Allowed
    <3>1. PICK p \in {q \in Paths : <<type, q>> \in Allowed}, g \in {"literal", "judged"} :
            c = [doc |-> d, path |-> p, grade |-> g]
      BY <2>3
    <3> QED
      BY <2>1, <3>1
  <2> QED
    BY <2>4
<1>4. Refused(d, answer, j) \subseteq Refusal
  <2>1. ASSUME NEW p \in Paths, NEW b \in BOOLEAN
        PROVE  [doc |-> d, path |-> p, notStated |-> b] \in Refusal
    BY DEF Refusal
  <2>2. j.refused \subseteq Paths
    BY <1>1, <1>2
  <2> QED
    BY <2>1, <2>2 DEF Refused
<1>5. Barred(type, answer) \subseteq Paths /\ JudgeFailure(j) \subseteq {"verify_judge"}
  BY DEF Barred, Found, JudgeFailure
<1> QED
  BY <1>3, <1>4, <1>5

(* What rounds add to the graph's state.                                   *)
LEMMA RoundState ==
  ASSUME TypeOK, NEW v \in SUBSET Claim, NEW r \in SUBSET Refusal, NEW m \in SUBSET Refusal,
         NEW b \in SUBSET (Docs \X Paths), NEW x \in SUBSET {"verify_judge"}
  PROVE  /\ [draft EXCEPT !.verified = @ \cup v, !.rejected = @ \cup r,
                          !.blocked = @ \cup b, !.exhausted = @ \cup x] \in RunState
         /\ [draft EXCEPT !.verified = @ \cup v, !.rejected = @ \cup r \cup m,
                          !.exhausted = @ \cup x] \in RunState
<1>1. draft \in RunState
  BY DEF TypeOK
<1>2. /\ draft.verified \cup v \subseteq Claim
      /\ draft.rejected \cup r \subseteq Refusal
      /\ draft.rejected \cup r \cup m \subseteq Refusal
      /\ draft.blocked \cup b \subseteq Docs \X Paths
      /\ draft.exhausted \cup x
           \subseteq {"classify", "extract", "verify_judge", "extract_retry", "examine"}
  BY <1>1 DEF RunState
<1> QED
  BY <1>1, <1>2 DEF RunState
----------------------------------------------------------------------------
(* Type correctness.                                                       *)

(* The initial state and rows have their shapes.                           *)
LEMMA TypeInit == Init => TypeOK
  BY EmptyType DEF Init, TypeOK, Stages, NoReport

(* Where the graph goes with a state of the right shape it keeps it.       *)
LEMMA GotoType ==
  ASSUME NEW stage \in Stages \cup {"end"}, NEW s \in RunState, Goto(stage, s)
  PROVE  /\ step' \in Stages \cup {"end"} /\ todo' \subseteq Docs
         /\ saved' \in RunState /\ draft' \in RunState
  BY OpeningType DEF Goto

(* Every round of every stage, every edge and every kill keeps the shapes. *)
LEMMA TypeStep == TypeOK /\ [Next]_vars => TypeOK'
<1> SUFFICES ASSUME TypeOK, [Next]_vars PROVE TypeOK'
  OBVIOUS
<1>1. ASSUME Intake PROVE TypeOK'
  <2>1. [draft EXCEPT !.hits = Poisoned] \in RunState
    BY DocsAssumption DEF TypeOK, RunState
  <2> QED
    BY <1>1, <2>1, GotoType DEF Intake, TypeOK, Stages
<1>2. ASSUME NEW d \in Docs, ClassifyDoc(d) PROVE TypeOK'
  <2>1. draft \in RunState
    BY DEF TypeOK
  <2>2. ASSUME NEW type \in DocTypes
        PROVE  [draft EXCEPT !.classified[d] = type] \in RunState
    BY <2>1 DEF RunState
  <2>3. [draft EXCEPT !.escalations = @ \cup {d}] \in RunState
    BY <2>1 DEF RunState
  <2>4. [draft EXCEPT !.escalations = @ \cup {d}, !.degraded = TRUE,
                      !.exhausted = @ \cup {"classify"}] \in RunState
    BY <2>1 DEF RunState
  <2>5. draft' \in RunState
    BY <1>2, <2>2, <2>3, <2>4 DEF ClassifyDoc
  <2>6. docStatus' \in [Docs -> {"received", "classified", "escalated", "extracted"}]
    BY <1>2 DEF ClassifyDoc, TypeOK, Marked
  <2> QED
    BY <1>2, <2>5, <2>6 DEF ClassifyDoc, TypeOK
<1>3. ASSUME ClassifyEnds PROVE TypeOK'
  BY <1>3, GotoType DEF ClassifyEnds, TypeOK, Stages
<1>4. ASSUME NEW d \in Docs, ExtractDoc(d) PROVE TypeOK'
  <2>1. draft' \in RunState
    <3>1. ASSUME NEW answer \in Answers,
                 NEW j \in Judgements(Unsettled(draft.classified[d], answer)),
                 draft' = [draft EXCEPT
                   !.verified = @ \cup Accepted(d, draft.classified[d], answer, j),
                   !.rejected = @ \cup Refused(d, answer, j),
                   !.blocked = @ \cup {<<d, p>> : p \in Barred(draft.classified[d], answer)},
                   !.exhausted = @ \cup JudgeFailure(j)]
          PROVE  draft' \in RunState
      <4>1. /\ Accepted(d, draft.classified[d], answer, j) \subseteq Claim
            /\ Refused(d, answer, j) \subseteq Refusal
            /\ Barred(draft.classified[d], answer) \subseteq Paths
            /\ JudgeFailure(j) \subseteq {"verify_judge"}
        BY RoundType
      <4>2. {<<d, p>> : p \in Barred(draft.classified[d], answer)} \subseteq Docs \X Paths
        BY <4>1
      <4> QED
        BY <3>1, <4>1, <4>2, RoundState
    <3>2. ASSUME draft' = [draft EXCEPT !.degraded = TRUE, !.exhausted = @ \cup {"extract"}]
          PROVE  draft' \in RunState
      BY <3>2 DEF TypeOK, RunState
    <3> QED
      BY <1>4, <3>1, <3>2 DEF ExtractDoc
  <2>2. docStatus' \in [Docs -> {"received", "classified", "escalated", "extracted"}]
    BY <1>4 DEF ExtractDoc, TypeOK, Marked
  <2> QED
    BY <1>4, <2>1, <2>2 DEF ExtractDoc, TypeOK
<1>5. ASSUME ExtractEnds PROVE TypeOK'
  <2>1. [draft EXCEPT !.retryPaths = {r.path : r \in Retryable(draft)}] \in RunState
    BY DEF TypeOK, RunState, Retryable, Refusal
  <2> QED
    BY <1>5, <2>1, GotoType DEF ExtractEnds, TypeOK, Stages
<1>6. ASSUME NEW d \in Docs, RetryDoc(d) PROVE TypeOK'
  <2>1. draft' \in RunState
    <3>1. ASSUME NEW answer \in Answers,
                 NEW j \in Judgements(Unsettled(draft.classified[d], answer)),
                 draft' = [draft EXCEPT
                   !.verified = @ \cup Accepted(d, draft.classified[d], answer, j),
                   !.rejected = @ \cup Refused(d, answer, j)
                                  \cup {[doc |-> d, path |-> p, notStated |-> FALSE] :
                                          p \in Barred(draft.classified[d], answer)},
                   !.exhausted = @ \cup JudgeFailure(j)]
          PROVE  draft' \in RunState
      <4>1. /\ Accepted(d, draft.classified[d], answer, j) \subseteq Claim
            /\ Refused(d, answer, j) \subseteq Refusal
            /\ Barred(draft.classified[d], answer) \subseteq Paths
            /\ JudgeFailure(j) \subseteq {"verify_judge"}
        BY RoundType
      <4>2. {[doc |-> d, path |-> p, notStated |-> FALSE] :
               p \in Barred(draft.classified[d], answer)} \subseteq Refusal
        <5>1. \A p \in Paths : [doc |-> d, path |-> p, notStated |-> FALSE] \in Refusal
          BY DEF Refusal
        <5> QED
          BY <4>1, <5>1
      <4> QED
        BY <3>1, <4>1, <4>2, RoundState
    <3>2. ASSUME draft' = [draft EXCEPT !.exhausted = @ \cup {"extract_retry"}]
          PROVE  draft' \in RunState
      BY <3>2 DEF TypeOK, RunState
    <3> QED
      BY <1>6, <3>1, <3>2 DEF RetryDoc
  <2> QED
    BY <1>6, <2>1 DEF RetryDoc, TypeOK
<1>7. ASSUME RetryEnds PROVE TypeOK'
  <2>1. [draft EXCEPT !.retryCount = @ + 1, !.retryPaths = {}] \in RunState
    <3>1. draft \in RunState /\ draft.retryCount + 1 \in Nat
      BY DEF TypeOK, RunState
    <3> QED
      BY <3>1 DEF RunState
  <2> QED
    BY <1>7, <2>1, GotoType DEF RetryEnds, TypeOK, Stages
<1>8. ASSUME Reconcile PROVE TypeOK'
  BY <1>8, GotoType DEF Reconcile, TypeOK, Stages
<1>9. ASSUME Examine PROVE TypeOK'
  <2>1. PICK judgeFailed \in BOOLEAN :
          Goto("gate", [draft EXCEPT
            !.findings = Findings(draft), !.degraded = Degraded(draft, judgeFailed),
            !.exhausted = @ \cup IF judgeFailed THEN {"examine"} ELSE {}])
    BY <1>9 DEF Examine
  <2>2. Findings(draft) \subseteq Finding
    BY DEF Findings, Hit, Finding, TypeOK, RunState
  <2>3. Degraded(draft, judgeFailed) \in BOOLEAN
    <3>1. draft.degraded \in BOOLEAN
      BY DEF TypeOK, RunState
    <3> QED
      BY <3>1 DEF Degraded
  <2>4. [draft EXCEPT
            !.findings = Findings(draft), !.degraded = Degraded(draft, judgeFailed),
            !.exhausted = @ \cup IF judgeFailed THEN {"examine"} ELSE {}] \in RunState
    BY <2>2, <2>3 DEF TypeOK, RunState
  <2> QED
    BY <1>9, <2>1, <2>4, GotoType DEF Examine, TypeOK, Stages
<1>10. ASSUME Gate PROVE TypeOK'
  <2>1. report' \in [written : BOOLEAN, findings : SUBSET Finding,
                     escalations : SUBSET Docs, unsupported : SUBSET Refusal]
    BY <1>10 DEF Gate, TypeOK, RunState
  <2>2. CASE Goto("end", draft) /\ UNCHANGED kills
    BY <1>10, <2>1, <2>2, GotoType DEF Gate, TypeOK
  <2>3. CASE kills' = kills + 1 /\ UNCHANGED <<step, todo, saved, draft>>
    BY <1>10, <2>1, <2>3 DEF Gate, TypeOK
  <2> QED
    BY <1>10, <2>2, <2>3 DEF Gate
<1>11. ASSUME Kill PROVE TypeOK'
  BY <1>11, GotoType, EmptyType DEF Kill, TypeOK, Stages
<1>12. CASE UNCHANGED vars
  BY <1>12 DEF TypeOK, vars
<1> QED
  BY <1>1, <1>2, <1>3, <1>4, <1>5, <1>6, <1>7, <1>8, <1>9, <1>10, <1>11, <1>12
     DEF Next, Work

(* The graph's state and the documents' rows keep their shape for any      *)
(* documents, types, paths and answers (agent/state.py RunState).          *)
THEOREM TypeCorrect == Spec => []TypeOK
  BY TypeInit, TypeStep, PTL DEF Spec
----------------------------------------------------------------------------
(* The write boundary.                                                     *)

Within(s) == \A c \in s.verified : <<s.classified[c.doc], c.path>> \in Allowed

(* Claims lie within the boundary of their document's type as it is at     *)
(* present; while documents are still being classified there are none.     *)
Bounded ==
  /\ Within(saved) /\ Within(draft)
  /\ step \in {"intake", "classify"} => saved.verified = {} /\ draft.verified = {}

(* At the start there are no claims.                                       *)
LEMMA BoundedInit == Init => Bounded
  BY DEF Init, Bounded, Within, EmptyState

(* A stage opens with the claims that are there, or with none.             *)
LEMMA OpeningBounded ==
  ASSUME NEW s \in RunState, Within(s), NEW stage,
         stage \in {"intake", "classify"} => s.verified = {}
  PROVE  /\ Within(Opening(stage, s))
         /\ stage \in {"intake", "classify"} => Opening(stage, s).verified = {}
<1>1. CASE stage = "classify"
  BY <1>1 DEF Opening, Within, RunState
<1>2. CASE stage = "extract"
  BY <1>2 DEF Opening, Within, RunState
<1>3. CASE stage = "extract_retry"
  BY <1>3 DEF Opening, Within, RunState
<1>4. CASE stage \notin {"classify", "extract", "extract_retry"}
  BY <1>4 DEF Opening
<1> QED
  BY <1>1, <1>2, <1>3, <1>4

(* Going on to a stage carries claims within the boundary along.           *)
LEMMA GotoBounded ==
  ASSUME NEW stage \in Stages \cup {"end"}, NEW s \in RunState, Goto(stage, s), Within(s),
         stage \in {"intake", "classify"} => s.verified = {}
  PROVE  Bounded'
  BY OpeningBounded DEF Goto, Bounded, Within

(* Only the two passes of extraction bring in claims, and both ask the     *)
(* boundary of the document's type.                                        *)
LEMMA BoundedStep == TypeOK /\ Bounded /\ [Next]_vars => Bounded'
<1> SUFFICES ASSUME TypeOK, Bounded, [Next]_vars PROVE Bounded'
  OBVIOUS
<1> USE DEF Bounded
<1>a. draft \in RunState /\ saved \in RunState
  BY DEF TypeOK
<1>1. ASSUME Intake PROVE Bounded'
  <2> DEFINE s == [draft EXCEPT !.hits = Poisoned]
  <2>1. s \in RunState /\ s.verified = draft.verified /\ s.classified = draft.classified
    BY <1>a, DocsAssumption DEF RunState
  <2>2. draft.verified = {}
    BY <1>1 DEF Intake
  <2>3. Within(s)
    BY <2>1, <2>2 DEF Within
  <2> QED
    BY <1>1, <2>1, <2>2, <2>3, GotoBounded DEF Intake, Stages
<1>2. ASSUME NEW d \in Docs, ClassifyDoc(d) PROVE Bounded'
  <2>1. draft.verified = {} /\ step' = step /\ saved' = saved
    BY <1>2 DEF ClassifyDoc
  <2>2. draft'.verified = draft.verified
    BY <1>2, <1>a DEF ClassifyDoc, RunState
  <2> QED
    BY <2>1, <2>2 DEF Within
<1>3. ASSUME ClassifyEnds PROVE Bounded'
  BY <1>3, <1>a, GotoBounded DEF ClassifyEnds, Stages
<1>4. ASSUME NEW d \in Docs, ExtractDoc(d) \/ RetryDoc(d) PROVE Bounded'
  <2>1. step' = step /\ step \notin {"intake", "classify"} /\ saved' = saved
    BY <1>4 DEF ExtractDoc, RetryDoc
  <2>2. draft'.classified = draft.classified
    BY <1>4, <1>a DEF ExtractDoc, RetryDoc, RunState
  <2>3. \/ draft'.verified = draft.verified
        \/ \E answer \in Answers :
             \E j \in Judgements(Unsettled(draft.classified[d], answer)) :
               draft'.verified
                 = draft.verified \cup Accepted(d, draft.classified[d], answer, j)
    BY <1>4, <1>a DEF ExtractDoc, RetryDoc, RunState
  <2>4. ASSUME NEW answer \in Answers,
               NEW j \in Judgements(Unsettled(draft.classified[d], answer)),
               NEW c \in Accepted(d, draft.classified[d], answer, j)
        PROVE  <<draft.classified[c.doc], c.path>> \in Allowed
    BY RoundType
  <2> QED
    BY <2>1, <2>2, <2>3, <2>4 DEF Within
<1>5. ASSUME ExtractEnds PROVE Bounded'
  <2> DEFINE s == [draft EXCEPT !.retryPaths = {r.path : r \in Retryable(draft)}]
  <2>1. s \in RunState /\ s.verified = draft.verified /\ s.classified = draft.classified
    BY <1>a DEF RunState, Retryable, Refusal
  <2> QED
    BY <1>5, <2>1, GotoBounded DEF ExtractEnds, Stages, Within
<1>6. ASSUME RetryEnds PROVE Bounded'
  <2> DEFINE s == [draft EXCEPT !.retryCount = @ + 1, !.retryPaths = {}]
  <2>1. draft.retryCount + 1 \in Nat
    BY <1>a DEF RunState
  <2>2. s \in RunState /\ s.verified = draft.verified /\ s.classified = draft.classified
    BY <1>a, <2>1 DEF RunState
  <2> QED
    BY <1>6, <2>2, GotoBounded DEF RetryEnds, Stages, Within
<1>7. ASSUME Reconcile PROVE Bounded'
  BY <1>7, <1>a, GotoBounded DEF Reconcile, Stages
<1>8. ASSUME Examine PROVE Bounded'
  <2> DEFINE s(f) == [draft EXCEPT
              !.findings = Findings(draft), !.degraded = Degraded(draft, f),
              !.exhausted = @ \cup IF f THEN {"examine"} ELSE {}]
  <2>1. PICK f \in BOOLEAN : Goto("gate", s(f))
    BY <1>8 DEF Examine
  <2>2. s(f).verified = draft.verified /\ s(f).classified = draft.classified
    BY <1>a DEF RunState
  <2>3. s(f) \in RunState
    BY <1>8, <2>1, TypeStep DEF Goto, TypeOK, Next, Work
  <2>4. Within(s(f))
    BY <2>2 DEF Within
  <2> HIDE DEF s
  <2> QED
    BY <2>1, <2>3, <2>4, GotoBounded DEF Stages
<1>9. ASSUME Gate PROVE Bounded'
  <2>1. CASE Goto("end", draft)
    BY <1>9, <1>a, <2>1, GotoBounded DEF Gate
  <2>2. CASE UNCHANGED <<step, todo, saved, draft>>
    BY <2>2 DEF Within
  <2> QED
    BY <1>9, <2>1, <2>2 DEF Gate
<1>10. ASSUME Kill PROVE Bounded'
  <2>1. Within(EmptyState) /\ EmptyState.verified = {}
    BY DEF Within, EmptyState
  <2>2. step \in Stages \cup {"end"}
    BY DEF TypeOK
  <2> QED
    BY <1>10, <1>a, <2>1, <2>2, EmptyType, GotoBounded DEF Kill, Stages
<1>11. CASE UNCHANGED vars
  BY <1>11 DEF Within, vars
<1> QED
  BY <1>1, <1>2, <1>3, <1>4, <1>5, <1>6, <1>7, <1>8, <1>9, <1>10, <1>11 DEF Next, Work

(* No claim that reaches reconciliation lies outside what its document's   *)
(* type may write (agent/state.py path_allowed).                           *)
THEOREM BoundaryHolds == Spec => []WriteBoundary
<1>1. Bounded => WriteBoundary
  BY DEF Bounded, Within, WriteBoundary
<1> QED
  BY <1>1, TypeInit, TypeStep, BoundedInit, BoundedStep, PTL DEF Spec
----------------------------------------------------------------------------
(* What is told at the end.                                                *)

Unmodelled == {"classify", "extract", "examine"}

Marks(s) == s.exhausted \cap Unmodelled # {} => s.degraded

(* The flag stands beside the failure from the step that set it.           *)
Kept == Marks(saved) /\ Marks(draft)

(* Opening a stage keeps the flag, the failures, the hits and the findings.*)
LEMMA OpeningKeeps ==
  ASSUME NEW s \in RunState, NEW stage
  PROVE  /\ Opening(stage, s).exhausted = s.exhausted
         /\ Opening(stage, s).degraded = s.degraded
         /\ Opening(stage, s).hits = s.hits
         /\ Opening(stage, s).findings = s.findings
<1>1. CASE stage = "classify"
  BY <1>1 DEF Opening, RunState
<1>2. CASE stage = "extract"
  BY <1>2 DEF Opening, RunState
<1>3. CASE stage = "extract_retry"
  BY <1>3 DEF Opening, RunState
<1>4. CASE stage \notin {"classify", "extract", "extract_retry"}
  BY <1>4 DEF Opening
<1> QED
  BY <1>1, <1>2, <1>3, <1>4

(* Going on to a stage keeps the flag beside the failure.                  *)
LEMMA GotoKept ==
  ASSUME NEW stage, NEW s \in RunState, Goto(stage, s), Marks(s)
  PROVE  Kept'
  BY OpeningKeeps DEF Goto, Kept, Marks

(* At the start nothing was done without the model.                        *)
LEMMA KeptInit == Init => Kept
  BY DEF Init, Kept, Marks, EmptyState

(* Classification and extraction set the flag with the failure; the judge  *)
(* adds its own to what was there; nothing takes it away.                  *)
LEMMA KeptStep == TypeOK /\ Kept /\ [Next]_vars => Kept'
<1> SUFFICES ASSUME TypeOK, Kept, [Next]_vars PROVE Kept'
  OBVIOUS
<1>a. draft \in RunState /\ saved \in RunState /\ Marks(draft) /\ Marks(saved)
  BY DEF TypeOK, Kept
<1>1. ASSUME Intake PROVE Kept'
  <2> DEFINE s == [draft EXCEPT !.hits = Poisoned]
  <2>1. s \in RunState /\ s.exhausted = draft.exhausted /\ s.degraded = draft.degraded
    BY <1>a, DocsAssumption DEF RunState
  <2>2. Marks(s)
    BY <1>a, <2>1 DEF Marks
  <2> QED
    BY <1>1, <2>1, <2>2, GotoKept DEF Intake
<1>2. ASSUME NEW d \in Docs, ClassifyDoc(d) PROVE Kept'
  <2>1. \/ draft'.exhausted = draft.exhausted /\ draft'.degraded = draft.degraded
        \/ draft'.degraded = TRUE
    BY <1>2, <1>a DEF ClassifyDoc, RunState
  <2> QED
    BY <1>2, <1>a, <2>1 DEF Kept, Marks, ClassifyDoc
<1>3. ASSUME ClassifyEnds PROVE Kept'
  BY <1>3, <1>a, GotoKept DEF ClassifyEnds
<1>4. ASSUME NEW d \in Docs, ExtractDoc(d) PROVE Kept'
  <2>1. \/ /\ draft'.degraded = draft.degraded
           /\ \E j : draft'.exhausted = draft.exhausted \cup JudgeFailure(j)
        \/ draft'.degraded = TRUE
    BY <1>4, <1>a DEF ExtractDoc, RunState
  <2>2. \A j : JudgeFailure(j) \subseteq {"verify_judge"}
    BY DEF JudgeFailure
  <2> QED
    BY <1>4, <1>a, <2>1, <2>2 DEF Kept, Marks, Unmodelled, ExtractDoc
<1>5. ASSUME ExtractEnds PROVE Kept'
  <2> DEFINE s == [draft EXCEPT !.retryPaths = {r.path : r \in Retryable(draft)}]
  <2>1. s \in RunState /\ s.exhausted = draft.exhausted /\ s.degraded = draft.degraded
    BY <1>a DEF RunState, Retryable, Refusal
  <2>2. Marks(s)
    BY <1>a, <2>1 DEF Marks
  <2> QED
    BY <1>5, <2>1, <2>2, GotoKept DEF ExtractEnds
<1>6. ASSUME NEW d \in Docs, RetryDoc(d) PROVE Kept'
  <2>1. /\ draft'.degraded = draft.degraded
        /\ \/ draft'.exhausted = draft.exhausted \cup {"extract_retry"}
           \/ \E j : draft'.exhausted = draft.exhausted \cup JudgeFailure(j)
    BY <1>6, <1>a DEF RetryDoc, RunState
  <2>2. \A j : JudgeFailure(j) \subseteq {"verify_judge"}
    BY DEF JudgeFailure
  <2> QED
    BY <1>6, <1>a, <2>1, <2>2 DEF Kept, Marks, Unmodelled, RetryDoc
<1>7. ASSUME RetryEnds PROVE Kept'
  <2> DEFINE s == [draft EXCEPT !.retryCount = @ + 1, !.retryPaths = {}]
  <2>1. draft.retryCount + 1 \in Nat
    BY <1>a DEF RunState
  <2>2. s \in RunState /\ s.exhausted = draft.exhausted /\ s.degraded = draft.degraded
    BY <1>a, <2>1 DEF RunState
  <2>3. Marks(s)
    BY <1>a, <2>2 DEF Marks
  <2> QED
    BY <1>7, <2>2, <2>3, GotoKept DEF RetryEnds
<1>8. ASSUME Reconcile PROVE Kept'
  BY <1>8, <1>a, GotoKept DEF Reconcile
<1>9. ASSUME Examine PROVE Kept'
  <2> DEFINE s(f) == [draft EXCEPT
              !.findings = Findings(draft), !.degraded = Degraded(draft, f),
              !.exhausted = @ \cup IF f THEN {"examine"} ELSE {}]
  <2>1. PICK f \in BOOLEAN : Goto("gate", s(f))
    BY <1>9 DEF Examine
  <2>2. /\ s(f).degraded <=> draft.degraded \/ f
        /\ s(f).exhausted = draft.exhausted \cup IF f THEN {"examine"} ELSE {}
    BY <1>a DEF RunState, Degraded
  <2>3. s(f) \in RunState
    BY <1>9, <2>1, TypeStep DEF Goto, TypeOK, Next, Work
  <2>4. Marks(s(f))
    BY <1>a, <2>2 DEF Marks
  <2> HIDE DEF s
  <2> QED
    BY <2>1, <2>3, <2>4, GotoKept
<1>10. ASSUME Gate PROVE Kept'
  <2>1. CASE Goto("end", draft)
    BY <1>a, <2>1, GotoKept
  <2>2. CASE UNCHANGED <<step, todo, saved, draft>>
    BY <1>a, <2>2 DEF Kept, Marks
  <2> QED
    BY <1>10, <2>1, <2>2 DEF Gate
<1>11. ASSUME Kill PROVE Kept'
  <2>1. Marks(EmptyState)
    BY DEF Marks, EmptyState
  <2> QED
    BY <1>11, <1>a, <2>1, EmptyType, GotoKept DEF Kill
<1>12. CASE UNCHANGED vars
  BY <1>12, <1>a DEF Kept, Marks, vars
<1> QED
  BY <1>1, <1>2, <1>3, <1>4, <1>5, <1>6, <1>7, <1>8, <1>9, <1>10, <1>11, <1>12
     DEF Next, Work

(* A run that had to classify, extract or judge without the model says so  *)
(* at its end (stage_examine, state["degraded"]).                          *)
THEOREM DegradationStays == Spec => []DegradationIsKept
<1>1. Kept => DegradationIsKept
  BY DEF Kept, Marks, Unmodelled, DegradationIsKept
<1> QED
  BY <1>1, TypeInit, TypeStep, KeptInit, KeptStep, PTL DEF Spec
----------------------------------------------------------------------------
(* The hits of intake.                                                     *)

(* Past intake the hits are in the state; at the gate, unless nothing was  *)
(* classified, they are findings; at the end, reported.                    *)
Carried ==
  /\ step # "intake" => saved.hits = Poisoned /\ draft.hits = Poisoned
  /\ step \in {"gate", "end"} => draft = saved
  /\ step = "gate" /\ Classified(saved) # {} => \A d \in Poisoned : Hit(d) \in saved.findings
  /\ HitsSurviveStages

(* At the start there are no hits to carry.                                *)
LEMMA CarriedInit == Init => Carried
  BY DEF Init, Carried, HitsSurviveStages

(* The graph goes to a stage other than the gate with the hits in hand.    *)
LEMMA GotoCarries ==
  ASSUME NEW stage \in Stages, stage # "gate", NEW s \in RunState, Goto(stage, s),
         stage # "intake" => s.hits = Poisoned
  PROVE  Carried'
  BY OpeningKeeps DEF Goto, Carried, HitsSurviveStages, Stages

(* What the gate reports is what the state carries to it.                  *)
LEMMA GotoGate ==
  ASSUME NEW s \in RunState, Goto("gate", s), s.hits = Poisoned,
         Classified(s) # {} => \A d \in Poisoned : Hit(d) \in s.findings
  PROVE  Carried'
<1>1. step' = "gate" /\ saved' = s /\ draft' = s
  BY DEF Goto, Opening
<1> QED
  BY <1>1 DEF Carried, HitsSurviveStages, Classified

(* Hits become findings in examine, which only runs without a classified   *)
(* document go around.                                                     *)
LEMMA CarriedStep == TypeOK /\ Carried /\ [Next]_vars => Carried'
<1> SUFFICES ASSUME TypeOK, Carried, [Next]_vars PROVE Carried'
  OBVIOUS
<1>a. draft \in RunState /\ saved \in RunState /\ step \in Stages \cup {"end"}
  BY DEF TypeOK
<1>1. ASSUME Intake PROVE Carried'
  <2> DEFINE s == [draft EXCEPT !.hits = Poisoned]
  <2>1. s \in RunState /\ s.hits = Poisoned
    BY <1>a, DocsAssumption DEF RunState
  <2> QED
    BY <1>1, <2>1, GotoCarries DEF Intake, Stages
<1>2. ASSUME NEW d \in Docs, ClassifyDoc(d) \/ ExtractDoc(d) \/ RetryDoc(d) PROVE Carried'
  <2>1. /\ step' = step /\ step \in {"classify", "extract", "extract_retry"}
        /\ saved' = saved
    BY <1>2 DEF ClassifyDoc, ExtractDoc, RetryDoc
  <2>2. draft'.hits = draft.hits
    BY <1>2, <1>a DEF ClassifyDoc, ExtractDoc, RetryDoc, RunState
  <2> QED
    BY <2>1, <2>2 DEF Carried, HitsSurviveStages
<1>3. ASSUME ClassifyEnds PROVE Carried'
  <2>1. draft.hits = Poisoned
    BY <1>3 DEF ClassifyEnds, Carried
  <2>2. CASE Classified(draft) # {}
    BY <1>3, <1>a, <2>1, <2>2, GotoCarries DEF ClassifyEnds, Stages
  <2>3. CASE Classified(draft) = {}
    BY <1>3, <1>a, <2>1, <2>3, GotoGate DEF ClassifyEnds
  <2> QED
    BY <2>2, <2>3
<1>4. ASSUME ExtractEnds PROVE Carried'
  <2> DEFINE s == [draft EXCEPT !.retryPaths = {r.path : r \in Retryable(draft)}]
  <2>1. s \in RunState /\ s.hits = draft.hits
    BY <1>a DEF RunState, Retryable, Refusal
  <2>2. draft.hits = Poisoned
    BY <1>4 DEF ExtractEnds, Carried
  <2>3. PICK stage \in {"extract_retry", "reconcile"} : Goto(stage, s)
    BY <1>4 DEF ExtractEnds
  <2> HIDE DEF s
  <2> QED
    BY <2>1, <2>2, <2>3, GotoCarries DEF Stages
<1>5. ASSUME RetryEnds PROVE Carried'
  <2> DEFINE s == [draft EXCEPT !.retryCount = @ + 1, !.retryPaths = {}]
  <2>1. draft.retryCount + 1 \in Nat
    BY <1>a DEF RunState
  <2>2. s \in RunState /\ s.hits = draft.hits
    BY <1>a, <2>1 DEF RunState
  <2>3. draft.hits = Poisoned
    BY <1>5 DEF RetryEnds, Carried
  <2> QED
    BY <1>5, <2>2, <2>3, GotoCarries DEF RetryEnds, Stages
<1>6. ASSUME Reconcile PROVE Carried'
  <2>1. draft.hits = Poisoned
    BY <1>6 DEF Reconcile, Carried
  <2> QED
    BY <1>6, <1>a, <2>1, GotoCarries DEF Reconcile, Stages
<1>7. ASSUME Examine PROVE Carried'
  <2> DEFINE s(f) == [draft EXCEPT
              !.findings = Findings(draft), !.degraded = Degraded(draft, f),
              !.exhausted = @ \cup IF f THEN {"examine"} ELSE {}]
  <2>1. PICK f \in BOOLEAN : Goto("gate", s(f))
    BY <1>7 DEF Examine
  <2>2. draft.hits = Poisoned
    BY <1>7 DEF Examine, Carried
  <2>3. s(f).hits = Poisoned /\ s(f).findings = Findings(draft)
    BY <1>a, <2>2 DEF RunState
  <2>4. \A d \in Poisoned : Hit(d) \in Findings(draft)
    BY <2>2 DEF Findings
  <2>5. s(f) \in RunState
    BY <1>7, <2>1, TypeStep DEF Goto, TypeOK, Next, Work
  <2> HIDE DEF s
  <2> QED
    BY <2>1, <2>3, <2>4, <2>5, GotoGate
<1>8. ASSUME Gate PROVE Carried'
  <2>1. step = "gate" /\ draft = saved /\ draft.findings \subseteq report'.findings
    BY <1>8 DEF Gate, Carried
  <2>2. CASE Goto("end", draft)
    <3>1. step' = "end" /\ saved' = saved /\ draft' = saved
      BY <2>1, <2>2 DEF Goto, Opening
    <3> QED
      BY <2>1, <3>1 DEF Carried, HitsSurviveStages, Classified
  <2>3. CASE UNCHANGED <<step, todo, saved, draft>>
    BY <2>1, <2>3 DEF Carried, HitsSurviveStages, Classified
  <2> QED
    BY <1>8, <2>2, <2>3 DEF Gate
<1>9. ASSUME Kill PROVE Carried'
  <2>1. CASE Goto("intake", EmptyState)
    BY <2>1, EmptyType, GotoCarries DEF Stages
  <2>2. CASE Goto(step, saved) /\ step = "gate"
    BY <1>a, <2>2, GotoGate DEF Carried
  <2>3. CASE Goto(step, saved) /\ step # "gate"
    <3>1. step \in Stages /\ (step # "intake" => saved.hits = Poisoned)
      BY <1>9, <1>a DEF Kill, Carried
    <3> QED
      BY <1>a, <2>3, <3>1, GotoCarries
  <2> QED
    BY <1>9, <2>1, <2>2, <2>3 DEF Kill
<1>10. CASE UNCHANGED vars
  BY <1>10 DEF Carried, HitsSurviveStages, Classified, vars
<1> QED
  BY <1>1, <1>2, <1>3, <1>4, <1>5, <1>6, <1>7, <1>8, <1>9, <1>10 DEF Next, Work

(* In a run that has classified anything, every document with instructions *)
(* in it is reported, whatever fails on the way (stage_intake).            *)
THEOREM HitsReported == Spec => []HitsSurviveStages
<1>1. Carried => HitsSurviveStages
  BY DEF Carried
<1> QED
  BY <1>1, TypeInit, TypeStep, CarriedInit, CarriedStep, PTL DEF Spec
----------------------------------------------------------------------------
(* The documents' rows.                                                    *)

Late == {"extract_retry", "reconcile", "examine", "gate", "end"}

(* Every document is either classified or handed to a person, and its row  *)
(* says so if it was.                                                      *)
Sorted(s) ==
  \A d \in Docs :
    /\ d \in Classified(s) <=> d \notin s.escalations
    /\ d \in s.escalations => docStatus[d] = "escalated"

Extracted(s) == \A d \in Classified(s) : docStatus[d] = "extracted"

(* Behind classification and extraction, and behind the rounds of either   *)
(* that are done, the rows tell what this execution made of the documents; *)
(* what other executions wrote stands only where rounds are to come.       *)
Told ==
  /\ step = "classify" =>
       /\ \A d \in todo : d \notin Classified(draft) /\ d \notin draft.escalations
       /\ \A d \in Docs \ todo :
            /\ d \in Classified(draft) <=> d \notin draft.escalations
            /\ d \in draft.escalations => docStatus[d] = "escalated"
  /\ step \notin {"intake", "classify"} =>
       /\ Sorted(saved)
       /\ draft.classified = saved.classified /\ draft.escalations = saved.escalations
  /\ step = "extract" =>
       /\ todo \subseteq Classified(saved)
       /\ \A d \in Classified(saved) \ todo : docStatus[d] = "extracted"
  /\ step \in Late => Extracted(saved)

(* At the start the rows tell nothing yet.                                 *)
LEMMA ToldInit == Init => Told
  BY DEF Init, Told, Late

(* Stages other than classification open with what was classified and      *)
(* handed over.                                                            *)
LEMMA OpeningTells ==
  ASSUME NEW s \in RunState, NEW stage, stage # "classify"
  PROVE  /\ Opening(stage, s).classified = s.classified
         /\ Opening(stage, s).escalations = s.escalations
<1>1. CASE stage = "extract"
  BY <1>1 DEF Opening, RunState
<1>2. CASE stage = "extract_retry"
  BY <1>2 DEF Opening, RunState
<1>3. CASE stage \notin {"extract", "extract_retry"}
  BY <1>3 DEF Opening
<1> QED
  BY <1>1, <1>2, <1>3

(* Going on, the rows tell what the stages so far made of the documents.   *)
LEMMA GotoTells ==
  ASSUME NEW stage \in Stages \cup {"end"}, NEW s \in RunState, Goto(stage, s),
         UNCHANGED docStatus,
         stage \notin {"intake", "classify"} => Sorted(s),
         stage \in Late => Extracted(s)
  PROVE  Told'
<1>1. step' = stage /\ saved' = s /\ draft' = Opening(stage, s) /\ todo' = Rounds(stage, s)
  BY DEF Goto
<1>2. CASE stage = "intake"
  BY <1>1, <1>2 DEF Told, Late
<1>3. CASE stage = "classify"
  <2>1. todo' = Docs
    BY <1>1, <1>3 DEF Rounds
  <2>2. draft'.classified = EmptyState.classified /\ draft'.escalations = {}
    BY <1>1, <1>3 DEF Opening, RunState
  <2>3. \A d \in Docs : draft'.classified[d] = Unclassified
    BY <2>2 DEF EmptyState
  <2> QED
    BY <1>1, <1>3, <2>1, <2>2, <2>3 DEF Told, Late, Classified
<1>4. CASE stage \notin {"intake", "classify"}
  <2>1. draft'.classified = saved'.classified /\ draft'.escalations = saved'.escalations
    BY <1>1, <1>4, OpeningTells
  <2>2. Sorted(saved)' /\ (stage \in Late => Extracted(saved)')
    BY <1>1, <1>4 DEF Sorted, Extracted, Classified
  <2>3. stage = "extract" => todo' = Classified(saved')
    BY <1>1 DEF Rounds, Classified
  <2> QED
    BY <1>1, <1>4, <2>1, <2>2, <2>3 DEF Told, Late, Classified
<1> QED
  BY <1>2, <1>3, <1>4

(* A round writes the row of its own document only; an edge leaves a stage *)
(* only when its rounds are done; a kill does them again.                  *)
LEMMA ToldStep == TypeOK /\ Told /\ [Next]_vars => Told'
<1> SUFFICES ASSUME TypeOK, Told, [Next]_vars PROVE Told'
  OBVIOUS
<1>a. /\ draft \in RunState /\ saved \in RunState /\ step \in Stages \cup {"end"}
      /\ todo \subseteq Docs
      /\ docStatus \in [Docs -> {"received", "classified", "escalated", "extracted"}]
  BY DEF TypeOK
<1>1. ASSUME Intake PROVE Told'
  <2>1. [draft EXCEPT !.hits = Poisoned] \in RunState
    BY <1>a, DocsAssumption DEF RunState
  <2> QED
    BY <1>1, <2>1, GotoTells DEF Intake, Stages, Late
<1>2. ASSUME NEW d \in Docs, ClassifyDoc(d) PROVE Told'
  <2>1. step = "classify" /\ step' = "classify" /\ d \in todo /\ todo' = todo \ {d}
    BY <1>2 DEF ClassifyDoc, Turn
  <2>2. \/ /\ \E type \in DocTypes :
                draft'.classified = [draft.classified EXCEPT ![d] = type]
           /\ draft'.escalations = draft.escalations
           /\ docStatus' = [docStatus EXCEPT ![d] = "classified"]
        \/ /\ draft'.classified = draft.classified
           /\ draft'.escalations = draft.escalations \cup {d}
           /\ docStatus' = [docStatus EXCEPT ![d] = "escalated"]
    BY <1>2, <1>a DEF ClassifyDoc, RunState, Marked
  <2>3. draft.classified \in [Docs -> DocTypes \cup {Unclassified}]
    BY <1>a DEF RunState
  <2>4. draft.classified[d] = Unclassified /\ d \notin draft.escalations
    BY <1>a, <2>1 DEF Told, Classified
  <2>5. \A e \in Docs \ {d} :
          /\ draft'.classified[e] = draft.classified[e]
          /\ e \in draft'.escalations <=> e \in draft.escalations
          /\ docStatus'[e] = docStatus[e]
    BY <1>a, <2>2, <2>3
  <2>6. \/ /\ draft'.classified[d] # Unclassified
           /\ d \notin draft'.escalations
        \/ /\ draft'.classified[d] = Unclassified
           /\ d \in draft'.escalations
           /\ docStatus'[d] = "escalated"
    BY <1>a, <2>2, <2>3, <2>4, UnclassifiedAssumption
  <2> QED
    BY <1>a, <2>1, <2>5, <2>6 DEF Told, Late, Classified
<1>3. ASSUME ClassifyEnds PROVE Told'
  <2>1. Sorted(draft)
    BY <1>3 DEF ClassifyEnds, Told, Sorted
  <2>2. CASE Classified(draft) # {}
    BY <1>3, <1>a, <2>1, <2>2, GotoTells DEF ClassifyEnds, Stages, Late
  <2>3. CASE Classified(draft) = {}
    <3>1. Extracted(draft)
      BY <2>3 DEF Extracted
    <3> QED
      BY <1>3, <1>a, <2>1, <2>3, <3>1, GotoTells DEF ClassifyEnds, Stages
  <2> QED
    BY <2>2, <2>3
<1>4. ASSUME NEW d \in Docs, ExtractDoc(d) PROVE Told'
  <2>1. /\ step = "extract" /\ step' = "extract" /\ d \in todo /\ todo' = todo \ {d}
        /\ saved' = saved
    BY <1>4 DEF ExtractDoc, Turn
  <2>2. draft'.classified = draft.classified /\ draft'.escalations = draft.escalations
    BY <1>4, <1>a DEF ExtractDoc, RunState
  <2>3. /\ docStatus'[d] = "extracted"
        /\ \A e \in Docs \ {d} : docStatus'[e] = docStatus[e]
    BY <1>4, <1>a DEF ExtractDoc, Marked
  <2>4. d \in Classified(saved) /\ d \notin saved.escalations
    BY <2>1 DEF Told, Sorted
  <2>5. Sorted(saved)'
    BY <2>1, <2>3, <2>4 DEF Told, Sorted, Classified
  <2>6. \A e \in Classified(saved') \ todo' : docStatus'[e] = "extracted"
    BY <2>1, <2>3 DEF Told, Classified
  <2> QED
    BY <2>1, <2>2, <2>5, <2>6 DEF Told, Late, Classified
<1>5. ASSUME ExtractEnds PROVE Told'
  <2> DEFINE s == [draft EXCEPT !.retryPaths = {r.path : r \in Retryable(draft)}]
  <2>1. /\ s \in RunState
        /\ s.classified = draft.classified /\ s.escalations = draft.escalations
    BY <1>a DEF RunState, Retryable, Refusal
  <2>2. Sorted(s) /\ Extracted(s)
    BY <1>5, <2>1 DEF ExtractEnds, Told, Sorted, Extracted, Classified
  <2>3. PICK stage \in {"extract_retry", "reconcile"} : Goto(stage, s)
    BY <1>5 DEF ExtractEnds
  <2> HIDE DEF s
  <2> QED
    BY <1>5, <2>1, <2>2, <2>3, GotoTells DEF ExtractEnds, Stages
<1>6. ASSUME NEW d \in Docs, RetryDoc(d) PROVE Told'
  <2>1. /\ step = "extract_retry" /\ step' = step
        /\ saved' = saved /\ docStatus' = docStatus
    BY <1>6 DEF RetryDoc
  <2>2. draft'.classified = draft.classified /\ draft'.escalations = draft.escalations
    BY <1>6, <1>a DEF RetryDoc, RunState
  <2> QED
    BY <2>1, <2>2 DEF Told, Sorted, Extracted, Classified, Late
<1>7. ASSUME step \in Late \ {"end"} PROVE Sorted(draft) /\ Extracted(draft)
  BY <1>7 DEF Told, Sorted, Extracted, Classified, Late
<1>8. ASSUME RetryEnds PROVE Told'
  <2> DEFINE s == [draft EXCEPT !.retryCount = @ + 1, !.retryPaths = {}]
  <2>1. draft.retryCount + 1 \in Nat
    BY <1>a DEF RunState
  <2>2. /\ s \in RunState
        /\ s.classified = draft.classified /\ s.escalations = draft.escalations
    BY <1>a, <2>1 DEF RunState
  <2>3. Sorted(s) /\ Extracted(s)
    BY <1>7, <1>8, <2>2 DEF RetryEnds, Sorted, Extracted, Classified, Late
  <2> QED
    BY <1>8, <2>2, <2>3, GotoTells DEF RetryEnds, Stages
<1>9. ASSUME Reconcile PROVE Told'
  BY <1>7, <1>9, <1>a, GotoTells DEF Reconcile, Stages, Late
<1>10. ASSUME Examine PROVE Told'
  <2> DEFINE s(f) == [draft EXCEPT
              !.findings = Findings(draft), !.degraded = Degraded(draft, f),
              !.exhausted = @ \cup IF f THEN {"examine"} ELSE {}]
  <2>1. PICK f \in BOOLEAN : Goto("gate", s(f))
    BY <1>10 DEF Examine
  <2>2. s(f).classified = draft.classified /\ s(f).escalations = draft.escalations
    BY <1>a DEF RunState
  <2>3. s(f) \in RunState
    BY <1>10, <2>1, TypeStep DEF Goto, TypeOK, Next, Work
  <2> HIDE DEF s
  <2>4. Sorted(s(f)) /\ Extracted(s(f))
    BY <1>7, <1>10, <2>2 DEF Examine, Sorted, Extracted, Classified, Late
  <2> QED
    BY <1>10, <2>1, <2>3, <2>4, GotoTells DEF Examine, Stages
<1>11. ASSUME Gate PROVE Told'
  <2>1. CASE Goto("end", draft)
    BY <1>7, <1>11, <1>a, <2>1, GotoTells DEF Gate, Late
  <2>2. CASE UNCHANGED <<step, todo, saved, draft>>
    BY <1>11, <2>2 DEF Gate, Told, Sorted, Extracted, Classified, Late
  <2> QED
    BY <1>11, <2>1, <2>2 DEF Gate
<1>12. ASSUME Kill PROVE Told'
  <2>1. CASE Goto("intake", EmptyState)
    BY <1>12, <2>1, EmptyType, GotoTells DEF Kill, Stages, Late
  <2>2. CASE Goto(step, saved)
    <3>1. step \notin {"intake", "classify"} => Sorted(saved)
      BY DEF Told
    <3>2. step \in Late => Extracted(saved)
      BY DEF Told
    <3> QED
      BY <1>12, <1>a, <2>2, <3>1, <3>2, GotoTells DEF Kill
  <2> QED
    BY <1>12, <2>1, <2>2 DEF Kill
<1>13. CASE UNCHANGED vars
  BY <1>13 DEF Told, Sorted, Extracted, Classified, vars
<1> QED
  BY <1>1, <1>2, <1>3, <1>4, <1>5, <1>6, <1>8, <1>9, <1>10, <1>11, <1>12, <1>13
     DEF Next, Work

(* At the end of a run every document's row tells what this run made of    *)
(* it, whatever executions that were killed had written there              *)
(* (stage_classify, stage_extract).                                        *)
THEOREM RowsTell == Spec => []StatusTellsOutcome
<1>1. Told => StatusTellsOutcome
  <2> SUFFICES ASSUME Told, step = "end", NEW d \in Docs
               PROVE  docStatus[d] = IF d \in saved.escalations THEN "escalated"
                                     ELSE "extracted"
    BY DEF StatusTellsOutcome
  <2> QED
    BY DEF Told, Sorted, Extracted, Late
<1> QED
  BY <1>1, TypeInit, TypeStep, ToldInit, ToldStep, PTL DEF Spec
----------------------------------------------------------------------------
(* The safety half of ReachesGate: work goes forward.                      *)

(* How far along the graph a stage is.                                     *)
Rank(stage) ==
  CASE stage = "intake"        -> 1
    [] stage = "classify"      -> 2
    [] stage = "extract"       -> 3
    [] stage = "extract_retry" -> 4
    [] stage = "reconcile"     -> 5
    [] stage = "examine"       -> 6
    [] stage = "gate"          -> 7
    [] stage = "end"           -> 8

(* Whatever the model answers, a step of the run that no kill undoes leads *)
(* to a later stage or leaves fewer documents to go over in this one: the  *)
(* graph has no way back, and no loop of a stage visits a document twice   *)
(* (route_after_classify, route_after_extract).                            *)
WorkGoesForward ==
  [][kills' = kills =>
       \/ Rank(step) < Rank(step')
       \/ step' = step /\ todo' \subseteq todo /\ todo' # todo]_vars

(* Each edge goes up, each round takes a document off.                     *)
LEMMA ForwardStep ==
  ASSUME TypeOK, Next, kills' = kills
  PROVE  \/ Rank(step) < Rank(step')
         \/ step' = step /\ todo' \subseteq todo /\ todo' # todo
<1>1. ~Kill
  BY DEF Kill, TypeOK
<1>2. CASE Intake \/ ClassifyEnds \/ ExtractEnds \/ RetryEnds \/ Reconcile \/ Examine
  <2>1. CASE Intake
    BY <2>1 DEF Intake, Goto, Rank
  <2>2. CASE ClassifyEnds
    BY <2>2 DEF ClassifyEnds, Goto, Rank
  <2>3. CASE ExtractEnds
    BY <2>3 DEF ExtractEnds, Goto, Rank
  <2>4. CASE RetryEnds
    BY <2>4 DEF RetryEnds, Goto, Rank
  <2>5. CASE Reconcile
    BY <2>5 DEF Reconcile, Goto, Rank
  <2>6. CASE Examine
    <3>1. step = "examine" /\ step' = "gate"
      BY <2>6 DEF Examine, Goto
    <3> QED
      BY <3>1 DEF Rank
  <2> QED
    BY <1>2, <2>1, <2>2, <2>3, <2>4, <2>5, <2>6
<1>3. CASE Gate
  <2>1. kills < MaxKills /\ kills' = kills + 1 => FALSE
    BY DEF TypeOK
  <2> QED
    BY <1>3, <2>1 DEF Gate, Goto, Rank
<1>4. ASSUME NEW d \in Docs, ClassifyDoc(d) \/ ExtractDoc(d) \/ RetryDoc(d)
      PROVE  step' = step /\ todo' \subseteq todo /\ todo' # todo
  BY <1>4 DEF ClassifyDoc, ExtractDoc, RetryDoc, Turn
<1> QED
  BY <1>1, <1>2, <1>3, <1>4 DEF Next, Work

(* No step of the run goes back or round in circles, for any number of     *)
(* documents and any answers.                                              *)
THEOREM WorkForward == Spec => WorkGoesForward
<1>1. TypeOK /\ [Next]_vars =>
        [kills' = kills => \/ Rank(step) < Rank(step')
                           \/ step' = step /\ todo' \subseteq todo /\ todo' # todo]_vars
  BY ForwardStep
<1> QED
  BY <1>1, TypeInit, TypeStep, PTL DEF Spec, WorkGoesForward
=============================================================================
