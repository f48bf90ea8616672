------------------------------ MODULE Pipeline ------------------------------
(***************************************************************************)
(* The stages of one run before its proposals reach the gate               *)
(* (agent/stages.py stage_intake to stage_gate): documents are scanned,    *)
(* classified, extracted from, verified and, once, asked about again; each *)
(* stage goes over its documents one by one, writes their rows as it goes  *)
(* and returns its results to the graph's state at the end.                *)
(*                                                                         *)
(* Covered: every model call answered or exhausted (llm/client.py          *)
(* ModelUnavailableError); what a failure does to the rest of the run; the *)
(* write boundary; a judge that fails half way through a document; a       *)
(* worker killed within a stage, after which the stage starts over from    *)
(* the checkpoint, or between two stages, after which the graph may start  *)
(* afresh over document rows already written.                              *)
(*                                                                         *)
(* Abstracted: an answer says, of a path, how its quote relates to the     *)
(* document; the values are left out.  Of the findings, those the rules    *)
(* and the judge's questions make are left out.  What stage_reconcile and  *)
(* the gate make of the verified claims is module Gate.                    *)
(***************************************************************************)
EXTENDS Naturals

CONSTANTS
  MaxDocs,       \* bound: documents of the run, numbered as it lists them
  DocTypes,      \* document types other than unknown
  Paths,         \* field paths
  Allowed,       \* ALLOWED_PATTERNS: the pairs <<doc type, path>> that match
  Poisoned,      \* documents with instruction-shaped text
  Answers,       \* what the extractor may answer: a quote for each path
  Unclassified,  \* the type of a document that has none
  MaxKills       \* bound: times the worker is killed

Docs == 1 .. MaxDocs

(* How an answer's quote relates to the document: it states the value; it  *)
(* is there, but the value is not literally in it; it is not there (or the *)
(* path is a placeholder); it stands for "not stated"; there is none.      *)
Quotes == {"states", "paraphrases", "absent", "sentinel", "silent"}

ASSUME DocsAssumption == MaxDocs \in Nat /\ Poisoned \subseteq Docs
ASSUME AnswersAssumption == Answers \subseteq [Paths -> Quotes]
ASSUME AllowedAssumption == Allowed \subseteq DocTypes \X Paths
ASSUME UnclassifiedAssumption == Unclassified \notin DocTypes
ASSUME KillsAssumption == MaxKills \in Nat

VARIABLES
  step,       \* the stage in progress, or "end"
  todo,       \* the documents it still has to go over
  saved,      \* the graph's state as checkpointed
  draft,      \* that state as the stage in progress would leave it
  docStatus,  \* SourceDocument.status
  report,     \* what the gate has written for people to see
  kills       \* history: times the worker was killed

vars == <<step, todo, saved, draft, docStatus, report, kills>>

Stages == {"intake", "classify", "extract", "extract_retry", "reconcile", "examine",
           "gate"}
Claim == [doc : Docs, path : Paths, grade : {"literal", "judged"}]
Finding == [rule : {"INSTRUCTION_IN_SOURCE", "OUT_OF_SCOPE_WRITE"}, doc : Docs]
Refusal == [doc : Docs, path : Paths, notStated : BOOLEAN]

(* agent/state.py RunState.  exhausted is a history: the stages one of     *)
(* whose model calls was exhausted.                                        *)
RunState ==
  [hits : SUBSET Docs, classified : [Docs -> DocTypes \cup {Unclassified}],
   escalations : SUBSET Docs, verified : SUBSET Claim, rejected : SUBSET Refusal,
   blocked : SUBSET (Docs \X Paths), retryPaths : SUBSET Paths, retryCount : Nat,
   findings : SUBSET Finding, degraded : BOOLEAN,
   exhausted : SUBSET {"classify", "extract", "verify_judge", "extract_retry", "examine"}]

EmptyState ==
  [hits |-> {}, classified |-> [d \in Docs |-> Unclassified], escalations |-> {},
   verified |-> {}, rejected |-> {}, blocked |-> {}, retryPaths |-> {}, retryCount |-> 0,
   findings |-> {}, degraded |-> FALSE, exhausted |-> {}]

Classified(s) == {d \in Docs : s.classified[d] # Unclassified}

(* The refusals that are worth asking again about.                         *)
Retryable(s) == {r \in s.rejected : ~r.notStated}

(* Where a stage starts: what it does not carry over from the state, and   *)
(* the documents it goes over.                                             *)
Opening(stage, s) ==
  CASE stage = "classify" ->
         [s EXCEPT !.classified = EmptyState.classified, !.escalations = {}]
    [] stage = "extract" -> [s EXCEPT !.verified = {}, !.rejected = {}, !.blocked = {}]
    [] stage = "extract_retry" -> [s EXCEPT !.rejected = @ \ Retryable(s)]
    [] OTHER -> s

Rounds(stage, s) ==
  CASE stage = "classify" -> Docs
    [] stage = "extract" -> Classified(s)
    [] stage = "extract_retry" -> {r.doc : r \in Retryable(s)}
    [] OTHER -> {}

NoReport == [written |-> FALSE, findings |-> {}, escalations |-> {}, unsupported |-> {}]

(* The checkpoint is s and the graph is at the given stage.                *)
Goto(stage, s) ==
  /\ step' = stage
  /\ saved' = s
  /\ draft' = Opening(stage, s)
  /\ todo' = Rounds(stage, s)

Init ==
  /\ step = "intake"
  /\ saved = EmptyState
  /\ draft = EmptyState
  /\ todo = {}
  /\ docStatus = [d \in Docs |-> "received"]
  /\ report = NoReport
  /\ kills = 0
----------------------------------------------------------------------------
(* intake and classify.                                                    *)

(* stage_intake.                                                           *)
Intake ==
  /\ step = "intake"
  /\ Goto("classify", [draft EXCEPT !.hits = Poisoned])
  /\ UNCHANGED <<docStatus, report, kills>>

(* The next document of the loop.                                          *)
Turn(d) == d \in todo /\ \A e \in todo : d <= e

(* Mutant: a document that has been extracted from keeps its status.       *)
Marked_Once(d, status) ==
  [docStatus EXCEPT ![d] = IF @ = "extracted" THEN @ ELSE status]

Marked(d, status) == [docStatus EXCEPT ![d] = status]

(* One round of stage_classify.  A document the model calls unknown, is    *)
(* not sure enough of or cannot be asked about goes to a person.           *)
ClassifyDoc(d) ==
  /\ step = "classify" /\ Turn(d)
  /\ \/ \E type \in DocTypes :
          /\ draft' = [draft EXCEPT !.classified[d] = type]
          /\ docStatus' = Marked(d, "classified")
     \/ /\ draft' = [draft EXCEPT !.escalations = @ \cup {d}]
        /\ docStatus' = Marked(d, "escalated")
     \/ /\ draft' = [draft EXCEPT !.escalations = @ \cup {d}, !.degraded = TRUE,
                                  !.exhausted = @ \cup {"classify"}]
        /\ docStatus' = Marked(d, "escalated")
  /\ todo' = todo \ {d}
  /\ UNCHANGED <<step, saved, report, kills>>

(* route_after_classify.                                                   *)
ClassifyEnds ==
  /\ step = "classify" /\ todo = {}
  /\ Goto(IF Classified(draft) # {} THEN "extract" ELSE "gate", draft)
  /\ UNCHANGED <<docStatus, report, kills>>
----------------------------------------------------------------------------
(* extract and extract_retry.                                              *)

(* Mutant: the write boundary is not there.                                *)
PathAllowed_Any(type, p) == TRUE

(* agent/state.py path_allowed.                                            *)
PathAllowed(type, p) == <<type, p>> \in Allowed

(* What the judge may make of the paths put to it (apply_judgement): it    *)
(* agrees on some and not on the others; or it fails at one of them, and   *)
(* then all of them are refused, those it had agreed on too                *)
(* (reject_unjudged).                                                      *)
Judgements(put) ==
  {[agreed |-> a, refused |-> put \ a, failed |-> FALSE] : a \in SUBSET put}
  \cup {[agreed |-> a, refused |-> put, failed |-> TRUE] : a \in (SUBSET put) \ {put}}

(* What _extract_once makes of an answer about a document of a type: found *)
(* quotes pass the write boundary, then the deterministic grades, then the *)
(* judge.                                                                  *)
Found(answer) == {p \in Paths : answer[p] \in {"states", "paraphrases"}}
Barred(type, answer) == {p \in Found(answer) : ~PathAllowed(type, p)}
Unsettled(type, answer) ==
  {p \in Paths : answer[p] = "paraphrases" /\ PathAllowed(type, p)}
Accepted(d, type, answer, j) ==
  {[doc |-> d, path |-> p, grade |-> "literal"] :
     p \in {q \in Paths : answer[q] = "states" /\ PathAllowed(type, q)}}
  \cup {[doc |-> d, path |-> p, grade |-> "judged"] : p \in j.agreed}
Refused(d, answer, j) ==
  {[doc |-> d, path |-> p, notStated |-> FALSE] :
     p \in {q \in Paths : answer[q] = "absent"} \cup j.refused}
  \cup {[doc |-> d, path |-> p, notStated |-> TRUE] :
          p \in {q \in Paths : answer[q] = "sentinel"}}

JudgeFailure(j) == IF j.failed THEN {"verify_judge"} ELSE {}

(* One round of stage_extract.                                             *)
ExtractDoc(d) ==
  LET type == draft.classified[d] IN
  /\ step = "extract" /\ Turn(d)
  /\ \/ \E answer \in Answers : \E j \in Judgements(Unsettled(type, answer)) :
          draft' = [draft EXCEPT
            !.verified = @ \cup Accepted(d, type, answer, j),
            !.rejected = @ \cup Refused(d, answer, j),
            !.blocked = @ \cup {<<d, p>> : p \in Barred(type, answer)},
            !.exhausted = @ \cup JudgeFailure(j)]
     \/ draft' = [draft EXCEPT !.degraded = TRUE, !.exhausted = @ \cup {"extract"}]
  /\ docStatus' = Marked(d, "extracted")
  /\ todo' = todo \ {d}
  /\ UNCHANGED <<step, saved, report, kills>>

(* The end of stage_extract, and route_after_extract.                      *)
ExtractEnds ==
  LET s == [draft EXCEPT !.retryPaths = {r.path : r \in Retryable(draft)}] IN
  /\ step = "extract" /\ todo = {}
  /\ Goto(IF s.retryPaths # {} /\ s.retryCount < 1 THEN "extract_retry" ELSE "reconcile", s)
  /\ UNCHANGED <<docStatus, report, kills>>

(* One round of stage_extract_retry.  A failure is not noted, and leaves   *)
(* nothing of the claims that were asked about.                            *)
RetryDoc(d) ==
  LET type == draft.classified[d] IN
  /\ step = "extract_retry" /\ Turn(d)
  /\ \/ \E answer \in Answers : \E j \in Judgements(Unsettled(type, answer)) :
          draft' = [draft EXCEPT
            !.verified = @ \cup Accepted(d, type, answer, j),
            !.rejected = @ \cup Refused(d, answer, j)
                           \cup {[doc |-> d, path |-> p, notStated |-> FALSE] :
                                   p \in Barred(type, answer)},
            !.exhausted = @ \cup JudgeFailure(j)]
     \/ draft' = [draft EXCEPT !.exhausted = @ \cup {"extract_retry"}]
  /\ todo' = todo \ {d}
  /\ UNCHANGED <<step, saved, docStatus, report, kills>>

(* Mutant: while something is refused the edge leads back, uncounted.      *)
RetryEnds_Cycle ==
  /\ step = "extract_retry" /\ todo = {}
  /\ Goto(IF Retryable(draft) # {} THEN "extract_retry" ELSE "reconcile", draft)
  /\ UNCHANGED <<docStatus, report, kills>>

RetryEnds ==
  /\ step = "extract_retry" /\ todo = {}
  /\ Goto("reconcile", [draft EXCEPT !.retryCount = @ + 1, !.retryPaths = {}])
  /\ UNCHANGED <<docStatus, report, kills>>
----------------------------------------------------------------------------
(* reconcile, examine and gate.                                            *)

(* stage_reconcile: its updates and conflicts are left out.                *)
Reconcile ==
  /\ step = "reconcile"
  /\ Goto("examine", draft)
  /\ UNCHANGED <<docStatus, report, kills>>

(* Mutants: the finding is filed under a rule that is not there; the hits  *)
(* of intake are left out; degradation is the judge's own only.            *)
Hit_Misfiled(d) == [rule |-> "INSTRUCTION", doc |-> d]
Findings_OwnOnly(s) == {[rule |-> "OUT_OF_SCOPE_WRITE", doc |-> b[1]] : b \in s.blocked}
Degraded_JudgeOnly(s, judgeFailed) == judgeFailed

Hit(d) == [rule |-> "INSTRUCTION_IN_SOURCE", doc |-> d]
Findings(s) ==
  {Hit(d) : d \in s.hits}
  \cup {[rule |-> "OUT_OF_SCOPE_WRITE", doc |-> b[1]] : b \in s.blocked}
Degraded(s, judgeFailed) == s.degraded \/ judgeFailed

(* stage_examine: a degraded run asks the judge nothing.                   *)
Examine ==
  /\ step = "examine"
  /\ \E judgeFailed \in IF draft.degraded THEN {FALSE} ELSE BOOLEAN :
       Goto("gate", [draft EXCEPT
         !.findings = Findings(draft), !.degraded = Degraded(draft, judgeFailed),
         !.exhausted = @ \cup IF judgeFailed THEN {"examine"} ELSE {}])
  /\ UNCHANGED <<docStatus, report, kills>>

(* stage_gate.  A worker killed after its transaction repeats it.          *)
Gate ==
  /\ step = "gate"
  /\ report' = [written |-> TRUE,
                findings |-> report.findings \cup draft.findings,
                escalations |-> report.escalations \cup draft.escalations,
                unsupported |-> report.unsupported \cup draft.rejected]
  /\ \/ Goto("end", draft) /\ UNCHANGED kills
     \/ kills < MaxKills /\ kills' = kills + 1 /\ UNCHANGED <<step, todo, saved, draft>>
  /\ UNCHANGED docStatus
----------------------------------------------------------------------------
(* The worker is killed and the run taken up again, in the stage it was in *)
(* or, if that was not yet scheduled for sure (resume_strategy), afresh.   *)
Kill ==
  /\ step # "end"
  /\ kills < MaxKills
  /\ kills' = kills + 1
  /\ \/ Goto(step, saved)
     \/ /\ draft = Opening(step, saved) /\ todo = Rounds(step, saved) /\ ~report.written
        /\ Goto("intake", EmptyState)
  /\ UNCHANGED <<docStatus, report>>

Work ==
  \/ Intake \/ ClassifyEnds \/ ExtractEnds \/ RetryEnds \/ Reconcile \/ Examine \/ Gate
  \/ \E d \in Docs : ClassifyDoc(d) \/ ExtractDoc(d) \/ RetryDoc(d)

Next == Work \/ Kill

Spec == Init /\ [][Next]_vars

(* Some worker always goes on with the run (module Runs).                  *)
FairSpec == Spec /\ WF_vars(Work)
----------------------------------------------------------------------------
(* Properties.                                                             *)

(* The graph's state has the fields of agent/state.py RunState, and the    *)
(* rows those of models.py.                                                *)
TypeOK ==
  /\ step \in Stages \cup {"end"}
  /\ todo \subseteq Docs
  /\ saved \in RunState /\ draft \in RunState
  /\ docStatus \in [Docs -> {"received", "classified", "escalated", "extracted"}]
  /\ report \in [written : BOOLEAN, findings : SUBSET Finding, escalations : SUBSET Docs,
                 unsupported : SUBSET Refusal]
  /\ kills \in Nat

(* A document's claims lie within what its type may write, whichever pass  *)
(* brought them in and however often the run was taken up (agent/state.py: *)
(* "an invoice may only produce invoices.* fields"); a document that was   *)
(* handed to a person yields none.                                         *)
WriteBoundary ==
  \A c \in saved.verified : <<saved.classified[c.doc], c.path>> \in Allowed

(* When the run is over, each document's row tells what this run made of   *)
(* it, whatever an execution that was killed had written there             *)
(* (stage_classify, stage_extract).                                        *)
StatusTellsOutcome ==
  step = "end" => \A d \in Docs :
    docStatus[d] = IF d \in saved.escalations THEN "escalated" ELSE "extracted"

(* Unless no document was classified, people are told of every document    *)
(* with instructions in it (stage_intake).                                 *)
HitsSurviveStages ==
  step = "end" /\ Classified(saved) # {} => \A d \in Poisoned : Hit(d) \in report.findings

(* No later stage forgets that classification, extraction or the judge's   *)
(* rules did without the model (GraphState is last-write-wins, and each    *)
(* stage writes the flag anew).                                            *)
DegradationIsKept ==
  step = "end" /\ saved.exhausted \cap {"classify", "extract", "examine"} # {} =>
    saved.degraded

(* Whatever the model answers or fails to, and although the worker is      *)
(* killed, the run comes to the gate: a claim is asked about again once    *)
(* (route_after_extract).                                                  *)
ReachesGate == <>(step = "end")

(* README.md:328: "Instruction-shaped content becomes a reported finding". *)
InstructionsReported == step = "end" => \A d \in Poisoned : Hit(d) \in report.findings

(* README.md:162: "A thinner result is never returned as if it were        *)
(* complete": a run that had to do without an answer of the model says so. *)
ThinIsMarked == step = "end" /\ saved.exhausted # {} => saved.degraded
=============================================================================
