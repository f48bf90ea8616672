------------------------------ MODULE Window ------------------------------
(***************************************************************************)
(* One execution of a run and the register that moves under it.  The       *)
(* execution reads the register four times, each time afresh: when it      *)
(* starts and when it ends, for the proof that the fields it did not touch *)
(* are byte-identical (service.py execute_run, register/reconcile.py       *)
(* build_proof), to reconcile and to examine (agent/stages.py).  Commits   *)
(* of other runs fall between any two of the reads.                        *)
(*                                                                         *)
(* The register moves as module CasRegister promises and module Gate       *)
(* shows: a commit applies the approved updates of a run in one step.  The *)
(* gate inserts what a run proposes in one step, as module Board promises  *)
(* and module Inserts shows.                                               *)
(*                                                                         *)
(* Abstracted: a run's sources agree, so that it proposes at most one      *)
(* value for a path, under one inputs hash; conflicts, which a commit      *)
(* ignores, are not kept.  The playbook is one rule of the form            *)
(* numeric_max on each path: it faults the values in Breaching, and what   *)
(* it finds names the value (rules/engine.py, module Rules).  Decisions    *)
(* are single steps; module Gate has them race.                            *)
(***************************************************************************)
EXTENDS Naturals

CONSTANTS
  RunIds,       \* the runs of the pile
  Paths,        \* register field paths
  Values,       \* values a field may take
  Breaching,    \* the values the playbook finds fault with
  NoValue,      \* the absence of a value
  NoRead,       \* the register snapshot of an execution that has none
  Statements,   \* what extraction may hand over: a value for some paths
  MaxVersion,   \* bound: commits on the pile
  MaxKills      \* bound: executions killed

ASSUME NoValueAssumption == NoValue \notin Values
ASSUME BreachingAssumption == Breaching \subseteq Values
ASSUME StatementsAssumption == Statements \subseteq [Paths -> Values \cup {NoValue}]
ASSUME BoundsAssumption == MaxVersion \in Nat /\ MaxKills \in Nat
ASSUME NoReadAssumption == NoRead \notin [Paths -> Values \cup {NoValue}]

VARIABLES
  contents,     \* what the register states
  version,      \* Pile.register_version
  queue,        \* PendingItem rows by dedupe key
  incoming,     \* what extraction hands over for each run
  live,         \* whether a worker is executing the run
  stage,        \* the last stage whose result is checkpointed
  kills,        \* executions killed so far
  before,       \* the snapshot the execution opened with
  updates,      \* the updates in the checkpoint: a value for some paths
  findings,     \* the findings in the checkpoint
  proof,        \* the mismatched paths of the run's untouched proof
  reconciledAt, \* history: the version the run reconciled against
  examinedOn,   \* history: the contents the run examined
  clobbered     \* history: paths on which a commit replaced another value

registerVars == <<contents, version, clobbered>>
executionVars == <<live, kills, before, proof>>
checkpointVars == <<stage, updates, findings, reconciledAt, examinedOn>>
vars == <<registerVars, queue, incoming, executionVars, checkpointVars>>

(* A value or nothing for each path; the register, an extraction and a     *)
(* set of updates all have this form.                                      *)
Contents == [Paths -> Values \cup {NoValue}]
Nothing == [p \in Paths |-> NoValue]
Stated(c) == {p \in Paths : c[p] # NoValue}

(* A dedupe key.  An update's names the value, a finding's names the rule, *)
(* the path and the title, and nothing of what the finding says.           *)
Key == [kind : {"update", "finding"}, path : Paths, value : Values \cup {NoValue}]
UpdateKey(p, v) == [kind |-> "update", path |-> p, value |-> v]
FindingKey(p) == [kind |-> "finding", path |-> p, value |-> NoValue]

Finding == [path : Paths, value : Values]

(* The row of an item: what it tells the reviewer is the value.            *)
Item == [status : {"pending", "approved", "rejected"}, run : RunIds, value : Values]

Init ==
  /\ contents = Nothing
  /\ version = 0
  /\ clobbered = {}
  /\ queue = << >>
  /\ incoming \in [RunIds -> Statements]
  /\ live = [r \in RunIds |-> FALSE]
  /\ stage = [r \in RunIds |-> "none"]
  /\ kills = 0
  /\ before = [r \in RunIds |-> NoRead]
  /\ updates = [r \in RunIds |-> Nothing]
  /\ findings = [r \in RunIds |-> {}]
  /\ proof = [r \in RunIds |-> {}]
  /\ reconciledAt = [r \in RunIds |-> 0]
  /\ examinedOn = [r \in RunIds |-> NoRead]
----------------------------------------------------------------------------
(* An execution.                                                           *)

(* A worker takes the run up, from the checkpoint, and reads the register. *)
Start(r) ==
  /\ ~live[r]
  /\ stage[r] # "finished"
  /\ live' = [live EXCEPT ![r] = TRUE]
  /\ before' = [before EXCEPT ![r] = contents]
  /\ UNCHANGED <<registerVars, queue, incoming, kills, proof, checkpointVars>>

(* Mutant: a value the register holds is replaced if the source differs.   *)
Proposed_Replace(c, stated) ==
  [p \in Paths |-> IF stated[p] # c[p] THEN stated[p] ELSE NoValue]

(* reconcile: an update where the register is empty; where it states       *)
(* something, no news or a conflict.                                       *)
Proposed(c, stated) ==
  [p \in Paths |-> IF c[p] = NoValue THEN stated[p] ELSE NoValue]

ReconcileStage(r) ==
  /\ live[r]
  /\ stage[r] = "none"
  /\ stage' = [stage EXCEPT ![r] = "reconciled"]
  /\ updates' = [updates EXCEPT ![r] = Proposed(contents, incoming[r])]
  /\ reconciledAt' = [reconciledAt EXCEPT ![r] = version]
  /\ UNCHANGED <<registerVars, queue, incoming, executionVars, findings, examinedOn>>

(* Mutant: the proposed updates only fill gaps in what is examined.        *)
Projected_Gaps(c, u) == [p \in Paths |-> IF c[p] = NoValue THEN u[p] ELSE c[p]]

(* _projected_register: as it would be if every update were approved.      *)
Projected(c, u) == [p \in Paths |-> IF u[p] # NoValue THEN u[p] ELSE c[p]]

(* evaluate_deterministic.                                                 *)
Faults(c) == {[path |-> p, value |-> c[p]] : p \in {q \in Paths : c[q] \in Breaching}}

ExamineStage(r) ==
  /\ live[r]
  /\ stage[r] = "reconciled"
  /\ stage' = [stage EXCEPT ![r] = "examined"]
  /\ findings' = [findings EXCEPT ![r] = Faults(Projected(contents, updates[r]))]
  /\ examinedOn' = [examinedOn EXCEPT ![r] = contents]
  /\ UNCHANGED <<registerVars, queue, incoming, executionVars, updates, reconciledAt>>

(* Mutant: a finding's row is made without what the finding tells.         *)
Rows_Mute(r) ==
  [k \in {UpdateKey(p, updates[r][p]) : p \in Stated(updates[r])}
           \cup {FindingKey(f.path) : f \in findings[r]} |->
     [status |-> "pending", run |-> r, value |-> k.value]]

(* The rows a run asks for, by key.                                        *)
Rows(r) ==
  LET row(v) == [status |-> "pending", run |-> r, value |-> v]
      updateKeys == {UpdateKey(p, updates[r][p]) : p \in Stated(updates[r])}
      findingKeys == {FindingKey(f.path) : f \in findings[r]}
  IN  [k \in updateKeys \cup findingKeys |->
         IF k.kind = "update" THEN row(k.value)
         ELSE row((CHOOSE f \in findings[r] : f.path = k.path).value)]

(* stage_gate: the keys that are taken keep their row.  A worker killed    *)
(* before the checkpoint leaves the stage to be done again.                *)
GateStage(r) ==
  /\ live[r]
  /\ stage[r] = "examined"
  /\ queue' = [k \in DOMAIN queue \cup DOMAIN Rows(r) |->
                 IF k \in DOMAIN queue THEN queue[k] ELSE Rows(r)[k]]
  /\ stage' \in {stage, [stage EXCEPT ![r] = "gated"]}
  /\ UNCHANGED <<registerVars, incoming, executionVars, updates, findings,
                 reconciledAt, examinedOn>>

(* Mutant: every path is held to be untouched, empty ones too.             *)
Untouched_All(r) == Paths \ Stated(updates[r])

(* The paths the register stated at the start and the run does not update. *)
Untouched(r) == Stated(before[r]) \ Stated(updates[r])

(* The execution ends: the register is read again and compared.            *)
Finish(r) ==
  /\ live[r]
  /\ stage[r] = "gated"
  /\ stage' = [stage EXCEPT ![r] = "finished"]
  /\ live' = [live EXCEPT ![r] = FALSE]
  /\ before' = [before EXCEPT ![r] = NoRead]
  /\ proof' = [proof EXCEPT ![r] = {p \in Untouched(r) : contents[p] # before[r][p]}]
  /\ UNCHANGED <<registerVars, queue, incoming, kills, updates, findings,
                 reconciledAt, examinedOn>>

(* What a half-written checkpoint of examine makes of the run: its stage   *)
(* log is without the gate, so the next execution begins afresh with       *)
(* nothing proposed (resume_strategy).  Torn earlier it leaves the run at  *)
(* "none"; torn after the gate it counts as complete.                      *)
Tear(r) ==
  /\ stage[r] = "reconciled"
  /\ stage' = [stage EXCEPT ![r] = "none"]
  /\ updates' = [updates EXCEPT ![r] = Nothing]
  /\ findings' = [findings EXCEPT ![r] = {}]
  /\ UNCHANGED <<reconciledAt, examinedOn>>

(* The worker is killed; what is checkpointed stays, unless the kill tears *)
(* the checkpoint that was being written.                                  *)
Kill(r) ==
  /\ live[r]
  /\ kills < MaxKills
  /\ kills' = kills + 1
  /\ live' = [live EXCEPT ![r] = FALSE]
  /\ before' = [before EXCEPT ![r] = NoRead]
  /\ Tear(r) \/ UNCHANGED checkpointVars
  /\ UNCHANGED <<registerVars, queue, incoming, proof>>
----------------------------------------------------------------------------
(* The people.                                                             *)

(* decide_items.                                                           *)
Decide(k) ==
  /\ queue[k].status = "pending"
  /\ \E verdict \in {"approved", "rejected"} :
       queue' = [queue EXCEPT ![k].status = verdict]
  /\ UNCHANGED <<registerVars, incoming, executionVars, checkpointVars>>

(* The approved updates among the items of a run.                          *)
Approved(r) ==
  {k \in DOMAIN queue : /\ k.kind = "update"
                        /\ queue[k].run = r
                        /\ queue[k].status = "approved"}

(* commit_approved on the current version; an approved item stays approved *)
(* and is applied again if the run is committed again.                     *)
Commit(r) ==
  /\ version < MaxVersion
  /\ version' = version + 1
  /\ contents' = [p \in Paths |->
       IF \E k \in Approved(r) : k.path = p
       THEN (CHOOSE k \in Approved(r) : k.path = p).value
       ELSE contents[p]]
  /\ clobbered' = clobbered \cup {p \in Stated(contents) : contents'[p] # contents[p]}
  /\ UNCHANGED <<queue, incoming, executionVars, checkpointVars>>
----------------------------------------------------------------------------
Execute(r) ==
  \/ Start(r) \/ ReconcileStage(r) \/ ExamineStage(r) \/ GateStage(r)
  \/ Finish(r) \/ Kill(r)

Next ==
  \/ \E r \in RunIds : Execute(r) \/ Commit(r)
  \/ \E k \in DOMAIN queue : Decide(k)

Spec == Init /\ [][Next]_vars
----------------------------------------------------------------------------
(* Properties.                                                             *)

(* The shape of the rows, the checkpoints and the histories.               *)
TypeOK ==
  /\ contents \in Contents
  /\ version \in Nat
  /\ clobbered \subseteq Paths
  /\ DOMAIN queue \subseteq Key
  /\ queue \in [DOMAIN queue -> Item]
  /\ incoming \in [RunIds -> Statements]
  /\ live \in [RunIds -> BOOLEAN]
  /\ stage \in [RunIds -> {"none", "reconciled", "examined", "gated", "finished"}]
  /\ kills \in Nat
  /\ before \in [RunIds -> Contents \cup {NoRead}]
  /\ updates \in [RunIds -> Contents]
  /\ findings \in [RunIds -> SUBSET Finding]
  /\ proof \in [RunIds -> SUBSET Paths]
  /\ reconciledAt \in [RunIds -> Nat]
  /\ examinedOn \in [RunIds -> Contents \cup {NoRead}]

(* The untouched proof of a run fails only if some commit has put a value  *)
(* in place of another one: as long as none has, runs executing next to    *)
(* each other, killed and resumed, never make each other's proofs fail     *)
(* (execute_run reads before and after, build_proof).                      *)
ProofsHoldUnlessClobbered == clobbered = {} => \A r \in RunIds : proof[r] = {}

(* A commit on the version its run reconciled against replaces nothing: it *)
(* only states what was not stated (reconcile: "That is a conflict, not an *)
(* overwrite").                                                            *)
FreshCommitsFillGaps ==
  [][\A r \in RunIds :
       Commit(r) /\ stage[r] # "none" /\ version = reconciledAt[r]
         => \A p \in Stated(contents) : contents'[p] = contents[p]]_vars

(* All updates of the run are its own items and approved.                  *)
WhollyApproved(r) ==
  \A p \in Stated(updates[r]) : UpdateKey(p, updates[r][p]) \in Approved(r)

(* Committing all of a run's updates on the register the run examined      *)
(* makes a register with exactly the faults the run found, even when       *)
(* another commit came between reconcile and examine (_projected_register: *)
(* "Findings therefore describe the state the reviewer is being asked to   *)
(* accept").                                                               *)
FindingsComeTrue ==
  [][\A r \in RunIds :
       /\ Commit(r) /\ WhollyApproved(r)
       /\ stage[r] \in {"examined", "gated", "finished"}
       /\ contents = examinedOn[r]
       => Faults(contents') = findings[r]]_vars

(* stages.py:770, stage_gate's add: "Insert one item, or do nothing if an  *)
(* identical one already exists": what a gated run found is what the queue *)
(* tells the reviewer.                                                     *)
FindingsArePresented ==
  \A r \in RunIds : stage[r] \in {"gated", "finished"} =>
    \A f \in findings[r] :
      FindingKey(f.path) \in DOMAIN queue /\ queue[FindingKey(f.path)].value = f.value
=============================================================================
