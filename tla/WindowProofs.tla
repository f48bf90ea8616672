---------------------------- MODULE WindowProofs ----------------------------
(***************************************************************************)
(* Theorems about module Window, for every number of runs, paths and       *)
(* values, whatever extraction hands over and wherever commits and kills   *)
(* fall between the reads of an execution.                                 *)
(***************************************************************************)
EXTENDS Window, TLAPS

----------------------------------------------------------------------------
(* Type correctness.                                                       *)

(* Reconciliation and projection make register contents, the playbook      *)
(* makes findings.                                                         *)
LEMMA ReadsType ==
  ASSUME NEW c \in Contents, NEW u \in Contents
  PROVE  /\ Proposed(c, u) \in Contents
         /\ Projected(c, u) \in Contents
         /\ Faults(c) \subseteq Finding
<1>1. Proposed(c, u) \in Contents /\ Projected(c, u) \in Contents
  BY DEF Contents, Proposed, Projected
<1>2. Faults(c) \subseteq Finding
  BY BreachingAssumption DEF Faults, Finding
<1> QED
  BY <1>1, <1>2

(* What a run asks for are rows.                                           *)
LEMMA RowsType ==
  ASSUME TypeOK, NEW r \in RunIds
  PROVE  /\ DOMAIN Rows(r) \subseteq Key
         /\ \A k \in DOMAIN Rows(r) : Rows(r)[k] \in Item
<1> DEFINE updateKeys == {UpdateKey(p, updates[r][p]) : p \in Stated(updates[r])}
           findingKeys == {FindingKey(f.path) : f \in findings[r]}
<1>1. updates[r] \in [Paths -> Values \cup {NoValue}] /\ findings[r] \subseteq Finding
  BY DEF TypeOK, Contents
<1>2. \A k \in updateKeys : k \in Key /\ k.kind = "update" /\ k.value \in Values
  BY <1>1 DEF UpdateKey, Key, Stated
<1>3. \A k \in findingKeys :
        /\ k \in Key
        /\ k.kind = "finding"
        /\ (CHOOSE f \in findings[r] : f.path = k.path).value \in Values
  <2>1. ASSUME NEW f \in findings[r] PROVE f \in Finding
    BY <1>1
  <2>2. ASSUME NEW g \in findings[r]
        PROVE  (CHOOSE f \in findings[r] : f.path = FindingKey(g.path).path) \in findings[r]
    BY DEF FindingKey
  <2> QED
    BY <2>1, <2>2 DEF FindingKey, Key, Finding
<1>4. DOMAIN Rows(r) = updateKeys \cup findingKeys
  BY DEF Rows
<1>5. ASSUME NEW k \in updateKeys \cup findingKeys PROVE Rows(r)[k] \in Item
  <2>1. CASE k.kind = "update"
    <3>1. k.value \in Values
      BY <1>2, <1>3, <2>1
    <3>2. Rows(r)[k] = [status |-> "pending", run |-> r, value |-> k.value]
      BY <2>1 DEF Rows
    <3> QED
      BY <3>1, <3>2 DEF Item
  <2>2. CASE k.kind # "update"
    <3>1. k \in findingKeys
      BY <1>2, <2>2
    <3>2. Rows(r)[k] = [status |-> "pending", run |-> r,
                        value |-> (CHOOSE f \in findings[r] : f.path = k.path).value]
      BY <2>2 DEF Rows
    <3> QED
      BY <1>3, <3>1, <3>2 DEF Item
  <2> QED
    BY <2>1, <2>2
<1> QED
  BY <1>2, <1>3, <1>4, <1>5

(* The approved updates of a run are keys of the queue.                    *)
LEMMA ApprovedType ==
  ASSUME TypeOK, NEW r \in RunIds
  PROVE  \A k \in Approved(r) : k \in Key /\ k \in DOMAIN queue
  BY DEF TypeOK, Approved

(* The initial rows have their shapes.                                     *)
LEMMA TypeInit == Init => TypeOK
  BY DEF Init, TypeOK, Nothing, Contents

(* Every step of an execution, of a reviewer and of a commit keeps every   *)
(* row and checkpoint in shape.                                            *)
LEMMA TypeStep == TypeOK /\ [Next]_vars => TypeOK'
<1> SUFFICES ASSUME TypeOK, [Next]_vars PROVE TypeOK'
  OBVIOUS
<1> USE DEF registerVars, executionVars, checkpointVars
<1>1. ASSUME NEW r \in RunIds, Start(r) PROVE TypeOK'
  BY <1>1 DEF TypeOK, Start
<1>2. ASSUME NEW r \in RunIds, ReconcileStage(r) PROVE TypeOK'
  <2>1. incoming[r] \in Contents
    BY StatementsAssumption DEF TypeOK, Contents
  <2>2. Proposed(contents, incoming[r]) \in Contents
    BY <2>1, ReadsType DEF TypeOK
  <2> QED
    BY <1>2, <2>2 DEF TypeOK, ReconcileStage
<1>3. ASSUME NEW r \in RunIds, ExamineStage(r) PROVE TypeOK'
  <2>1. Projected(contents, updates[r]) \in Contents
    BY ReadsType DEF TypeOK
  <2>2. Faults(Projected(contents, updates[r])) \subseteq Finding
    BY <2>1, ReadsType
  <2> QED
    BY <1>3, <2>2 DEF TypeOK, ExamineStage
<1>4. ASSUME NEW r \in RunIds, GateStage(r) PROVE TypeOK'
  <2>1. DOMAIN queue' \subseteq Key /\ queue' \in [DOMAIN queue' -> Item]
    BY <1>4, RowsType DEF TypeOK, GateStage
  <2> QED
    BY <1>4, <2>1 DEF TypeOK, GateStage
<1>5. ASSUME NEW r \in RunIds, Finish(r) PROVE TypeOK'
  <2>1. {p \in Untouched(r) : contents[p] # before[r][p]} \subseteq Paths
    BY DEF Untouched, Stated
  <2> QED
    BY <1>5, <2>1 DEF TypeOK, Finish
<1>6. ASSUME NEW r \in RunIds, Kill(r) PROVE TypeOK'
  <2>1. Nothing \in Contents
    BY DEF Nothing, Contents
  <2>2. CASE Tear(r)
    BY <1>6, <2>1, <2>2 DEF TypeOK, Kill, Tear
  <2>3. CASE UNCHANGED checkpointVars
    BY <1>6, <2>3 DEF TypeOK, Kill
  <2> QED
    BY <1>6, <2>2, <2>3 DEF Kill
<1>7. ASSUME NEW r \in RunIds, Commit(r) PROVE TypeOK'
  <2>1. contents' \in Contents
    <3>1. ASSUME NEW p \in Paths, \E k \in Approved(r) : k.path = p
          PROVE  (CHOOSE k \in Approved(r) : k.path = p).value \in Values \cup {NoValue}
      BY <3>1, ApprovedType DEF Key
    <3> QED
      BY <1>7, <3>1 DEF TypeOK, Commit, Contents
  <2>2. clobbered' \subseteq Paths
    BY <1>7 DEF TypeOK, Commit, Stated
  <2> QED
    BY <1>7, <2>1, <2>2 DEF TypeOK, Commit
<1>8. ASSUME NEW k \in DOMAIN queue, Decide(k) PROVE TypeOK'
  <2>1. PICK verdict \in {"approved", "rejected"} :
          queue' = [queue EXCEPT ![k].status = verdict]
    BY <1>8 DEF Decide
  <2>2. [queue[k] EXCEPT !.status = verdict] \in Item
    BY DEF TypeOK, Item
  <2>3. queue' \in [DOMAIN queue' -> Item] /\ DOMAIN queue' \subseteq Key
    BY <2>1, <2>2 DEF TypeOK
  <2> QED
    BY <1>8, <2>3 DEF TypeOK, Decide
<1>9. CASE UNCHANGED vars
  BY <1>9 DEF TypeOK, vars
<1> QED
  BY <1>1, <1>2, <1>3, <1>4, <1>5, <1>6, <1>7, <1>8, <1>9 DEF Next, Execute

(* Rows, checkpoints and histories keep their shape for any number of      *)
(* runs, paths and values.                                                 *)
THEOREM TypeCorrect == Spec => []TypeOK
  BY TypeInit, TypeStep, PTL DEF Spec
----------------------------------------------------------------------------
(* The untouched proof.                                                    *)

(* While nothing has been clobbered, what an execution read when it        *)
(* started still stands, and no proof has failed.                          *)
Undisturbed ==
  clobbered = {} =>
    \A r \in RunIds :
      /\ proof[r] = {}
      /\ live[r] => \A p \in Stated(before[r]) : contents[p] = before[r][p]

(* Nothing is read before the first execution starts.                      *)
LEMMA UndisturbedInit == Init => Undisturbed
  BY DEF Init, Undisturbed

(* A commit that replaces nothing leaves what was stated standing, and     *)
(* every other step leaves the register alone.                             *)
LEMMA UndisturbedStep == TypeOK /\ Undisturbed /\ [Next]_vars => Undisturbed'
<1> SUFFICES ASSUME TypeOK, Undisturbed, [Next]_vars, clobbered' = {}, NEW s \in RunIds
             PROVE  /\ proof'[s] = {}
                    /\ live'[s] => \A p \in Stated(before'[s]) : contents'[p] = before'[s][p]
  BY DEF Undisturbed, Stated
<1> USE DEF registerVars, executionVars, checkpointVars
<1>1. clobbered = {}
  BY DEF Next, Execute, Start, ReconcileStage, ExamineStage, GateStage, Finish, Kill, Commit,
         Decide, vars
<1>2. /\ proof[s] = {}
      /\ live[s] => \A p \in Stated(before[s]) : contents[p] = before[s][p]
  BY <1>1 DEF Undisturbed
<1>3. ASSUME UNCHANGED <<contents, live, before, proof>>
      PROVE  /\ proof'[s] = {}
             /\ live'[s] => \A p \in Stated(before'[s]) : contents'[p] = before'[s][p]
  BY <1>2, <1>3 DEF Stated
<1>4. ASSUME NEW r \in RunIds, Start(r)
      PROVE  /\ proof'[s] = {}
             /\ live'[s] => \A p \in Stated(before'[s]) : contents'[p] = before'[s][p]
  <2>1. CASE r = s
    BY <1>2, <1>4, <2>1 DEF TypeOK, Start
  <2>2. CASE r # s
    BY <1>2, <1>4, <2>2 DEF TypeOK, Start, Stated
  <2> QED
    BY <2>1, <2>2
<1>5. ASSUME NEW r \in RunIds, Finish(r) \/ Kill(r)
      PROVE  /\ proof'[s] = {}
             /\ live'[s] => \A p \in Stated(before'[s]) : contents'[p] = before'[s][p]
  <2>1. CASE r = s /\ Finish(r)
    <3>1. proof'[s] = {p \in Untouched(s) : contents[p] # before[s][p]} /\ live[s] /\ ~live'[s]
      BY <2>1 DEF TypeOK, Finish
    <3> QED
      BY <1>2, <3>1 DEF Untouched
  <2>2. CASE r = s /\ Kill(r)
    BY <1>2, <2>2 DEF TypeOK, Kill
  <2>3. CASE r # s
    BY <1>2, <1>5, <2>3 DEF TypeOK, Finish, Kill, Stated
  <2> QED
    BY <1>5, <2>1, <2>2, <2>3
<1>6. ASSUME NEW r \in RunIds, Commit(r)
      PROVE  /\ proof'[s] = {}
             /\ live'[s] => \A p \in Stated(before'[s]) : contents'[p] = before'[s][p]
  <2>1. \A p \in Stated(contents) : contents'[p] = contents[p]
    BY <1>6 DEF Commit
  <2>2. live[s] => \A p \in Stated(before[s]) : p \in Stated(contents)
    BY <1>2 DEF Stated
  <2>3. UNCHANGED <<live, before, proof>>
    BY <1>6 DEF Commit
  <2> QED
    BY <1>2, <2>1, <2>2, <2>3 DEF Stated
<1>7. ASSUME NEW r \in RunIds, ReconcileStage(r) \/ ExamineStage(r) \/ GateStage(r)
      PROVE  UNCHANGED <<contents, live, before, proof>>
  BY <1>7 DEF ReconcileStage, ExamineStage, GateStage
<1>8. ASSUME NEW k \in DOMAIN queue, Decide(k)
      PROVE  UNCHANGED <<contents, live, before, proof>>
  BY <1>8 DEF Decide
<1>9. CASE UNCHANGED vars
  BY <1>3, <1>9 DEF vars
<1> QED
  BY <1>3, <1>4, <1>5, <1>6, <1>7, <1>8, <1>9 DEF Next, Execute

(* A run's untouched proof can fail only if some commit has replaced one   *)
(* value by another, however many runs execute, die, are resumed and are   *)
(* committed side by side (execute_run, build_proof).                      *)
THEOREM ProofsHold == Spec => []ProofsHoldUnlessClobbered
<1>1. Undisturbed => ProofsHoldUnlessClobbered
  BY DEF Undisturbed, ProofsHoldUnlessClobbered
<1> QED
  BY <1>1, TypeInit, TypeStep, UndisturbedInit, UndisturbedStep, PTL DEF Spec
----------------------------------------------------------------------------
(* What commits make of the register.                                      *)

(* A run that is past reconciliation has not looked at a later register    *)
(* than there is, and if there was no commit since, its updates are for    *)
(* fields that are empty.                                                  *)
Gaps(r) ==
  stage[r] # "none" =>
    /\ reconciledAt[r] <= version
    /\ version = reconciledAt[r] => \A p \in Stated(updates[r]) : contents[p] = NoValue

(* What an examined run found is what its updates would bring about.       *)
Foreseen(r) ==
  stage[r] \notin {"none", "reconciled"} =>
    findings[r] = Faults(Projected(examinedOn[r], updates[r]))

(* An update in the queue is one of the checkpoint of its run.             *)
Owned(k) ==
  k.kind = "update" =>
    /\ stage[queue[k].run] \notin {"none", "reconciled"}
    /\ k.path \in Stated(updates[queue[k].run])
    /\ k.value = updates[queue[k].run][k.path]

Checkpoints ==
  /\ \A r \in RunIds : Gaps(r) /\ Foreseen(r)
  /\ \A k \in DOMAIN queue : Owned(k)

(* No run has a checkpoint and the queue is empty at the start.            *)
LEMMA CheckpointsInit == Init => Checkpoints
  BY DEF Init, Checkpoints, Gaps, Foreseen

(* A run the step passes by.                                               *)
LEMMA OtherRun ==
  ASSUME NEW s \in RunIds, Gaps(s), Foreseen(s), UNCHANGED <<contents, version>>,
         stage'[s] = stage[s], updates'[s] = updates[s], findings'[s] = findings[s],
         reconciledAt'[s] = reconciledAt[s], examinedOn'[s] = examinedOn[s]
  PROVE  Gaps(s)' /\ Foreseen(s)'
<1>1. Gaps(s)'
  BY DEF Gaps, Stated
<1>2. Foreseen(s)'
  <2>1. Projected(examinedOn'[s], updates'[s]) = Projected(examinedOn[s], updates[s])
    OBVIOUS
  <2>2. Foreseen(s)' <=> (stage'[s] \notin {"none", "reconciled"} =>
           findings'[s] = Faults(Projected(examinedOn'[s], updates'[s])))
    BY DEF Foreseen, Faults, Projected
  <2> QED
    BY <2>1, <2>2 DEF Foreseen
<1> QED
  BY <1>1, <1>2

(* A step of a run that leaves its updates and the queue alone.            *)
LEMMA QueueKept ==
  ASSUME TypeOK, Checkpoints, UNCHANGED <<queue, updates>>,
         \A r \in RunIds : stage[r] \notin {"none", "reconciled"}
                             => stage'[r] \notin {"none", "reconciled"}
  PROVE  \A k \in DOMAIN queue' : Owned(k)'
<1>1. \A k \in DOMAIN queue : queue[k].run \in RunIds
  BY DEF TypeOK, Item
<1> QED
  BY <1>1 DEF Checkpoints, Owned, Stated

(* Reconciliation, examination and gate leave each the checkpoint the next *)
(* may rely on; commits and decisions take nothing from it.                *)
LEMMA CheckpointsStep == TypeOK /\ Checkpoints /\ [Next]_vars => Checkpoints'
<1> SUFFICES ASSUME TypeOK, Checkpoints, [Next]_vars PROVE Checkpoints'
  OBVIOUS
<1> USE DEF registerVars, executionVars, checkpointVars
<1>1. ASSUME UNCHANGED <<contents, version, queue, checkpointVars>> PROVE Checkpoints'
  BY <1>1 DEF Checkpoints, Gaps, Foreseen, Owned, Stated, Faults, Projected
<1>2. ASSUME NEW r \in RunIds, ReconcileStage(r) PROVE Checkpoints'
  <2>1. \A s \in RunIds \ {r} : /\ stage'[s] = stage[s] /\ updates'[s] = updates[s]
                                /\ reconciledAt'[s] = reconciledAt[s]
    BY <1>2 DEF ReconcileStage, TypeOK
  <2>2. /\ stage'[r] = "reconciled" /\ reconciledAt'[r] = version
        /\ updates'[r] = Proposed(contents, incoming[r])
    BY <1>2 DEF ReconcileStage, TypeOK
  <2>3. UNCHANGED <<contents, version, queue, findings, examinedOn>> /\ stage[r] = "none"
    BY <1>2 DEF ReconcileStage
  <2>4. Gaps(r)' /\ Foreseen(r)'
    BY <2>2, <2>3 DEF Gaps, Foreseen, Proposed, Stated, TypeOK
  <2>5. ASSUME NEW s \in RunIds \ {r} PROVE Gaps(s)' /\ Foreseen(s)'
    BY <2>1, <2>3, OtherRun DEF Checkpoints
  <2>6. \A k \in DOMAIN queue' : Owned(k)'
    <3>1. ASSUME NEW k \in DOMAIN queue, k.kind = "update"
          PROVE  queue[k].run \in RunIds \ {r}
      BY <2>3, <3>1 DEF Checkpoints, Owned, TypeOK, Item
    <3> QED
      BY <2>1, <2>3, <3>1 DEF Checkpoints, Owned, Stated
  <2> QED
    BY <2>4, <2>5, <2>6 DEF Checkpoints
<1>3. ASSUME NEW r \in RunIds, ExamineStage(r) PROVE Checkpoints'
  <2>1. \A s \in RunIds \ {r} : /\ stage'[s] = stage[s] /\ findings'[s] = findings[s]
                                /\ examinedOn'[s] = examinedOn[s]
    BY <1>3 DEF ExamineStage, TypeOK
  <2>2. /\ stage'[r] = "examined" /\ examinedOn'[r] = contents
        /\ findings'[r] = Faults(Projected(contents, updates[r]))
    BY <1>3 DEF ExamineStage, TypeOK
  <2>3. UNCHANGED <<contents, version, queue, updates, reconciledAt>> /\ stage[r] = "reconciled"
    BY <1>3 DEF ExamineStage
  <2>4. Gaps(r)' /\ Foreseen(r)'
    BY <2>2, <2>3 DEF Checkpoints, Gaps, Foreseen, Stated, Faults, Projected
  <2>5. ASSUME NEW s \in RunIds \ {r} PROVE Gaps(s)' /\ Foreseen(s)'
    BY <2>1, <2>3, OtherRun DEF Checkpoints
  <2>6. \A k \in DOMAIN queue' : Owned(k)'
    BY <2>1, <2>2, <2>3, QueueKept
  <2> QED
    BY <2>4, <2>5, <2>6 DEF Checkpoints
<1>4. ASSUME NEW r \in RunIds, GateStage(r) PROVE Checkpoints'
  <2>1. UNCHANGED <<contents, version, updates, findings, reconciledAt, examinedOn>>
    BY <1>4 DEF GateStage
  <2>2. /\ stage[r] = "examined"
        /\ \A s \in RunIds : stage'[s] = stage[s] \/ (s = r /\ stage'[s] = "gated")
    BY <1>4 DEF GateStage, TypeOK
  <2>3. \A s \in RunIds : Gaps(s)' /\ Foreseen(s)'
    BY <2>1, <2>2 DEF Checkpoints, Gaps, Foreseen, Stated, Faults, Projected
  <2>4. /\ DOMAIN queue' = DOMAIN queue \cup DOMAIN Rows(r)
        /\ \A k \in DOMAIN queue' : queue'[k] = IF k \in DOMAIN queue THEN queue[k]
                                                ELSE Rows(r)[k]
    BY <1>4 DEF GateStage
  <2>5. ASSUME NEW k \in DOMAIN queue PROVE Owned(k)'
    BY <2>1, <2>2, <2>4, <2>5 DEF Checkpoints, Owned, TypeOK, Item, Stated
  <2>6. ASSUME NEW k \in DOMAIN Rows(r), k \notin DOMAIN queue PROVE Owned(k)'
    <3>1. SUFFICES ASSUME k.kind = "update" PROVE Owned(k)'
      BY DEF Owned
    <3>2. PICK p \in Stated(updates[r]) : k = UpdateKey(p, updates[r][p])
      BY <3>1 DEF Rows, FindingKey
    <3>3. k.path = p /\ k.value = updates[r][p]
      BY <3>2 DEF UpdateKey
    <3>4. queue'[k].run = r
      <4>1. queue'[k] = Rows(r)[k]
        BY <2>4, <2>6
      <4>2. Rows(r)[k] = [status |-> "pending", run |-> r, value |-> k.value]
        BY <2>6, <3>1 DEF Rows
      <4> QED
        BY <4>1, <4>2
    <3> QED
      BY <2>1, <2>2, <3>3, <3>4 DEF Owned, Stated
  <2> QED
    BY <2>3, <2>4, <2>5, <2>6 DEF Checkpoints
<1>5. ASSUME NEW r \in RunIds, Finish(r) PROVE Checkpoints'
  <2>1. UNCHANGED <<contents, version, queue, updates, findings, reconciledAt, examinedOn>>
    BY <1>5 DEF Finish
  <2>2. /\ stage[r] = "gated" /\ stage'[r] = "finished"
        /\ \A s \in RunIds \ {r} : stage'[s] = stage[s]
    BY <1>5 DEF Finish, TypeOK
  <2>3. \A s \in RunIds : Gaps(s)' /\ Foreseen(s)'
    BY <2>1, <2>2 DEF Checkpoints, Gaps, Foreseen, Stated, Faults, Projected
  <2>4. \A k \in DOMAIN queue' : Owned(k)'
    BY <2>1, <2>2, QueueKept
  <2> QED
    BY <2>3, <2>4 DEF Checkpoints
<1>6. ASSUME NEW r \in RunIds, Commit(r) PROVE Checkpoints'
  <2>1. version' = version + 1 /\ UNCHANGED <<queue, checkpointVars>>
    BY <1>6 DEF Commit
  <2>2. \A s \in RunIds : Gaps(s)' /\ Foreseen(s)'
    BY <2>1 DEF Checkpoints, Gaps, Foreseen, Faults, Projected, TypeOK
  <2>3. \A k \in DOMAIN queue' : Owned(k)'
    BY <2>1, QueueKept
  <2> QED
    BY <2>2, <2>3 DEF Checkpoints
<1>7. ASSUME NEW k \in DOMAIN queue, Decide(k) PROVE Checkpoints'
  <2>1. UNCHANGED <<contents, version, checkpointVars>>
    BY <1>7 DEF Decide
  <2>2. DOMAIN queue' = DOMAIN queue /\ \A j \in DOMAIN queue : queue'[j].run = queue[j].run
    BY <1>7 DEF Decide, TypeOK, Item
  <2> QED
    BY <2>1, <2>2 DEF Checkpoints, Gaps, Foreseen, Owned, Stated, Faults, Projected
<1>8. ASSUME NEW r \in RunIds, Start(r) \/ Kill(r) PROVE Checkpoints'
  <2>1. CASE Start(r) \/ UNCHANGED checkpointVars
    BY <1>1, <1>8, <2>1 DEF Start, Kill
  <2>2. CASE Kill(r) /\ Tear(r)
    <3>1. /\ stage[r] = "reconciled" /\ stage'[r] = "none"
          /\ UNCHANGED <<contents, version, queue, reconciledAt, examinedOn>>
      BY <2>2 DEF Kill, Tear, TypeOK
    <3>2. \A s \in RunIds \ {r} : /\ stage'[s] = stage[s] /\ updates'[s] = updates[s]
                                  /\ findings'[s] = findings[s]
      BY <2>2 DEF Tear, TypeOK
    <3>3. ASSUME NEW s \in RunIds PROVE Gaps(s)' /\ Foreseen(s)'
      <4>1. CASE s = r
        BY <3>1, <4>1 DEF Gaps, Foreseen
      <4>2. CASE s # r
        BY <3>1, <3>2, <4>2, OtherRun DEF Checkpoints
      <4> QED
        BY <4>1, <4>2
    <3>4. \A k \in DOMAIN queue' : Owned(k)'
      <4>1. ASSUME NEW k \in DOMAIN queue, k.kind = "update"
            PROVE  queue[k].run \in RunIds \ {r}
        BY <3>1, <4>1 DEF Checkpoints, Owned, TypeOK, Item
      <4> QED
        BY <3>1, <3>2, <4>1 DEF Checkpoints, Owned, Stated
    <3> QED
      BY <3>3, <3>4 DEF Checkpoints
  <2> QED
    BY <1>8, <2>1, <2>2 DEF Kill
<1>9. CASE UNCHANGED vars
  BY <1>1, <1>9 DEF vars
<1> QED
  BY <1>2, <1>3, <1>4, <1>5, <1>6, <1>7, <1>8, <1>9 DEF Next, Execute

(* What a commit writes comes from the updates of its run.                 *)
LEMMA CommitWritesUpdates ==
  ASSUME TypeOK, Checkpoints, NEW r \in RunIds, NEW p \in Paths,
         \E k \in Approved(r) : k.path = p
  PROVE  /\ p \in Stated(updates[r])
         /\ (CHOOSE k \in Approved(r) : k.path = p).value = updates[r][p]
<1> DEFINE k == CHOOSE j \in Approved(r) : j.path = p
<1>1. k \in Approved(r) /\ k.path = p
  OBVIOUS
<1>2. k \in DOMAIN queue /\ k.kind = "update" /\ queue[k].run = r
  BY <1>1 DEF Approved
<1> QED
  BY <1>1, <1>2 DEF Checkpoints, Owned

(* No reviewer can overwrite a value by committing a run on the version    *)
(* the run was reconciled against (reconcile, commit_approved).            *)
THEOREM FreshCommits == Spec => FreshCommitsFillGaps
<1>1. TypeOK /\ Checkpoints /\ [Next]_vars =>
        [\A r \in RunIds :
           Commit(r) /\ stage[r] # "none" /\ version = reconciledAt[r]
             => \A p \in Stated(contents) : contents'[p] = contents[p]]_vars
  <2> SUFFICES ASSUME TypeOK, Checkpoints, NEW r \in RunIds, Commit(r), stage[r] # "none",
                      version = reconciledAt[r], NEW p \in Stated(contents)
               PROVE  contents'[p] = contents[p]
    OBVIOUS
  <2>1. p \notin Stated(updates[r]) /\ p \in Paths
    BY DEF Checkpoints, Gaps, Stated
  <2>2. ~ \E k \in Approved(r) : k.path = p
    BY <2>1, CommitWritesUpdates
  <2> QED
    BY <2>1, <2>2 DEF Commit
<1> QED
  BY <1>1, TypeInit, TypeStep, CheckpointsInit, CheckpointsStep, PTL
  DEF Spec, FreshCommitsFillGaps

(* What a run found is what the register is at fault for after all its     *)
(* updates are committed on the register it examined                       *)
(* (_projected_register).                                                  *)
THEOREM FindingsHold == Spec => FindingsComeTrue
<1>1. TypeOK /\ Checkpoints /\ [Next]_vars =>
        [\A r \in RunIds :
           /\ Commit(r) /\ WhollyApproved(r)
           /\ stage[r] \in {"examined", "gated", "finished"}
           /\ contents = examinedOn[r]
           => Faults(contents') = findings[r]]_vars
  <2> SUFFICES ASSUME TypeOK, Checkpoints, NEW r \in RunIds, Commit(r), WhollyApproved(r),
                      stage[r] \in {"examined", "gated", "finished"},
                      contents = examinedOn[r]
               PROVE  Faults(contents') = findings[r]
    OBVIOUS
  <2>1. findings[r] = Faults(Projected(contents, updates[r]))
    BY DEF Checkpoints, Foreseen
  <2>2. ASSUME NEW p \in Paths PROVE contents'[p] = Projected(contents, updates[r])[p]
    <3>1. CASE p \in Stated(updates[r])
      <4>1. UpdateKey(p, updates[r][p]) \in Approved(r)
        BY <3>1 DEF WhollyApproved
      <4>2. \E k \in Approved(r) : k.path = p
        BY <4>1 DEF UpdateKey
      <4> QED
        BY <3>1, <4>2, CommitWritesUpdates DEF Commit, Projected, Stated
    <3>2. CASE p \notin Stated(updates[r])
      BY <3>2, CommitWritesUpdates DEF Commit, Projected, Stated
    <3> QED
      BY <3>1, <3>2
  <2> QED
    BY <2>1, <2>2 DEF Faults
<1> QED
  BY <1>1, TypeInit, TypeStep, CheckpointsInit, CheckpointsStep, PTL
  DEF Spec, FindingsComeTrue
=============================================================================
