----------------------------- MODULE RunsProofs -----------------------------
(***************************************************************************)
(* Theorems about module Runs, for every number of workers, runs, kills    *)
(* and attempts.                                                           *)
(***************************************************************************)
EXTENDS Runs, FiniteSetTheorems, TLAPS

----------------------------------------------------------------------------
(* Type correctness.                                                       *)

(* The initial rows, checkpoints and processes have their shapes.          *)
LEMMA TypeInit == Init => TypeOK
<1> SUFFICES ASSUME Init PROVE TypeOK
  OBVIOUS
<1>1. NoCheckpoint \in Checkpoint
  BY DEF NoCheckpoint, Checkpoint
<1>2. Idle \in Process /\ Idle.run = NoRun /\ Idle.phase = "idle"
  BY DEF Idle, Process, Phases, Stages
<1> QED
  BY <1>1, <1>2 DEF Init, TypeOK

(* A process record and its parts.                                         *)
LEMMA ProcessType ==
  ASSUME TypeOK, NEW w \in Workers
  PROVE  /\ worker[w] \in Process
         /\ worker[w].run \in RunIds \cup {NoRun}
         /\ worker[w].phase \in Phases
         /\ worker[w].stage \in Stages
         /\ worker[w].log \in Seq(Stages)
         /\ worker[w].phase \notin {"idle", "polling", "dead"} => worker[w].run \in RunIds
         /\ NoRun \notin RunIds
<1>1. worker[w] \in Process
  BY DEF TypeOK
<1>2. worker[w].phase \notin {"idle", "polling", "dead"} => worker[w].run # NoRun
  BY DEF TypeOK
<1>3. NoRun \notin RunIds
  BY NoRunAssumption, BoundsAssumption DEF RunIds
<1> QED
  BY <1>1, <1>2, <1>3 DEF Process

(* The phases of a worker without a run.                                   *)
LEMMA IdleType ==
  /\ Idle \in Process /\ Idle.run = NoRun /\ Idle.phase = "idle"
  /\ Dead \in Process /\ Dead.run = NoRun /\ Dead.phase = "dead"
<1>1. Idle \in Process /\ Idle.run = NoRun /\ Idle.phase = "idle"
  BY DEF Idle, Process, Phases, Stages
<1>2. Dead = [phase |-> "dead", run |-> NoRun, stage |-> "intake", log |-> << >>]
  BY DEF Idle, Dead
<1> QED
  BY <1>1, <1>2 DEF Process, Phases, Stages

(* The edges of the graph lead to stages or to its end.                    *)
LEMMA SuccessorsType == \A s \in Stages : Successors(s) \subseteq Stages \cup {"end"}
  BY DEF Stages, Successors

(* Every step keeps the rows, checkpoints and processes in shape.          *)
LEMMA TypeStep == TypeOK /\ [Next]_vars => TypeOK'
<1> SUFFICES ASSUME TypeOK, [Next]_vars PROVE TypeOK'
  OBVIOUS
<1> USE DEF runVars, effectVars, historyVars
<1>1. ASSUME NEW r \in RunIds, StartRun(r) \/ CommitRun(r) \/ Age(r) PROVE TypeOK'
  <2>1. CASE StartRun(r) \/ CommitRun(r)
    BY <2>1 DEF TypeOK, StartRun, CommitRun
  <2>2. CASE Age(r)
    <3>1. losses' \in [RunIds -> Nat]
      BY <2>2 DEF TypeOK, Age
    <3> QED
      BY <2>2, <3>1 DEF TypeOK, Age
  <2> QED
    BY <1>1, <2>1, <2>2
<1>2. ASSUME NEW w \in Workers, Sweep(w) PROVE TypeOK'
  <2>1. worker' \in [Workers -> Process] /\ worker'[w].run = NoRun
        /\ worker'[w].phase = "polling"
        /\ \A u \in Workers \ {w} : worker'[u] = worker[u]
    BY <1>2 DEF TypeOK, Sweep, Process, Phases
  <2> QED
    BY <1>2, <2>1 DEF TypeOK, Sweep
<1>3. ASSUME NEW w \in Workers, Pick(w) PROVE TypeOK'
  <2>1. ASSUME NEW r \in RunIds,
               worker' = [worker EXCEPT ![w] = Picked(r)]
        PROVE  TypeOK'
    <3>1. Picked(r) \in Process /\ Picked(r).phase = "picked" /\ Picked(r).run = r
      BY DEF Picked, Process, Phases, Stages
    <3>2. r # NoRun
      BY NoRunAssumption, BoundsAssumption DEF RunIds
    <3> QED
      BY <1>3, <2>1, <3>1, <3>2 DEF TypeOK, Pick
  <2>2. CASE worker' = [worker EXCEPT ![w] = Idle]
    BY <1>3, <2>2, IdleType DEF TypeOK, Pick
  <2> QED
    BY <1>3, <2>1, <2>2 DEF Pick
<1>4. ASSUME NEW w \in Workers, Take(w) PROVE TypeOK'
  <2>1. worker' \in [Workers -> Process] /\ worker'[w].run = worker[w].run
        /\ worker'[w].phase = "claimed"
        /\ \A u \in Workers \ {w} : worker'[u] = worker[u]
    BY <1>4 DEF TypeOK, Take, Process, Phases
  <2>2. worker[w].run # NoRun
    BY <1>4 DEF TypeOK, Take
  <2>3. worker[w].run \in RunIds
    BY <1>4, ProcessType DEF Take
  <2>4. \A u \in Workers : worker'[u].run = NoRun <=> worker'[u].phase \in {"idle", "polling", "dead"}
    BY <2>1, <2>2 DEF TypeOK
  <2>5. attempt' \in [RunIds -> Nat]
    BY <1>4, <2>3 DEF TypeOK, Take
  <2>6. status' = [status EXCEPT ![worker[w].run] = "running"]
        /\ stale' = [stale EXCEPT ![worker[w].run] = FALSE]
    BY <1>4 DEF Take
  <2> QED
    BY <1>4, <2>1, <2>3, <2>4, <2>5, <2>6 DEF TypeOK, Take
<1>5. ASSUME NEW w \in Workers, Enter(w) PROVE TypeOK'
  <2> DEFINE c == checkpoint[worker[w].run]
  <2>1. worker[w].phase = "claimed" /\ worker[w].run \in RunIds /\ worker[w] \in Process
    BY <1>5, ProcessType DEF Enter
  <2>2. c \in Checkpoint
    BY <2>1 DEF TypeOK
  <2>3. ResumeStrategy(c) = "resumed" => c.next \in Stages
    BY <2>2 DEF ResumeStrategy, Checkpoint
  <2>4. PICK q \in Process : /\ worker' = [worker EXCEPT ![w] = q]
                             /\ q.run = worker[w].run /\ q.phase \in {"working", "done"}
    <3> HIDE DEF c
    <3>1. CASE ResumeStrategy(c) = "resumed"
      <4>1. [worker[w] EXCEPT !.phase = "working", !.stage = c.next, !.log = c.log]
              \in Process
        BY <2>1, <2>2, <2>3, <3>1 DEF Process, Phases, Checkpoint
      <4> QED
        BY <1>5, <2>1, <3>1, <4>1 DEF Enter, c, Process
    <3>2. CASE ResumeStrategy(c) = "fresh"
      <4>1. [worker[w] EXCEPT !.phase = "working", !.stage = "intake", !.log = c.log]
              \in Process
        BY <2>1, <2>2, <3>2 DEF Process, Phases, Checkpoint, Stages
      <4> QED
        BY <1>5, <2>1, <3>2, <4>1 DEF Enter, c, Process
    <3>3. CASE ResumeStrategy(c) = "already_complete"
      <4>1. [worker[w] EXCEPT !.phase = "done", !.log = c.log] \in Process
        BY <2>1, <2>2, <3>3 DEF Process, Phases, Checkpoint
      <4> QED
        BY <1>5, <2>1, <3>3, <4>1 DEF Enter, c, Process
    <3> QED
      BY <3>1, <3>2, <3>3 DEF ResumeStrategy
  <2>5. worker[w].run # NoRun
    BY <2>1 DEF TypeOK
  <2> QED
    BY <1>5, <2>4, <2>5 DEF TypeOK, Enter
<1>6. ASSUME NEW w \in Workers, CommitGate(w) PROVE TypeOK'
  <2>1. worker' \in [Workers -> Process] /\ worker'[w].run = worker[w].run
        /\ worker'[w].phase = "gated"
        /\ \A u \in Workers \ {w} : worker'[u] = worker[u]
    BY <1>6 DEF TypeOK, CommitGate, Process, Phases
  <2>2. worker[w].run # NoRun
    BY <1>6 DEF TypeOK, CommitGate
  <2>3. worker[w].run \in RunIds
    BY <1>6, ProcessType DEF CommitGate
  <2>4. \A u \in Workers : worker'[u].run = NoRun <=> worker'[u].phase \in {"idle", "polling", "dead"}
    BY <2>1, <2>2 DEF TypeOK
  <2>5. gates' \in [RunIds -> Nat]
    BY <1>6, <2>3 DEF TypeOK, CommitGate
  <2> QED
    BY <1>6, <2>1, <2>4, <2>5 DEF TypeOK, CommitGate
<1>7. ASSUME NEW w \in Workers, Put(w) PROVE TypeOK'
  <2> DEFINE log == Append(worker[w].log, worker[w].stage)
  <2>0. worker[w].log \in Seq(Stages) /\ worker[w].stage \in Stages
    BY ProcessType
  <2>1. log \in Seq(Stages) /\ worker[w].run # NoRun
    BY <1>7, <2>0, ProcessType DEF Put
  <2>2. worker' \in [Workers -> Process] /\ worker'[w].run = worker[w].run
        /\ worker'[w].phase = "saved"
        /\ \A u \in Workers \ {w} : worker'[u] = worker[u]
    BY <1>7, <2>1 DEF TypeOK, Put, Process, Phases
  <2>3. checkpoint' \in [RunIds -> Checkpoint]
    BY <1>7, <2>1 DEF TypeOK, Put, Checkpoint
  <2> QED
    BY <1>7, <2>1, <2>2, <2>3 DEF TypeOK, Put
<1>8. ASSUME NEW w \in Workers, Schedule(w) PROVE TypeOK'
  <2>1. PICK next \in Successors(worker[w].stage) :
       /\ checkpoint' = [checkpoint EXCEPT ![worker[w].run] =
            IF @.by = w THEN [@ EXCEPT !.next = next] ELSE @]
       /\ worker' = [worker EXCEPT ![w] =
            IF next = "end" THEN [@ EXCEPT !.phase = "done"]
                            ELSE [@ EXCEPT !.phase = "working", !.stage = next]]
    BY <1>8 DEF Schedule
  <2>2. next \in Stages \cup {"end"} /\ worker[w].run # NoRun
    BY <1>8, ProcessType, SuccessorsType DEF Schedule, TypeOK
  <2>3. worker' \in [Workers -> Process] /\ worker'[w].run = worker[w].run
        /\ worker'[w].phase \in {"done", "working"}
        /\ \A u \in Workers \ {w} : worker'[u] = worker[u]
    BY <2>1, <2>2 DEF TypeOK, Process, Phases
  <2>4. checkpoint' \in [RunIds -> Checkpoint]
    <3>1. checkpoint \in [RunIds -> Checkpoint]
      BY DEF TypeOK
    <3>2. \A c \in Checkpoint : [c EXCEPT !.next = next] \in Checkpoint
      BY <2>2 DEF Checkpoint
    <3> QED
      BY <2>1, <3>1, <3>2
  <2> QED
    BY <1>8, <2>2, <2>3, <2>4 DEF TypeOK, Schedule
<1>9. ASSUME NEW w \in Workers, Finish(w) PROVE TypeOK'
  <2>1. worker[w].run \in RunIds /\ checkpoint[worker[w].run].log \in Seq(Stages)
    BY <1>9, ProcessType DEF Finish, TypeOK, Checkpoint
  <2> QED
    BY <1>9, <2>1, IdleType DEF TypeOK, Finish, FinalStatus
<1>10. ASSUME NEW w \in Workers, Fail(w) PROVE TypeOK'
  BY <1>10, IdleType DEF TypeOK, Fail
<1>11. ASSUME NEW w \in Workers, Crash(w) \/ Restart(w) PROVE TypeOK'
  <2>1. CASE Restart(w)
    BY <2>1, IdleType DEF TypeOK, Restart
  <2>2. CASE Crash(w)
    <3>1. worker' \in [Workers -> Process]
          /\ \A u \in Workers : worker'[u].run = NoRun <=> worker'[u].phase \in {"idle", "polling", "dead"}
      BY <2>2, IdleType DEF TypeOK, Crash
    <3>2. worker[w].phase = "saved" => worker[w].run \in RunIds
      BY ProcessType
    <3>3. torn' \in [RunIds -> Nat]
      BY <2>2, <3>2 DEF TypeOK, Crash
    <3>4. losses' \in [RunIds -> Nat]
      <4>1. CASE Executes(w, worker[w].run)
        <5>1. worker[w].run \in RunIds
          BY <4>1, ProcessType DEF Executes
        <5> QED
          BY <2>2, <4>1, <5>1 DEF TypeOK, Crash
      <4>2. CASE ~Executes(w, worker[w].run)
        BY <2>2, <4>2 DEF TypeOK, Crash
      <4> QED
        BY <4>1, <4>2
    <3> QED
      BY <2>2, <3>1, <3>3, <3>4 DEF TypeOK, Crash
  <2> QED
    BY <1>11, <2>1, <2>2
<1>12. CASE UNCHANGED vars
  BY <1>12 DEF TypeOK, vars
<1>13. ASSUME NEW w \in Workers, Loop(w) PROVE TypeOK'
  BY <1>2, <1>3, <1>4, <1>5, <1>6, <1>7, <1>8, <1>9, <1>13 DEF Loop
<1> QED
  BY <1>1, <1>10, <1>11, <1>12, <1>13 DEF Next

(* Every reachable state has the shape of models.py and agent/graph.py.    *)
THEOREM TypeCorrect == Spec => []TypeOK
  BY TypeInit, TypeStep, PTL DEF Spec

----------------------------------------------------------------------------
(* One executor.                                                           *)

(* A claim is a lease: while a worker has a run, the run is not there to   *)
(* be claimed by another, nor to be requeued.                              *)
Lease ==
  /\ \A w \in Workers : \A r \in RunIds :
       worker[w].run = r =>
         IF worker[w].phase = "picked" THEN status[r] = "queued"
         ELSE ~stale[r] /\ status[r] \notin {"absent", "queued"}
  /\ \A u, w \in Workers : worker[u].run = worker[w].run /\ worker[u].run # NoRun => u = w

(* A step of a worker leaves the other workers alone, and unless it is the *)
(* pick of a run it takes up none.                                         *)
LEMMA WorkerStep ==
  ASSUME TypeOK, NEW w \in Workers,
         Loop(w) \/ Fail(w) \/ Crash(w) \/ Restart(w)
  PROVE  /\ \A u \in Workers \ {w} : worker'[u] = worker[u]
         /\ \/ worker'[w].run \in {NoRun, worker[w].run}
            \/ Pick(w) /\ \E r \in RunIds : Claimable(r) /\ worker'[w] = Picked(r)
<1>1. CASE Sweep(w) \/ Take(w) \/ CommitGate(w) \/ Put(w)
  BY <1>1 DEF Sweep, Take, CommitGate, Put, TypeOK, Process
<1>2. CASE Pick(w)
  BY <1>2, IdleType DEF Pick, TypeOK
<1>3. CASE Enter(w)
  <2>1. ResumeStrategy(checkpoint[worker[w].run]) \in {"resumed", "fresh", "already_complete"}
    BY DEF ResumeStrategy
  <2> QED
    BY <1>3, <2>1 DEF Enter, TypeOK, Process
<1>4. CASE Schedule(w)
  BY <1>4 DEF Schedule, TypeOK, Process
<1>5. CASE Finish(w) \/ Fail(w) \/ Crash(w) \/ Restart(w)
  BY <1>5, IdleType DEF Finish, Fail, Crash, Restart, TypeOK
<1> QED
  BY <1>1, <1>2, <1>3, <1>4, <1>5 DEF Loop

(* Whoever has a run has picked it or is executing it.                     *)
LEMMA Holder ==
  ASSUME TypeOK, NEW w \in Workers, NEW r \in RunIds, worker[w].run = r
  PROVE  worker[w].phase = "picked" \/ Executes(w, r)
<1>1. worker[w].phase \in Phases /\ r # NoRun
  BY ProcessType
<1>2. worker[w].phase \notin {"idle", "polling", "dead"}
  BY <1>1 DEF TypeOK
<1> QED
  BY <1>1, <1>2 DEF Phases, Executes

(* Entering the graph leaves a worker working or done, with its run.       *)
LEMMA EnterStep ==
  ASSUME TypeOK, NEW w \in Workers, Enter(w)
  PROVE  worker'[w].run = worker[w].run /\ worker'[w].phase \in {"working", "done"}
<1>1. ResumeStrategy(checkpoint[worker[w].run]) \in {"resumed", "fresh", "already_complete"}
  BY DEF ResumeStrategy
<1>2. worker[w] \in Process
  BY ProcessType
<1> QED
  BY <1>1, <1>2 DEF Enter, TypeOK, Process

(* Scheduling leaves a worker working or done, with its run.               *)
LEMMA ScheduleStep ==
  ASSUME TypeOK, NEW w \in Workers, Schedule(w)
  PROVE  /\ worker[w].phase = "saved" /\ worker'[w].run = worker[w].run
         /\ worker'[w].phase \in {"working", "done"}
<1>1. PICK next : worker' = [worker EXCEPT ![w] =
                    IF next = "end" THEN [@ EXCEPT !.phase = "done"]
                    ELSE [@ EXCEPT !.phase = "working", !.stage = next]]
  BY DEF Schedule
<1>2. worker'[w].run = worker[w].run /\ worker'[w].phase \in {"working", "done"}
  BY <1>1, ProcessType DEF TypeOK, Process
<1> QED
  BY <1>2 DEF Schedule

(* A run that can be claimed is nobody's.                                  *)
LEMMA ClaimableIsFree ==
  ASSUME TypeOK, Lease, NEW r \in RunIds, Claimable(r), NEW u \in Workers
  PROVE  worker[u].run # r
  BY DEF Lease, Claimable, Unlocked

(* At the start nobody executes anything.                                  *)
LEMMA LeaseInit == Init => Lease
  BY IdleType, NoRunAssumption, BoundsAssumption DEF Init, Lease, RunIds

(* Claims, sweeps, commits and kills keep the lease: a run that is         *)
(* executed is not queued, its heartbeat is fresh, and it has one          *)
(* executor.                                                               *)
LEMMA LeaseStep ==
  ASSUME ~SlowStages, TypeOK, Lease, [Next]_vars
  PROVE  Lease'
<1> USE DEF runVars, effectVars, historyVars
<1>1. ASSUME NEW r \in RunIds, StartRun(r) \/ CommitRun(r) \/ Age(r) PROVE Lease'
  <2>1. CASE StartRun(r)
    BY <2>1 DEF StartRun, Lease, TypeOK
  <2>2. CASE CommitRun(r)
    BY <2>2 DEF CommitRun, Unlocked, Lease, TypeOK
  <2>3. CASE Age(r)
    <3>1. ASSUME NEW w \in Workers, worker[w].run = r PROVE worker[w].phase = "picked"
      BY <2>3, <3>1, Holder DEF Age
    <3> QED
      BY <2>3, <3>1 DEF Age, Lease, TypeOK
  <2> QED
    BY <1>1, <2>1, <2>2, <2>3
<1>2. ASSUME NEW w \in Workers, Loop(w) \/ Fail(w) \/ Crash(w) \/ Restart(w) PROVE Lease'
  <2>1. \A u, v \in Workers : worker'[u].run = worker'[v].run /\ worker'[u].run # NoRun => u = v
    <3>1. \A u \in Workers \ {w} : worker'[u] = worker[u]
      BY <1>2, WorkerStep
    <3>2. CASE worker'[w].run \in {NoRun, worker[w].run}
      BY <3>1, <3>2 DEF Lease
    <3>3. ASSUME NEW r \in RunIds, Claimable(r), worker'[w] = Picked(r)
          PROVE  \A u, v \in Workers :
                   worker'[u].run = worker'[v].run /\ worker'[u].run # NoRun => u = v
      BY <3>1, <3>3, ClaimableIsFree DEF Lease, Picked
    <3> QED
      BY <1>2, <3>2, <3>3, WorkerStep
  <2>2. \A u \in Workers \ {w} : worker'[u] = worker[u]
    BY <1>2, WorkerStep
  <2>3. \A u \in Workers \ {w} : worker[w].run \in RunIds => worker[u].run # worker[w].run
    BY ProcessType DEF Lease
  <2> DEFINE Leased(u, r) == worker[u].run = r =>
               IF worker[u].phase = "picked" THEN status[r] = "queued"
               ELSE ~stale[r] /\ status[r] \notin {"absent", "queued"}
  <2>4. \A u \in Workers : \A r \in RunIds : Leased(u, r)
    BY DEF Lease
  <2>5. ASSUME NEW u \in Workers, NEW r \in RunIds PROVE Leased(u, r)'
    <3>1. CASE Sweep(w)
      <4>1. worker'[w].run = NoRun
        BY <3>1, ProcessType DEF Sweep, TypeOK
      <4> QED
        BY <2>2, <2>4, <3>1, <4>1, ProcessType DEF Sweep, Requeueable
    <3>2. CASE Pick(w)
      <4>1. status' = status /\ stale' = stale
        BY <3>2 DEF Pick
      <4>2. \A s \in RunIds : worker'[w] = Picked(s) /\ Claimable(s) => Leased(w, r)'
        BY <4>1 DEF Picked, Claimable
      <4>3. worker'[w] = Idle => Leased(w, r)'
        BY IdleType, ProcessType
      <4> QED
        BY <2>2, <2>4, <3>2, <4>1, <4>2, <4>3 DEF Pick, TypeOK
    <3>3. CASE Take(w)
      <4>1. worker'[w].run = worker[w].run /\ worker'[w].phase = "claimed"
            /\ worker[w].run \in RunIds
        BY <3>3, ProcessType DEF Take, TypeOK, Process
      <4>2. status'[worker[w].run] = "running" /\ ~stale'[worker[w].run]
            /\ (r # worker[w].run => status'[r] = status[r] /\ stale'[r] = stale[r])
        BY <3>3, <4>1 DEF Take, TypeOK
      <4> QED
        BY <2>2, <2>3, <2>4, <4>1, <4>2
    <3>4. CASE Enter(w) \/ CommitGate(w) \/ Put(w)
      <4>1. worker[w].phase # "picked" /\ status' = status /\ stale' = stale
        BY <3>4 DEF Enter, CommitGate, Put
      <4>2. worker'[w].run = worker[w].run /\ worker'[w].phase # "picked"
        <5>1. CASE Enter(w)
          BY <5>1, EnterStep
        <5>2. CASE CommitGate(w) \/ Put(w)
          BY <5>2 DEF CommitGate, Put, TypeOK, Process
        <5> QED
          BY <3>4, <5>1, <5>2
      <4> QED
        BY <2>2, <2>4, <4>1, <4>2
    <3>5. CASE Schedule(w)
      <4>1. worker[w].phase # "picked" /\ status' = status /\ worker[w].run \in RunIds
        BY <3>5, ProcessType DEF Schedule
      <4>2. worker'[w].run = worker[w].run /\ worker'[w].phase # "picked"
        BY <3>5 DEF Schedule, TypeOK, Process
      <4>3. stale' = [stale EXCEPT ![worker[w].run] = FALSE]
        BY <3>5 DEF Schedule
      <4> QED
        BY <2>2, <2>4, <4>1, <4>2, <4>3 DEF TypeOK
    <3>6. CASE Finish(w) \/ Fail(w)
      <4>1. worker'[w].run = NoRun /\ worker[w].run \in RunIds /\ stale' = stale
        BY <3>6, IdleType, ProcessType DEF Finish, Fail, Executes, TypeOK
      <4>2. r # worker[w].run => status'[r] = status[r]
        BY <3>6 DEF Finish, Fail, TypeOK
      <4> QED
        BY <2>2, <2>3, <2>4, <4>1, <4>2, ProcessType
    <3>7. CASE Crash(w) \/ Restart(w)
      <4>1. worker'[w].run = NoRun /\ status' = status /\ stale' = stale
        BY <3>7, IdleType DEF Crash, Restart, TypeOK
      <4> QED
        BY <2>2, <2>4, <4>1, ProcessType
    <3> QED
      BY <1>2, <3>1, <3>2, <3>3, <3>4, <3>5, <3>6, <3>7 DEF Loop
  <2> QED
    BY <2>1, <2>5 DEF Lease
<1>3. CASE UNCHANGED vars
  BY <1>3 DEF Lease, vars
<1> QED
  BY <1>1, <1>2, <1>3 DEF Next

(* Two workers never execute one run, if no stage outlives the heartbeat.  *)
THEOREM OneExecutorAtATime == ASSUME ~SlowStages PROVE Spec => []OneExecutor
<1>1. TypeOK /\ Lease /\ [Next]_vars => Lease'
  BY LeaseStep
<1>2. TypeOK /\ Lease => OneExecutor
  BY ProcessType DEF Lease, OneExecutor, Executes
<1> QED
  BY <1>1, <1>2, LeaseInit, TypeInit, TypeStep, PTL DEF Spec

----------------------------------------------------------------------------
(* Completion: the proof and the commit.                                   *)

(* A run that has its proof is put before people, or committed by them,    *)
(* and nobody has it.                                                      *)
Completed ==
  \A r \in RunIds :
    /\ proofs[r] <= 1
    /\ proofs[r] > 0 => /\ status[r] \in {"awaiting_approval", "committed"}
                       /\ \A w \in Workers : worker[w].run # r

(* What a worker's step does to the row and the proof of a run: of a run   *)
(* that is not its own, it may requeue it, no more.                        *)
LEMMA OtherRuns ==
  ASSUME TypeOK, NEW w \in Workers, NEW r \in RunIds, worker[w].run # r,
         Loop(w) \/ Fail(w) \/ Crash(w) \/ Restart(w)
  PROVE  /\ proofs'[r] = proofs[r]
         /\ \/ status'[r] = status[r]
            \/ status[r] = "running" /\ status'[r] = "queued"
<1> USE DEF runVars, effectVars, historyVars
<1>1. CASE Sweep(w)
  BY <1>1 DEF Sweep, Requeueable
<1>2. CASE Take(w) \/ Finish(w) \/ Fail(w)
  BY <1>2 DEF Take, Finish, Fail, TypeOK
<1>3. CASE \/ Pick(w) \/ Enter(w) \/ CommitGate(w) \/ Put(w) \/ Schedule(w) \/ Crash(w)
           \/ Restart(w)
  BY <1>3 DEF Pick, Enter, CommitGate, Put, Schedule, Crash, Restart
<1> QED
  BY <1>1, <1>2, <1>3 DEF Loop

(* What it does to its own.                                                *)
LEMMA OwnRun ==
  ASSUME TypeOK, NEW w \in Workers, NEW r \in RunIds, worker[w].run = r,
         Loop(w) \/ Fail(w) \/ Crash(w) \/ Restart(w)
  PROVE  \/ /\ proofs'[r] = proofs[r] + 1 /\ status'[r] = "awaiting_approval"
            /\ worker'[w].run = NoRun
         \/ /\ proofs'[r] = proofs[r]
            /\ status'[r] \in {status[r], "running", "failed"}
<1> USE DEF runVars, effectVars, historyVars
<1>1. CASE Sweep(w) \/ Pick(w) \/ Restart(w)
  BY <1>1, Holder DEF Sweep, Pick, Restart, Executes
<1>2. CASE Take(w) \/ Fail(w)
  BY <1>2 DEF Take, Fail, TypeOK
<1>3. CASE Finish(w)
  <2>1. proofs' = [proofs EXCEPT ![r] = @ + 1] /\ status' = [status EXCEPT ![r] = FinalStatus]
        /\ worker' = [worker EXCEPT ![w] = Idle]
    BY <1>3 DEF Finish
  <2> QED
    BY <2>1, IdleType DEF FinalStatus, TypeOK
<1>4. CASE Enter(w) \/ CommitGate(w) \/ Put(w) \/ Schedule(w) \/ Crash(w)
  BY <1>4 DEF Enter, CommitGate, Put, Schedule, Crash
<1> QED
  BY <1>1, <1>2, <1>3, <1>4 DEF Loop

(* A worker has after its step what it had before, or a run it picked.     *)
LEMMA Holding ==
  ASSUME TypeOK, NEW w \in Workers, NEW u \in Workers, NEW r \in RunIds,
         Loop(w) \/ Fail(w) \/ Crash(w) \/ Restart(w), worker'[u].run = r
  PROVE  worker[u].run = r \/ status[r] = "queued"
<1>1. CASE u # w
  BY <1>1, WorkerStep
<1>2. CASE u = w
  <2>1. CASE worker'[w].run \in {NoRun, worker[w].run}
    BY <1>2, <2>1, ProcessType
  <2>2. CASE \E s \in RunIds : Claimable(s) /\ worker'[w] = Picked(s)
    BY <1>2, <2>2 DEF Claimable, Picked
  <2> QED
    BY <2>1, <2>2, WorkerStep
<1> QED
  BY <1>1, <1>2

(* No run is completed at the start.                                       *)
LEMMA CompletedInit == Init => Completed
  BY DEF Init, Completed

(* Only the executor of a run completes it, and then it is neither running *)
(* nor queued.                                                             *)
LEMMA CompletedStep ==
  ASSUME TypeOK, Lease, Completed, [Next]_vars
  PROVE  Completed'
<1> USE DEF runVars, effectVars, historyVars
<1>1. ASSUME NEW s \in RunIds, StartRun(s) \/ CommitRun(s) \/ Age(s) PROVE Completed'
  BY <1>1 DEF StartRun, CommitRun, Age, Completed, TypeOK
<1>2. ASSUME NEW w \in Workers, Loop(w) \/ Fail(w) \/ Crash(w) \/ Restart(w)
      PROVE  Completed'
  <2> SUFFICES ASSUME NEW r \in RunIds
               PROVE  /\ proofs'[r] <= 1
                      /\ proofs'[r] > 0 =>
                           /\ status'[r] \in {"awaiting_approval", "committed"}
                           /\ \A u \in Workers : worker'[u].run # r
    BY DEF Completed
  <2>1. proofs[r] \in Nat
    BY DEF TypeOK
  <2>2. CASE worker[w].run = r
    <3>1. proofs[r] = 0
      BY <2>1, <2>2 DEF Completed
    <3>2. \A u \in Workers \ {w} : worker'[u].run # r
      BY <1>2, <2>2, WorkerStep, ProcessType DEF Lease
    <3> QED
      BY <1>2, <2>2, <3>1, <3>2, OwnRun, ProcessType
  <2>3. CASE worker[w].run # r
    BY <1>2, <2>1, <2>3, OtherRuns, Holding DEF Completed
  <2> QED
    BY <2>2, <2>3
<1>3. CASE UNCHANGED vars
  BY <1>3 DEF Completed, vars
<1> QED
  BY <1>1, <1>2, <1>3 DEF Next

(* A run has one proof, however often it is taken up.                      *)
THEOREM ProvedOnce == ASSUME ~SlowStages PROVE Spec => []OneProof
<1>1. TypeOK /\ Lease /\ [Next]_vars => Lease'
  BY LeaseStep
<1>2. TypeOK /\ Lease /\ Completed /\ [Next]_vars => Completed'
  BY CompletedStep
<1>3. Completed => OneProof
  BY DEF Completed, OneProof
<1> QED
  BY <1>1, <1>2, <1>3, LeaseInit, CompletedInit, TypeInit, TypeStep, PTL DEF Spec

(* Nobody who is about to take a run up does so on a committed row: the    *)
(* row is locked from the claim's SELECT to its UPDATE.                    *)
Fenced ==
  \A w \in Workers : \A r \in RunIds :
    worker[w].phase = "picked" /\ worker[w].run = r => status[r] # "committed"

(* At the start nobody is about to take anything up.                       *)
LEMMA FencedInit == Init => Fenced
  BY IdleType DEF Init, Fenced

(* A worker that is about to take a run up after its step has picked it in *)
(* that step, from a row that was queued and not locked.                   *)
LEMMA PickOnly ==
  ASSUME TypeOK, NEW w \in Workers,
         Loop(w) \/ Fail(w) \/ Crash(w) \/ Restart(w), worker'[w].phase = "picked"
  PROVE  /\ Pick(w) /\ worker'[w].run \in RunIds
         /\ status[worker'[w].run] = "queued" /\ Unlocked(worker'[w].run)
<1>1. ~(Sweep(w) \/ Take(w) \/ CommitGate(w) \/ Put(w))
  BY DEF Sweep, Take, CommitGate, Put, TypeOK, Process
<1>2. ~(Enter(w) \/ Schedule(w))
  BY EnterStep, ScheduleStep
<1>3. ~(Finish(w) \/ Fail(w) \/ Crash(w) \/ Restart(w))
  BY IdleType DEF Finish, Fail, Crash, Restart, TypeOK
<1>4. Pick(w)
  BY <1>1, <1>2, <1>3 DEF Loop
<1>5. \/ \E r \in RunIds : Claimable(r) /\ worker' = [worker EXCEPT ![w] = Picked(r)]
      \/ worker' = [worker EXCEPT ![w] = Idle]
  BY <1>4 DEF Pick
<1>6. PICK r \in RunIds : Claimable(r) /\ worker'[w] = Picked(r)
  BY <1>5, IdleType DEF TypeOK
<1>7. worker'[w].run = r
  BY <1>6 DEF Picked
<1> QED
  BY <1>4, <1>6, <1>7 DEF Claimable

(* No commit gets between a claim's SELECT and its UPDATE.                 *)
LEMMA FencedStep ==
  ASSUME TypeOK, Fenced, [Next]_vars
  PROVE  Fenced'
<1> USE DEF runVars, effectVars, historyVars
<1>1. ASSUME NEW s \in RunIds, StartRun(s) \/ CommitRun(s) \/ Age(s) PROVE Fenced'
  <2>1. worker' = worker
    BY <1>1 DEF StartRun, CommitRun, Age
  <2>2. \A r \in RunIds : status'[r] = "committed" => status[r] = "committed" \/ Unlocked(r)
    BY <1>1 DEF StartRun, CommitRun, Age, TypeOK
  <2> QED
    BY <2>1, <2>2 DEF Unlocked, Fenced
<1>2. ASSUME NEW w \in Workers, Loop(w) \/ Fail(w) \/ Crash(w) \/ Restart(w) PROVE Fenced'
  <2> SUFFICES ASSUME NEW u \in Workers, NEW r \in RunIds,
                      worker'[u].phase = "picked", worker'[u].run = r
               PROVE  status'[r] # "committed"
    BY DEF Fenced
  <2>1. status[r] # "committed"
    <3>1. CASE u = w
      BY <1>2, <3>1, PickOnly
    <3>2. CASE u # w
      BY <1>2, <3>2, WorkerStep DEF Fenced
    <3> QED
      BY <3>1, <3>2
  <2>2. CASE worker[w].run = r
    BY <1>2, <2>1, <2>2, OwnRun
  <2>3. CASE worker[w].run # r
    BY <1>2, <2>1, <2>3, OtherRuns
  <2> QED
    BY <2>2, <2>3
<1>3. CASE UNCHANGED vars
  BY <1>3 DEF Fenced, vars
<1> QED
  BY <1>1, <1>2, <1>3 DEF Next

(* A step that finds a run committed leaves it so and unclaimed, or is the *)
(* end of an execution of it.                                              *)
LEMMA CommittedStep ==
  ASSUME TypeOK, Fenced, Next, NEW r \in RunIds, status[r] = "committed"
  PROVE  /\ attempt'[r] = attempt[r]
         /\ \/ status'[r] = "committed"
            \/ \E w \in Workers : Executes(w, r) /\ worker'[w] = Idle
<1> USE DEF runVars, effectVars, historyVars
<1>1. ASSUME NEW s \in RunIds, StartRun(s) \/ CommitRun(s) \/ Age(s)
      PROVE  attempt'[r] = attempt[r] /\ status'[r] = "committed"
  BY <1>1 DEF StartRun, CommitRun, Age, TypeOK
<1>2. ASSUME NEW w \in Workers, Sweep(w)
      PROVE  attempt'[r] = attempt[r] /\ status'[r] = "committed"
  BY <1>2 DEF Sweep, Requeueable
<1>3. ASSUME NEW w \in Workers, Take(w)
      PROVE  attempt'[r] = attempt[r] /\ status'[r] = "committed"
  <2>1. worker[w].run # r /\ worker[w].run \in RunIds
    BY <1>3, ProcessType DEF Take, Fenced
  <2> QED
    BY <1>3, <2>1 DEF Take, TypeOK
<1>4. ASSUME NEW w \in Workers, Finish(w) \/ Fail(w)
      PROVE  /\ attempt'[r] = attempt[r]
             /\ status'[r] = "committed" \/ (Executes(w, r) /\ worker'[w] = Idle)
  <2>1. attempt' = attempt /\ worker' = [worker EXCEPT ![w] = Idle]
    BY <1>4 DEF Finish, Fail
  <2>2. worker[w].run # r => status'[r] = status[r]
    BY <1>4, OtherRuns DEF Finish, Fail, TypeOK
  <2>3. worker[w].run = r => Executes(w, r)
    BY <1>4 DEF Finish, Fail, Executes
  <2> QED
    BY <2>1, <2>2, <2>3 DEF TypeOK
<1>5. ASSUME NEW w \in Workers,
             \/ Pick(w) \/ Enter(w) \/ CommitGate(w) \/ Put(w) \/ Schedule(w) \/ Crash(w)
             \/ Restart(w)
      PROVE  attempt'[r] = attempt[r] /\ status'[r] = "committed"
  BY <1>5 DEF Pick, Enter, CommitGate, Put, Schedule, Crash, Restart
<1> QED
  BY <1>1, <1>2, <1>3, <1>4, <1>5 DEF Next, Loop

(* Whatever moment a commit lands at, and even if stages outlive the       *)
(* heartbeat, the run is not taken up again, and only an execution that    *)
(* has it already can take the commit back.                                *)
THEOREM CommitsEndClaims == Spec => CommittedIsLeftAlone
<1>1. TypeOK /\ Fenced /\ [Next]_vars
        => [\A r \in RunIds : status[r] = "committed" =>
              /\ attempt'[r] = attempt[r]
              /\ \/ status'[r] = "committed"
                 \/ \E w \in Workers : Executes(w, r) /\ worker'[w] = Idle]_vars
  BY CommittedStep
<1> QED
  BY <1>1, FencedInit, FencedStep, TypeInit, TypeStep, PTL DEF Spec, CommittedIsLeftAlone

----------------------------------------------------------------------------
(* The gate behind every run put before people.                            *)

(* Wherever a log names the gate, the gate's transaction is committed; and *)
(* a worker that thinks itself past a stage has it in the checkpoint.      *)
Sound(w, r) ==
  worker[w].run = r =>
    /\ Reached(worker[w].log, "gate") => gates[r] > 0
    /\ worker[w].phase = "gated" => worker[w].stage = "gate" /\ gates[r] > 0
    /\ worker[w].phase = "saved" => Reached(checkpoint[r].log, worker[w].stage)
    /\ worker[w].phase = "done" => Reached(checkpoint[r].log, "gate")

Recorded(r) == Reached(checkpoint[r].log, "gate") => gates[r] > 0

Shown(r) ==
  status[r] = "awaiting_approval" => gates[r] > 0 /\ Reached(stageLog[r], "gate")

Progress ==
  \A r \in RunIds : Recorded(r) /\ Shown(r) /\ \A w \in Workers : Sound(w, r)

(* A log reaches what it reached before, and what is appended to it.       *)
LEMMA ReachedAppend ==
  ASSUME NEW log \in Seq(Stages), NEW s \in Stages
  PROVE  /\ Reached(Append(log, s), s)
         /\ s # "gate" /\ Reached(Append(log, s), "gate") => Reached(log, "gate")
<1>1. Len(Append(log, s)) = Len(log) + 1 /\ Append(log, s)[Len(log) + 1] = s
      /\ \A i \in 1 .. Len(log) : Append(log, s)[i] = log[i]
  OBVIOUS
<1>2. DOMAIN Append(log, s) = 1 .. Len(log) + 1 /\ DOMAIN log = 1 .. Len(log)
      /\ Len(log) \in Nat
  OBVIOUS
<1> QED
  BY <1>1, <1>2 DEF Reached

(* An empty log has not reached the gate.                                  *)
LEMMA ReachedNothing == ~Reached(<< >>, "gate")
  BY DEF Reached

(* A worker's step leaves the gate, the checkpoint and the log of another  *)
(* run alone.                                                              *)
LEMMA OtherThreads ==
  ASSUME TypeOK, NEW w \in Workers, NEW r \in RunIds, worker[w].run # r,
         Loop(w) \/ Fail(w) \/ Crash(w) \/ Restart(w)
  PROVE  /\ gates'[r] = gates[r] /\ checkpoint'[r] = checkpoint[r]
         /\ stageLog'[r] = stageLog[r] /\ torn'[r] = torn[r]
<1> USE DEF runVars, effectVars, historyVars
<1>1. CASE CommitGate(w) \/ Put(w) \/ Finish(w)
  BY <1>1 DEF CommitGate, Put, Finish, TypeOK
<1>2. CASE Schedule(w)
  BY <1>2 DEF Schedule, TypeOK
<1>3. CASE \/ Sweep(w) \/ Pick(w) \/ Take(w) \/ Enter(w) \/ Fail(w) \/ Crash(w)
           \/ Restart(w)
  BY <1>3 DEF Sweep, Pick, Take, Enter, Fail, Crash, Restart, TypeOK
<1> QED
  BY <1>1, <1>2, <1>3 DEF Loop

(* An absent checkpoint claims nothing.                                    *)
LEMMA ProgressInit == Init => Progress
<1> SUFFICES ASSUME Init PROVE Progress
  OBVIOUS
<1>1. \A r \in RunIds : checkpoint[r].log = << >> /\ status[r] = "absent"
  BY DEF Init, NoCheckpoint
<1>2. \A w \in Workers : worker[w].log = << >> /\ worker[w].phase = "idle"
  BY DEF Init, Idle
<1> QED
  BY <1>1, <1>2, ReachedNothing DEF Progress, Recorded, Shown, Sound

(* What a worker's step means for the run it has.                          *)
LEMMA OwnProgress ==
  ASSUME TypeOK, Progress, NEW w \in Workers, NEW r \in RunIds, worker[w].run = r,
         Loop(w) \/ Fail(w) \/ Crash(w) \/ Restart(w)
  PROVE  Recorded(r)' /\ Shown(r)' /\ Sound(w, r)'
<1> USE DEF runVars, effectVars, historyVars
<1>1. Recorded(r) /\ Shown(r) /\ Sound(w, r)
  BY DEF Progress
<1>2. worker[w] \in Process /\ checkpoint[r] \in Checkpoint /\ gates[r] \in Nat /\ r # NoRun
  BY ProcessType DEF TypeOK
<1>3. CASE Sweep(w) \/ Pick(w) \/ Restart(w)
  BY <1>3, Holder DEF Sweep, Pick, Restart, Executes
<1>4. CASE Take(w)
  <2>1. worker'[w].run = r /\ worker'[w].phase = "claimed" /\ worker'[w].log = worker[w].log
        /\ status'[r] = "running"
    BY <1>4, <1>2 DEF Take, TypeOK, Process
  <2>2. gates' = gates /\ checkpoint' = checkpoint
    BY <1>4 DEF Take
  <2> QED
    BY <1>1, <2>1, <2>2 DEF Sound, Recorded, Shown
<1>5. CASE Enter(w)
  <2>1. gates' = gates /\ checkpoint' = checkpoint /\ stageLog' = stageLog /\ status' = status
    BY <1>5 DEF Enter
  <2>2. worker'[w].phase \in {"working", "done"} /\ worker'[w].log = checkpoint[r].log
        /\ (worker'[w].phase = "done" => Reached(checkpoint[r].log, "gate"))
    <3>1. ResumeStrategy(checkpoint[r]) \in {"resumed", "fresh", "already_complete"}
          /\ (ResumeStrategy(checkpoint[r]) = "already_complete"
                => Reached(checkpoint[r].log, "gate"))
      BY DEF ResumeStrategy
    <3> QED
      BY <1>2, <1>5, <3>1 DEF Enter, TypeOK, Process
  <2> QED
    BY <1>1, <2>1, <2>2 DEF Sound, Recorded, Shown
<1>6. CASE CommitGate(w)
  <2>1. gates'[r] = gates[r] + 1 /\ gates'[r] > 0
    BY <1>2, <1>6 DEF CommitGate, TypeOK
  <2>2. worker'[w].phase = "gated" /\ worker'[w].stage = "gate" /\ worker'[w].run = r
        /\ worker'[w].log = worker[w].log
    BY <1>2, <1>6 DEF CommitGate, TypeOK, Process
  <2>3. status' = status /\ stageLog' = stageLog
    BY <1>6 DEF CommitGate
  <2> QED
    BY <1>1, <2>1, <2>2, <2>3 DEF Sound, Recorded, Shown
<1>7. CASE Put(w)
  <2> DEFINE log == Append(worker[w].log, worker[w].stage)
  <2>1. worker[w].log \in Seq(Stages) /\ worker[w].stage \in Stages
    BY ProcessType
  <2>2. Reached(log, worker[w].stage)
        /\ (worker[w].stage # "gate" /\ Reached(log, "gate") => Reached(worker[w].log, "gate"))
    BY <2>1, ReachedAppend
  <2>3. worker[w].stage = "gate" => gates[r] > 0
    BY <1>1, <1>7 DEF Put, Sound
  <2>4. Reached(log, "gate") => gates[r] > 0
    BY <1>1, <2>2, <2>3 DEF Sound
  <2> HIDE DEF log
  <2>5. worker'[w].phase = "saved" /\ worker'[w].stage = worker[w].stage
        /\ worker'[w].log = log
    BY <1>2, <1>7 DEF Put, TypeOK, Process, log
  <2>6. checkpoint'[r].log = log
    BY <1>7 DEF Put, TypeOK, log
  <2>7. gates' = gates /\ status' = status /\ stageLog' = stageLog
    BY <1>7 DEF Put
  <2> QED
    BY <1>1, <2>2, <2>4, <2>5, <2>6, <2>7 DEF Sound, Recorded, Shown
<1>8. CASE Schedule(w)
  <2>1. checkpoint'[r].log = checkpoint[r].log
    BY <1>2, <1>8 DEF Schedule, TypeOK, Checkpoint
  <2>2. /\ worker'[w].log = worker[w].log
        /\ \/ worker'[w].phase = "working"
           \/ worker'[w].phase = "done" /\ "end" \in Successors(worker[w].stage)
    BY <1>2, <1>8 DEF Schedule, TypeOK, Process
  <2>3. "end" \in Successors(worker[w].stage) => worker[w].stage = "gate"
    BY ProcessType DEF Successors, Stages
  <2>4. Reached(checkpoint[r].log, worker[w].stage)
    BY <1>1, <1>8 DEF Schedule, Sound
  <2>5. gates' = gates /\ status' = status /\ stageLog' = stageLog
    BY <1>8 DEF Schedule
  <2> QED
    BY <1>1, <2>1, <2>2, <2>3, <2>4, <2>5 DEF Sound, Recorded, Shown
<1>9. CASE Finish(w)
  <2>1. gates[r] > 0 /\ Reached(checkpoint[r].log, "gate")
    BY <1>1, <1>9 DEF Finish, Sound, Recorded
  <2>2. gates' = gates /\ checkpoint' = checkpoint /\ stageLog'[r] = checkpoint[r].log
        /\ worker'[w].run = NoRun
    BY <1>9, IdleType DEF Finish, TypeOK
  <2> QED
    BY <1>1, <1>2, <2>1, <2>2 DEF Sound, Recorded, Shown
<1>10. CASE Fail(w)
  <2>1. gates' = gates /\ checkpoint' = checkpoint /\ status'[r] = "failed"
        /\ worker'[w].run = NoRun
    BY <1>10, IdleType DEF Fail, TypeOK
  <2> QED
    BY <1>1, <1>2, <2>1 DEF Sound, Recorded, Shown
<1>11. CASE Crash(w)
  <2>1. gates' = gates /\ checkpoint' = checkpoint /\ status' = status
        /\ stageLog' = stageLog /\ worker'[w].run = NoRun
    BY <1>11, IdleType DEF Crash, TypeOK
  <2> QED
    BY <1>1, <1>2, <2>1 DEF Sound, Recorded, Shown
<1> QED
  BY <1>3, <1>4, <1>5, <1>6, <1>7, <1>8, <1>9, <1>10, <1>11 DEF Loop

(* The others have nothing to do with it: a lease is exclusive.            *)
LEMMA ProgressStep ==
  ASSUME TypeOK, Lease, Progress, [Next]_vars
  PROVE  Progress'
<1> USE DEF runVars, effectVars, historyVars
<1>1. ASSUME NEW s \in RunIds, StartRun(s) \/ CommitRun(s) \/ Age(s) PROVE Progress'
  <2>1. gates' = gates /\ checkpoint' = checkpoint /\ stageLog' = stageLog /\ worker' = worker
    BY <1>1 DEF StartRun, CommitRun, Age
  <2>2. \A r \in RunIds : status'[r] = "awaiting_approval" => status[r] = "awaiting_approval"
    BY <1>1 DEF StartRun, CommitRun, Age, TypeOK
  <2> QED
    BY <2>1, <2>2 DEF Progress, Recorded, Shown, Sound
<1>2. ASSUME NEW w \in Workers, Loop(w) \/ Fail(w) \/ Crash(w) \/ Restart(w),
             NEW r \in RunIds
      PROVE  Recorded(r)' /\ Shown(r)' /\ \A u \in Workers : Sound(u, r)'
  <2>1. \A u \in Workers \ {w} : worker'[u] = worker[u]
    BY <1>2, WorkerStep
  <2>2. CASE worker[w].run = r
    <3>1. Recorded(r)' /\ Shown(r)' /\ Sound(w, r)'
      BY <1>2, <2>2, OwnProgress
    <3>2. \A u \in Workers \ {w} : Sound(u, r)'
      BY <2>1, <2>2, ProcessType DEF Lease, Sound
    <3> QED
      BY <3>1, <3>2
  <2>3. CASE worker[w].run # r
    <3>1. Recorded(r) /\ Shown(r) /\ \A u \in Workers : Sound(u, r)
      BY DEF Progress
    <3>2. gates'[r] = gates[r] /\ checkpoint'[r] = checkpoint[r] /\ stageLog'[r] = stageLog[r]
      BY <1>2, <2>3, OtherThreads
    <3>3. status'[r] = "awaiting_approval" => status[r] = "awaiting_approval"
      BY <1>2, <2>3, OtherRuns
    <3>4. Sound(w, r)'
      <4>1. CASE worker'[w].run \in {NoRun, worker[w].run}
        BY <2>3, <4>1, ProcessType DEF Sound
      <4>2. CASE \E s \in RunIds : worker'[w] = Picked(s)
        BY <4>2, ReachedNothing DEF Sound, Picked
      <4> QED
        BY <1>2, <4>1, <4>2, WorkerStep
    <3>5. \A u \in Workers \ {w} : Sound(u, r)'
      BY <2>1, <3>1, <3>2 DEF Sound
    <3> QED
      BY <3>1, <3>2, <3>3, <3>4, <3>5 DEF Recorded, Shown
  <2> QED
    BY <2>2, <2>3
<1>3. CASE UNCHANGED vars
  BY <1>3 DEF Progress, Recorded, Shown, Sound, vars
<1>4. ASSUME NEW w \in Workers, Loop(w) \/ Fail(w) \/ Crash(w) \/ Restart(w) PROVE Progress'
  BY <1>2, <1>4 DEF Progress
<1> QED
  BY <1>1, <1>3, <1>4 DEF Next

(* Every run put before people went through the gate, and its row says so, *)
(* wherever its worker was killed and wherever it was resumed, if no stage *)
(* outlives the heartbeat.                                                 *)
THEOREM AwaitingRunsGated == ASSUME ~SlowStages PROVE Spec => []AwaitingMeansGated
<1>1. TypeOK /\ Lease /\ [Next]_vars => Lease'
  BY LeaseStep
<1>2. TypeOK /\ Lease /\ Progress /\ [Next]_vars => Progress'
  BY ProgressStep
<1>3. Progress => AwaitingMeansGated
  BY DEF Progress, Shown, AwaitingMeansGated
<1> QED
  BY <1>1, <1>2, <1>3, LeaseInit, ProgressInit, TypeInit, TypeStep, PTL DEF Spec

----------------------------------------------------------------------------
(* What a kill can make a run repeat.                                      *)

(* How often a log names a stage, and how far along the graph a stage is.  *)
Times(log, s) == Cardinality({i \in DOMAIN log : log[i] = s})

Rank(s) ==
  CASE s = "intake"        -> 1
    [] s = "classify"      -> 2
    [] s = "extract"       -> 3
    [] s = "extract_retry" -> 4
    [] s = "reconcile"     -> 5
    [] s = "examine"       -> 6
    [] s = "gate"          -> 7

(* Stages from s on are in the log t times at most: one more run through   *)
(* them puts them there t + 1 times.                                       *)
FewFrom(log, s, t) == \A x \in Stages : Rank(x) >= Rank(s) => Times(log, x) <= t
FewAfter(log, s, t) == \A x \in Stages : Rank(x) > Rank(s) => Times(log, x) <= t

(* Wherever execution is entered from a checkpoint, few stages lie ahead.  *)
Ready(c, t) ==
  /\ c.next # "end" => FewFrom(c.log, c.next, t)
  /\ c.next = "end" /\ ~Reached(c.log, "gate") => FewFrom(c.log, "intake", t)

(* What holds of the worker that has the run: all its work so far is in    *)
(* the checkpoint, which is ready unless its last write is missing.        *)
Ahead(w, r) ==
  worker[w].run = r =>
    /\ worker[w].phase # "saved" => Ready(checkpoint[r], torn[r])
    /\ worker[w].phase \in {"working", "gated", "saved"} => worker[w].log = checkpoint[r].log
    /\ worker[w].phase \in {"working", "gated"} =>
         FewFrom(checkpoint[r].log, worker[w].stage, torn[r])
    /\ worker[w].phase = "saved" =>
         /\ checkpoint[r].by = w /\ checkpoint[r].next = "end"
         /\ FewAfter(checkpoint[r].log, worker[w].stage, torn[r])

(* A run that may still be claimed can be entered.                         *)
Enterable(r) ==
  status[r] \in {"absent", "queued", "running"} /\ (\A w \in Workers : worker[w].run # r)
    => Ready(checkpoint[r], torn[r])

Few(r) == \A s \in Stages : Times(checkpoint[r].log, s) <= torn[r] + 1

Thrifty == \A r \in RunIds : Few(r) /\ Enterable(r) /\ \A w \in Workers : Ahead(w, r)

(* Counting a log that has one more entry.                                 *)
LEMMA TimesAppend ==
  ASSUME NEW log \in Seq(Stages), NEW s \in Stages, NEW x \in Stages
  PROVE  /\ Times(log, x) \in Nat
         /\ Times(Append(log, s), x) = IF x = s THEN Times(log, x) + 1 ELSE Times(log, x)
<1> DEFINE n == Len(log)
           old == {i \in DOMAIN log : log[i] = x}
           new == {i \in DOMAIN Append(log, s) : Append(log, s)[i] = x}
<1>1. /\ n \in Nat /\ DOMAIN log = 1 .. n /\ DOMAIN Append(log, s) = 1 .. n + 1
      /\ Append(log, s)[n + 1] = s /\ \A i \in 1 .. n : Append(log, s)[i] = log[i]
  OBVIOUS
<1>2. IsFiniteSet(old) /\ Cardinality(old) \in Nat
  <2>1. IsFiniteSet(1 .. n) /\ old \subseteq 1 .. n
    BY <1>1, FS_Interval
  <2> QED
    BY <2>1, FS_Subset, FS_CardinalityType
<1>3. new = IF x = s THEN old \cup {n + 1} ELSE old
  BY <1>1
<1>4. n + 1 \notin old
  BY <1>1
<1> HIDE DEF old, new, n
<1>5. Cardinality(old \cup {n + 1}) = Cardinality(old) + 1
  BY <1>2, <1>4, FS_AddElement
<1> QED
  BY <1>2, <1>3, <1>5 DEF Times, old, new

(* An empty log names no stage.                                            *)
LEMMA TimesNothing == \A s : Times(<< >>, s) = 0
<1> SUFFICES ASSUME NEW s PROVE Times(<< >>, s) = 0
  OBVIOUS
<1>1. {i \in DOMAIN << >> : << >>[i] = s} = {}
  OBVIOUS
<1> QED
  BY <1>1, FS_EmptySet DEF Times

(* Intake comes before every other stage.                                  *)
LEMMA RankType == \A s \in Stages : Rank(s) \in 1 .. 7 /\ Rank(s) >= Rank("intake")
  BY DEF Stages, Rank

(* Edges go forward.                                                       *)
LEMMA SuccessorsForward ==
  ASSUME NEW s \in Stages, NEW x \in Successors(s)
  PROVE  IF x = "end" THEN s = "gate" ELSE x \in Stages /\ Rank(x) > Rank(s)
  BY DEF Stages, Successors, Rank

(* What follows from what about the stages ahead.                          *)
LEMMA FewFacts ==
  ASSUME NEW log \in Seq(Stages), NEW t \in Nat, NEW s \in Stages
  PROVE  /\ FewFrom(log, "intake", t) <=> \A x \in Stages : Times(log, x) <= t
         /\ FewFrom(log, "intake", t) => FewFrom(log, s, t)
         /\ \A x \in Stages : FewAfter(log, s, t) /\ Rank(x) > Rank(s) => FewFrom(log, x, t)
         /\ FewFrom(log, s, t) => FewAfter(Append(log, s), s, t)
<1>1. \A x \in Stages : Rank(x) \in Nat /\ Rank(x) >= Rank("intake") /\ Times(log, x) \in Nat
  BY RankType, TimesAppend
<1>2. \A x \in Stages : x # s => Times(Append(log, s), x) = Times(log, x)
  BY TimesAppend
<1>3. "intake" \in Stages
  BY DEF Stages
<1> QED
  BY <1>1, <1>2, <1>3 DEF FewFrom, FewAfter

(* At the start nothing has been done once.                                *)
LEMMA ThriftyInit == Init => Thrifty
<1> SUFFICES ASSUME Init PROVE Thrifty
  OBVIOUS
<1>1. \A r \in RunIds : checkpoint[r] = NoCheckpoint /\ torn[r] = 0
  BY DEF Init
<1>2. \A w \in Workers : worker[w].run = NoRun
  BY DEF Init, Idle
<1>3. NoRun \notin RunIds
  BY NoRunAssumption, BoundsAssumption DEF RunIds
<1>4. Ready(NoCheckpoint, 0) /\ \A s \in Stages : Times(NoCheckpoint.log, s) = 0
  BY TimesNothing DEF NoCheckpoint, Ready, FewFrom
<1> QED
  BY <1>1, <1>2, <1>3, <1>4 DEF Thrifty, Few, Enterable, Ahead

(* What a worker's step means for the run it has.                          *)
LEMMA OwnThrift ==
  ASSUME TypeOK, Progress, Thrifty, NEW w \in Workers, NEW r \in RunIds, worker[w].run = r,
         Loop(w) \/ Fail(w) \/ Crash(w) \/ Restart(w)
  PROVE  /\ Few(r)' /\ Ahead(w, r)'
         /\ worker'[w].run # r /\ status'[r] \in {"absent", "queued", "running"}
              => Ready(checkpoint[r], torn[r])'
<1> USE DEF runVars, effectVars, historyVars
<1> DEFINE c == checkpoint[r]
           t == torn[r]
           stage == worker[w].stage
<1>1. Few(r) /\ Ahead(w, r) /\ Sound(w, r)
  BY DEF Thrifty, Progress
<1>2. /\ worker[w] \in Process /\ c \in Checkpoint /\ c.log \in Seq(Stages) /\ t \in Nat
      /\ stage \in Stages /\ r # NoRun
  BY ProcessType DEF TypeOK, Checkpoint
<1>3. CASE Sweep(w) \/ Pick(w) \/ Restart(w)
  BY <1>3, Holder DEF Sweep, Pick, Restart, Executes
<1>4. CASE Take(w)
  <2>1. worker'[w].run = r /\ worker'[w].phase = "claimed"
    BY <1>4, <1>2 DEF Take, TypeOK, Process
  <2>2. checkpoint' = checkpoint /\ torn' = torn /\ worker[w].phase = "picked"
    BY <1>4 DEF Take
  <2> QED
    BY <1>1, <2>1, <2>2 DEF Few, Ahead
<1>5. CASE Enter(w)
  <2>1. checkpoint' = checkpoint /\ torn' = torn /\ worker[w].phase = "claimed"
    BY <1>5 DEF Enter
  <2>2. Ready(c, t)
    BY <1>1, <2>1 DEF Ahead
  <2>3. worker'[w].run = r /\ worker'[w].phase \in {"working", "done"}
    BY <1>5, EnterStep
  <2>4. ASSUME worker'[w].phase = "working"
        PROVE  worker'[w].log = c.log /\ FewFrom(c.log, worker'[w].stage, t)
    <3>1. CASE ResumeStrategy(c) = "resumed"
      <4>1. worker'[w].log = c.log /\ worker'[w].stage = c.next /\ c.next # "end"
        BY <1>2, <1>5, <3>1 DEF Enter, ResumeStrategy, TypeOK, Process
      <4> QED
        BY <2>2, <4>1 DEF Ready
    <3>2. CASE ResumeStrategy(c) = "fresh"
      <4>1. worker'[w].log = c.log /\ worker'[w].stage = "intake"
        BY <1>2, <1>5, <3>2 DEF Enter, TypeOK, Process
      <4>2. c.log = << >> \/ (c.next = "end" /\ ~Reached(c.log, "gate"))
        BY <3>2 DEF ResumeStrategy
      <4>3. c.log = << >> => FewFrom(c.log, "intake", t)
        BY <1>2, TimesNothing DEF FewFrom
      <4> QED
        BY <2>2, <4>1, <4>2, <4>3 DEF Ready
    <3>3. ResumeStrategy(c) = "already_complete" => worker'[w].phase = "done"
      BY <1>2, <1>5 DEF Enter, TypeOK, Process
    <3> QED
      BY <2>4, <3>1, <3>2, <3>3 DEF ResumeStrategy
  <2> QED
    BY <1>1, <2>1, <2>2, <2>3, <2>4 DEF Few, Ahead
<1>6. CASE CommitGate(w)
  <2>1. worker'[w].run = r /\ worker'[w].phase = "gated" /\ worker'[w].stage = stage
        /\ worker'[w].log = worker[w].log
    BY <1>6, <1>2 DEF CommitGate, TypeOK, Process
  <2>2. checkpoint' = checkpoint /\ torn' = torn /\ worker[w].phase = "working"
    BY <1>6 DEF CommitGate
  <2> QED
    BY <1>1, <2>1, <2>2 DEF Few, Ahead
<1>7. CASE Put(w)
  <2> DEFINE log == Append(c.log, stage)
  <2>1. worker[w].phase \in {"working", "gated"} /\ torn' = torn
    BY <1>7 DEF Put
  <2>2. worker[w].log = c.log /\ FewFrom(c.log, stage, t)
    BY <1>1, <2>1 DEF Ahead
  <2>3. checkpoint'[r] = [log |-> log, next |-> "end", by |-> w]
    BY <1>7, <2>2 DEF Put, TypeOK
  <2>4. /\ worker'[w].run = r /\ worker'[w].phase = "saved" /\ worker'[w].stage = stage
        /\ worker'[w].log = log
    BY <1>2, <1>7, <2>2 DEF Put, TypeOK, Process
  <2>5. FewAfter(log, stage, t)
    BY <1>2, <2>2, FewFacts
  <2>6. ASSUME NEW x \in Stages PROVE Times(log, x) <= t + 1
    <3>1. Times(c.log, x) \in Nat /\ Times(log, x) = IF x = stage THEN Times(c.log, x) + 1
                                                      ELSE Times(c.log, x)
      BY <1>2, TimesAppend
    <3>2. Times(c.log, x) <= t + 1
      BY <1>1 DEF Few
    <3>3. x = stage => Times(c.log, x) <= t
      BY <1>2, <2>2, RankType DEF FewFrom
    <3> QED
      BY <1>2, <3>1, <3>2, <3>3
  <2> HIDE DEF log
  <2> QED
    BY <1>2, <2>1, <2>3, <2>4, <2>5, <2>6 DEF Few, Ahead
<1>8. CASE Schedule(w)
  <2>1. PICK next \in Successors(stage) :
          /\ checkpoint' = [checkpoint EXCEPT ![r] =
               IF @.by = w THEN [@ EXCEPT !.next = next] ELSE @]
          /\ worker' = [worker EXCEPT ![w] =
               IF next = "end" THEN [@ EXCEPT !.phase = "done"]
                               ELSE [@ EXCEPT !.phase = "working", !.stage = next]]
    BY <1>8 DEF Schedule
  <2>2. worker[w].phase = "saved" /\ torn' = torn
    BY <1>8 DEF Schedule
  <2>3. c.by = w /\ FewAfter(c.log, stage, t) /\ worker[w].log = c.log
    BY <1>1, <2>2 DEF Ahead
  <2>4. checkpoint'[r].log = c.log /\ checkpoint'[r].next = next
    BY <1>2, <2>1, <2>3 DEF TypeOK, Checkpoint
  <2>5. IF next = "end" THEN stage = "gate" ELSE next \in Stages /\ Rank(next) > Rank(stage)
    BY <1>2, <2>1, SuccessorsForward
  <2>6. /\ worker'[w].run = r /\ worker'[w].log = worker[w].log
        /\ IF next = "end" THEN worker'[w].phase = "done"
           ELSE worker'[w].phase = "working" /\ worker'[w].stage = next
    BY <1>2, <2>1 DEF TypeOK, Process
  <2>7. next # "end" => FewFrom(c.log, next, t)
    BY <1>2, <2>3, <2>5, FewFacts
  <2>8. next = "end" => Reached(c.log, "gate")
    BY <1>1, <2>2, <2>5 DEF Sound
  <2>9. Ready(checkpoint'[r], t)
    BY <2>4, <2>7, <2>8 DEF Ready
  <2> QED
    BY <1>1, <2>2, <2>3, <2>4, <2>5, <2>6, <2>7, <2>9 DEF Few, Ahead
<1>9. CASE Finish(w) \/ Fail(w)
  <2>1. /\ checkpoint' = checkpoint /\ torn' = torn /\ worker'[w].run = NoRun
        /\ status'[r] \in {"awaiting_approval", "failed"}
    BY <1>9, IdleType DEF Finish, Fail, FinalStatus, TypeOK
  <2> QED
    BY <1>1, <1>2, <2>1 DEF Few, Ahead
<1>10. CASE Crash(w)
  <2>1. checkpoint' = checkpoint /\ worker'[w].run = NoRun
    BY <1>10, IdleType DEF Crash, TypeOK
  <2>2. CASE worker[w].phase = "saved"
    <3>1. torn'[r] = t + 1
      BY <1>2, <1>10, <2>2 DEF Crash, TypeOK
    <3>2. FewFrom(c.log, "intake", t + 1) /\ c.next = "end"
      BY <1>1, <2>2, <1>2, FewFacts DEF Few, Ahead
    <3>3. \A s \in Stages : Times(c.log, s) <= torn'[r] + 1
      BY <1>1, <1>2, <3>1, TimesAppend DEF Few
    <3> QED
      BY <1>2, <2>1, <3>1, <3>2, <3>3 DEF Few, Ahead, Ready
  <2>3. CASE worker[w].phase # "saved"
    <3>1. torn' = torn
      BY <1>10, <2>3 DEF Crash
    <3> QED
      BY <1>1, <1>2, <2>1, <2>3, <3>1 DEF Few, Ahead
  <2> QED
    BY <2>2, <2>3
<1> QED
  BY <1>3, <1>4, <1>5, <1>6, <1>7, <1>8, <1>9, <1>10 DEF Loop

(* The others have nothing to do with it, and a run that is picked was     *)
(* ready for it.                                                           *)
LEMMA ThriftyStep ==
  ASSUME TypeOK, Lease, Progress, Thrifty, [Next]_vars
  PROVE  Thrifty'
<1> USE DEF runVars, effectVars, historyVars
<1>1. ASSUME NEW s \in RunIds, StartRun(s) \/ CommitRun(s) \/ Age(s) PROVE Thrifty'
  <2>1. checkpoint' = checkpoint /\ torn' = torn /\ worker' = worker
    BY <1>1 DEF StartRun, CommitRun, Age
  <2>2. \A r \in RunIds : status'[r] \in {"absent", "queued", "running"}
                            => status[r] \in {"absent", "queued", "running"}
    BY <1>1 DEF StartRun, CommitRun, Age, TypeOK
  <2> QED
    BY <2>1, <2>2 DEF Thrifty, Few, Enterable, Ahead
<1>2. ASSUME NEW w \in Workers, Loop(w) \/ Fail(w) \/ Crash(w) \/ Restart(w),
             NEW r \in RunIds
      PROVE  Few(r)' /\ Enterable(r)' /\ \A u \in Workers : Ahead(u, r)'
  <2>1. \A u \in Workers \ {w} : worker'[u] = worker[u]
    BY <1>2, WorkerStep
  <2>2. CASE worker[w].run = r
    <3>1. Few(r)' /\ Ahead(w, r)' /\ Enterable(r)'
      BY <1>2, <2>2, OwnThrift DEF Enterable
    <3>2. \A u \in Workers \ {w} : Ahead(u, r)'
      BY <2>1, <2>2, ProcessType DEF Lease, Ahead
    <3> QED
      BY <3>1, <3>2
  <2>3. CASE worker[w].run # r
    <3>1. Few(r) /\ Enterable(r) /\ \A u \in Workers : Ahead(u, r)
      BY DEF Thrifty
    <3>2. checkpoint'[r] = checkpoint[r] /\ torn'[r] = torn[r]
      BY <1>2, <2>3, OtherThreads
    <3>3. status'[r] \in {"absent", "queued", "running"}
            => status[r] \in {"absent", "queued", "running"}
      BY <1>2, <2>3, OtherRuns
    <3>4. Ahead(w, r)'
      <4>1. CASE worker'[w].run \in {NoRun, worker[w].run}
        BY <2>3, <4>1, ProcessType DEF Ahead
      <4>2. ASSUME NEW s \in RunIds, Claimable(s), worker'[w] = Picked(s) PROVE Ahead(w, r)'
        <5>1. CASE s = r
          <6>1. Ready(checkpoint[r], torn[r])
            BY <3>1, <4>2, <5>1, ClaimableIsFree DEF Claimable, Enterable
          <6> QED
            BY <3>2, <4>2, <6>1 DEF Ahead, Picked
        <5>2. CASE s # r
          BY <4>2, <5>2 DEF Ahead, Picked
        <5> QED
          BY <5>1, <5>2
      <4> QED
        BY <1>2, <4>1, <4>2, WorkerStep
    <3>5. \A u \in Workers \ {w} : Ahead(u, r)'
      BY <2>1, <3>1, <3>2 DEF Ahead
    <3>6. Enterable(r)'
      BY <2>1, <2>3, <3>1, <3>2, <3>3 DEF Enterable
    <3> QED
      BY <3>1, <3>2, <3>4, <3>5, <3>6 DEF Few
  <2> QED
    BY <2>2, <2>3
<1>3. CASE UNCHANGED vars
  BY <1>3 DEF Thrifty, Few, Enterable, Ahead, vars
<1>4. ASSUME NEW w \in Workers, Loop(w) \/ Fail(w) \/ Crash(w) \/ Restart(w) PROVE Thrifty'
  BY <1>2, <1>4 DEF Thrifty
<1> QED
  BY <1>1, <1>3, <1>4 DEF Next

(* A stage is in a run's log once and once more for each kill that tore    *)
(* its checkpoint at most: whatever else happens, resuming repeats         *)
(* nothing, if no stage outlives the heartbeat.                            *)
THEOREM OnlyTearsRepeat == ASSUME ~SlowStages PROVE Spec => []RepeatsAreTears
<1>1. TypeOK /\ Lease /\ [Next]_vars => Lease'
  BY LeaseStep
<1>2. TypeOK /\ Lease /\ Progress /\ [Next]_vars => Progress'
  BY ProgressStep
<1>3. TypeOK /\ Lease /\ Progress /\ Thrifty /\ [Next]_vars => Thrifty'
  BY ThriftyStep
<1>4. TypeOK /\ Thrifty => RepeatsAreTears
  <2> SUFFICES ASSUME TypeOK, Thrifty, NEW r \in RunIds, NEW s \in Stages
               PROVE  Times(checkpoint[r].log, s) <= 1 + torn[r]
    BY DEF RepeatsAreTears, Times
  <2>1. torn[r] \in Nat
    BY DEF TypeOK
  <2> QED
    BY <2>1 DEF Thrifty, Few
<1> QED
  BY <1>1, <1>2, <1>3, <1>4, LeaseInit, ProgressInit, ThriftyInit, TypeInit, TypeStep, PTL
  DEF Spec

----------------------------------------------------------------------------
(* Runs are the jobs of a queue.                                           *)

(* The job of a run somebody executes, and of one that nobody does.        *)
LEMMA JobIs ==
  ASSUME NEW r \in RunIds
  PROVE  /\ Place[r] = JobOf(r) /\ Hands[r] = Executors(r)
         /\ Hands[r] = {w \in Workers : Executes(w, r)}
         /\ Hands[r] # {} => Place[r] = "taken"
         /\ Hands[r] = {} =>
              Place[r] = IF status[r] = "running" THEN "taken"
                         ELSE IF status[r] \in {"absent", "queued"} THEN status[r]
                         ELSE "settled"
  BY DEF Place, Hands, Executors, JobOf

(* Who executes a run holds its job, alone, and no other.                  *)
LEMMA OneJob ==
  ASSUME TypeOK, Lease, NEW w \in Workers, NEW r \in RunIds, Executes(w, r)
  PROVE  /\ Hands[r] = {w} /\ Place[r] = "taken"
         /\ \A s \in RunIds \ {r} : w \notin Hands[s]
<1>1. \A u \in Workers : Executes(u, r) => u = w
  BY ProcessType DEF Lease, Executes
<1>2. Hands[r] = {w}
  BY <1>1, JobIs
<1>3. \A s \in RunIds \ {r} : ~Executes(w, s)
  BY DEF Executes
<1> QED
  BY <1>2, <1>3, JobIs

(* While a run is absent, queued or left to go stale, nobody executes it.  *)
LEMMA NoHands ==
  ASSUME TypeOK, Lease, NEW r \in RunIds, status[r] \in {"absent", "queued"} \/ stale[r]
  PROVE  Hands[r] = {}
<1>1. \A w \in Workers : ~Executes(w, r)
  BY DEF Lease, Executes
<1> QED
  BY <1>1, JobIs

(* A step of w that leaves what it executes leaves all jobs in the hands   *)
(* they were in.                                                           *)
LEMMA SameHands ==
  ASSUME NEW w \in Workers, \A u \in Workers \ {w} : worker'[u] = worker[u],
         \A r \in RunIds : Executes(w, r)' <=> Executes(w, r)
  PROVE  Hands' = Hands
<1>1. \A u \in Workers : \A r \in RunIds : Executes(u, r)' <=> Executes(u, r)
  BY DEF Executes
<1>2. \A r \in RunIds : Executors(r)' = Executors(r)
  BY <1>1 DEF Executors
<1> QED
  BY <1>2 DEF Hands

(* With the hands and the statuses, the places of the jobs are the same.   *)
LEMMA SamePlaces ==
  ASSUME Hands' = Hands, status' = status
  PROVE  Place' = Place
<1>1. \A r \in RunIds : Executors(r)' = Executors(r)
  BY DEF Hands
<1>2. \A r \in RunIds : JobOf(r)' = JobOf(r)
  BY <1>1 DEF JobOf
<1> QED
  BY <1>2 DEF Place

(* A step that changes the job of one run only, in the terms of the queue. *)
LEMMA OneMoves ==
  ASSUME NEW r \in RunIds,
         \A s \in RunIds \ {r} : Hands'[s] = Hands[s] /\ status'[s] = status[s]
  PROVE  /\ Place' = [Place EXCEPT ![r] = JobOf(r)']
         /\ Hands' = [Hands EXCEPT ![r] = Executors(r)']
<1>1. \A s \in RunIds \ {r} : Executors(s)' = Executors(s)
  BY DEF Hands
<1>2. \A s \in RunIds \ {r} : JobOf(s)' = JobOf(s)
  BY <1>1 DEF JobOf
<1>3. Place' = [Place EXCEPT ![r] = JobOf(r)']
  BY <1>2 DEF Place
<1> QED
  BY <1>1, <1>3 DEF Hands

(* The worker lets go of what it executed.                                 *)
LEMMA LetGo ==
  ASSUME TypeOK, Lease, NEW w \in Workers, NEW r \in RunIds, Executes(w, r),
         \A u \in Workers \ {w} : worker'[u] = worker[u],
         worker'[w].run = NoRun
  PROVE  Executors(r)' = {} /\ \A s \in RunIds \ {r} : Hands'[s] = Hands[s]
<1>1. \A u \in Workers : \A s \in RunIds : s # r => (Executes(u, s)' <=> Executes(u, s))
  BY ProcessType DEF Executes
<1>2. \A u \in Workers : ~Executes(u, r)'
  <2>1. ~Executes(w, r)'
    BY ProcessType DEF Executes
  <2>2. \A u \in Workers \ {w} : ~Executes(u, r)
    BY ProcessType DEF Lease, Executes
  <2> QED
    BY <2>1, <2>2 DEF Executes
<1>3. \A s \in RunIds \ {r} : Executors(s)' = Executors(s)
  BY <1>1 DEF Executors
<1> QED
  BY <1>2, <1>3 DEF Executors, Hands

(* At the start every job is absent and in nobody's hands.                 *)
LEMMA JobsInit == Init => Jobs!Init
<1> SUFFICES ASSUME Init PROVE Jobs!Init
  OBVIOUS
<1>1. \A r \in RunIds : \A w \in Workers : ~Executes(w, r)
  BY IdleType DEF Init, Executes
<1>2. \A r \in RunIds : Executors(r) = {} /\ JobOf(r) = "absent"
  BY <1>1 DEF Init, Executors, JobOf
<1> QED
  BY <1>2 DEF Init, Jobs!Init, Place, Hands

(* What people and time do to the rows, in the terms of the queue.         *)
LEMMA PeopleKeepJobs ==
  ASSUME TypeOK, Lease, NEW r \in RunIds, StartRun(r) \/ CommitRun(r) \/ Age(r)
  PROVE  [Jobs!Next]_(Jobs!vars)
<1>1. worker' = worker /\ proofs' = proofs
      /\ \A s \in RunIds \ {r} : status'[s] = status[s]
  BY DEF StartRun, CommitRun, Age, effectVars, TypeOK
<1>2. Hands' = Hands
  BY <1>1 DEF Hands, Executors, Executes
<1>3. Place' = [Place EXCEPT ![r] = JobOf(r)'] /\ Hands' = [Hands EXCEPT ![r] = Executors(r)']
  BY <1>1, <1>2, OneMoves
<1>4. Hands[r] = Executors(r) /\ Executors(r)' = Executors(r) /\ Place[r] = JobOf(r)
  BY <1>1, JobIs DEF Executors, Executes
<1>5. CASE StartRun(r)
  <2>1. status[r] = "absent" /\ status'[r] = "queued"
    BY <1>5 DEF StartRun, TypeOK
  <2>2. Hands[r] = {} /\ Place[r] = "absent" /\ JobOf(r)' = "queued"
    BY <1>4, <2>1, NoHands DEF JobOf
  <2>3. Jobs!Submit(r)
    BY <1>1, <1>2, <1>3, <2>2 DEF Jobs!Submit
  <2> QED
    BY <2>3 DEF Jobs!Next
<1>6. CASE CommitRun(r)
  <2>1. status[r] # "absent" /\ status'[r] = "committed"
    BY <1>6 DEF CommitRun, TypeOK
  <2>2. CASE JobOf(r)' = JobOf(r)
    BY <1>1, <1>2, <1>3, <1>4, <2>2 DEF Jobs!vars, Place
  <2>3. CASE JobOf(r)' # JobOf(r)
    <3>1. Executors(r) = {} /\ JobOf(r)' = "settled" /\ JobOf(r) \in {"queued", "taken"}
      BY <1>4, <2>1, <2>3 DEF JobOf
    <3>2. Jobs!Abandon(r)
      BY <1>1, <1>2, <1>3, <1>4, <3>1 DEF Jobs!Abandon
    <3> QED
      BY <3>2 DEF Jobs!Next
  <2> QED
    BY <2>2, <2>3
<1>7. CASE Age(r)
  <2>1. status' = status
    BY <1>7 DEF Age
  <2> QED
    BY <1>1, <1>2, <2>1, SamePlaces DEF Jobs!vars
<1> QED
  BY <1>5, <1>6, <1>7

(* A sweep gives back lost jobs, and only those.                           *)
LEMMA SweepRequeues ==
  ASSUME TypeOK, Lease, NEW w \in Workers, Sweep(w)
  PROVE  Jobs!Requeue({r \in RunIds : Requeueable(r)})
<1> DEFINE Back == {r \in RunIds : Requeueable(r)}
<1>1. /\ worker[w].phase = "idle" /\ worker' = [worker EXCEPT ![w].phase = "polling"]
      /\ status' = [r \in RunIds |-> IF Requeueable(r) THEN "queued" ELSE status[r]]
      /\ proofs' = proofs
  BY DEF Sweep, effectVars
<1>2. Hands' = Hands
  <2>1. \A u \in Workers \ {w} : worker'[u] = worker[u]
    BY <1>1 DEF TypeOK
  <2>2. \A r \in RunIds : Executes(w, r)' <=> Executes(w, r)
    BY <1>1, ProcessType DEF Executes, TypeOK, Process
  <2> QED
    BY <2>1, <2>2, SameHands
<1>3. \A r \in Back : Hands[r] = {} /\ Place[r] = "taken"
  BY NoHands, JobIs DEF Requeueable
<1>4. \A r \in RunIds : Executors(r)' = Executors(r)
  BY <1>2 DEF Hands
<1>5. \A r \in RunIds : JobOf(r)' = IF r \in Back THEN "queued" ELSE Place[r]
  <2>1. ASSUME NEW r \in RunIds PROVE JobOf(r)' = IF r \in Back THEN "queued" ELSE Place[r]
    <3>1. CASE r \in Back
      BY <1>1, <1>3, <1>4, <3>1, JobIs DEF JobOf
    <3>2. CASE r \notin Back
      BY <1>1, <1>4, <3>2, JobIs DEF JobOf
    <3> QED
      BY <3>1, <3>2
  <2> QED
    BY <2>1
<1>6. Place' = [r \in RunIds |-> IF r \in Back THEN "queued" ELSE Place[r]]
  BY <1>5 DEF Place
<1> QED
  BY <1>1, <1>2, <1>3, <1>6 DEF Jobs!Requeue

(* A claim takes a queued job that nobody has into empty hands.            *)
LEMMA TakeClaims ==
  ASSUME TypeOK, Lease, NEW w \in Workers, NEW r \in RunIds, worker[w].run = r, Take(w)
  PROVE  Jobs!Claim(w, r)
<1>1. /\ worker[w].phase = "picked" /\ status[r] = "queued"
      /\ status' = [status EXCEPT ![r] = "running"] /\ proofs' = proofs
      /\ worker'[w].run = r /\ worker'[w].phase = "claimed"
      /\ \A u \in Workers \ {w} : worker'[u] = worker[u]
  <2>1. worker[w].phase = "picked" /\ status[r] = "queued"
    BY DEF Take, Lease
  <2>2. status' = [status EXCEPT ![r] = "running"] /\ proofs' = proofs
    BY DEF Take, effectVars
  <2>3. worker' = [worker EXCEPT ![w].phase = "claimed"]
    BY DEF Take
  <2> QED
    BY <2>1, <2>2, <2>3, ProcessType DEF TypeOK, Process
<1>2. Hands[r] = {} /\ Place[r] = "queued"
  BY <1>1, NoHands, JobIs
<1>3. \A s \in RunIds : w \notin Hands[s]
  BY <1>1, JobIs DEF Executes
<1>4. \A u \in Workers \ {w} : ~Executes(u, r)
  BY <1>2, <1>1, JobIs
<1>5. Executors(r)' = {w}
  BY <1>1, <1>4 DEF Executors, Executes
<1>6. \A s \in RunIds \ {r} : Executors(s)' = Executors(s) /\ status'[s] = status[s]
  <2>1. \A s \in RunIds \ {r} : \A u \in Workers : Executes(u, s)' <=> Executes(u, s)
    BY <1>1, <1>3, JobIs DEF Executes
  <2> QED
    BY <1>1, <2>1 DEF Executors, TypeOK
<1>7. JobOf(r)' = "taken"
  BY <1>5 DEF JobOf
<1>8. Place' = [Place EXCEPT ![r] = "taken"] /\ Hands' = [Hands EXCEPT ![r] = {w}]
  <2>1. \A s \in RunIds \ {r} : Hands'[s] = Hands[s] /\ status'[s] = status[s]
    BY <1>6 DEF Hands
  <2> QED
    BY <1>1, <1>5, <1>7, <2>1, OneMoves
<1> QED
  BY <1>1, <1>2, <1>3, <1>8 DEF Jobs!Claim

(* The end of an execution, by its completion, its failure or its kill.    *)
LEMMA EndOfHands ==
  ASSUME TypeOK, Lease, NEW w \in Workers, NEW r \in RunIds, Executes(w, r),
         Finish(w) \/ Fail(w) \/ Crash(w)
  PROVE  Jobs!Complete(w, r) \/ Jobs!Abandon(r) \/ Jobs!Lose(w, r)
<1>1. worker[w].run = r /\ Hands[r] = {w} /\ Place[r] = "taken"
  BY OneJob DEF Executes
<1>2. (\A u \in Workers \ {w} : worker'[u] = worker[u]) /\ worker'[w].run = NoRun
  BY IdleType DEF Finish, Fail, Crash, TypeOK
<1>3. \A s \in RunIds \ {r} : status'[s] = status[s]
  BY <1>1 DEF Finish, Fail, Crash, runVars, TypeOK
<1>4. Executors(r)' = {} /\ \A s \in RunIds \ {r} : Hands'[s] = Hands[s]
  BY <1>2, LetGo
<1>5. Place' = [Place EXCEPT ![r] = JobOf(r)'] /\ Hands' = [Hands EXCEPT ![r] = {}]
  BY <1>3, <1>4, OneMoves
<1>6. CASE Finish(w)
  <2>1. status'[r] = "awaiting_approval" /\ proofs' = [proofs EXCEPT ![r] = @ + 1]
    BY <1>1, <1>6 DEF Finish, FinalStatus, TypeOK
  <2>2. JobOf(r)' = "settled"
    BY <1>4, <2>1 DEF JobOf
  <2> QED
    BY <1>1, <1>5, <2>1, <2>2 DEF Jobs!Complete
<1>7. CASE Fail(w)
  <2>1. status'[r] = "failed" /\ proofs' = proofs
    BY <1>1, <1>7 DEF Fail, effectVars, TypeOK
  <2>2. JobOf(r)' = "settled"
    BY <1>4, <2>1 DEF JobOf
  <2> QED
    BY <1>1, <1>5, <2>1, <2>2 DEF Jobs!Abandon
<1>8. CASE Crash(w)
  <2>1. status'[r] = status[r] /\ proofs' = proofs /\ status[r] \notin {"absent", "queued"}
    BY <1>1, <1>8 DEF Crash, runVars, effectVars, Lease, Executes
  <2>2. JobOf(r)' \in {"taken", "settled"}
    BY <1>4, <2>1 DEF JobOf
  <2>3. CASE JobOf(r)' = "taken"
    <3>1. Place' = Place
      BY <1>1, <1>5, <2>3 DEF Place
    <3> QED
      BY <1>1, <1>5, <2>1, <3>1 DEF Jobs!Lose
  <2>4. CASE JobOf(r)' = "settled"
    BY <1>1, <1>5, <2>1, <2>4 DEF Jobs!Abandon
  <2> QED
    BY <2>2, <2>3, <2>4
<1> QED
  BY <1>6, <1>7, <1>8

(* The steps that neither begin nor end an execution.                      *)
LEMMA ExecutesKept ==
  ASSUME TypeOK, NEW w \in Workers, NEW r \in RunIds,
         \/ Pick(w) \/ Enter(w) \/ CommitGate(w) \/ Put(w) \/ Schedule(w) \/ Restart(w)
         \/ Crash(w) /\ ~Executes(w, r)
  PROVE  Executes(w, r)' <=> Executes(w, r)
<1>1. CASE Pick(w)
  BY <1>1, IdleType, ProcessType DEF Pick, Picked, Executes, TypeOK
<1>2. CASE Enter(w)
  BY <1>2, EnterStep DEF Enter, Executes
<1>3. CASE CommitGate(w) \/ Put(w) \/ Schedule(w)
  <2>1. worker'[w].run = worker[w].run
        /\ worker[w].phase \in {"working", "gated", "saved"}
        /\ worker'[w].phase \in {"working", "gated", "saved", "done"}
    <3>1. CASE CommitGate(w)
      BY <3>1 DEF CommitGate, TypeOK, Process
    <3>2. CASE Put(w)
      BY <3>2 DEF Put, TypeOK, Process
    <3>3. CASE Schedule(w)
      BY <3>3, ScheduleStep
    <3> QED
      BY <1>3, <3>1, <3>2, <3>3
  <2> QED
    BY <2>1 DEF Executes
<1>4. CASE Restart(w)
  BY <1>4, IdleType, ProcessType DEF Restart, Executes, TypeOK
<1>5. CASE Crash(w) /\ ~Executes(w, r)
  BY <1>5, IdleType, ProcessType DEF Crash, Executes, TypeOK
<1> QED
  BY <1>1, <1>2, <1>3, <1>4, <1>5

(* The other steps of a worker leave the jobs where they are.              *)
LEMMA HandsStay ==
  ASSUME TypeOK, NEW w \in Workers,
         \/ Pick(w) \/ Enter(w) \/ CommitGate(w) \/ Put(w) \/ Schedule(w) \/ Restart(w)
         \/ Crash(w) /\ \A r \in RunIds : ~Executes(w, r)
  PROVE  UNCHANGED Jobs!vars
<1>1. \A u \in Workers \ {w} : worker'[u] = worker[u]
  BY WorkerStep DEF Loop
<1>2. status' = status /\ proofs' = proofs
  BY DEF Pick, Enter, CommitGate, Put, Schedule, Restart, Crash, runVars, effectVars
<1>3. \A r \in RunIds : Executes(w, r)' <=> Executes(w, r)
  BY ExecutesKept
<1>4. Hands' = Hands
  BY <1>1, <1>3, SameHands
<1> QED
  BY <1>2, <1>4, SamePlaces DEF Jobs!vars

(* Every step of the runs is a step of the queue, or leaves it alone.      *)
LEMMA JobsStep ==
  ASSUME TypeOK, Lease, [Next]_vars
  PROVE  [Jobs!Next]_(Jobs!vars)
<1>1. ASSUME NEW r \in RunIds, StartRun(r) \/ CommitRun(r) \/ Age(r)
      PROVE  [Jobs!Next]_(Jobs!vars)
  BY <1>1, PeopleKeepJobs
<1>2. ASSUME NEW w \in Workers, Sweep(w) PROVE [Jobs!Next]_(Jobs!vars)
  <2>1. {r \in RunIds : Requeueable(r)} \in SUBSET RunIds
    OBVIOUS
  <2> QED
    BY <1>2, <2>1, SweepRequeues DEF Jobs!Next
<1>3. ASSUME NEW w \in Workers, Take(w) PROVE [Jobs!Next]_(Jobs!vars)
  <2>1. worker[w].run \in RunIds
    BY <1>3, ProcessType DEF Take
  <2> QED
    BY <1>3, <2>1, TakeClaims DEF Jobs!Next
<1>4. ASSUME NEW w \in Workers, NEW r \in RunIds, Executes(w, r),
             Finish(w) \/ Fail(w) \/ Crash(w)
      PROVE  [Jobs!Next]_(Jobs!vars)
  BY <1>4, EndOfHands DEF Jobs!Next
<1>5. ASSUME NEW w \in Workers, Finish(w) \/ Fail(w) PROVE \E r \in RunIds : Executes(w, r)
  <2>1. CASE Finish(w)
    BY <2>1, ProcessType DEF Finish, Executes
  <2>2. CASE Fail(w)
    BY <2>2, BoundsAssumption DEF Fail, RunIds
  <2> QED
    BY <1>5, <2>1, <2>2
<1>6. ASSUME NEW w \in Workers,
             \/ Pick(w) \/ Enter(w) \/ CommitGate(w) \/ Put(w) \/ Schedule(w) \/ Restart(w)
             \/ Crash(w) /\ \A r \in RunIds : ~Executes(w, r)
      PROVE  [Jobs!Next]_(Jobs!vars)
  BY <1>6, HandsStay
<1>7. ASSUME NEW w \in Workers, Loop(w) \/ Fail(w) \/ Crash(w) \/ Restart(w)
      PROVE  [Jobs!Next]_(Jobs!vars)
  BY <1>2, <1>3, <1>4, <1>5, <1>6, <1>7 DEF Loop
<1>8. CASE UNCHANGED vars
  BY <1>8 DEF vars, runVars, effectVars, Jobs!vars, Place, Hands, JobOf, Executors, Executes
<1> QED
  BY <1>1, <1>7, <1>8 DEF Next

(* Every behaviour of the runs is one of the job queue, if no stage        *)
(* outlives the heartbeat: no run is ever in two hands, none is given out  *)
(* again that was not lost, and none once it was settled.                  *)
THEOREM ImplementsJobQueue == ASSUME ~SlowStages PROVE Spec => RunsAreJobs
<1>1. TypeOK /\ Lease /\ [Next]_vars => Lease'
  BY LeaseStep
<1>2. TypeOK /\ Lease /\ [Next]_vars => [Jobs!Next]_(Jobs!vars)
  BY JobsStep
<1> QED
  BY <1>1, <1>2, LeaseInit, JobsInit, TypeInit, TypeStep, PTL DEF Spec, RunsAreJobs, Jobs!Spec

----------------------------------------------------------------------------
(* How often a run can be taken up.                                        *)

(* One worker at a time is about to take a run up.                         *)
OnePick ==
  \A u, w \in Workers :
    worker[u].phase = "picked" /\ worker[w].phase = "picked" /\ worker[u].run = worker[w].run
      => u = w

(* A run that is free to be claimed, is about to be, or will be free as    *)
(* soon as somebody sweeps.                                                *)
UpForClaim(r) ==
  \/ status[r] \in {"absent", "queued"}
  \/ \E w \in Workers : worker[w].phase = "picked" /\ worker[w].run = r
  \/ status[r] = "running" /\ (stale[r] \/ \A w \in Workers : ~Executes(w, r))

(* All claims of such a run are paid for by losses, not only those after   *)
(* the first.                                                              *)
PaidFor ==
  \A r \in RunIds : attempt[r] <= 1 + losses[r] /\ (UpForClaim(r) => attempt[r] <= losses[r])

(* Nothing is claimed at the start.                                        *)
LEMMA PaidInit == Init => PaidFor /\ OnePick
  BY IdleType DEF Init, PaidFor, OnePick

(* A row that is locked is not picked.                                     *)
LEMMA OnePickStep ==
  ASSUME TypeOK, OnePick, [Next]_vars
  PROVE  OnePick'
<1>1. ASSUME NEW r \in RunIds, StartRun(r) \/ CommitRun(r) \/ Age(r) PROVE OnePick'
  BY <1>1 DEF StartRun, CommitRun, Age, OnePick
<1>2. ASSUME NEW w \in Workers, Loop(w) \/ Fail(w) \/ Crash(w) \/ Restart(w) PROVE OnePick'
  <2>1. \A u \in Workers \ {w} : worker'[u] = worker[u]
    BY <1>2, WorkerStep
  <2>2. CASE worker'[w].phase # "picked"
    BY <2>1, <2>2 DEF OnePick
  <2>3. CASE worker'[w].phase = "picked"
    <3>1. \A u \in Workers \ {w} :
            ~(worker'[u].phase = "picked" /\ worker'[u].run = worker'[w].run)
      BY <1>2, <2>1, <2>3, PickOnly DEF Unlocked
    <3> QED
      BY <2>1, <3>1 DEF OnePick
  <2> QED
    BY <2>2, <2>3
<1>3. CASE UNCHANGED vars
  BY <1>3 DEF OnePick, vars
<1> QED
  BY <1>1, <1>2, <1>3 DEF Next

(* A claim costs one, and whoever may be claimed has it to spare; a kill   *)
(* and a heartbeat that lapses under an execution give one.                *)
LEMMA PaidStep ==
  ASSUME TypeOK, OnePick, PaidFor, [Next]_vars
  PROVE  PaidFor'
<1> SUFFICES ASSUME NEW r \in RunIds
             PROVE  /\ attempt'[r] <= 1 + losses'[r]
                    /\ UpForClaim(r)' => attempt'[r] <= losses'[r]
  BY DEF PaidFor
<1> USE DEF runVars, effectVars, historyVars
<1> DEFINE Paid == attempt[r] <= 1 + losses[r] /\ (UpForClaim(r) => attempt[r] <= losses[r])
           Picks(w) == worker[w].phase = "picked" /\ worker[w].run = r
<1>1. attempt[r] \in Nat /\ losses[r] \in Nat /\ Paid
  BY DEF TypeOK, PaidFor
<1>2. ASSUME attempt'[r] = attempt[r], losses'[r] = losses[r], UpForClaim(r)' => UpForClaim(r)
      PROVE  Paid'
  BY <1>1, <1>2
<1>3. ASSUME attempt'[r] = attempt[r], losses'[r] = losses[r] + 1
      PROVE  Paid'
  BY <1>1, <1>3
<1>4. ASSUME NEW s \in RunIds, StartRun(s) \/ CommitRun(s) PROVE Paid'
  <2>1. attempt' = attempt /\ losses' = losses /\ worker' = worker /\ stale' = stale
    BY <1>4 DEF StartRun, CommitRun
  <2>2. status'[r] = status[r] \/ status[r] = "absent" \/ status'[r] = "committed"
    BY <1>4 DEF StartRun, CommitRun, TypeOK
  <2>3. UpForClaim(r)' => UpForClaim(r)
    BY <2>1, <2>2 DEF UpForClaim, Executes
  <2> QED
    BY <1>2, <2>1, <2>3
<1>5. ASSUME NEW s \in RunIds, Age(s) PROVE Paid'
  <2>1. attempt' = attempt /\ status' = status /\ worker' = worker
    BY <1>5 DEF Age
  <2>2. CASE s = r /\ \E w \in Workers : Executes(w, r)
    <3>1. losses'[r] = losses[r] + 1
      BY <1>5, <2>2 DEF Age, TypeOK
    <3> QED
      BY <1>3, <2>1, <3>1
  <2>3. CASE s = r /\ \A w \in Workers : ~Executes(w, r)
    <3>1. losses' = losses
      BY <1>5, <2>3 DEF Age
    <3>2. UpForClaim(r)' => UpForClaim(r)
      BY <2>1, <2>3 DEF UpForClaim
    <3> QED
      BY <1>2, <2>1, <3>1, <3>2
  <2>4. CASE s # r
    <3>1. losses'[r] = losses[r] /\ stale'[r] = stale[r]
      BY <1>5, <2>4 DEF Age, TypeOK
    <3>2. UpForClaim(r)' => UpForClaim(r)
      BY <2>1, <3>1 DEF UpForClaim, Executes
    <3> QED
      BY <1>2, <2>1, <3>1, <3>2
  <2> QED
    BY <2>2, <2>3, <2>4
<1>6. ASSUME NEW w \in Workers, Loop(w) \/ Fail(w) \/ Crash(w) \/ Restart(w) PROVE Paid'
  <2>1. \A u \in Workers \ {w} : worker'[u] = worker[u]
    BY <1>6, WorkerStep
  <2>2. Picks(w)' => Picks(w) \/ status[r] = "queued"
    BY <1>6, PickOnly
  <2>3. ASSUME Executes(w, r)' <=> Executes(w, r),
               status'[r] = status[r] \/ Requeueable(r),
               stale'[r] = stale[r] \/ ~stale'[r]
        PROVE  UpForClaim(r)' => UpForClaim(r)
    <3>1. \A u \in Workers : Executes(u, r)' <=> Executes(u, r)
      BY <2>1, <2>3 DEF Executes
    <3>2. \A u \in Workers : Picks(u)' => Picks(u) \/ status[r] = "queued"
      BY <2>1, <2>2
    <3>3. CASE Requeueable(r)
      BY <3>3 DEF Requeueable, UpForClaim
    <3>4. CASE status'[r] = status[r]
      BY <2>3, <3>1, <3>2, <3>4 DEF UpForClaim, TypeOK
    <3> QED
      BY <2>3, <3>3, <3>4
  <2>4. CASE Sweep(w)
    <3>1. attempt' = attempt /\ losses' = losses /\ stale' = stale
          /\ (status'[r] = status[r] \/ Requeueable(r))
      BY <2>4 DEF Sweep
    <3>2. Executes(w, r)' <=> Executes(w, r)
      BY <2>4 DEF Sweep, Executes, TypeOK, Process
    <3> QED
      BY <1>2, <2>3, <3>1, <3>2
  <2>5. CASE Take(w)
    <3>1. worker[w].phase = "picked" /\ worker[w].run \in RunIds /\ losses' = losses
          /\ worker'[w].phase = "claimed" /\ worker'[w].run = worker[w].run
      BY <2>5, ProcessType DEF Take, TypeOK, Process
    <3>2. CASE worker[w].run = r
      <4>1. attempt'[r] = attempt[r] + 1 /\ status'[r] = "running" /\ ~stale'[r]
        BY <2>5, <3>2 DEF Take, TypeOK
      <4>2. attempt[r] <= losses[r]
        BY <1>1, <3>1, <3>2 DEF UpForClaim
      <4>3. \A u \in Workers : ~Picks(u)'
        BY <2>1, <3>1, <3>2 DEF OnePick
      <4>4. ~UpForClaim(r)'
        BY <3>1, <3>2, <4>1, <4>3 DEF UpForClaim, Executes
      <4> QED
        BY <1>1, <3>1, <4>1, <4>2, <4>4
    <3>3. CASE worker[w].run # r
      <4>1. attempt'[r] = attempt[r] /\ status'[r] = status[r] /\ stale'[r] = stale[r]
        BY <2>5, <3>1, <3>3 DEF Take, TypeOK
      <4>2. Executes(w, r)' <=> Executes(w, r)
        BY <3>1, <3>3 DEF Executes
      <4> QED
        BY <1>2, <2>3, <3>1, <4>1, <4>2
    <3> QED
      BY <3>2, <3>3
  <2>6. CASE \/ Pick(w) \/ Enter(w) \/ CommitGate(w) \/ Put(w) \/ Schedule(w) \/ Restart(w)
             \/ Crash(w) /\ ~Executes(w, r)
    <3>1. attempt' = attempt /\ status' = status
      BY <2>6 DEF Pick, Enter, CommitGate, Put, Schedule, Restart, Crash
    <3>0. stale'[r] = stale[r] \/ ~stale'[r]
      <4>1. CASE Schedule(w)
        <5>1. worker[w].run \in RunIds
          BY <4>1, ProcessType DEF Schedule
        <5>2. stale' = [stale EXCEPT ![worker[w].run] = FALSE]
          BY <4>1 DEF Schedule
        <5> QED
          BY <5>1, <5>2 DEF TypeOK
      <4>2. CASE ~Schedule(w)
        BY <2>6, <4>2 DEF Pick, Enter, CommitGate, Put, Restart, Crash
      <4> QED
        BY <4>1, <4>2
    <3>2. losses'[r] = losses[r]
      <4>1. CASE Crash(w) /\ ~Executes(w, r)
        <5>1. \/ losses' = losses
              \/ Executes(w, worker[w].run)
                 /\ losses' = [losses EXCEPT ![worker[w].run] = @ + 1]
          BY <4>1 DEF Crash
        <5> QED
          BY <4>1, <5>1 DEF TypeOK
      <4>2. CASE \/ Pick(w) \/ Enter(w) \/ CommitGate(w) \/ Put(w) \/ Schedule(w)
                 \/ Restart(w)
        BY <4>2 DEF Pick, Enter, CommitGate, Put, Schedule, Restart
      <4> QED
        BY <2>6, <4>1, <4>2
    <3> QED
      BY <1>2, <2>3, <2>6, <3>0, <3>1, <3>2, ExecutesKept
  <2>7. CASE Crash(w) /\ Executes(w, r)
    <3>1. attempt' = attempt /\ losses'[r] = losses[r] + 1
      BY <2>7 DEF Crash, Executes, TypeOK
    <3> QED
      BY <1>3, <3>1
  <2>8. CASE Finish(w) \/ Fail(w)
    <3>1. attempt' = attempt /\ losses' = losses /\ stale' = stale
          /\ worker' = [worker EXCEPT ![w] = Idle]
      BY <2>8 DEF Finish, Fail
    <3>2. CASE worker[w].run = r
      <4>1. status'[r] \in {"awaiting_approval", "failed"}
        BY <2>8, <3>2 DEF Finish, Fail, FinalStatus, TypeOK
      <4>2. \A u \in Workers : Picks(u)' => Picks(u)
        BY <2>1, <3>1, IdleType DEF TypeOK
      <4>3. UpForClaim(r)' => UpForClaim(r)
        BY <4>1, <4>2 DEF UpForClaim
      <4> QED
        BY <1>2, <3>1, <4>3
    <3>3. CASE worker[w].run # r
      <4>1. status'[r] = status[r]
        BY <2>8, <3>3 DEF Finish, Fail, TypeOK
      <4>2. Executes(w, r)' <=> Executes(w, r)
        BY <3>1, <3>3, IdleType, ProcessType DEF Executes, TypeOK
      <4> QED
        BY <1>2, <2>3, <3>1, <4>1, <4>2
    <3> QED
      BY <3>2, <3>3
  <2> QED
    BY <1>6, <2>4, <2>5, <2>6, <2>7, <2>8 DEF Loop
<1>7. CASE UNCHANGED vars
  BY <1>2, <1>7 DEF vars, UpForClaim, Executes
<1> QED
  BY <1>4, <1>5, <1>6, <1>7 DEF Next

(* Every claim of a run after its first answers one loss of an execution   *)
(* of that run, whether to a kill or to a stage that outlives the          *)
(* heartbeat, for any number of workers and runs.                          *)
THEOREM ClaimsAreBounded == Spec => []ClaimsFollowLosses
<1>1. PaidFor => ClaimsFollowLosses
  BY DEF PaidFor, ClaimsFollowLosses
<1> QED
  BY <1>1, OnePickStep, PaidStep, PaidInit, TypeInit, TypeStep, PTL DEF Spec
=============================================================================
