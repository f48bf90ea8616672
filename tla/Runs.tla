-------------------------------- MODULE Runs --------------------------------
(***************************************************************************)
(* The life of runs: queued by the API, claimed and executed by workers    *)
(* (worker.py run_forever; service.py claim_next_run, requeue_stale_runs,  *)
(* execute_run), through the stages of the graph (agent/graph.py) with a   *)
(* checkpoint after each.                                                  *)
(*                                                                         *)
(* Covered: workers that race for runs; a worker killed between any two    *)
(* steps, among them the two writes that make a checkpoint and the gate's  *)
(* transaction and its checkpoint; another worker that finds the heartbeat *)
(* stale and resumes or restarts; a stage that raises; people who commit   *)
(* at any time; and, with SlowStages, a stage that outlives the 60 s after *)
(* which its worker counts as dead, so that two workers execute one run.   *)
(*                                                                         *)
(* Abstracted: what the stages compute.  A stage is known by its entry in  *)
(* the stage log, and the gate also by its transaction.  The heartbeat is  *)
(* stale or not.  The checkpointer is LangGraph's, as agent/graph.py       *)
(* describes it: put() saves the values, put_writes() what comes next, and *)
(* a reader sees the latest put.  The database is Postgres.                *)
(***************************************************************************)
EXTENDS Naturals, Sequences, FiniteSets

CONSTANTS
  Workers,
  MaxRuns,      \* bound: runs ever queued; they are numbered in that order
  MaxCrashes,   \* bound: workers killed
  MaxAttempts,  \* bound: claims of one run
  MayRaise,     \* bound: the runs whose execution may raise
  NoRun,        \* the run of a worker that has none
  NoWorker,     \* the writer of a checkpoint not yet written
  SlowStages    \* a stage may take longer than STALE_HEARTBEAT_SECONDS

ASSUME BoundsAssumption ==
  /\ MaxRuns \in Nat /\ MaxCrashes \in Nat /\ MaxAttempts \in Nat
  /\ MayRaise \subseteq 1 .. MaxRuns
ASSUME NoRunAssumption == NoRun \notin Nat
ASSUME NoWorkerAssumption == NoWorker \notin Workers
ASSUME ModeAssumption == SlowStages \in BOOLEAN

RunIds == 1 .. MaxRuns

VARIABLES
  status,      \* Run.status; "absent" before the row exists
  stale,       \* whether Run.heartbeat_at is older than the cutoff
  attempt,     \* Run.attempt
  stageLog,    \* Run.stage_log
  checkpoint,  \* the latest checkpoint of the run's thread
  gates,       \* transactions of stage_gate committed for the run
  proofs,      \* UntouchedProof rows of the run
  worker,      \* what each worker process is doing
  crashes,     \* history: workers killed so far
  torn,        \* history: kills that left the run's checkpoint half written
  losses       \* history: executions of the run killed or overtaken by the cutoff

runVars == <<status, stale, attempt, stageLog>>
effectVars == <<gates, proofs>>
historyVars == <<crashes, torn, losses>>
vars == <<runVars, checkpoint, effectVars, worker, historyVars>>
----------------------------------------------------------------------------
(* The graph (agent/graph.py build_graph).                                 *)

Stages == {"intake", "classify", "extract", "extract_retry", "reconcile", "examine",
           "gate"}

(* Where a stage may lead; "end" is END, an empty next.                    *)
Successors(s) ==
  CASE s = "intake"        -> {"classify"}
    [] s = "classify"      -> {"extract", "gate"}
    [] s = "extract"       -> {"extract_retry", "reconcile"}
    [] s = "extract_retry" -> {"reconcile"}
    [] s = "reconcile"     -> {"examine"}
    [] s = "examine"       -> {"gate"}
    [] s = "gate"          -> {"end"}

(* A checkpoint: the log of the stages done, what is scheduled, and who    *)
(* put it.                                                                 *)
Checkpoint == [log : Seq(Stages), next : Stages \cup {"end"},
               by : Workers \cup {NoWorker}]
NoCheckpoint == [log |-> << >>, next |-> "end", by |-> NoWorker]

(* idle, polling (stale runs requeued), picked (a run's row locked by the  *)
(* claim), claimed, working (a stage in progress), gated (the gate's       *)
(* transaction committed), saved (put done, put_writes not), done (the     *)
(* graph has ended), dead.                                                 *)
Phases == {"idle", "polling", "picked", "claimed", "working", "gated", "saved",
           "done", "dead"}
Process == [phase : Phases, run : RunIds \cup {NoRun}, stage : Stages,
            log : Seq(Stages)]
Idle == [phase |-> "idle", run |-> NoRun, stage |-> "intake", log |-> << >>]
Dead == [Idle EXCEPT !.phase = "dead"]
Picked(r) == [phase |-> "picked", run |-> r, stage |-> "intake", log |-> << >>]

(* w is inside execute_run for r.                                          *)
Executes(w, r) ==
  worker[w].run = r /\ worker[w].phase \in {"claimed", "working", "gated", "saved", "done"}

Reached(log, s) == \E i \in DOMAIN log : log[i] = s

Init ==
  /\ status = [r \in RunIds |-> "absent"]
  /\ stale = [r \in RunIds |-> FALSE]
  /\ attempt = [r \in RunIds |-> 0]
  /\ stageLog = [r \in RunIds |-> << >>]
  /\ checkpoint = [r \in RunIds |-> NoCheckpoint]
  /\ gates = [r \in RunIds |-> 0]
  /\ proofs = [r \in RunIds |-> 0]
  /\ worker = [w \in Workers |-> Idle]
  /\ crashes = 0
  /\ torn = [r \in RunIds |-> 0]
  /\ losses = [r \in RunIds |-> 0]
----------------------------------------------------------------------------
(* People.                                                                 *)

(* api/app.py start_run, mcp/server.py start_run, watcher.py poll.         *)
StartRun(r) ==
  /\ status[r] = "absent"
  /\ \A s \in 1 .. r - 1 : status[s] # "absent"
  /\ status' = [status EXCEPT ![r] = "queued"]
  /\ UNCHANGED <<stale, attempt, stageLog, checkpoint, effectVars, worker, historyVars>>

(* Mutant: FOR UPDATE SKIP LOCKED is left out, as it is on SQLite.         *)
Unlocked_Never(r) == TRUE

(* No claim has the run's row locked: SKIP LOCKED passes over a locked     *)
(* row, an UPDATE waits for it.                                            *)
Unlocked(r) == \A w \in Workers : ~(worker[w].phase = "picked" /\ worker[w].run = r)

(* The end of commit_approved: the run is committed whatever it was.       *)
CommitRun(r) ==
  /\ status[r] # "absent"
  /\ Unlocked(r)
  /\ status' = [status EXCEPT ![r] = "committed"]
  /\ UNCHANGED <<stale, attempt, stageLog, checkpoint, effectVars, worker, historyVars>>

(* Sixty seconds pass without a heartbeat.  Unless stages can be slow,     *)
(* that happens to a run nobody executes only.                             *)
Age(r) ==
  /\ status[r] # "absent" /\ ~stale[r]
  /\ SlowStages \/ \A w \in Workers : ~Executes(w, r)
  /\ stale' = [stale EXCEPT ![r] = TRUE]
  /\ losses' = IF \E w \in Workers : Executes(w, r)
                THEN [losses EXCEPT ![r] = @ + 1] ELSE losses
  /\ UNCHANGED <<status, attempt, stageLog, checkpoint, effectVars, worker, crashes, torn>>
----------------------------------------------------------------------------
(* The worker's loop (worker.py run_forever).                              *)

(* Mutants: the comparison with the cutoff is the wrong way round; the     *)
(* status is not looked at.                                                *)
Requeueable_Flipped(r) == status[r] = "running" /\ ~stale[r]
Requeueable_AnyStatus(r) == status[r] # "absent" /\ stale[r]

(* The WHERE of requeue_stale_runs.                                        *)
Requeueable(r) == status[r] = "running" /\ stale[r]

Sweep(w) ==
  /\ worker[w].phase = "idle"
  /\ status' = [r \in RunIds |-> IF Requeueable(r) THEN "queued" ELSE status[r]]
  /\ worker' = [worker EXCEPT ![w].phase = "polling"]
  /\ UNCHANGED <<stale, attempt, stageLog, checkpoint, effectVars, historyVars>>

Claimable(r) == status[r] = "queued" /\ Unlocked(r)

(* claim_next_run, the SELECT: the oldest claimable run, if there is one.  *)
Pick(w) ==
  /\ worker[w].phase = "polling"
  /\ \/ \E r \in RunIds :
          /\ Claimable(r)
          /\ \A s \in 1 .. r - 1 : ~Claimable(s)
          /\ attempt[r] < MaxAttempts
          /\ worker' = [worker EXCEPT ![w] = Picked(r)]
     \/ /\ \A r \in RunIds : ~Claimable(r)
        /\ worker' = [worker EXCEPT ![w] = Idle]
  /\ UNCHANGED <<runVars, checkpoint, effectVars, historyVars>>

(* claim_next_run, the UPDATE and the commit.                              *)
Take(w) ==
  LET r == worker[w].run IN
  /\ worker[w].phase = "picked"
  /\ status' = [status EXCEPT ![r] = "running"]
  /\ stale' = [stale EXCEPT ![r] = FALSE]
  /\ attempt' = [attempt EXCEPT ![r] = @ + 1]
  /\ worker' = [worker EXCEPT ![w].phase = "claimed"]
  /\ UNCHANGED <<stageLog, checkpoint, effectVars, historyVars>>
----------------------------------------------------------------------------
(* execute_run.                                                            *)

(* Mutants: an empty next is believed; a started thread is entered afresh. *)
ResumeStrategy_TrustsNext(c) ==
  IF c.log # << >> /\ c.next # "end" THEN "resumed"
  ELSE IF c.log # << >> THEN "already_complete" ELSE "fresh"
ResumeStrategy_Afresh(c) ==
  IF c.log # << >> /\ Reached(c.log, "gate") THEN "already_complete" ELSE "fresh"

(* resume_strategy.                                                        *)
ResumeStrategy(c) ==
  IF c.log # << >> /\ c.next # "end" THEN "resumed"
  ELSE IF c.log # << >> /\ Reached(c.log, "gate") THEN "already_complete"
  ELSE "fresh"

(* The graph is entered.  A fresh input state has an empty log, which the  *)
(* log's reducer adds to whatever log the thread already has.              *)
Enter(w) ==
  LET c == checkpoint[worker[w].run] IN
  /\ worker[w].phase = "claimed"
  /\ worker' = [worker EXCEPT ![w] =
       CASE ResumeStrategy(c) = "resumed" ->
              [@ EXCEPT !.phase = "working", !.stage = c.next, !.log = c.log]
         [] ResumeStrategy(c) = "fresh" ->
              [@ EXCEPT !.phase = "working", !.stage = "intake", !.log = c.log]
         [] ResumeStrategy(c) = "already_complete" ->
              [@ EXCEPT !.phase = "done", !.log = c.log]]
  /\ UNCHANGED <<runVars, checkpoint, effectVars, historyVars>>

(* stage_gate commits its items and its unsupported claims.  (What the     *)
(* other stages write can be written again.)                               *)
CommitGate(w) ==
  LET r == worker[w].run IN
  /\ worker[w].phase = "working" /\ worker[w].stage = "gate"
  /\ gates' = [gates EXCEPT ![r] = @ + 1]
  /\ worker' = [worker EXCEPT ![w].phase = "gated"]
  /\ UNCHANGED <<runVars, checkpoint, proofs, historyVars>>

(* The stage is over and put() saves its values: a new latest checkpoint,  *)
(* with nothing scheduled yet.                                             *)
Put(w) ==
  LET r == worker[w].run
      log == Append(worker[w].log, worker[w].stage) IN
  /\ \/ worker[w].phase = "working" /\ worker[w].stage # "gate"
     \/ worker[w].phase = "gated"
  /\ checkpoint' = [checkpoint EXCEPT ![r] = [log |-> log, next |-> "end", by |-> w]]
  /\ worker' = [worker EXCEPT ![w].phase = "saved", ![w].log = log]
  /\ UNCHANGED <<runVars, effectVars, historyVars>>

(* put_writes() schedules what comes next, if that checkpoint is still the *)
(* latest; the heartbeat is set, and the next stage starts.                *)
Schedule(w) ==
  LET r == worker[w].run IN
  /\ worker[w].phase = "saved"
  /\ Unlocked(r)
  /\ \E next \in Successors(worker[w].stage) :
       /\ checkpoint' = [checkpoint EXCEPT ![r] =
            IF @.by = w THEN [@ EXCEPT !.next = next] ELSE @]
       /\ worker' = [worker EXCEPT ![w] =
            IF next = "end" THEN [@ EXCEPT !.phase = "done"]
                            ELSE [@ EXCEPT !.phase = "working", !.stage = next]]
  /\ stale' = [stale EXCEPT ![r] = FALSE]
  /\ UNCHANGED <<status, attempt, stageLog, effectVars, historyVars>>

(* Mutant: a status that is not one of RunStatus.                          *)
FinalStatus_Misspelt == "awaiting"

FinalStatus == "awaiting_approval"

(* The last transaction: the proof, the status whatever it was, and the    *)
(* log of the latest checkpoint.                                           *)
Finish(w) ==
  LET r == worker[w].run IN
  /\ worker[w].phase = "done"
  /\ Unlocked(r)
  /\ proofs' = [proofs EXCEPT ![r] = @ + 1]
  /\ status' = [status EXCEPT ![r] = FinalStatus]
  /\ stageLog' = [stageLog EXCEPT ![r] = checkpoint[r].log]
  /\ worker' = [worker EXCEPT ![w] = Idle]
  /\ UNCHANGED <<stale, attempt, checkpoint, gates, historyVars>>

(* execute_run raises: the worker marks the run failed, whatever it was.   *)
Fail(w) ==
  LET r == worker[w].run IN
  /\ \E s \in MayRaise : Executes(w, s)
  /\ Unlocked(r)
  /\ status' = [status EXCEPT ![r] = "failed"]
  /\ worker' = [worker EXCEPT ![w] = Idle]
  /\ UNCHANGED <<stale, attempt, stageLog, checkpoint, effectVars, historyVars>>

(* The process is killed; an open transaction rolls back.                  *)
Crash(w) ==
  LET r == worker[w].run IN
  /\ worker[w].phase # "dead"
  /\ crashes < MaxCrashes
  /\ crashes' = crashes + 1
  /\ torn' = IF worker[w].phase = "saved" THEN [torn EXCEPT ![r] = @ + 1] ELSE torn
  /\ losses' = IF Executes(w, r) THEN [losses EXCEPT ![r] = @ + 1] ELSE losses
  /\ worker' = [worker EXCEPT ![w] = Dead]
  /\ UNCHANGED <<runVars, checkpoint, effectVars>>

(* Somebody starts the process again.                                      *)
Restart(w) ==
  /\ worker[w].phase = "dead"
  /\ worker' = [worker EXCEPT ![w] = Idle]
  /\ UNCHANGED <<runVars, checkpoint, effectVars, historyVars>>
----------------------------------------------------------------------------
Loop(w) ==
  \/ Sweep(w) \/ Pick(w) \/ Take(w) \/ Enter(w) \/ CommitGate(w) \/ Put(w)
  \/ Schedule(w) \/ Finish(w)

Next ==
  \/ \E r \in RunIds : StartRun(r) \/ CommitRun(r) \/ Age(r)
  \/ \E w \in Workers : Loop(w) \/ Fail(w) \/ Crash(w) \/ Restart(w)

Spec == Init /\ [][Next]_vars

(* A live process keeps running, and time passes.                          *)
Fairness ==
  /\ \A w \in Workers : WF_vars(Loop(w))
  /\ \A r \in RunIds : WF_vars(Age(r))

FairSpec == Spec /\ Fairness
----------------------------------------------------------------------------
(* Properties.                                                             *)

(* Rows, checkpoints and processes have the shape models.py and            *)
(* agent/graph.py give them.                                               *)
TypeOK ==
  /\ status \in [RunIds -> {"absent", "queued", "running", "awaiting_approval",
                            "committed", "failed"}]
  /\ stale \in [RunIds -> BOOLEAN]
  /\ attempt \in [RunIds -> Nat]
  /\ stageLog \in [RunIds -> Seq(Stages)]
  /\ checkpoint \in [RunIds -> Checkpoint]
  /\ gates \in [RunIds -> Nat]
  /\ proofs \in [RunIds -> Nat]
  /\ worker \in [Workers -> Process]
  /\ \A w \in Workers : worker[w].run = NoRun <=> worker[w].phase \in {"idle", "polling", "dead"}
  /\ crashes \in Nat
  /\ torn \in [RunIds -> Nat]
  /\ losses \in [RunIds -> Nat]

(* Two workers never execute one run, however claims, sweeps, commits and  *)
(* kills interleave (service.py:5 "so two workers never take the same      *)
(* run"), provided no stage outlives the heartbeat.                        *)
OneExecutor ==
  \A r \in RunIds : \A u, w \in Workers : Executes(u, r) /\ Executes(w, r) => u = w

(* A run that is put before people went through the gate, and its row says *)
(* so: a half-written checkpoint never passes for a finished run           *)
(* (resume_strategy), provided no stage outlives the heartbeat.            *)
AwaitingMeansGated ==
  \A r \in RunIds : status[r] = "awaiting_approval" =>
    gates[r] > 0 /\ Reached(stageLog[r], "gate")

(* A stage is repeated only because a kill tore a checkpoint: resuming     *)
(* from a whole one repeats nothing (README.md:114), provided no stage     *)
(* outlives the heartbeat.                                                 *)
RepeatsAreTears ==
  \A r \in RunIds : \A s \in Stages :
    Cardinality({i \in DOMAIN checkpoint[r].log : checkpoint[r].log[i] = s}) <= 1 + torn[r]

(* Where a run is for those who queued it; whoever executes it has it,     *)
(* whatever its status.                                                    *)
Executors(r) == {w \in Workers : Executes(w, r)}

JobOf(r) ==
  IF Executors(r) # {} \/ status[r] = "running" THEN "taken"
  ELSE IF status[r] \in {"absent", "queued"} THEN status[r]
  ELSE "settled"

Place == [r \in RunIds |-> JobOf(r)]
Hands == [r \in RunIds |-> Executors(r)]

Jobs == INSTANCE JobQueue WITH
  Jobs <- RunIds, job <- Place, hands <- Hands, results <- proofs

(* Runs are the jobs of a queue: however claims, sweeps, commits and kills *)
(* interleave, a run is given to a worker when no other has it, is queued  *)
(* again only when its worker was lost, and is never given out again once  *)
(* it was settled (service.py:5, requeue_stale_runs, execute_run),         *)
(* provided no stage outlives the heartbeat.                               *)
RunsAreJobs == Jobs!Spec

(* A run is completed once: one untouched proof, however often it was      *)
(* taken up (execute_run), provided no stage outlives the heartbeat.       *)
OneProof == \A r \in RunIds : proofs[r] <= 1

(* Each claim of a run after the first is for one execution of it that was *)
(* lost, to a kill or to the cutoff: no run is claimed twice on account of *)
(* one loss, and a run that ended or was committed is not claimed for it   *)
(* (claim_next_run, requeue_stale_runs).                                   *)
ClaimsFollowLosses == \A r \in RunIds : attempt[r] <= 1 + losses[r]

(* A commit that lands at any moment of a run's life keeps the run from    *)
(* being taken up from then on, even one that meets a claim between its    *)
(* SELECT and its UPDATE, and nobody takes it back but an execution that   *)
(* has the run already and ends (commit_approved, claim_next_run,          *)
(* requeue_stale_runs).                                                    *)
CommittedIsLeftAlone ==
  [][\A r \in RunIds : status[r] = "committed" =>
       /\ attempt'[r] = attempt[r]
       /\ \/ status'[r] = "committed"
          \/ \E w \in Workers : Executes(w, r) /\ worker'[w] = Idle]_vars

(* A committed run stays committed.  That execution does take it back, as  *)
(* execute_run and the worker's handler set the status whatever it was.    *)
CommittedIsFinal ==
  [][\A r \in RunIds : status[r] = "committed" => status'[r] = "committed"]_status

(* A queued run is executed to an end although a worker dies over it, as   *)
(* long as one is left (requeue_stale_runs).                               *)
QueuedRunsSettle ==
  \A r \in RunIds :
    status[r] = "queued" ~> status[r] \in {"awaiting_approval", "committed", "failed"}

(* service.py:139: "A restart is safe: every stage is idempotent": the     *)
(* unsupported claims of a run are recorded once.                          *)
ClaimsRecordedOnce == \A r \in RunIds : gates[r] <= 1
=============================================================================
