# Ledgerline in TLA+

Ledgerline reads a pile of documents, proposes what a register of facts should
say, and lets people decide; what they approve is committed to the register with
a ledger entry for every change. This directory models the parts of it where
several actors meet, checks them with TLC on small instances and proves what
matters most with TLAPS for instances of any size. Paths below are relative to
`src/ledgerline/src/ledgerline/` unless they start with `README.md`, which is
`src/ledgerline/README.md`.

## 1. The system

| Part | State it keeps | Operations | What makes it correct |
|---|---|---|---|
| Commit gate and register (`service.py`, `models.py`) | register version, fields, ledger, pending items | `decide_items`, `commit_approved` | only approved items enter the register; the ledger replays to the register; a commit takes effect whole, on the version its client named, or not at all |
| Run lifecycle and worker (`service.py`, `worker.py`) | run rows: status, heartbeat, attempt, stage log | `claim_next_run`, `requeue_stale_runs`, `resume_strategy`, `execute_run`, `run_forever` | one executor per run; a run is completed once; a run shown to people has been through the gate; queued runs settle |
| Graph (`agent/graph.py`) | a checkpoint per run (LangGraph's) | one node per stage, two conditional edges | resuming repeats only what a kill tore |
| Stages (`agent/stages.py`, `agent/state.py`) | the graph's state, document rows | intake, classify, extract, extract_retry, reconcile, examine, gate | write boundary, degradation and injection hits are reported, rows tell the outcome |
| Verification (`verification.py`) | none | `verify_fields`, `apply_judgement`, `reject_unjudged` | each claim is verified or refused, for a reason |
| Reconciliation (`register/reconcile.py`) | none | `reconcile`, `compute_inputs_hash`, `build_proof` | updates only for empty fields, conflicts for the rest; the untouched proof fails only for a cause |
| Rules engine (`rules/engine.py`, `rules/playbook.yaml`) | none | `evaluate_deterministic` and its checks | the findings are those the playbook asks for, and move only the way new facts allow |
| Model client (`llm/client.py`) | usage list, faults used up | `TieredModelClient.invoke`, `FaultyClient.invoke`, `cost_report` | a tier is left only when it is spent; usages and report tell what was done |
| Folder watcher (`watcher.py`) | sizes of the last poll | `poll`, `watch_forever` | only whole files, each once, each named by a run |
| REST and MCP surfaces (`api/app.py`, `mcp/server.py`) | none of their own | upload, start a run, list, decide, commit | a client commits what it saw |
| Extraction of text, injection scan, prompts, review pages, command line, corpus, prices | none | pure functions, projections, wrappers | - |

They interact through the database alone. Surfaces and watcher insert documents
and queued runs; workers claim runs and execute the graph; its last stage inserts
pending items; reviewers list, decide and commit through the surfaces, which
writes the register that the next run reconciles against. Each `session_scope`
is one transaction (`db.py:43`); nothing spans two of them except the pile's row
lock (`service.py:304`), the run's row lock (`service.py:77`), the unique
constraints and the heartbeat.

The hard behaviours follow from that: values read in one transaction and used in
a later one (a run's snapshot of the register, an item's status, a listing, a
known document), workers killed between a transaction and its checkpoint or
within a checkpoint, heartbeats that age during a long stage, and model calls
that fail half way through a stage. `PROJECT.json` lists them with their lines
and the properties that catch them.

## 2. Modules

| Module | Models | Extends / instantiates |
|---|---|---|
| `CasRegister` | what the register promises: a compare-and-set store (abstract) | - |
| `Board` | what the queue promises to runs: all of a gate's items at once, the first owner stays (abstract) | - |
| `JobQueue` | what the queue of runs promises: one worker at a time, again only if that worker was lost, never once settled (abstract) | - |
| `Gate` | proposals, decisions, listings and commits on one pile | instantiates `CasRegister` |
| `Inserts` | the gate's transaction insert by insert, next to other runs' gates | instantiates `Board` |
| `Window` | one execution's reads of a register that commits move under it | - |
| `Runs` | run rows, workers, checkpoints | instantiates `JobQueue` |
| `Pipeline` | the stages of one run, with the model's failures | - |
| `Intake` | folder watcher and uploads | - |
| `Client` | the tiered model client of an execution and its cost report | - |
| `Rules` | the playbook's checks over a register that grows | - |
| `GateProofs`, `InsertsProofs`, `WindowProofs`, `RunsProofs`, `PipelineProofs`, `IntakeProofs`, `ClientProofs`, `RulesProofs` | theorems | the module each is named after |
| `MCGate`, `MCInserts`, ... | small instances, symmetry | the module each is named after |

Variables are the columns they stand for, named in the comment beside each
declaration, and the local state of the processes that use them. Actions are the
steps between which something else may happen: a transaction, or the part of a
function on one side of a commit, an `await` of the database or a checkpoint.
`PROJECT.json` ("map") gives the lines of every definition. A definition with a
suffix after an underscore (`RowLockFree_NoLock`) is a mutant: the form the
definition would have with a plausible bug, there to show that a property can
fail. It is not part of the specification.

How the modules fit together. `Gate` inserts a run's items in one step; `Inserts`
shows that the transaction of single inserts is such a step to everybody else, by
implementing `Board`. `Window` takes commits to be compare-and-set, which `Gate`
shows by implementing `CasRegister`, and the gate's inserts to be one step. `Gate` and
`Window` give a run one executor at a time, which `Runs` shows by implementing `JobQueue`. `Pipeline` takes a
call of the model to be answered or exhausted, which is what `Client` makes of it.
`Window` reduces the playbook to a rule that faults some values; `Rules` has the rules.

### Gate

A run is claimed, reads the register and reconciles (`ReconcileStage`), inserts
its items (`GateStage`, by dedupe key, never touching a row that is there), and
finishes, fails or is killed; taken up again, it goes on from its checkpoint or
starts afresh. A reviewer's client lists in two reads, in the order of either surface
(`VersionFirst`), decides in two steps (`decide_items` reads rows and writes them
later by primary key), and commits: the request waits for the pile's row lock,
checks the version, loads the approved items, applies them one by one in a
private transaction and installs everything at the end, or dies half way.

Abstracted: a document is the quotes it supplies, an inputs hash is the set of
quotes it is taken over. Conflicts, findings and escalations, all of which
`commit_approved` ignores, are one kind. A dispute between documents and a
contradiction of the register are told apart by their records, where the code
hashes both over a list of values.

### Inserts

`stage_gate` opens one transaction, reads the keys that are pending or rejected (`Begin`), and
for each proposal skips a known key, collides with a committed row, or inserts, each
in a savepoint. An insert of a key that an open transaction holds waits: it is the
disabledness of all three. A ring of waits is broken by the server
(`Deadlock`), whose error is not the `IntegrityError` that `add` catches, so the
run fails. A kill rolls the transaction back, or strikes between the commit and the checkpoint.

This is Postgres's behaviour of a unique constraint, taken from how the
code relies on it. The share lock that the foreign key takes on the pile's row is
left out: a commit takes that row first and afterwards needs no lock a gate holds.

### Window

An execution reads the register at its start (`Start`), to reconcile, to examine
and at its end (`Finish`, the untouched proof). Between any two of them
other runs' updates are decided and committed, or the worker is killed. A run that is resumed goes on
from its checkpoint but takes a new `before` snapshot, as `execute_run` does. A kill may tear the
checkpoint that is being written (`Tear`): before the gate the run then begins afresh, without what it had
proposed; once the gate is in its log it counts as complete.
`Finding` names a path and a value; the dedupe key of its row leaves the value out, as
`stage_gate`'s does.

### Runs

A run row is inserted by `StartRun`; a worker's loop (`Loop`) sweeps stale
heartbeats, picks a row under the claim's lock clause, takes it, decides whether
to resume, and goes stage by stage through the graph. A checkpoint is two writes
(values, then what is scheduled), so a kill may tear it; the gate commits its own
transaction before its checkpoint is put. `Age` makes a heartbeat stale, during a
stage too if `SlowStages`. `CommitRun` is a person's commit, which no caller
restricts to runs that await approval, so it may come at any moment; like every
update of the row it waits for a claim that has the row locked (`Unlocked`).
`losses` is a history variable: how often an execution of the run was killed or was
overtaken by the cutoff.

As a job of `JobQueue`, a run is in the hands of whoever executes it (`Executors`);
while nobody does it is taken if its status is running, and otherwise absent, queued
or settled as its status says. The queue hands jobs to named workers; the code
looks at no name, it has a status, a heartbeat and a row lock.

Abstracted: what the stages compute, and LangGraph itself, which is modelled as
`agent/graph.py` describes its checkpointer.

### Pipeline

Each stage goes over its documents one by one, writes their rows, and returns
its results to the graph's state at the end. Every model call may be answered,
in any way that differs for the properties, or exhausted. A kill restarts the stage from the
checkpoint, or the run from nothing. Claims are paths with how their quote relates to the document;
values are left out, and so are the findings that rules and the judge's
questions make. `exhausted` is a history variable: where the run did without the model.

### Intake

Writers create, grow and remove files at any time. A poll looks at sizes
(`Scan`), then goes through the stable files in order: reads (`ReadFile`), skips
or fails on each, inserts its row in a transaction of its own (`InsertRow`) unless
an upload was first (`InsertFails`), and queues one run at the end (`EndPoll`). No
exception but `UnsupportedFormatError` is caught, so the others end the process.
A file's bytes are a text and how much of it is there; an empty file counts as
not there.

### Client

A stage asks (`Ask`), and each attempt (`Try`) is one step: the fault plan injects a
failure or a throttle (`Inject`) or the model itself answers, throttles, fails or
raises something else; the attempt ends the call, is repeated, or moves on
to the fallback tier. Answers are noted as usages; `Close` makes the cost report of them.
Each tier has a model of its own, so a model is named by its tier. Each stage names its tier in its own
request (`ClassifyTier`, `SpanJudgeTier`, `ExamineJudgeTier`, `TierOf`); of the two judges only
the one of the text rules asks a tier without a fallback (`Chain`). `past`, the
ended calls with all their attempts, is a history variable.

### Rules

`Evaluate` is `evaluate_deterministic` on the rules of `playbook.yaml`, one operator for
each kind of check; `SetField` is a commit that fills or overwrites one field, with values that
do not parse among them. The rate schedule is what the code's `sort` makes of the
readable rows (`Rows`): their only enumeration in the order of dates and, as the sort is stable
and the rows come by path, of paths (`Schedule`). The properties compare `Evaluate` with definitions made
without it (`RateInForceIsBilled`) or with itself across a step. Text
parsing, messages and the cut of a finding's evidence are left out.

## 3. Runs of TLC

All bounds are constants, marked `bound:` where they are declared.

| Run | Question | Instance | Result |
|---|---|---|---|
| `gate_commits` | are commits compare-and-set, the ledger exact and decisions final, when a run repeats its proposals under two reviewers? | one run that may die, two executions, two reviewers, one field, two values, one document or both, two commits, items decided one at a time | 1.44M states, holds |
| `gate_clobber` | can a commit replace a value nobody compared it with? | two runs that do not die | violated |
| `gate_rejected` | can an item read rejected and be in the register? | one run, two reviewers | violated |
| `runs_lifecycle` | do claims, sweeps, checkpoints and kills leave one executor and one completion, repeat only what was torn, and leave no run stuck? | one run, three workers, two kills, three attempts, stages may raise but never outlive the heartbeat, commits at any time | 1.01M states, holds, refinement and liveness included |
| `pipeline_stages` | do failures of the model or a kill let a claim, a hit or a flag slip? | two documents, two types, two paths, one poisoned document, one kill | 0.16M states, holds, liveness included |
| `pipeline_thin` | is a result that lacks an answer always marked? | one document, no kill | violated |
| `intake_polls` | do half-written, repeated, removed files come in wrongly or not at all? | two files and an unsupported one, of three pieces each, dropped any number of times, one uploader, any number of kills | 0.46M states, holds, liveness included |
| `inserts_gates` | do gates that collide, wait, die and deadlock lose a proposal, hang, or show themselves half done? | three gates with two or three of three keys, rings of two and of three possible, one kill | 0.33M states, holds, refinement and liveness included |
| `window_reads` | what do commits between an execution's reads do to its proof, its updates and its findings? | three runs, one field, two values of which one is faulted, two commits, one kill, torn checkpoints included | 1.21M states, holds |
| `window_findings` | is a run's finding always before the reviewer? | two runs, both values faulted | violated |
| `client_calls` | can a tier be left early, or a usage or the report be wrong? | two calls, three tries a model, five fault plans, every outcome | 0.14M states, holds |
| `rules_playbook` | do the checks say what the playbook means, in whatever order facts arrive? | three rates and a bill; two amounts and a cap; two orders and two references; terms and notices | 42k states, holds |

Why the bounds are enough to be of interest. Two reviewers and two rival items are the
least with which a decision crosses a commit and a commit crosses a commit; the second
commit is the one that meets a moved version. The two items come from two executions of
one run, each of which extracted another value. With `RunIds = {r1, r2}`, `MayDie = {}` and `OneEach` the
cfg of `gate_commits` has them come from two runs instead, and the properties hold there too.
Two kills of three workers reach a torn checkpoint of a run that was itself taken up after a torn
checkpoint, and leave a worker to finish. Two documents let one fail and the other not, in each
stage. Two files are the least with which one poll takes in more than one document; the
same bytes come in twice by a file dropped again and by an upload; and of three
pieces a file has a size that was seen while it is still growing. Three gates are the least
with a ring that is not two neighbours, and leave one gate to insert while two wait. Three
runs let two others commit between two reads of one. Two calls let the first use up
injected faults the second would have met. Three rates have one before, one on and one
after a bill's day, or two on one day.
Symmetry is used only without liveness, over reviewers, runs and
documents with their values, which no definition tells apart.

### What the violations say

They are disagreements between the code and what the repository says of it; each
is a finding with its quotation in `PROJECT.json`.

- `NeverClobbers`: the optimistic check compares versions. It never compares an
  item's recorded before-value with the register, so of two updates proposed
  for an empty field by parallel runs the second replaces the first if its
  committer has listed again in between.
- `RejectedIsNotApplied`: `decide_items` reads an item and writes it later with
  neither lock nor condition; a rejection may land on an item another reviewer
  has approved and committed.
- `FindingsArePresented`: the dedupe key of a finding has its rule, path and title only. A second run
  that breaks the same rule by another value presents nothing; the queue tells of the first run's value.
- `ThinIsMarked`: exhaustion in the retry or the span judge does not set the flag.

### Shown by a change to a cfg

Some statements are kept in the modules without a run of their own; each is
violated by the code as modelled and is found so with the change given:

| Statement | Change | What it says |
|---|---|---|
| `Gate!CommitSeesListedRegister` | `gate_commits` with `VersionFirst = FALSE` | in the order of the REST listing (`api/app.py:230-241`) a commit between the two reads gives a client the new version with the old items; the MCP surface reads the version first and has the property |
| `Runs!OneExecutor`, `RepeatsAreTears`, `OneProof`, `AwaitingMeansGated`, `RunsAreJobs` | `runs_lifecycle` with `SlowStages = TRUE`, even if nobody is killed | the heartbeat is set between stages only, so a stage of over sixty seconds has its run requeued under it: two workers execute it, each on the checkpoints of the other; stages repeat that no kill tore, the run is completed twice, and its row gets the stage log of the other's checkpoint, which may not have come to the gate. All theorems and properties of `Runs` that say "provided no stage outlives the heartbeat" rest on this |
| `Runs!CommittedIsFinal` | as a property of `runs_lifecycle` | a commit that lands while the run is executed is taken back at its end: `execute_run` and the worker's handler set the status whatever it is |
| `Runs!ClaimsRecordedOnce` | as an invariant of `runs_lifecycle` | unsupported claims have no key, so a repeated gate records them twice |
| `Pipeline!InstructionsReported` | as an invariant of `pipeline_stages` | a run in which no document is classified goes around the stage that turns hits into findings |
| `Intake!ArrivalsSurviveRestart` | as an invariant of `intake_polls` | documents and their run are separate transactions; a kill between them leaves documents no run names |
| `Client!StageFaultsNeverFallBack` | `client_calls` with `Plans <- StagePlans`, `Outcomes = {"answer"}` | a stage's injected throttles are counted over all models; if they run out on the fallback tier, it answers, though `FaultPlan`'s comment says only model-keyed faults get there |
| `Client!JudgesStandApart` | as an invariant of `client_calls` | the judge of a single span asks the extractor's tier, fallback included, though README.md:166 has the judge on a tier of its own; what it says holds for the judge of the text rules |
| `Rules!DeadlineIsDerived` | as an invariant of `rules_playbook` | no code writes a derived field, so the rule on the notice deadline never fires |

### Fairness

- `Runs`: each live worker's loop is weakly fair (`while True` in
  `worker.py`), and heartbeats age (time passes). A restart is not fair: nobody
  promises to start a dead worker, which is why the instance has more workers than kills.
- `Pipeline`: the run's own steps are weakly fair, which `Runs` justifies; kills are not.
- `Intake`: the poll loop is weakly fair while the process lives
  (`watcher.py:139`). With `SteadyWriters` a file in progress grows from poll to
  poll and gets finished or removed, and a name is not used again before a poll has seen it gone.
  The code relies on that, it cannot enforce it: a writer that pauses for a poll
  interval does get half a file taken in.
- `Inserts`: each gate's own work is weakly fair, the deadlock detector's step among it
  (Postgres looks after `deadlock_timeout`); a killed gate is taken up again, as `Runs` shows. Kills are not fair.

Deadlock is checked where there is always something to do (`runs_lifecycle`,
`intake_polls`). Elsewhere the system may stop: reviewers with nothing left to
decide, gates and runs at their end, a client whose report is made, a register with all commits used up.

## 4. Proofs

Assumptions are the named `ASSUME`s of the modules, which TLC evaluates in every
run, and the modes named below. All theorems are for any values of the constants: any
numbers of runs, reviewers, workers, gates, documents, files, calls, kills and commits.

`GateProofs`:

- `TypeCorrect`: `Spec => []TypeOK`; so in each module of theorems.
- `LedgerAccounts`: `LedgerAccountsForRegister` is not inductive, since what a
  commit installs was computed before. `Accounting` adds that at most
  one request is past the lock (`OneCommit`), that a request not past it has
  written nothing (`CleanUntilLocked`), and that the open transaction's ledger
  accounts for its fields (`OpenAccounts`). The lemma `AccountsExtend` is the
  heart: an entry whose before-value is the field's extends an accounting.
- `EntriesApproved`: `Approvals` carries the name of the approver from the decision through the
  item's row and the entries of an open transaction, each with a confirmation in `told`.
- `DecisionsAreFinal`: from the type invariant, action by action.
- `ListingIsCurrent`, assuming `VersionFirst`: `Belief` says that what a
  client read first is no newer than the items it read next, and no newer than
  the register.
- `ImplementsCas`: each step of `Gate` is a step of `CasRegister` or stutters: `AskCommit` is a bid,
  `FinishCommit` wins, `RefuseCommit` and `DropRequest` lose. `Exclusive` (one
  request past the lock, its version still the pile's) makes the winner's version the current one.


`InsertsProofs`:

- `ProposalsStand`: `Session` says of each gate that the keys it has passed are
  known to it, that known keys are committed or its own, and that its own are no
  committed row's; `Unique` that open transactions hold different keys. At the
  commit everything asked is known, hence on the board.
- `ImplementsBoard`: under `Session`, `Commit` is `Board`'s `Present` and every other step stutters.
- `OrderedGatesSucceed`: a gate waits for a key of higher rank than all keys it
  holds (`WaitsUpward`). Of a ring, take the gate that waits for the greatest rank: whoever
  it waits for waits for a greater one (`NoRing`).
- `GatesNeverStick`: if no unfinished gate can go on, each waits for another one (`StuckWaits`), and the
  gates that wait are then a ring (`StuckIsRing`), which the database breaks. Where proposals
  keep one order there is no ring, so some gate can always go on.

`WindowProofs`:

- `ProofsHold`: `Undisturbed`, as long as nothing was clobbered, what a live execution read
  at its start still stands.
- `FreshCommits` and `FindingsHold`: `Checkpoints` ties each run's updates to the
  register it reconciled against (`Gaps`), its findings to the register it examined (`Foreseen`), and
  each row of the queue to the run that owns it (`Owned`).

`RunsProofs`:

- `OneExecutorAtATime`, assuming `~SlowStages`: `Lease` says that whoever
  executes a run finds it running with a fresh heartbeat, so that neither a sweep nor a claim touches it.
- `ProvedOnce`, under the same assumption, adds `Completed`: a completed run has one proof and no executor.
- `CommitsEndClaims` assumes nothing of stages: `Fenced` says that a run whose row a claim has locked
  is still queued, as sweeps, commits and ends of executions wait for the lock. So the claim's
  UPDATE never falls on a committed run.
- `AwaitingRunsGated`, assuming `~SlowStages`: `Progress` ties the stage log, the checkpoint and the
  gate's transactions to where each executor is, torn checkpoints included.
- `ImplementsJobQueue`, assuming `~SlowStages`: under `Lease` a claim is `Claim`, a sweep is
  `Requeue` of lost jobs and of no others, the kill of an executor is `Lose`, the last transaction is `Complete`, a
  failure or a person's early commit is `Abandon`, and all else stutters. Where people commit
  runs at any time is included: such a run stays in its executor's hands and is settled when they let go.
- `OnlyTearsRepeat`, assuming `~SlowStages`: that a log names each stage at most once more than
  there were tears is not inductive, since it says nothing of the stages to come. `Thrifty` orders the
  stages (`Rank`; every edge of the graph goes up) and says how many of a run's tears may be spent: a checkpoint
  that can be resumed names the stages from its next one on no more often than there were tears (`Enterable`), an
  executor's log likewise the stages it has yet to do (`Ahead`). A torn checkpoint is the one case
  in which nothing is said of the stages ahead, and its tear has been counted.
- `ClaimsAreBounded` (the property is `ClaimsFollowLosses`) assumes nothing of stages either: slow ones are requeued
  under their worker, and that is a loss as a kill is. A run that is up for a claim (`UpForClaim`: queued,
  locked by a claim, to be swept, or running with nobody on it) has lost every execution its claims
  led to; one that is not has lost all but the last (`PaidFor`). `OnePick`: a row is locked by one claim at a time.

`PipelineProofs`:

- `BoundaryHolds`: `Bounded`, the boundary holds in the state being
  worked on and in the checkpoint, and there are no claims while types may still change.
- `DegradationStays`: `Kept`, the flag stands beside the failure from the step that set it.
- `HitsReported`: `Carried` follows the hits from intake into the findings and into the report.
- `RowsTell`: `Told`, behind a stage's rounds the rows say what this execution made
  of the documents; what killed executions wrote is left only where rounds are to come.
- `WorkForward`: between kills each step goes up in the order of the stages (`Rank`) or takes a
  document off the stage's list, so an execution cannot go round in circles.

`IntakeProofs`:

- `WholeOnly`, under the mode `SteadyWriters` that the property itself names: `Steady` says that a
  file a poll has yet to read was whole at its scan and is whole or gone now, so that what is in hand is whole.
- `NamedOnce`: `Filed`, runs name what the watcher took in, and the poll's own documents are named by none yet.
- `ArrivalsNamed`: `Reported`, what is not yet named is the poll's own.

`ClientProofs`:

- `LastResorts`: `Trail`, of the call in progress: tiers behind it are worn
  out, its own has been throttled as often as the retry counter says, those ahead are untried. `TryCounts` says what one
  attempt does to the counts.
- `UsagesTell` and `ReportMatches`: `Accounts`, the usages of each stage are as
  many as its answered calls, the degraded ones as those another tier answered, and the counter of attempts is the number of attempts.

`RulesProofs`:

- The four theorems need no induction over steps: they hold of every register, and of every two that
  differ in one field. Each has a lemma that says what the check's verdict is (`BillVerdict`,
  `CapVerdict`, `ReferenceVerdict`), from which the property follows by cases.
- What they need is induction over finite sets. Any set of counterexamples among the subsets of a
  finite set has a smallest one (`Smallest`, from the library's facts on well-founded orders), and
  removing an element of it gives the contradiction. So sums exist, do not depend on the order
  in which they are added and lose just the value taken out of them (`SumsExist`, `SumRemove`), a finite set of rows
  has a last one (`LastRow`), can be sorted (`SortedExists`), and the sorted schedule has each of them (`SortedCovers`).
- `LastInForce`: the last place of the schedule that took effect by a day is the row of the rate that
  the property calls the latest. `RateInForceTheorem` and `LaterRatesTheorem` rest on it.
- They assume, beside the shapes of the constants, that there are finitely many rates, invoices and
  orders (`SegmentsAssumption`), as in a table of rows there are.

Checked by TLC only: the four liveness properties (`QueuedRunsSettle`, `ReachesGate`,
`WholeFilesArrive`, `GatesEnd`). `GatesNeverStick`, `WorkForward` and
`ClaimsAreBounded` are what can be proved of why they hold (somebody can go on, nobody goes back, claims run out with the
losses); from there to the end the way leads over fairness and ENABLED, which are beyond the prover. What the
first two state is defined in the modules of proofs, `ClaimsFollowLosses` in `Runs`; none of them is in a run.

Every invariant, action property and refinement of a passing run has its theorem. `OneProof` has its
theorem and no run of its own: the queue of `JobQueue`, which a run checks, completes no job twice.

## 5. Not modelled

- Text extraction, normalisation, number matching, prompts, the injection
  patterns, the fixtures and requests of the Bedrock, recording and replaying clients: data and I/O, present as what they decide.
- Review pages, the web interface, the read-only tools: they change no state.
- The command line. Its `run` queues a row and executes it without claiming it, which a
  worker may claim as well; the row lock that makes two claims safe does not apply to it.
- What reconciliation carries along: impact map, confidence, citations. The proof's
  `fields_unchanged` counts mismatched fields too; the mismatches themselves are modelled.
- `numeric_min`, which no rule of the playbook uses, and the validation in `load_playbook`.
- The findings that the judge's questions make, and model answers that do not
  validate (the run fails, which `Runs` has).
- SQLite: the model is the Postgres configuration. On SQLite the lock clauses are absent and
  writers are serialised by the database.

## 6. Plan

Done: the modules of section 2 in the order of what would hurt most, with the proofs of section 4.

Next:

1. An executor that has not claimed its run (`cli.py`), beside the workers of `Runs`.
2. `Runs` and `Client` together: the cost report of a resumed run leaves out the
   calls of the executions before it (`service.py:228`).
3. Derived fields, when there is code that writes them.
