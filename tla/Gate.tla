------------------------------- MODULE Gate -------------------------------
(***************************************************************************)
(* The gate of one pile and the register behind it: what a run proposes    *)
(* (agent/stages.py stage_reconcile, stage_gate), what people decide about *)
(* it (service.py decide_items) and what a commit makes of the decisions   *)
(* (service.py commit_approved), as the REST and MCP surfaces call them.   *)
(*                                                                         *)
(* Covered: runs of one pile in parallel, each reconciling against a       *)
(* snapshot it read earlier; a worker killed between any two stages and    *)
(* the run taken up again, from its checkpoint or from the start; two-step *)
(* decisions (the item is read, then written, with no lock between); the   *)
(* two-query listing a client works from; commits that wait for the pile's *)
(* row lock, apply item by item in a private transaction and install it    *)
(* at the end, or die half way.                                            *)
(*                                                                         *)
(* Abstracted: a document is the quotes it supplies; an inputs hash is the *)
(* set of quotes it is taken over; the kinds commit_approved ignores       *)
(* (conflict, finding, escalation) are one kind, "conflict".  The database *)
(* is Postgres at READ COMMITTED: a unique constraint settles concurrent   *)
(* inserts and FOR UPDATE holds other commits off.  Workers and heartbeats *)
(* are module Runs; here a run has at most one live executor.              *)
(***************************************************************************)
EXTENDS Naturals, Sequences, FiniteSets

CONSTANTS
  RunIds,        \* the runs of the pile
  Reviewers,     \* clients of the review surfaces
  Paths,         \* register field paths
  Values,        \* values a field may take
  Quotes,        \* quotes of the source documents
  Extractions,   \* what extraction may hand over: sets of verified claims,
                 \* [path, value, quote]
  NoValue,       \* the absence of a value
  Nobody,        \* decided_by before a decision
  NoRun,         \* the run of a request that names none
  MayDie,        \* bound: the runs whose executions may fail or be killed
  MaxAttempts,   \* bound: executions of one run
  MaxVersion,    \* bound: commits on the pile
  MaxBatch,      \* bound: items one decision names
  VersionFirst   \* listing reads the version before the items (mcp/server.py)

ASSUME ExtractionsAssumption ==
  Extractions \subseteq SUBSET [path : Paths, value : Values, quote : Quotes]
ASSUME NoValueAssumption == NoValue \notin Values /\ NoValue \notin Nat
ASSUME NobodyAssumption == Nobody \notin Reviewers
ASSUME NoRunAssumption == NoRun \notin RunIds
ASSUME BoundsAssumption ==
  /\ MaxAttempts \in Nat /\ MaxVersion \in Nat /\ MaxBatch \in Nat
  /\ MayDie \subseteq RunIds
ASSUME SurfaceAssumption == VersionFirst \in BOOLEAN

VARIABLES
  version,    \* Pile.register_version
  field,      \* RegisterField rows by path
  ledger,     \* LedgerEntry rows in order of insertion
  item,       \* PendingItem rows by dedupe key
  status,     \* Run.status
  live,       \* whether a worker is executing the run
  stage,      \* the last stage whose result is checkpointed
  proposed,   \* the updates and conflicts in a run's checkpointed state
  attempt,    \* Run.attempt
  view,       \* what each reviewer last listed
  req,        \* the request each reviewer has in flight
  told        \* history: approvals confirmed to reviewers

runVars == <<status, live, stage, proposed, attempt>>
registerVars == <<version, field, ledger>>
deskVars == <<view, req, told>>
vars == <<registerVars, item, runVars, deskVars>>
----------------------------------------------------------------------------
(* Rows and records.                                                       *)

MaybeValue == Values \cup {NoValue}

(* A dedupe key determines its item.  An update: path, after, inputs.  A   *)
(* conflict with the register: path, the two values.  A conflict between   *)
(* sources: path and the rival values.                                     *)
Key == [kind : {"update", "conflict"}, path : Paths, before : MaybeValue,
        after : MaybeValue, rivals : SUBSET Values, inputs : SUBSET Quotes]

UpdateKey(p, v, inputs) ==
  [kind |-> "update", path |-> p, before |-> NoValue, after |-> v,
   rivals |-> {}, inputs |-> inputs]

ContradictionKey(p, old, new) ==
  [kind |-> "conflict", path |-> p, before |-> old, after |-> new,
   rivals |-> {}, inputs |-> {}]

DisputeKey(p, vs) ==
  [kind |-> "conflict", path |-> p, before |-> NoValue, after |-> NoValue,
   rivals |-> vs, inputs |-> {}]

ItemRow == [status : {"pending", "approved", "rejected"}, run : RunIds,
            by : Reviewers \cup {Nobody}]

FieldRow == [value : MaybeValue, inputs : SUBSET Quotes, version : Nat]
NoField == [value |-> NoValue, inputs |-> {}, version |-> 0]

ASSUME FieldRowAssumption == NoValue \notin FieldRow

Entry == [path : Paths, item : Key, before : MaybeValue, after : MaybeValue,
          by : Reviewers \cup {Nobody}]

(* A request in flight.  keys: the items a decision has read.              *)
(* todo: the items a commit has loaded and not yet applied.  written and   *)
(* entries: the field rows and ledger entries its transaction has written  *)
(* (NoValue where it has written none).                                    *)
Request == [op : {"none", "list", "decide", "wait", "commit"},
            keys : SUBSET Key, approve : BOOLEAN, run : RunIds \cup {NoRun},
            expected : Nat, todo : SUBSET [item : Key, by : Reviewers \cup {Nobody}],
            written : [Paths -> FieldRow \cup {NoValue}],
            entries : Seq(Entry)]

NoRequest == [op |-> "none", keys |-> {}, approve |-> FALSE, run |-> NoRun,
              expected |-> 0, todo |-> {}, written |-> [p \in Paths |-> NoValue],
              entries |-> << >>]

(* The version a listing returned, and the one its items were read at.     *)
View == [version : Nat, asOf : Nat]

Init ==
  /\ version = 0
  /\ field = [p \in Paths |-> NoField]
  /\ ledger = << >>
  /\ item = << >>
  /\ status = [r \in RunIds |-> "queued"]
  /\ live = [r \in RunIds |-> FALSE]
  /\ stage = [r \in RunIds |-> "none"]
  /\ proposed = [r \in RunIds |-> {}]
  /\ attempt = [r \in RunIds |-> 0]
  /\ view = [v \in Reviewers |-> [version |-> 0, asOf |-> 0]]
  /\ req = [v \in Reviewers |-> NoRequest]
  /\ told = {}
----------------------------------------------------------------------------
(* A run, seen from the register.                                          *)

(* Candidates for one path that agree on a value, and what they cite.      *)
Agreed(c, incoming) == \A d \in incoming : d.path = c.path => d.value = c.value
Cited(c, incoming) == {d.quote : d \in {e \in incoming : e.path = c.path}}

(* register/reconcile.py reconcile: against what the register stated when  *)
(* the run read it, an agreed value is an update if the path is empty, no  *)
(* news if the inputs or the value are the same, else a conflict; sources  *)
(* that disagree are a conflict whatever the register says.                *)
Reconcile(incoming, seen) ==
  LET agreed == {c \in incoming : Agreed(c, incoming)}
      opposed == {c \in agreed : /\ seen[c.path].value # NoValue
                                 /\ seen[c.path].inputs # Cited(c, incoming)
                                 /\ seen[c.path].value # c.value}
  IN  {DisputeKey(c.path, {d.value : d \in {e \in incoming : e.path = c.path}}) :
         c \in incoming \ agreed}
        \cup {UpdateKey(c.path, c.value, Cited(c, incoming)) :
                c \in {a \in agreed : seen[a.path].value = NoValue}}
        \cup {ContradictionKey(c.path, seen[c.path].value, c.value) :
                c \in opposed}

(* A worker claims the run (service.py claim_next_run) and enters the      *)
(* graph where resume_strategy says: past the gate if it was reached, else *)
(* after the checkpointed stage or, if that cannot be trusted, afresh.     *)
Claim(r) ==
  /\ status[r] = "queued"
  /\ attempt[r] < MaxAttempts
  /\ status' = [status EXCEPT ![r] = "running"]
  /\ live' = [live EXCEPT ![r] = TRUE]
  /\ attempt' = [attempt EXCEPT ![r] = @ + 1]
  /\ \/ UNCHANGED stage
     \/ stage[r] # "gated" /\ stage' = [stage EXCEPT ![r] = "none"]
  /\ UNCHANGED <<registerVars, item, proposed, deskVars>>

(* stage_reconcile: extraction hands over some verified claims.            *)
ReconcileStage(r) ==
  /\ live[r]
  /\ stage[r] = "none"
  /\ \E incoming \in Extractions :
       proposed' = [proposed EXCEPT ![r] = Reconcile(incoming, field)]
  /\ stage' = [stage EXCEPT ![r] = "reconciled"]
  /\ UNCHANGED <<registerVars, item, status, live, attempt, deskVars>>

(* Mutant: the row is inserted without the run that proposed it.           *)
NewItem_NoRun(r) == [status |-> "pending", run |-> NoRun, by |-> Nobody]

(* A new pending_items row.                                                *)
NewItem(r) == [status |-> "pending", run |-> r, by |-> Nobody]

(* Mutant: a colliding insert replaces the row that was there.             *)
Insert_Replace(r) ==
  [k \in DOMAIN item \cup proposed[r] |->
     IF k \in proposed[r] THEN NewItem(r) ELSE item[k]]

(* Each proposal becomes a row unless its dedupe key is taken, by any run  *)
(* and whatever has been decided about it since.                           *)
Insert(r) ==
  [k \in DOMAIN item \cup proposed[r] |->
     IF k \in DOMAIN item THEN item[k] ELSE NewItem(r)]

(* stage_gate.  A worker killed after this commit and before its           *)
(* checkpoint leaves the stage to be done again.                           *)
GateStage(r) ==
  /\ live[r]
  /\ stage[r] = "reconciled"
  /\ item' = Insert(r)
  /\ stage' \in {stage, [stage EXCEPT ![r] = "gated"]}
  /\ UNCHANGED <<registerVars, status, live, proposed, attempt, deskVars>>

(* The last transaction of execute_run: the status is set whatever it was. *)
FinishRun(r) ==
  /\ live[r]
  /\ stage[r] = "gated"
  /\ live' = [live EXCEPT ![r] = FALSE]
  /\ status' = [status EXCEPT ![r] = "awaiting_approval"]
  /\ UNCHANGED <<registerVars, item, stage, proposed, attempt, deskVars>>

(* A stage raises; the worker marks the run failed, whatever it was.       *)
FailRun(r) ==
  /\ live[r]
  /\ r \in MayDie
  /\ live' = [live EXCEPT ![r] = FALSE]
  /\ status' = [status EXCEPT ![r] = "failed"]
  /\ UNCHANGED <<registerVars, item, stage, proposed, attempt, deskVars>>

(* The executor is killed and, if the run still reads running, a worker's  *)
(* requeue_stale_runs puts it back once the heartbeat is old.              *)
Killed(r) ==
  /\ live[r]
  /\ r \in MayDie
  /\ live' = [live EXCEPT ![r] = FALSE]
  /\ status' = [status EXCEPT ![r] = IF @ = "running" THEN "queued" ELSE @]
  /\ UNCHANGED <<registerVars, item, stage, proposed, attempt, deskVars>>
----------------------------------------------------------------------------
(* The review surfaces.                                                    *)

Pending == {k \in DOMAIN item : item[k].status = "pending"}

(* list_pending, the two queries.  api/app.py reads the items, then the    *)
(* version; mcp/server.py the version, then the items.                     *)
ListFirst(v) ==
  /\ req[v].op = "none"
  /\ req' = [req EXCEPT ![v] = [NoRequest EXCEPT !.op = "list",
                                                !.expected = version]]
  /\ UNCHANGED <<registerVars, item, runVars, view, told>>

ListSecond(v) ==
  /\ req[v].op = "list"
  /\ view' = [view EXCEPT ![v] =
       IF VersionFirst
       THEN [version |-> req[v].expected, asOf |-> version]
       ELSE [version |-> version, asOf |-> req[v].expected]]
  /\ req' = [req EXCEPT ![v] = NoRequest]
  /\ UNCHANGED <<registerVars, item, runVars, told>>

(* decide_items, first half: of the items the request names, those found   *)
(* pending are taken to be undecided (the others are reported back).       *)
BeginDecide(v) ==
  /\ req[v].op = "none"
  /\ \E keys \in (SUBSET Pending) \ {{}}, approve \in BOOLEAN :
       /\ Cardinality(keys) <= MaxBatch
       /\ req' = [req EXCEPT ![v] = [NoRequest EXCEPT !.op = "decide",
                                                   !.keys = keys,
                                                   !.approve = approve]]
  /\ UNCHANGED <<registerVars, item, runVars, view, told>>

(* Second half: the rows are written by primary key, with no further look  *)
(* at their status, and the caller is told they are decided.               *)
FinishDecide(v) ==
  /\ req[v].op = "decide"
  /\ item' = [k \in DOMAIN item |->
       IF k \in req[v].keys
       THEN [item[k] EXCEPT !.status = IF req[v].approve THEN "approved"
                                                         ELSE "rejected",
                            !.by = v]
       ELSE item[k]]
  /\ told' = told \cup {[by |-> v, item |-> k] :
                          k \in IF req[v].approve THEN req[v].keys ELSE {}}
  /\ req' = [req EXCEPT ![v] = NoRequest]
  /\ UNCHANGED <<registerVars, runVars, view>>
----------------------------------------------------------------------------
(* commit_approved.                                                        *)

(* The request arrives, naming a run and the version of the last listing.  *)
AskCommit(v) ==
  /\ req[v].op = "none"
  /\ version < MaxVersion
  /\ \E r \in RunIds :
       req' = [req EXCEPT ![v] = [NoRequest EXCEPT !.op = "wait", !.run = r,
                                                   !.expected = view[v].version]]
  /\ UNCHANGED <<registerVars, item, runVars, view, told>>

(* Mutant: the lock clause is left out of the query.                       *)
RowLockFree_NoLock == TRUE

(* SELECT ... FOR UPDATE on the pile's row returns when no other commit    *)
(* holds it, and then sees the latest version.                             *)
RowLockFree == \A u \in Reviewers : req[u].op # "commit"

(* Mutant: the version the client names is not compared.                   *)
VersionHolds_Unchecked(v) == TRUE

(* The optimistic check.                                                   *)
VersionHolds(v) == req[v].expected = version

(* Mutant: the status filter is left out of the query.                     *)
Selected_AnyStatus(r) ==
  {[item |-> k, by |-> item[k].by] :
     k \in {i \in DOMAIN item : item[i].run = r /\ i.kind = "update"}}

(* The rows the commit loads and will apply.                               *)
Selected(r) ==
  {[item |-> k, by |-> item[k].by] :
     k \in {i \in DOMAIN item : /\ item[i].run = r
                                /\ item[i].status = "approved"
                                /\ i.kind = "update"}}

BeginCommit(v) ==
  /\ req[v].op = "wait"
  /\ RowLockFree
  /\ VersionHolds(v)
  /\ req' = [req EXCEPT ![v] = [@ EXCEPT !.op = "commit",
                                          !.todo = Selected(req[v].run)]]
  /\ UNCHANGED <<registerVars, item, runVars, view, told>>

(* RegisterVersionConflict: nothing is written.                            *)
RefuseCommit(v) ==
  /\ req[v].op = "wait"
  /\ RowLockFree
  /\ ~VersionHolds(v)
  /\ req' = [req EXCEPT ![v] = NoRequest]
  /\ UNCHANGED <<registerVars, item, runVars, view, told>>

(* The register and its ledger as the commit's transaction sees them.      *)
TxField(v) == [p \in Paths |-> IF req[v].written[p] = NoValue
                               THEN field[p] ELSE req[v].written[p]]
TxLedger(v) == ledger \o req[v].entries

(* Mutant: the entry takes its past from the committed row, not from the   *)
(* row as the transaction has left it.                                     *)
Past_Committed(v, k) == field[k.path].value

(* before_value.                                                           *)
Past(v, k) == TxField(v)[k.path].value

(* The row an item makes of the field, created or overwritten.             *)
Revised(v, k) ==
  [value |-> k.after, inputs |-> k.inputs, version |-> TxField(v)[k.path].version + 1]

(* The ledger entry for an item, under the approval the commit loaded.     *)
NewEntry(v, t) ==
  [path |-> t.item.path, item |-> t.item, before |-> Past(v, t.item),
   after |-> t.item.after, by |-> t.by]

(* The request once an item is applied.                                    *)
Applied(v, t) ==
  [op |-> "commit", keys |-> {}, approve |-> FALSE,
   run |-> req[v].run, expected |-> req[v].expected, todo |-> req[v].todo \ {t},
   written |-> [req[v].written EXCEPT ![t.item.path] = Revised(v, t.item)],
   entries |-> Append(req[v].entries, NewEntry(v, t))]

(* One round of the loop.  The query gives the items no order.             *)
ApplyItem(v) ==
  /\ req[v].op = "commit"
  /\ \E t \in req[v].todo : req' = [req EXCEPT ![v] = Applied(v, t)]
  /\ UNCHANGED <<registerVars, item, runVars, view, told>>

(* The version moves, the run is marked committed whatever it was, and the *)
(* transaction commits.                                                    *)
FinishCommit(v) ==
  /\ req[v].op = "commit"
  /\ req[v].todo = {}
  /\ version' = version + 1
  /\ field' = TxField(v)
  /\ ledger' = TxLedger(v)
  /\ status' = [status EXCEPT ![req[v].run] = "committed"]
  /\ req' = [req EXCEPT ![v] = NoRequest]
  /\ UNCHANGED <<item, live, stage, proposed, attempt, view, told>>

(* The API process dies, or the client goes away before the lock is had;   *)
(* an open transaction rolls back.                                         *)
DropRequest(v) ==
  /\ req[v].op # "none"
  /\ req' = [req EXCEPT ![v] = NoRequest]
  /\ UNCHANGED <<registerVars, item, runVars, view, told>>
----------------------------------------------------------------------------
RunStep(r) ==
  Claim(r) \/ ReconcileStage(r) \/ GateStage(r) \/ FinishRun(r) \/ FailRun(r) \/ Killed(r)

DeskStep(v) ==
  \/ ListFirst(v) \/ ListSecond(v) \/ BeginDecide(v) \/ FinishDecide(v)
  \/ AskCommit(v) \/ BeginCommit(v) \/ RefuseCommit(v) \/ ApplyItem(v)
  \/ FinishCommit(v) \/ DropRequest(v)

Next == (\E r \in RunIds : RunStep(r)) \/ (\E v \in Reviewers : DeskStep(v))

Spec == Init /\ [][Next]_vars
----------------------------------------------------------------------------
(* Properties.                                                             *)

(* Every row, record and in-flight request has the shape models.py gives   *)
(* it.                                                                     *)
TypeOK ==
  /\ version \in Nat
  /\ field \in [Paths -> FieldRow]
  /\ ledger \in Seq(Entry)
  /\ DOMAIN item \subseteq Key
  /\ item \in [DOMAIN item -> ItemRow]
  /\ status \in [RunIds -> {"queued", "running", "awaiting_approval", "committed", "failed"}]
  /\ live \in [RunIds -> BOOLEAN]
  /\ stage \in [RunIds -> {"none", "reconciled", "gated"}]
  /\ proposed \in [RunIds -> SUBSET Key]
  /\ attempt \in [RunIds -> Nat]
  /\ view \in [Reviewers -> View]
  /\ req \in [Reviewers -> Request]
  /\ told \subseteq [by : Reviewers, item : Key]

(* No entry of l after index i is about path p.                            *)
SilentAfter(l, i, p) == \A j \in DOMAIN l : j > i => l[j].path # p

(* l accounts for f: an entry's before-value is what the previous entry    *)
(* on its path left (nothing, if there is none), and a field holds what    *)
(* the last entry on its path left (nothing, if there is none).            *)
Accounts(l, f) ==
  /\ \A i \in DOMAIN l :
       \/ /\ l[i].before = NoValue
          /\ \A j \in 1 .. i - 1 : l[j].path # l[i].path
       \/ \E j \in 1 .. i - 1 :
            /\ l[j].path = l[i].path
            /\ l[j].after = l[i].before
            /\ \A k \in j + 1 .. i - 1 : l[k].path # l[i].path
  /\ \A p \in Paths :
       \/ f[p].value = NoValue /\ SilentAfter(l, 0, p)
       \/ \E i \in DOMAIN l :
            l[i].path = p /\ l[i].after = f[p].value /\ SilentAfter(l, i, p)

(* The ledger, replayed, gives the register, link by link, whatever        *)
(* commits raced, waited, were refused or died half way (models.py         *)
(* LedgerEntry: "What changed, when, because of which source, under whose  *)
(* approval").                                                             *)
LedgerAccountsForRegister == Accounts(ledger, field)

(* Whoever an entry names in approved_by was told that their approval of   *)
(* that very item had been recorded (decide_items): nothing enters the     *)
(* register without a person's approval, however decisions and commits     *)
(* overlap.                                                                *)
EntriesWereApproved ==
  \A i \in DOMAIN ledger :
    [by |-> ledger[i].by, item |-> ledger[i].item] \in told

(* A decided item never reads pending again and never passes to another    *)
(* run, although a killed run repeats the gate and parallel runs propose   *)
(* the same thing (stage_gate's dedupe).                                   *)
DecisionsStick ==
  [][\A k \in DOMAIN item :
       /\ k \in DOMAIN item'
       /\ item'[k].run = item[k].run
       /\ item[k].status # "pending" => item'[k].status # "pending"]_item

(* When the optimistic check lets a commit through, the register has not   *)
(* moved since the items of that client's listing were read.  It needs the *)
(* version to be read first.                                               *)
CommitSeesListedRegister ==
  [][\A v \in Reviewers :
       req[v].op = "wait" /\ req'[v].op = "commit" => view[v].asOf = version]_req

(* The register as a compare-and-set store.                                *)
Cas == INSTANCE CasRegister WITH
  Clients <- Reviewers, Store <- [Paths -> MaybeValue],
  Empty <- [p \in Paths |-> NoValue], None <- NoValue,
  contents <- [p \in Paths |-> field[p].value],
  bid <- [v \in Reviewers |-> IF req[v].op \in {"wait", "commit"}
                              THEN req[v].expected ELSE NoValue]

(* The transaction, its lock and its item loop implement one indivisible   *)
(* compare-and-set (commit_approved: "Apply approved updates under an      *)
(* optimistic version check").                                             *)
CommitsAreCompareAndSet == Cas!Spec

(* models.py:6: "A committer whose version has moved rebases and           *)
(* re-presents its conflicting items rather than clobbering": no commit    *)
(* puts a value in place of another one.                                   *)
NeverClobbers ==
  \A i \in DOMAIN ledger : ledger[i].before \in {NoValue, ledger[i].after}

(* README.md:497: with two reviewers on one queue "the optimistic version  *)
(* check makes that safe": an item the queue shows as rejected is not in   *)
(* the register's history.                                                 *)
RejectedIsNotApplied ==
  \A i \in DOMAIN ledger : item[ledger[i].item].status # "rejected"
=============================================================================
