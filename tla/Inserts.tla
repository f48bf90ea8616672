------------------------------ MODULE Inserts ------------------------------
(***************************************************************************)
(* The gate of a run from the inside: one transaction that inserts the     *)
(* run's proposals one by one, each in a savepoint of its own              *)
(* (agent/stages.py stage_gate), next to the gates of other runs of the    *)
(* pile that insert some of the same dedupe keys.                          *)
(*                                                                         *)
(* The unique constraint on (pile_id, dedupe_key) is Postgres's: an insert *)
(* of a key that a committed row holds fails at once with an               *)
(* IntegrityError, an insert of a key that an open transaction holds waits *)
(* until that transaction ends.  Gates that wait on each other in a ring   *)
(* are broken by the server's deadlock detector; the error it raises is    *)
(* not an IntegrityError, so it leaves the stage and the run fails.        *)
(*                                                                         *)
(* Covered: a worker killed in the transaction or after it and before the  *)
(* checkpoint, the gate being done again by another.  Abstracted: a        *)
(* proposal is its dedupe key; what people decide about the rows only      *)
(* shows in which committed rows the first query leaves out (approved      *)
(* ones).  The pile's row, on which the foreign key takes a share lock, is *)
(* left out: a commit takes it first and holds no other lock a gate needs. *)
(***************************************************************************)
EXTENDS Naturals, Sequences

CONSTANTS
  Gates,      \* the gates of the pile's runs
  Keys,       \* dedupe keys
  Orders,     \* the proposals a run may bring, in order of insertion
  Rank,       \* an order on the keys, if the proposals keep to one
  MaxRank,    \* the greatest rank
  MaxKills    \* bound: executions killed

ASSUME OrdersAssumption == Orders \subseteq Seq(Keys)
ASSUME RankAssumption == MaxRank \in Nat /\ Rank \in [Keys -> 0 .. MaxRank]
ASSUME KillsAssumption == MaxKills \in Nat

VARIABLES
  proposal,   \* what each run's checkpoint has to present, in order
  phase,      \* where the gate of the run is
  pos,        \* the next proposal to look at
  known,      \* existing_keys: keys add() does not try to insert
  mine,       \* keys inserted by the gate's open transaction
  board,      \* committed rows: the run that owns each key
  kills       \* executions killed so far

vars == <<proposal, phase, pos, known, mine, board, kills>>

Phases == {"ready", "inserting", "committed", "done", "failed"}

Init ==
  /\ proposal \in [Gates -> Orders]
  /\ phase = [g \in Gates |-> "ready"]
  /\ pos = [g \in Gates |-> 1]
  /\ known = [g \in Gates |-> {}]
  /\ mine = [g \in Gates |-> {}]
  /\ board = << >>
  /\ kills = 0
----------------------------------------------------------------------------
(* One gate.                                                               *)

(* The stage opens its transaction and reads the keys of the pending and   *)
(* rejected items; rows that are approved by then are not among them.      *)
Begin(g) ==
  /\ phase[g] = "ready"
  /\ phase' = [phase EXCEPT ![g] = "inserting"]
  /\ \E unapproved \in SUBSET DOMAIN board :
       known' = [known EXCEPT ![g] = unapproved]
  /\ UNCHANGED <<proposal, pos, mine, board, kills>>

(* The gate has come to the proposal with key k.                           *)
AddsKey(g, k) ==
  /\ phase[g] = "inserting"
  /\ pos[g] <= Len(proposal[g])
  /\ k = proposal[g][pos[g]]

(* add() moves on: the key counts as known whatever came of the insert.    *)
Pass(g, k) ==
  /\ pos' = [pos EXCEPT ![g] = @ + 1]
  /\ known' = [known EXCEPT ![g] = @ \cup {k}]

(* The key is known: nothing is tried.                                     *)
Skip(g) ==
  \E k \in known[g] :
    /\ AddsKey(g, k)
    /\ Pass(g, k)
    /\ UNCHANGED <<proposal, phase, mine, board, kills>>

(* A committed row holds the key.                                          *)
Taken(g, k) == k \in DOMAIN board

(* Mutant: no savepoint, so the collision undoes the gate's other inserts. *)
AfterCollision_All(g) == {}

(* The savepoint is all the IntegrityError rolls back.                     *)
AfterCollision(g) == mine[g]

(* The insert raises IntegrityError, which add() takes for "another run    *)
(* presented this exact item first".                                       *)
Collide(g) ==
  \E k \in Keys \ known[g] :
    /\ AddsKey(g, k)
    /\ Taken(g, k)
    /\ Pass(g, k)
    /\ mine' = [mine EXCEPT ![g] = AfterCollision(g)]
    /\ UNCHANGED <<proposal, phase, board, kills>>

(* No row, committed or not, holds the key.                                *)
Free(g, k) == k \notin DOMAIN board /\ \A h \in Gates \ {g} : k \notin mine[h]

(* Mutant: add() commits each row by itself.                               *)
InsertKey_Autocommit(g) ==
  \E k \in Keys \ known[g] :
    /\ AddsKey(g, k)
    /\ Free(g, k)
    /\ Pass(g, k)
    /\ board' = [j \in DOMAIN board \cup {k} |-> IF j = k THEN g ELSE board[j]]
    /\ UNCHANGED <<proposal, phase, mine, kills>>

(* The insert goes through, for this transaction alone to see.             *)
InsertKey(g) ==
  \E k \in Keys \ known[g] :
    /\ AddsKey(g, k)
    /\ Free(g, k)
    /\ Pass(g, k)
    /\ mine' = [mine EXCEPT ![g] = @ \cup {k}]
    /\ UNCHANGED <<proposal, phase, board, kills>>

(* Mutant: places are counted from zero.                                   *)
Close_FromZero(g, next) ==
  /\ phase' = [phase EXCEPT ![g] = next]
  /\ pos' = [pos EXCEPT ![g] = 0]
  /\ known' = [known EXCEPT ![g] = {}]
  /\ mine' = [mine EXCEPT ![g] = {}]
  /\ UNCHANGED proposal

(* The transaction is over, and with it the session's rows, the fast path  *)
(* and the place in the loop.                                              *)
Close(g, next) ==
  /\ phase' = [phase EXCEPT ![g] = next]
  /\ pos' = [pos EXCEPT ![g] = 1]
  /\ known' = [known EXCEPT ![g] = {}]
  /\ mine' = [mine EXCEPT ![g] = {}]
  /\ UNCHANGED proposal

(* session.commit(): the rows are there for everybody.                     *)
Commit(g) ==
  /\ phase[g] = "inserting"
  /\ pos[g] > Len(proposal[g])
  /\ board' = [k \in DOMAIN board \cup mine[g] |->
                 IF k \in DOMAIN board THEN board[k] ELSE g]
  /\ Close(g, "committed")
  /\ UNCHANGED kills

(* The graph saves the stage's result: the gate will not be done again.    *)
Checkpoint(g) ==
  /\ phase[g] = "committed"
  /\ phase' = [phase EXCEPT ![g] = "done"]
  /\ UNCHANGED <<proposal, pos, known, mine, board, kills>>

(* The worker is killed before the checkpoint; an open transaction rolls   *)
(* back and the run is taken up again.                                     *)
Kill(g) ==
  /\ phase[g] \in {"inserting", "committed"}
  /\ kills < MaxKills
  /\ kills' = kills + 1
  /\ Close(g, "ready")
  /\ UNCHANGED board
----------------------------------------------------------------------------
(* The deadlock detector.                                                  *)

(* The insert of g hangs on a row that h's open transaction has put in.    *)
WaitsFor(g, h) ==
  \E k \in mine[h] \ known[g] :
    /\ AddsKey(g, k)
    /\ k \notin DOMAIN board

(* Each gate of the ring waits for another of the ring.                    *)
Ring(R) == \A g \in R : \E h \in R \ {g} : WaitsFor(g, h)

(* Mutant: nobody looks for rings.                                         *)
Victim_None(g) == FALSE

(* Mutant: whoever waits is thrown out (a lock timeout of zero).           *)
Victim_AnyWaiter(g) == \E h \in Gates \ {g} : WaitsFor(g, h)

(* A gate the detector may pick.                                           *)
Victim(g) == \E R \in SUBSET Gates : g \in R /\ Ring(R)

(* The error passes add()'s handler and leaves the stage: the transaction  *)
(* rolls back and the worker marks the run failed.                         *)
Deadlock(g) ==
  /\ Victim(g)
  /\ Close(g, "failed")
  /\ UNCHANGED <<board, kills>>
----------------------------------------------------------------------------
Work(g) == Begin(g) \/ Skip(g) \/ Collide(g) \/ InsertKey(g) \/ Commit(g)
             \/ Checkpoint(g) \/ Deadlock(g)

Next == \E g \in Gates : Work(g) \/ Kill(g)

(* A worker that is alive keeps going, a killed run is taken up again and  *)
(* the detector looks now and then.                                        *)
Fairness == \A g \in Gates : WF_vars(Work(g))

Spec == Init /\ [][Next]_vars /\ Fairness
----------------------------------------------------------------------------
(* Properties.                                                             *)

(* What the checkpoints, the session and the table hold.                   *)
TypeOK ==
  /\ proposal \in [Gates -> Orders]
  /\ phase \in [Gates -> Phases]
  /\ pos \in [Gates -> Nat \ {0}]
  /\ known \in [Gates -> SUBSET Keys]
  /\ mine \in [Gates -> SUBSET Keys]
  /\ DOMAIN board \subseteq Keys
  /\ board \in [DOMAIN board -> Gates]
  /\ kills \in Nat

Asked(g) == {proposal[g][i] : i \in 1 .. Len(proposal[g])}

(* Once a gate has committed, every proposal of its run is an item of the  *)
(* queue, its own or the one of the run it collided with, although that    *)
(* run's transaction was open, and might have been killed, when the two    *)
(* met (stage_gate: "Write every proposal as a pending item").             *)
EveryProposalStands ==
  \A g \in Gates : phase[g] \in {"committed", "done"} => Asked(g) \subseteq DOMAIN board

(* The abstract queue.                                                     *)
Abstract == INSTANCE Board WITH ask <- [g \in Gates |-> Asked(g)]

(* The transaction of single inserts, its savepoints, its waits and its    *)
(* fast path implement one indivisible insert-if-absent.                   *)
GatesPresentAtOnce == Abstract!Spec

(* The proposals of all runs keep to one order of the keys.                *)
InOrder ==
  \A g \in Gates : \A i, j \in 1 .. Len(proposal[g]) :
    i < j => \/ proposal[g][i] = proposal[g][j]
             \/ Rank[proposal[g][i]] < Rank[proposal[g][j]]

(* If all runs of a pile bring their proposals in one order, no gate loses *)
(* its run to a deadlock.  reconcile sorts updates and conflicts by path   *)
(* and the playbook orders its findings; escalations and injection         *)
(* findings come in the order the documents were named in.                 *)
OrderedGatesNeverFail == InOrder => \A g \in Gates : phase[g] # "failed"

(* Every gate ends, checkpointed or failed: gates never wait on each other *)
(* for ever.                                                               *)
GatesEnd == \A g \in Gates : <>(phase[g] \in {"done", "failed"})
=============================================================================
