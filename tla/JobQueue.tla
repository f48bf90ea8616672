------------------------------ MODULE JobQueue ------------------------------
(***************************************************************************)
(* What the queue of runs promises to those who queue them, without saying *)
(* how: each job is in the hands of at most one worker, a worker has at    *)
(* most one job, a job whose worker is lost is given out again, and a job  *)
(* that was settled is never given out again.  So it is completed once,    *)
(* though it may be taken up any number of times ("so two workers never    *)
(* take the same run", service.py; requeue_stale_runs).                    *)
(*                                                                         *)
(* Module Runs implements it with a status, a heartbeat and row locks, in  *)
(* which no worker is named: worker_id is written and never read.          *)
(***************************************************************************)
EXTENDS Naturals

CONSTANTS
  Workers,
  Jobs

VARIABLES
  job,       \* where each job is: absent, queued, taken or settled
  hands,     \* the workers that have it
  results    \* how often it was completed

vars == <<job, hands, results>>

Init ==
  /\ job = [j \in Jobs |-> "absent"]
  /\ hands = [j \in Jobs |-> {}]
  /\ results = [j \in Jobs |-> 0]

Submit(j) ==
  /\ job[j] = "absent"
  /\ job' = [job EXCEPT ![j] = "queued"]
  /\ UNCHANGED <<hands, results>>

(* A worker with empty hands takes up a job that nobody has.               *)
Claim(w, j) ==
  /\ job[j] = "queued"
  /\ \A i \in Jobs : w \notin hands[i]
  /\ job' = [job EXCEPT ![j] = "taken"]
  /\ hands' = [hands EXCEPT ![j] = {w}]
  /\ UNCHANGED results

(* The worker is lost: the job is taken and in nobody's hands.             *)
Lose(w, j) ==
  /\ hands[j] = {w}
  /\ hands' = [hands EXCEPT ![j] = {}]
  /\ UNCHANGED <<job, results>>

(* Lost jobs, and no others, are queued again.                             *)
Requeue(lost) ==
  /\ \A j \in lost : job[j] = "taken" /\ hands[j] = {}
  /\ job' = [j \in Jobs |-> IF j \in lost THEN "queued" ELSE job[j]]
  /\ UNCHANGED <<hands, results>>

Complete(w, j) ==
  /\ hands[j] = {w}
  /\ job' = [job EXCEPT ![j] = "settled"]
  /\ hands' = [hands EXCEPT ![j] = {}]
  /\ results' = [results EXCEPT ![j] = @ + 1]

(* It is given up: by the worker that has it, or while nobody has it.      *)
Abandon(j) ==
  /\ job[j] \in {"queued", "taken"}
  /\ job' = [job EXCEPT ![j] = "settled"]
  /\ hands' = [hands EXCEPT ![j] = {}]
  /\ UNCHANGED results

Next ==
  \/ \E j \in Jobs : Submit(j) \/ Abandon(j)
  \/ \E w \in Workers, j \in Jobs : Claim(w, j) \/ Lose(w, j) \/ Complete(w, j)
  \/ \E lost \in SUBSET Jobs : Requeue(lost)

Spec == Init /\ [][Next]_vars
=============================================================================
