---------------------------- MODULE InsertsProofs ----------------------------
(***************************************************************************)
(* Theorems about module Inserts, for every number of gates, any proposals *)
(* and any interleaving of their inserts, kills and deadlocks.             *)
(***************************************************************************)
EXTENDS Inserts, WellFoundedInduction, TLAPS

----------------------------------------------------------------------------
(* Type correctness.                                                       *)

(* The proposals of a run are keys.                                        *)
LEMMA ProposalType ==
  ASSUME TypeOK, NEW g \in Gates
  PROVE  proposal[g] \in Seq(Keys) /\ Len(proposal[g]) \in Nat /\ Asked(g) \subseteq Keys
<1>1. proposal[g] \in Seq(Keys)
  BY OrdersAssumption DEF TypeOK
<1> QED
  BY <1>1 DEF Asked

(* The initial table and sessions have their shapes.                       *)
LEMMA TypeInit == Init => TypeOK
  BY DEF Init, TypeOK, Phases

(* Every statement of a gate, its end and its death keep the shapes.       *)
LEMMA TypeStep == TypeOK /\ [Next]_vars => TypeOK'
<1> SUFFICES ASSUME TypeOK, [Next]_vars PROVE TypeOK'
  OBVIOUS
<1>1. ASSUME NEW g \in Gates, Begin(g) PROVE TypeOK'
  BY <1>1 DEF Begin, TypeOK, Phases
<1>2. ASSUME NEW g \in Gates, Skip(g) \/ Collide(g) \/ InsertKey(g) PROVE TypeOK'
  BY <1>2 DEF Skip, Collide, InsertKey, Pass, AfterCollision, TypeOK
<1>3. ASSUME NEW g \in Gates, NEW next \in Phases, Close(g, next)
      PROVE  /\ proposal' \in [Gates -> Orders]
             /\ phase' \in [Gates -> Phases]
             /\ pos' \in [Gates -> Nat \ {0}]
             /\ known' \in [Gates -> SUBSET Keys]
             /\ mine' \in [Gates -> SUBSET Keys]
  BY <1>3 DEF Close, TypeOK
<1>4. ASSUME NEW g \in Gates, Commit(g) PROVE TypeOK'
  <2>1. Close(g, "committed") /\ UNCHANGED kills
    BY <1>4 DEF Commit
  <2>2. board' = [k \in DOMAIN board \cup mine[g] |-> IF k \in DOMAIN board THEN board[k] ELSE g]
    BY <1>4 DEF Commit
  <2>3. DOMAIN board' \subseteq Keys /\ board' \in [DOMAIN board' -> Gates]
    BY <2>2 DEF TypeOK
  <2> QED
    BY <1>3, <2>1, <2>3 DEF TypeOK, Phases
<1>5. ASSUME NEW g \in Gates, Checkpoint(g) PROVE TypeOK'
  BY <1>5 DEF Checkpoint, TypeOK, Phases
<1>6. ASSUME NEW g \in Gates, Kill(g) \/ Deadlock(g) PROVE TypeOK'
  <2>1. (Close(g, "ready") \/ Close(g, "failed")) /\ UNCHANGED board /\ kills' \in Nat
    BY <1>6 DEF Kill, Deadlock, TypeOK
  <2> QED
    BY <1>3, <2>1 DEF TypeOK, Phases
<1>7. CASE UNCHANGED vars
  BY <1>7 DEF TypeOK, vars
<1> QED
  BY <1>1, <1>2, <1>4, <1>5, <1>6, <1>7 DEF Next, Work

(* Sessions and rows keep their shape for any number of gates and keys.    *)
THEOREM TypeCorrect == Spec => []TypeOK
  BY TypeInit, TypeStep, PTL DEF Spec
----------------------------------------------------------------------------
(* What a transaction has done is what it has passed.                      *)

(* The keys a gate has passed.                                             *)
Passed(g) == {proposal[g][i] : i \in {j \in 1 .. Len(proposal[g]) : j < pos[g]}}

(* A closed transaction holds nothing and has passed nothing.  An open one *)
(* has inserted keys it passed; keys it passed are known; known keys are   *)
(* committed or its own.  After the commit all that was asked for is       *)
(* committed.                                                              *)
Session(g) ==
  /\ phase[g] # "inserting" => mine[g] = {} /\ known[g] = {} /\ pos[g] = 1
  /\ phase[g] = "inserting" => Passed(g) \subseteq known[g]
  /\ mine[g] \subseteq Passed(g)
  /\ mine[g] \cap DOMAIN board = {}
  /\ known[g] \subseteq DOMAIN board \cup mine[g]
  /\ phase[g] \in {"committed", "done"} => Asked(g) \subseteq DOMAIN board

(* The unique constraint: open transactions hold different keys.           *)
Unique == \A g, h \in Gates : g # h => mine[g] \cap mine[h] = {}

Sessions == Unique /\ \A g \in Gates : Session(g)

(* No gate holds anything at the start.                                    *)
LEMMA SessionsInit == Init => Sessions
<1> SUFFICES ASSUME Init PROVE Sessions
  OBVIOUS
<1>1. DOMAIN board = {} /\ \A g \in Gates : Passed(g) = {}
  BY DEF Init, Passed
<1> QED
  BY <1>1 DEF Init, Sessions, Unique, Session

(* A gate at one proposal passes that one.                                 *)
LEMMA PassedGrows ==
  ASSUME TypeOK, NEW g \in Gates, NEW k, AddsKey(g, k), Pass(g, k), UNCHANGED proposal
  PROVE  Passed(g)' = Passed(g) \cup {k}
<1>1. pos[g] \in 1 .. Len(proposal[g]) /\ pos'[g] = pos[g] + 1 /\ k = proposal[g][pos[g]]
  BY ProposalType DEF TypeOK, AddsKey, Pass
<1>2. Len(proposal[g]) \in Nat
  BY ProposalType
<1> QED
  BY <1>1, <1>2 DEF Passed

(* A step of one gate: the others' sessions, and theirs with its own, are  *)
(* as they were if the table gains no key but what the gate held and the   *)
(* gate gains none another holds.                                          *)
LEMMA OneGate ==
  ASSUME TypeOK, Sessions, NEW g \in Gates, UNCHANGED proposal,
         \A h \in Gates \ {g} : /\ phase'[h] = phase[h] /\ pos'[h] = pos[h]
                                /\ known'[h] = known[h] /\ mine'[h] = mine[h]
                                /\ mine'[g] \cap mine[h] = {},
         DOMAIN board \subseteq DOMAIN board',
         DOMAIN board' \subseteq DOMAIN board \cup mine[g],
         Session(g)'
  PROVE  Sessions'
<1>1. Unique'
  BY DEF Sessions, Unique
<1>2. ASSUME NEW h \in Gates \ {g} PROVE Session(h)'
  <2>1. Session(h) /\ mine[h] \cap mine[g] = {}
    BY DEF Sessions, Unique
  <2>2. Passed(h)' = Passed(h) /\ Asked(h)' = Asked(h)
    BY DEF Passed, Asked
  <2> QED
    BY <2>1, <2>2 DEF Session
<1> QED
  BY <1>1, <1>2 DEF Sessions

(* Statement by statement, savepoints, commits, kills and deadlocks keep   *)
(* the sessions so.                                                        *)
LEMMA SessionsStep == TypeOK /\ Sessions /\ [Next]_vars => Sessions'
<1> SUFFICES ASSUME TypeOK, Sessions, [Next]_vars PROVE Sessions'
  OBVIOUS
<1>1. ASSUME NEW g \in Gates, Begin(g) PROVE Sessions'
  <2>1. /\ phase[g] = "ready" /\ phase'[g] = "inserting"
        /\ known'[g] \subseteq DOMAIN board
        /\ UNCHANGED <<proposal, pos, mine, board>>
        /\ \A h \in Gates \ {g} : phase'[h] = phase[h] /\ known'[h] = known[h]
    BY <1>1 DEF Begin, TypeOK
  <2>2. Session(g) /\ \A h \in Gates \ {g} : mine[g] \cap mine[h] = {}
    BY DEF Sessions, Unique
  <2>3. mine[g] = {} /\ pos[g] = 1
    BY <2>1, <2>2 DEF Session
  <2>4. Passed(g)' = {}
    BY <2>1, <2>3, ProposalType DEF Passed
  <2>5. Session(g)'
    BY <2>1, <2>2, <2>3, <2>4 DEF Session
  <2> QED
    BY <2>1, <2>2, <2>5, OneGate
<1>2. ASSUME NEW g \in Gates, Skip(g) \/ Collide(g) \/ InsertKey(g) PROVE Sessions'
  <2>1. PICK k \in Keys :
          /\ AddsKey(g, k) /\ Pass(g, k) /\ UNCHANGED <<proposal, phase, board>>
          /\ \/ k \in known[g] /\ UNCHANGED mine
             \/ k \in DOMAIN board /\ mine' = [mine EXCEPT ![g] = mine[g]]
             \/ Free(g, k) /\ mine' = [mine EXCEPT ![g] = @ \cup {k}]
    BY <1>2 DEF Skip, Collide, InsertKey, Taken, AfterCollision, TypeOK
  <2>2. /\ phase'[g] = "inserting" /\ phase[g] = "inserting"
        /\ known'[g] = known[g] \cup {k}
        /\ \A h \in Gates \ {g} : /\ phase'[h] = phase[h] /\ pos'[h] = pos[h]
                                  /\ known'[h] = known[h] /\ mine'[h] = mine[h]
    BY <2>1 DEF AddsKey, Pass, TypeOK
  <2>3. Passed(g)' = Passed(g) \cup {k}
    BY <2>1, PassedGrows
  <2>4. Session(g) /\ \A h \in Gates \ {g} : mine[g] \cap mine[h] = {}
    BY DEF Sessions, Unique
  <2>5. CASE k \in known[g] \cup DOMAIN board /\ mine'[g] = mine[g]
    <3>1. Session(g)'
      BY <2>1, <2>2, <2>3, <2>4, <2>5 DEF Session
    <3> QED
      BY <2>1, <2>2, <2>4, <2>5, <3>1, OneGate
  <2>6. CASE Free(g, k) /\ mine'[g] = mine[g] \cup {k}
    <3>1. Session(g)'
      BY <2>1, <2>2, <2>3, <2>4, <2>6 DEF Session, Free
    <3>2. \A h \in Gates \ {g} : mine'[g] \cap mine[h] = {}
      BY <2>4, <2>6 DEF Free
    <3> QED
      BY <2>1, <2>2, <3>1, <3>2, OneGate
  <2> QED
    BY <2>1, <2>5, <2>6 DEF TypeOK
<1>3. ASSUME NEW g \in Gates, NEW next \in {"ready", "committed", "failed"}, Close(g, next),
             DOMAIN board \subseteq DOMAIN board',
             DOMAIN board' \subseteq DOMAIN board \cup mine[g],
             next = "committed" => Asked(g) \subseteq DOMAIN board'
      PROVE  Sessions'
  <2>1. /\ phase'[g] = next /\ pos'[g] = 1 /\ known'[g] = {} /\ mine'[g] = {}
        /\ UNCHANGED proposal
        /\ \A h \in Gates \ {g} : /\ phase'[h] = phase[h] /\ pos'[h] = pos[h]
                                  /\ known'[h] = known[h] /\ mine'[h] = mine[h]
    BY <1>3 DEF Close, TypeOK
  <2>2. Asked(g)' = Asked(g)
    BY <2>1 DEF Asked
  <2>3. Session(g)'
    BY <1>3, <2>1, <2>2 DEF Session
  <2> QED
    BY <1>3, <2>1, <2>3, OneGate
<1>4. ASSUME NEW g \in Gates, Commit(g) PROVE Sessions'
  <2>1. Close(g, "committed") /\ DOMAIN board' = DOMAIN board \cup mine[g]
    BY <1>4 DEF Commit
  <2>2. Asked(g) \subseteq DOMAIN board \cup mine[g]
    <3>1. Asked(g) = Passed(g)
      BY <1>4, ProposalType DEF Commit, Asked, Passed, TypeOK
    <3> QED
      BY <1>4, <3>1 DEF Sessions, Session, Commit
  <2> QED
    BY <1>3, <2>1, <2>2
<1>5. ASSUME NEW g \in Gates, Checkpoint(g) PROVE Sessions'
  <2>1. /\ phase[g] = "committed" /\ phase'[g] = "done"
        /\ UNCHANGED <<proposal, pos, known, mine, board>>
        /\ \A h \in Gates \ {g} : phase'[h] = phase[h]
    BY <1>5 DEF Checkpoint, TypeOK
  <2>2. Passed(g)' = Passed(g) /\ Asked(g)' = Asked(g)
    BY <2>1 DEF Passed, Asked
  <2>3. Session(g) /\ \A h \in Gates \ {g} : mine[g] \cap mine[h] = {}
    BY DEF Sessions, Unique
  <2>4. Session(g)'
    BY <2>1, <2>2, <2>3 DEF Session
  <2> QED
    BY <2>1, <2>3, <2>4, OneGate
<1>6. ASSUME NEW g \in Gates, Kill(g) \/ Deadlock(g) PROVE Sessions'
  BY <1>3, <1>6 DEF Kill, Deadlock
<1>7. CASE UNCHANGED vars
  BY <1>7 DEF vars, Sessions, Unique, Session, Passed, Asked
<1> QED
  BY <1>1, <1>2, <1>4, <1>5, <1>6, <1>7 DEF Next, Work

(* No proposal is lost: a gate that took another's open insert for taken,  *)
(* lost a row with a savepoint, or was killed and started over, has every  *)
(* proposal on the queue once it has committed (stage_gate).               *)
THEOREM ProposalsStand == Spec => []EveryProposalStands
<1>1. Sessions => EveryProposalStands
  BY DEF Sessions, Session, EveryProposalStands
<1> QED
  BY <1>1, TypeInit, TypeStep, SessionsInit, SessionsStep, PTL DEF Spec
----------------------------------------------------------------------------
(* The gate implements the board.                                          *)

(* The table is empty and each run has its keys to present.                *)
LEMMA BoardInit == Init => Abstract!Init
<1> SUFFICES ASSUME Init PROVE Abstract!Init
  OBVIOUS
<1>1. \A g \in Gates : Asked(g) \in SUBSET Keys
  BY TypeInit, ProposalType
<1> QED
  BY <1>1 DEF Init, Abstract!Init

(* The commit presents all at once; no other step shows.                   *)
LEMMA BoardStep == TypeOK /\ Sessions /\ [Next]_vars => [Abstract!Next]_Abstract!vars
<1> SUFFICES ASSUME TypeOK, Sessions, [Next]_vars PROVE [Abstract!Next]_Abstract!vars
  OBVIOUS
<1>1. ASSUME UNCHANGED proposal
      PROVE  [g \in Gates |-> Asked(g)]' = [g \in Gates |-> Asked(g)]
  BY <1>1 DEF Asked
<1>2. ASSUME UNCHANGED <<proposal, board>> PROVE UNCHANGED Abstract!vars
  BY <1>1, <1>2 DEF Abstract!vars
<1>3. ASSUME NEW g \in Gates, Commit(g) PROVE Abstract!Present(g)
  <2>1. DOMAIN board \cup mine[g] = DOMAIN board \cup Asked(g)
    <3>1. Asked(g) = Passed(g)
      BY <1>3, ProposalType DEF Commit, Asked, Passed, TypeOK
    <3> QED
      BY <1>3, <3>1 DEF Sessions, Session, Commit
  <2>2. board' = [k \in DOMAIN board \cup Asked(g) |->
                    IF k \in DOMAIN board THEN board[k] ELSE g]
    BY <1>3, <2>1 DEF Commit
  <2>3. UNCHANGED proposal
    BY <1>3 DEF Commit, Close
  <2>4. [h \in Gates |-> Asked(h)][g] = Asked(g)
    OBVIOUS
  <2> QED
    BY <1>1, <2>2, <2>3, <2>4 DEF Abstract!Present
<1>4. ASSUME NEW g \in Gates, Begin(g) \/ Skip(g) \/ Collide(g) \/ InsertKey(g)
                               \/ Checkpoint(g) \/ Deadlock(g) \/ Kill(g)
      PROVE  UNCHANGED <<proposal, board>>
  BY <1>4 DEF Begin, Skip, Collide, InsertKey, Checkpoint, Deadlock, Kill, Close
<1>5. CASE UNCHANGED vars
  BY <1>2, <1>5 DEF vars
<1> QED
  BY <1>2, <1>3, <1>4, <1>5 DEF Next, Work, Abstract!Next

(* To everybody else a gate is one indivisible insert-if-absent: module    *)
(* Gate may take it for one (stage_gate, add).                             *)
THEOREM ImplementsBoard == Spec => GatesPresentAtOnce
  BY BoardInit, BoardStep, TypeInit, TypeStep, SessionsInit, SessionsStep, PTL
  DEF Spec, GatesPresentAtOnce, Abstract!Spec
----------------------------------------------------------------------------
(* One order of the keys keeps deadlocks out.                              *)

(* A set of numbers with a bound has a greatest one.                       *)
LEMMA Greatest ==
  ASSUME NEW n \in Nat, NEW S \in SUBSET (0 .. n), S # {}
  PROVE  \E m \in S : \A s \in S : s <= m
<1> DEFINE T == {n - s : s \in S}
<1>1. T \subseteq Nat /\ T # {}
  OBVIOUS
<1>2. PICK t \in T : \A u \in T : ~ (<<u, t>> \in OpToRel(<, Nat))
  BY <1>1, NatLessThanWellFounded, WFMin
<1>3. \A u \in T : t <= u
  <2> TAKE u \in T
  <2>1. u \in Nat /\ t \in Nat
    BY <1>1
  <2>2. ~ (<<u, t>> \in OpToRel(<, Nat))
    BY <1>2
  <2>3. ~ (u < t)
    BY <2>1, <2>2 DEF OpToRel
  <2> QED
    BY <2>1, <2>3
<1>4. PICK m \in S : t = n - m
  OBVIOUS
<1>5. ASSUME NEW s \in S PROVE s <= m
  <2>1. n - s \in T /\ s \in Nat /\ m \in Nat
    OBVIOUS
  <2>2. n - m <= n - s
    BY <1>3, <1>4, <2>1
  <2> QED
    BY <2>1, <2>2
<1> QED
  BY <1>5

(* A gate waits for a key that is of higher rank than all keys it holds,   *)
(* so that who waits for it in turn waits for a lower one.                 *)
LEMMA WaitsUpward ==
  ASSUME TypeOK, Sessions, InOrder, NEW g \in Gates, NEW h \in Gates, NEW f \in Gates,
         WaitsFor(g, h), WaitsFor(h, f)
  PROVE  /\ Rank[proposal[g][pos[g]]] \in 0 .. MaxRank
         /\ Rank[proposal[h][pos[h]]] \in 0 .. MaxRank
         /\ Rank[proposal[g][pos[g]]] < Rank[proposal[h][pos[h]]]
<1>1. PICK k \in mine[h] \ known[g] : AddsKey(g, k)
  BY DEF WaitsFor
<1>2. PICK j \in mine[f] \ known[h] : AddsKey(h, j)
  BY DEF WaitsFor
<1>3. Session(h) /\ phase[h] = "inserting"
  BY <1>2 DEF Sessions, AddsKey
<1>4. PICK i \in 1 .. Len(proposal[h]) : i < pos[h] /\ k = proposal[h][i]
  BY <1>1, <1>3 DEF Session, Passed
<1>5. k # j
  BY <1>1, <1>2, <1>3 DEF Session
<1>6. pos[h] \in 1 .. Len(proposal[h]) /\ j = proposal[h][pos[h]]
  BY <1>2, ProposalType DEF AddsKey, TypeOK
<1>7. Rank[k] < Rank[j]
  BY <1>4, <1>5, <1>6 DEF InOrder
<1>8. k \in Keys /\ j \in Keys /\ k = proposal[g][pos[g]]
  BY <1>1, <1>2 DEF TypeOK, AddsKey
<1> QED
  BY <1>6, <1>7, <1>8, RankAssumption

(* Of a ring of gates one waits for the key of greatest rank; the gate it  *)
(* waits for would wait for a greater one.                                 *)
LEMMA NoRing ==
  ASSUME TypeOK, Sessions, InOrder, NEW R \in SUBSET Gates, R # {}
  PROVE  ~Ring(R)
<1> SUFFICES ASSUME Ring(R) PROVE FALSE
  OBVIOUS
<1> DEFINE rank(g) == Rank[proposal[g][pos[g]]]
           ranks == {rank(g) : g \in R}
<1>1. \A g \in R : \E h \in R : /\ rank(g) \in 0 .. MaxRank /\ rank(h) \in 0 .. MaxRank
                               /\ rank(g) < rank(h)
  <2> TAKE g \in R
  <2>1. PICK h \in R : WaitsFor(g, h)
    BY DEF Ring
  <2>2. PICK f \in R : WaitsFor(h, f)
    BY DEF Ring
  <2>3. /\ rank(g) \in 0 .. MaxRank /\ rank(h) \in 0 .. MaxRank
        /\ rank(g) < rank(h)
    BY <2>1, <2>2, WaitsUpward
  <2> QED
    BY <2>3
<1>2. ranks \in SUBSET (0 .. MaxRank) /\ ranks # {}
  BY <1>1
<1> HIDE DEF rank
<1>3. PICK m \in ranks : \A s \in ranks : s <= m
  BY <1>2, Greatest, RankAssumption
<1>4. PICK g \in R : m = rank(g)
  OBVIOUS
<1>5. PICK h \in R : /\ rank(g) \in 0 .. MaxRank /\ rank(h) \in 0 .. MaxRank
                     /\ rank(g) < rank(h)
  BY <1>1
<1>6. rank(h) <= rank(g)
  BY <1>3, <1>4
<1> QED
  BY <1>5, <1>6, RankAssumption

(* Proposals do not change, so neither does whether they are in order.     *)
LEMMA OrderIsKept == [Next]_vars => (InOrder' <=> InOrder)
<1> SUFFICES ASSUME [Next]_vars PROVE UNCHANGED proposal
  BY DEF InOrder
<1> QED
  BY DEF Next, Work, Begin, Skip, Collide, InsertKey, Commit, Checkpoint, Deadlock, Kill,
         Close, vars

(* Gates whose runs propose in one order never lose a run to the server's  *)
(* deadlock detector, however many there are (stage_gate, add).            *)
THEOREM OrderedGatesSucceed == Spec => []OrderedGatesNeverFail
<1>1. Init => OrderedGatesNeverFail
  BY DEF Init, OrderedGatesNeverFail
<1>2. TypeOK /\ Sessions /\ OrderedGatesNeverFail /\ [Next]_vars => OrderedGatesNeverFail'
  <2> SUFFICES ASSUME TypeOK, Sessions, OrderedGatesNeverFail, [Next]_vars, InOrder,
                      NEW h \in Gates
               PROVE  phase'[h] # "failed"
    BY OrderIsKept DEF OrderedGatesNeverFail
  <2>1. phase[h] # "failed"
    BY DEF OrderedGatesNeverFail
  <2>2. \A g \in Gates : ~Deadlock(g)
    <3> SUFFICES ASSUME NEW g \in Gates, NEW R \in SUBSET Gates, g \in R PROVE ~Ring(R)
      BY DEF Deadlock, Victim
    <3> QED
      BY NoRing
  <2>3. ASSUME NEW g \in Gates, Begin(g) \/ Skip(g) \/ Collide(g) \/ InsertKey(g)
                                 \/ Commit(g) \/ Checkpoint(g) \/ Kill(g)
        PROVE  phase'[h] # "failed"
    BY <2>1, <2>3 DEF Begin, Skip, Collide, InsertKey, Commit, Checkpoint, Kill, Close, TypeOK
  <2>4. CASE UNCHANGED vars
    BY <2>1, <2>4 DEF vars
  <2> QED
    BY <2>2, <2>3, <2>4 DEF Next, Work
<1> QED
  BY <1>1, <1>2, TypeInit, TypeStep, SessionsInit, SessionsStep, PTL DEF Spec

----------------------------------------------------------------------------
(* The safety half of GatesEnd: who can go on.                             *)

(* The gate's own work can go on: it is not waiting for another's row.     *)
Able(g) ==
  \/ phase[g] \in {"ready", "committed"}
  \/ phase[g] = "inserting" /\ pos[g] > Len(proposal[g])
  \/ \E k \in Keys : AddsKey(g, k) /\ (k \in known[g] \/ Taken(g, k) \/ Free(g, k))

Unfinished == {g \in Gates : phase[g] \notin {"done", "failed"}}

(* Gates never all wait with nobody to end it: some gate can go on or is   *)
(* one the deadlock detector may throw out, and if all runs propose in one *)
(* order some gate can go on (stage_gate, add; unique constraint).         *)
GatesGoOn ==
  Unfinished # {} =>
    /\ \E g \in Unfinished : Able(g) \/ Victim(g)
    /\ InOrder => \E g \in Unfinished : Able(g)

(* A gate that cannot go on waits for an unfinished one.                   *)
LEMMA StuckWaits ==
  ASSUME TypeOK, Sessions, NEW g \in Unfinished, ~Able(g)
  PROVE  \E h \in Unfinished \ {g} : WaitsFor(g, h)
<1> DEFINE k == proposal[g][pos[g]]
<1>1. g \in Gates /\ phase[g] = "inserting" /\ ~(pos[g] > Len(proposal[g]))
  BY DEF Unfinished, Able, TypeOK, Phases
<1>2. proposal[g] \in Seq(Keys) /\ pos[g] \in 1 .. Len(proposal[g])
  BY <1>1, ProposalType DEF TypeOK
<1>3. k \in Keys /\ AddsKey(g, k)
  BY <1>1, <1>2 DEF AddsKey
<1>4. k \notin known[g] /\ k \notin DOMAIN board /\ ~Free(g, k)
  BY <1>3 DEF Able, Taken
<1>5. PICK h \in Gates \ {g} : k \in mine[h]
  BY <1>4 DEF Free
<1>6. h \in Unfinished
  BY <1>5 DEF Sessions, Session, Unfinished
<1>7. WaitsFor(g, h)
  BY <1>3, <1>4, <1>5 DEF WaitsFor
<1> QED
  BY <1>5, <1>6, <1>7

(* If nobody can go on, the unfinished gates are a ring.                   *)
LEMMA StuckIsRing ==
  ASSUME TypeOK, Sessions, \A g \in Unfinished : ~Able(g)
  PROVE  Ring(Unfinished)
  BY StuckWaits DEF Ring

(* Gates never wait on each other for ever, but for a ring the detector    *)
(* breaks, whatever their number and their proposals.                      *)
THEOREM GatesNeverStick == Spec => []GatesGoOn
<1>1. TypeOK /\ Sessions => GatesGoOn
  <2> SUFFICES ASSUME TypeOK, Sessions, Unfinished # {}
               PROVE  /\ \E g \in Unfinished : Able(g) \/ Victim(g)
                      /\ InOrder => \E g \in Unfinished : Able(g)
    BY DEF GatesGoOn
  <2>1. CASE \E g \in Unfinished : Able(g)
    BY <2>1
  <2>2. CASE \A g \in Unfinished : ~Able(g)
    <3>1. Unfinished \in SUBSET Gates /\ Ring(Unfinished)
      BY <2>2, StuckIsRing DEF Unfinished
    <3>2. \A g \in Unfinished : Victim(g)
      BY <3>1 DEF Victim
    <3>3. ~InOrder
      BY <3>1, NoRing
    <3> QED
      BY <3>2, <3>3
  <2> QED
    BY <2>1, <2>2
<1> QED
  BY <1>1, TypeInit, TypeStep, SessionsInit, SessionsStep, PTL DEF Spec
=============================================================================
