---------------------------- MODULE RulesProofs ----------------------------
(***************************************************************************)
(* Theorems about module Rules, for every number of rates, invoices and    *)
(* orders, every value they may state and every limit of the playbook.     *)
(* No induction over steps is needed: what the rules promise holds of any  *)
(* register, and of any two that differ in one field.  What is needed is   *)
(* induction over finite sets: sums, greatest rows and sorted schedules    *)
(* are each had by removing the rows of a set one by one.                  *)
(***************************************************************************)
EXTENDS Rules, FiniteSetTheorems, WellFoundedInduction, TLAPS

(* Among subsets of a finite set there are smallest ones: every induction  *)
(* below takes a smallest counterexample.                                  *)
LEMMA Smallest ==
  ASSUME NEW S, IsFiniteSet(S), NEW B \in SUBSET SUBSET S, B # {}
  PROVE  \E T \in B : \A U \in SUBSET T : U # T => U \notin B
<1>1. IsWellFoundedOn(StrictSubsetOrdering(S), SUBSET S)
  BY FS_StrictSubsetOrderingWellFounded, FS_FiniteSubsetsOfFinite
<1>2. PICK T \in B : \A U \in B : <<U, T>> \notin StrictSubsetOrdering(S)
  BY <1>1, WFMin
<1>3. \A U \in B : ~(U \subseteq T /\ U # T)
  BY <1>2 DEF StrictSubsetOrdering
<1> QED
  BY <1>3
----------------------------------------------------------------------------
(* Sums over finite sets.                                                  *)

Picked(s) == CHOOSE y \in s : TRUE

Sums(v, f, D) ==
  f = [s \in SUBSET D |-> IF s = {} THEN 0 ELSE v[Picked(s)] + f[s \ {Picked(s)}]]

Sum(v, D) == MapThenSumSet(LAMBDA p : v[p], D)

(* MapThenSumSet is the last of the partial sums its recursion makes.      *)
LEMMA SumUnfold ==
  ASSUME NEW v, NEW D
  PROVE  Sum(v, D) = (CHOOSE f : Sums(v, f, D))[D]
  BY DEF Sum, MapThenSumSet, MapThenFoldSet, Sums, Picked

(* What the recursion picks is in the set.                                 *)
LEMMA PickedIsIn ==
  ASSUME NEW s, s # {}
  PROVE  Picked(s) \in s
  BY DEF Picked

(* The partial sums of one set are those of a subset, where both are.      *)
LEMMA SumsAgree ==
  ASSUME NEW v, NEW w, NEW D, IsFiniteSet(D), NEW E \in SUBSET D, NEW f, NEW g,
         Sums(v, f, D), Sums(w, g, E), \A p \in E : v[p] = w[p]
  PROVE  \A s \in SUBSET E : f[s] = g[s]
<1> DEFINE B == {s \in SUBSET E : f[s] # g[s]}
<1> SUFFICES ASSUME B # {} PROVE FALSE
  OBVIOUS
<1>1. PICK s \in B : \A u \in SUBSET s : u # s => u \notin B
  <2>1. B \in SUBSET SUBSET D
    OBVIOUS
  <2> HIDE DEF B
  <2> QED
    BY <2>1, Smallest
<1>2. CASE s = {}
  BY <1>2 DEF Sums
<1>3. CASE s # {}
  <2> DEFINE r == s \ {Picked(s)}
  <2>1. Picked(s) \in s
    BY <1>3, PickedIsIn
  <2>2. r \in SUBSET s /\ r # s /\ r \in SUBSET E
    BY <2>1
  <2>3. f[r] = g[r]
    BY <1>1, <2>2
  <2>4. f[s] = v[Picked(s)] + f[r] /\ g[s] = w[Picked(s)] + g[r]
    BY <1>3, <2>2 DEF Sums
  <2>5. v[Picked(s)] = w[Picked(s)]
    BY <2>1
  <2> QED
    BY <2>3, <2>4, <2>5
<1> QED
  BY <1>2, <1>3

(* A finite set has partial sums: the recursion is well defined.           *)
LEMMA SumsExist ==
  ASSUME NEW v, NEW D, IsFiniteSet(D)
  PROVE  \E f : Sums(v, f, D)
<1> DEFINE B == {s \in SUBSET D : ~ \E f : Sums(v, f, s)}
<1> SUFFICES ASSUME B # {} PROVE FALSE
  BY DEF B
<1>1. PICK s \in B : \A u \in SUBSET s : u # s => u \notin B
  <2>1. B \in SUBSET SUBSET D
    OBVIOUS
  <2> HIDE DEF B
  <2> QED
    BY <2>1, Smallest
<1> DEFINE F(u) == CHOOSE f : Sums(v, f, u)
           f == [u \in SUBSET s |->
                   IF u = {} THEN 0
                   ELSE v[Picked(u)] + F(u \ {Picked(u)})[u \ {Picked(u)}]]
<1>2. \A u \in SUBSET s : u # s => Sums(v, F(u), u)
  BY <1>1
<1>3. ASSUME NEW u \in SUBSET s, u # s PROVE f[u] = F(u)[u]
  <2>1. CASE u = {}
    <3>1. Sums(v, F(u), u) /\ f[u] = 0
      BY <1>2, <1>3, <2>1
    <3> HIDE DEF F, f
    <3> QED
      BY <2>1, <3>1 DEF Sums
  <2>2. CASE u # {}
    <3> DEFINE r == u \ {Picked(u)}
    <3>1. Picked(u) \in u
      BY <2>2, PickedIsIn
    <3>2. r \in SUBSET u /\ r # u /\ r \in SUBSET s /\ r # s /\ IsFiniteSet(u)
      BY <1>3, <3>1, FS_Subset
    <3>3. Sums(v, F(u), u) /\ Sums(v, F(r), r)
      BY <1>2, <1>3, <3>2
    <3>4. F(u)[r] = F(r)[r]
      <4> HIDE DEF F, r
      <4> QED
        BY <3>2, <3>3, SumsAgree
    <3>5. F(u)[u] = v[Picked(u)] + F(u)[r]
      BY <2>2, <3>3 DEF Sums
    <3> QED
      BY <2>2, <3>4, <3>5
  <2> QED
    BY <2>1, <2>2
<1>4. Sums(v, f, s)
  <2>1. ASSUME NEW u \in SUBSET s, u # {}
        PROVE  f[u] = v[Picked(u)] + f[u \ {Picked(u)}]
    <3> DEFINE r == u \ {Picked(u)}
    <3>1. r \in SUBSET s /\ r # s
      BY <2>1, PickedIsIn
    <3>2. f[r] = F(r)[r]
      BY <1>3, <3>1
    <3> QED
      BY <2>1, <3>2
  <2>2. f[{}] = 0
    OBVIOUS
  <2>3. f = [u \in SUBSET s |-> f[u]]
    OBVIOUS
  <2> HIDE DEF f
  <2> QED
    BY <2>1, <2>2, <2>3 DEF Sums
<1> QED
  BY <1>1, <1>4

(* The sum over a set is what the partial sums of any larger one give it.  *)
LEMMA SumIsPartial ==
  ASSUME NEW v, NEW D, IsFiniteSet(D), NEW E \in SUBSET D, NEW f, Sums(v, f, D)
  PROVE  Sum(v, E) = f[E]
<1> DEFINE g == CHOOSE h : Sums(v, h, E)
<1>1. IsFiniteSet(E)
  BY FS_Subset
<1>2. Sums(v, g, E)
  BY <1>1, SumsExist
<1>3. Sum(v, E) = g[E]
  BY SumUnfold
<1> HIDE DEF g
<1>4. \A p \in E : v[p] = v[p]
  OBVIOUS
<1>5. \A s \in SUBSET E : f[s] = g[s]
  BY ONLY <1>2, <1>4, SumsAgree, IsFiniteSet(D), Sums(v, f, D), E \in SUBSET D
<1> QED
  BY <1>3, <1>5

(* Nothing adds up to zero.                                                *)
LEMMA SumEmpty ==
  ASSUME NEW v
  PROVE  Sum(v, {}) = 0
<1>1. IsFiniteSet({})
  BY FS_EmptySet
<1>2. PICK f : Sums(v, f, {})
  BY <1>1, SumsExist
<1>3. Sum(v, {}) = f[{}]
  BY <1>1, <1>2, SumIsPartial
<1> QED
  BY <1>2, <1>3 DEF Sums

(* A sum is the picked value and the sum of the rest.                      *)
LEMMA SumPicked ==
  ASSUME NEW v, NEW D, IsFiniteSet(D), D # {}
  PROVE  Sum(v, D) = v[Picked(D)] + Sum(v, D \ {Picked(D)})
<1>1. PICK f : Sums(v, f, D)
  BY SumsExist
<1>2. Sum(v, D) = f[D] /\ Sum(v, D \ {Picked(D)}) = f[D \ {Picked(D)}]
  BY <1>1, SumIsPartial
<1> QED
  BY <1>1, <1>2 DEF Sums

(* Only the values added up count.                                         *)
LEMMA SumSame ==
  ASSUME NEW v, NEW w, NEW D, IsFiniteSet(D), \A p \in D : v[p] = w[p]
  PROVE  Sum(v, D) = Sum(w, D)
<1>1. PICK f, g : Sums(v, f, D) /\ Sums(w, g, D)
  BY SumsExist
<1>2. Sum(v, D) = f[D] /\ Sum(w, D) = g[D]
  BY <1>1, SumIsPartial
<1> QED
  BY <1>1, <1>2, SumsAgree

(* A sum of naturals is one.                                               *)
LEMMA SumNat ==
  ASSUME NEW v, NEW D, IsFiniteSet(D), \A p \in D : v[p] \in Nat
  PROVE  Sum(v, D) \in Nat
<1> DEFINE B == {s \in SUBSET D : Sum(v, s) \notin Nat}
<1> SUFFICES ASSUME B # {} PROVE FALSE
  OBVIOUS
<1>1. B \in SUBSET SUBSET D
  OBVIOUS
<1>2. PICK s \in B : \A u \in SUBSET s : u # s => u \notin B
  <2> HIDE DEF B
  <2> QED
    BY <1>1, Smallest
<1>3. s # {}
  BY <1>2, SumEmpty
<1>4. Picked(s) \in s /\ IsFiniteSet(s)
  BY <1>1, <1>2, <1>3, PickedIsIn, FS_Subset
<1>5. Sum(v, s \ {Picked(s)}) \in Nat
  BY <1>1, <1>2, <1>4
<1>6. Sum(v, s) = v[Picked(s)] + Sum(v, s \ {Picked(s)})
  BY <1>3, <1>4, SumPicked
<1>7. v[Picked(s)] \in Nat
  BY <1>1, <1>2, <1>4
<1> QED
  BY <1>2, <1>5, <1>6, <1>7

(* Any one of the values may be taken out of a sum.                        *)
LEMMA SumRemove ==
  ASSUME NEW v, NEW D, IsFiniteSet(D), \A p \in D : v[p] \in Nat, NEW x \in D
  PROVE  Sum(v, D) = v[x] + Sum(v, D \ {x})
<1> DEFINE B == {s \in SUBSET D : \E y \in s : Sum(v, s) # v[y] + Sum(v, s \ {y})}
<1> SUFFICES ASSUME B # {} PROVE FALSE
  OBVIOUS
<1>1. B \in SUBSET SUBSET D
  OBVIOUS
<1>2. PICK s \in B : \A u \in SUBSET s : u # s => u \notin B
  <2> HIDE DEF B
  <2> QED
    BY <1>1, Smallest
<1>3. PICK y \in s : Sum(v, s) # v[y] + Sum(v, s \ {y})
  BY <1>2
<1> DEFINE z == Picked(s)
<1>4. /\ z \in s /\ s \in SUBSET D /\ IsFiniteSet(s)
      /\ Sum(v, s) = v[z] + Sum(v, s \ {z})
  BY <1>1, <1>2, <1>3, PickedIsIn, SumPicked, FS_Subset
<1>5. y # z
  BY <1>3, <1>4
<1> DEFINE r == (s \ {y}) \ {z}
<1>6. r = (s \ {z}) \ {y}
  OBVIOUS
<1>7. \A u \in SUBSET s : u # s => \A q \in u : Sum(v, u) = v[q] + Sum(v, u \ {q})
  BY <1>2, <1>4
<1> HIDE DEF z
<1>8. /\ Sum(v, s \ {y}) = v[z] + Sum(v, r)
      /\ Sum(v, s \ {z}) = v[y] + Sum(v, (s \ {z}) \ {y})
  BY <1>3, <1>4, <1>5, <1>7
<1>9. r \in SUBSET D /\ v[y] \in Nat /\ v[z] \in Nat
  BY <1>3, <1>4
<1>10. Sum(v, r) \in Nat
  <2>1. IsFiniteSet(r) /\ \A p \in r : v[p] \in Nat
    BY <1>9, FS_Subset
  <2> QED
    BY <2>1, SumNat
<1> HIDE DEF r
<1>11. Sum(v, s \ {z}) = v[y] + Sum(v, r)
  BY <1>6, <1>8
<1> QED
  BY <1>3, <1>4, <1>8, <1>9, <1>10, <1>11
----------------------------------------------------------------------------
(* The rate schedule.                                                      *)

(* Rows that the dates and places order: no two stand in one place.        *)
Ranked(R) ==
  /\ \A r \in R : r.from \in Nat /\ r.path[1] \in Nat
  /\ \A r, q \in R : r.path[1] = q.path[1] => r = q

Sorted(s, R) ==
  /\ s \in [1 .. Cardinality(R) -> R]
  /\ \A i, j \in 1 .. Cardinality(R) : i < j => Earlier(s[i], s[j])

(* Dates and places make a strict total order.                             *)
LEMMA EarlierOrders ==
  ASSUME NEW R, Ranked(R), NEW x \in R, NEW y \in R
  PROVE  /\ ~Earlier(x, x)
         /\ x # y => Earlier(x, y) \/ Earlier(y, x)
         /\ \A z \in R : Earlier(x, y) /\ Earlier(y, z) => Earlier(x, z)
<1>1. \A r \in R : r.from \in Nat /\ r.path[1] \in Nat
  BY DEF Ranked
<1>2. x # y => x.path[1] # y.path[1]
  BY DEF Ranked
<1>3. \A z \in R : Earlier(x, y) /\ Earlier(y, z) => Earlier(x, z)
  BY <1>1 DEF Earlier
<1> QED
  BY <1>1, <1>2, <1>3 DEF Earlier

(* Rows, if any, have a last one.                                          *)
LEMMA LastRow ==
  ASSUME NEW R, IsFiniteSet(R), Ranked(R), R # {}
  PROVE  \E m \in R : \A r \in R \ {m} : Earlier(r, m)
<1> DEFINE B == {s \in SUBSET R : s # {} /\ ~ \E m \in s : \A r \in s \ {m} : Earlier(r, m)}
<1> SUFFICES ASSUME B # {} PROVE FALSE
  BY DEF B
<1>1. B \in SUBSET SUBSET R
  OBVIOUS
<1>2. PICK s \in B : \A u \in SUBSET s : u # s => u \notin B
  <2> HIDE DEF B
  <2> QED
    BY <1>1, Smallest
<1>3. PICK x \in s : TRUE
  OBVIOUS
<1>4. s \ {x} # {}
  BY <1>3
<1>5. PICK m \in s \ {x} : \A r \in (s \ {x}) \ {m} : Earlier(r, m)
  <2>1. s \ {x} \in SUBSET s /\ s \ {x} # s /\ s \ {x} \in SUBSET R
    BY <1>3
  <2>2. s \ {x} \notin B
    BY <1>2, <2>1
  <2> QED
    BY <1>4, <2>1, <2>2
<1>6. s \subseteq R /\ m \in R /\ x \in R /\ m # x
  BY <1>3, <1>5
<1>7. Earlier(x, m) \/ Earlier(m, x)
  BY <1>6, EarlierOrders
<1>8. CASE Earlier(x, m)
  BY <1>3, <1>5, <1>8
<1>9. CASE Earlier(m, x)
  <2>1. \A r \in s \ {x} : Earlier(r, x)
    <3> TAKE r \in s \ {x}
    <3>1. r = m \/ Earlier(r, m)
      BY <1>5
    <3> QED
      BY <1>3, <1>6, <1>9, <3>1, EarlierOrders
  <2> QED
    BY <1>3, <2>1
<1> QED
  BY <1>7, <1>8, <1>9

(* Rows can be sorted: the schedule the code makes exists.                 *)
LEMMA SortedExists ==
  ASSUME NEW R, IsFiniteSet(R), Ranked(R)
  PROVE  \E s : Sorted(s, R)
<1> DEFINE B == {u \in SUBSET R : ~ \E s : Sorted(s, u)}
<1> SUFFICES ASSUME B # {} PROVE FALSE
  BY DEF B
<1>1. B \in SUBSET SUBSET R
  OBVIOUS
<1>2. PICK u \in B : \A w \in SUBSET u : w # u => w \notin B
  <2> HIDE DEF B
  <2> QED
    BY <1>1, Smallest
<1>3. IsFiniteSet(u) /\ Ranked(u)
  BY <1>1, FS_Subset DEF Ranked
<1>4. CASE u = {}
  <2>1. 1 .. Cardinality(u) = {}
    BY <1>4, FS_EmptySet
  <2>2. Sorted([i \in {} |-> 0], u)
    BY <2>1 DEF Sorted
  <2> QED
    BY <2>2
<1>5. CASE u # {}
  <2>1. PICK m \in u : \A r \in u \ {m} : Earlier(r, m)
    BY <1>3, <1>5, LastRow
  <2> DEFINE w == u \ {m}
             n == Cardinality(u)
  <2>2. /\ Cardinality(w) = n - 1 /\ n \in Nat /\ n # 0
        /\ w \in SUBSET u /\ w # u
    BY <1>3, <1>5, FS_RemoveElement, FS_CardinalityType, FS_EmptySet
  <2>3. PICK s : Sorted(s, w)
    BY <1>2, <2>2
  <2> HIDE DEF n, w
  <2> DEFINE t == [i \in 1 .. n |-> IF i = n THEN m ELSE s[i]]
  <2>4. s \in [1 .. n - 1 -> w] /\ \A i, j \in 1 .. n - 1 : i < j => Earlier(s[i], s[j])
    BY <2>2, <2>3 DEF Sorted
  <2>5. t \in [1 .. n -> u]
    BY <2>2, <2>4
  <2>6. ASSUME NEW i \in 1 .. n, NEW j \in 1 .. n, i < j PROVE Earlier(t[i], t[j])
    <3>1. i \in 1 .. n - 1 /\ t[i] = s[i] /\ s[i] \in w
      BY <2>2, <2>4, <2>6
    <3>2. CASE j = n
      BY <2>1, <3>1, <3>2 DEF w
    <3>3. CASE j # n
      BY <2>2, <2>4, <2>6, <3>1, <3>3
    <3> QED
      BY <3>2, <3>3
  <2>7. Sorted(t, u)
    <3> HIDE DEF t
    <3> QED
      BY <2>5, <2>6 DEF Sorted, n
  <2> QED
    BY <2>7
<1> QED
  BY <1>4, <1>5

(* Every row is in the sorted schedule.                                    *)
LEMMA SortedCovers ==
  ASSUME NEW R, IsFiniteSet(R), Ranked(R), NEW s, Sorted(s, R)
  PROVE  \A r \in R : \E i \in 1 .. Cardinality(R) : s[i] = r
<1> DEFINE N == 1 .. Cardinality(R)
<1>1. Cardinality(R) \in Nat
  BY FS_CardinalityType
<1>2. IsFiniteSet(N) /\ Cardinality(N) = Cardinality(R)
  BY <1>1, FS_Interval
<1>3. s \in [N -> R] /\ \A i, j \in N : i < j => Earlier(s[i], s[j])
  BY DEF Sorted
<1>4. \A i, j \in N : i # j => s[i] # s[j]
  <2> SUFFICES ASSUME NEW i \in N, NEW j \in N, i < j PROVE s[i] # s[j]
    BY <1>1
  <2>1. Earlier(s[i], s[j]) /\ s[i] \in R
    BY <1>3
  <2> QED
    BY <2>1, EarlierOrders
<1>5. s \in Injection(N, R)
  BY <1>3, <1>4 DEF Injection, IsInjective
<1>6. s \in Surjection(N, R)
  BY <1>2, <1>5, FS_Injection
<1> QED
  BY <1>6 DEF Surjection

(* The row that rate n of the register makes.                              *)
Rate(reg, n) ==
  [from |-> reg[At("rate_table", n, "effective_from")],
   price |-> reg[At("rate_table", n, "unit_price")],
   path |-> At("rate_table", n, "unit_price")]

Readable(reg) == {n \in Rates : IsNumber(Rate(reg, n).price) /\ IsNumber(Rate(reg, n).from)}

(* What reads as a number is stated.                                       *)
LEMMA NumbersAreStated ==
  ASSUME NEW reg, NEW p, IsNumber(reg[p])
  PROVE  Has(reg, p)
  BY AbsentAssumption DEF IsNumber, Has, Cell

(* The rows of the schedule are those the readable rates make.             *)
LEMMA RowsAre ==
  ASSUME NEW reg
  PROVE  Rows(reg) = {Rate(reg, n) : n \in Readable(reg)}
<1>1. ASSUME NEW p \in Path, p[2] = "rate_table", p[3] = "unit_price"
      PROVE  p[1] \in Rates /\ p = At("rate_table", p[1], "unit_price")
  BY <1>1 DEF Path, At
<1>2. ASSUME NEW n \in Rates
      PROVE  /\ At("rate_table", n, "unit_price") \in Path
             /\ Sibling(At("rate_table", n, "unit_price"), "effective_from")
                  = At("rate_table", n, "effective_from")
             /\ At("rate_table", n, "unit_price")[2] = "rate_table"
             /\ At("rate_table", n, "unit_price")[3] = "unit_price"
  BY DEF Path, At, Sibling
<1> DEFINE Q == {q \in Match(reg, "rate_table", "unit_price") :
                  IsNumber(reg[q]) /\ IsNumber(reg[Sibling(q, "effective_from")])}
           row(p) == [from |-> reg[Sibling(p, "effective_from")], price |-> reg[p], path |-> p]
<1>3. Rows(reg) = {row(p) : p \in Q}
  BY DEF Rows
<1>4. ASSUME NEW p \in Q PROVE p[1] \in Readable(reg) /\ row(p) = Rate(reg, p[1])
  <2>1. p[1] \in Rates /\ p = At("rate_table", p[1], "unit_price")
    BY <1>1 DEF Match
  <2> QED
    BY <1>2, <2>1 DEF Readable, Rate
<1>5. ASSUME NEW n \in Readable(reg)
      PROVE  /\ At("rate_table", n, "unit_price") \in Q
             /\ row(At("rate_table", n, "unit_price")) = Rate(reg, n)
  <2>1. n \in Rates /\ IsNumber(Rate(reg, n).price) /\ IsNumber(Rate(reg, n).from)
    BY DEF Readable
  <2>2. Has(reg, At("rate_table", n, "unit_price"))
    BY <2>1, NumbersAreStated DEF Rate
  <2> QED
    BY <1>2, <2>1, <2>2 DEF Match, Rate
<1> HIDE DEF Q, row
<1> QED
  BY <1>3, <1>4, <1>5

(* They are finitely many, and no two stand in one place.                  *)
LEMMA RowsRanked ==
  ASSUME NEW reg
  PROVE  IsFiniteSet(Rows(reg)) /\ Ranked(Rows(reg))
<1>1. IsFiniteSet(Readable(reg)) /\ Readable(reg) \subseteq Nat
  BY SegmentsAssumption, FS_Subset DEF Readable
<1> DEFINE f == [n \in Readable(reg) |-> Rate(reg, n)]
<1>2. f \in Surjection(Readable(reg), Rows(reg))
  BY RowsAre DEF Surjection
<1>3. IsFiniteSet(Rows(reg))
  <2> HIDE DEF f
  <2> QED
    BY <1>1, <1>2, FS_Surjection
<1>4. \A n \in Readable(reg) : Rate(reg, n).from \in Nat /\ Rate(reg, n).path[1] = n
  BY DEF Readable, Rate, IsNumber, At
<1> QED
  BY <1>1, <1>3, <1>4, RowsAre DEF Ranked

(* The rows in force on a day, and the one that is so last.                *)
Due(reg, day) == {r \in Rows(reg) : r.from <= day}
IsLast(m, R) == m \in R /\ \A r \in R \ {m} : Earlier(r, m)

(* in_force[-1] of the sorted schedule is the last row in force.           *)
LEMMA LastInForce ==
  ASSUME NEW reg, NEW day \in Nat
  PROVE  /\ InForce(Schedule(reg), day) = {} <=> Due(reg, day) = {}
         /\ Due(reg, day) # {} =>
               IsLast(Schedule(reg)[Max(InForce(Schedule(reg), day))], Due(reg, day))
<1> DEFINE R == Rows(reg)
           s == Schedule(reg)
           N == 1 .. Cardinality(R)
           places == InForce(s, day)
           due == Due(reg, day)
<1>1. IsFiniteSet(R) /\ Ranked(R) /\ Cardinality(R) \in Nat
  BY RowsRanked, FS_CardinalityType
<1>2. Sorted(s, R)
  BY <1>1, SortedExists DEF Sorted, Schedule
<1> HIDE DEF R, s
<1>3. s \in [N -> R] /\ \A i, j \in N : i < j => Earlier(s[i], s[j])
  BY <1>2 DEF Sorted
<1>4. \A r \in R : \E i \in N : s[i] = r
  BY <1>1, <1>2, SortedCovers
<1>5. places = {i \in N : s[i] \in due}
  BY <1>3 DEF InForce, Due, R
<1>6. due \subseteq R
  BY DEF Due, R
<1>7. places = {} <=> due = {}
  BY <1>4, <1>5, <1>6
<1>8. ASSUME due # {} PROVE IsLast(s[Max(places)], due)
  <2>1. IsFiniteSet(due) /\ Ranked(due)
    BY <1>1, <1>6, FS_Subset DEF Ranked
  <2>2. PICK m \in due : \A r \in due \ {m} : Earlier(r, m)
    BY <1>8, <2>1, LastRow
  <2>3. PICK k \in N : s[k] = m
    BY <1>4, <1>6
  <2> HIDE DEF N, places, due
  <2>4. k \in places
    BY <1>5, <2>3
  <2>5. ASSUME NEW j \in places PROVE k >= j
    <3>1. j \in N /\ s[j] \in due
      BY <1>5
    <3>2. j \in Nat /\ k \in Nat
      BY <1>1, <3>1 DEF N
    <3>3. CASE k < j
      <4>1. Earlier(m, s[j])
        BY <1>3, <2>3, <3>1, <3>3
      <4>2. s[j] = m \/ Earlier(s[j], m)
        BY <2>2, <3>1
      <4>3. ~Earlier(m, m)
        BY <2>1, EarlierOrders
      <4>4. Earlier(m, s[j]) /\ Earlier(s[j], m) => Earlier(m, m)
        BY <2>1, <3>1, EarlierOrders
      <4> QED
        BY <4>1, <4>2, <4>3, <4>4
    <3> QED
      BY <3>2, <3>3
  <2>6. \A i \in places : i \in Nat
    BY <1>1, <1>5 DEF N
  <2>7. Max(places) \in places /\ \A j \in places : Max(places) >= j
    BY <2>4, <2>5 DEF Max
  <2>8. Max(places) = k
    BY <2>4, <2>5, <2>6, <2>7
  <2> QED
    BY <2>2, <2>3, <2>8 DEF IsLast
<1> QED
  BY <1>7, <1>8 DEF s
----------------------------------------------------------------------------
(* Verdicts, rule by rule.                                                 *)

(* The findings of a rule are those its own check makes.                   *)
LEMMA FaultedAre ==
  ASSUME NEW reg
  PROVE  /\ Faulted(reg, "RATE_CONSISTENCY") =
              {f.path : f \in RateConsistency(reg, "RATE_CONSISTENCY",
                                             Match(reg, "invoices", "unit_price"))}
         /\ Faulted(reg, "SPEND_CAP") =
              {f.path : f \in AggregateMax(reg, "SPEND_CAP", Match(reg, "invoices", "amount"),
                                          Contract("spend_cap"))}
         /\ Faulted(reg, "INVOICE_PO_REF") =
              {f.path : f \in ReferenceExists(reg, "INVOICE_PO_REF",
                                             Match(reg, "invoices", "po_ref"),
                                             Match(reg, "purchase_orders", "number"))}
<1> DEFINE
      a == NumericMax(reg, "PAY_TERMS_MAX", Contract("net_days"), NetDaysLimit)
      b == Required(reg, "CAP_STATED", Contract("liability_cap"))
      c == ConditionalNumericMin(reg, "AUTORENEW_NOTICE", Contract("renewal_type"),
                                 Automatic, Contract("notice_days"), NoticeLimit)
      d == AggregateMax(reg, "SPEND_CAP", Match(reg, "invoices", "amount"),
                        Contract("spend_cap"))
      e == ReferenceExists(reg, "INVOICE_PO_REF", Match(reg, "invoices", "po_ref"),
                           Match(reg, "purchase_orders", "number"))
      r == RateConsistency(reg, "RATE_CONSISTENCY", Match(reg, "invoices", "unit_price"))
      t == DateBefore(reg, "NOTICE_DEADLINE", At("notice", 0, "sent_date"),
                      At("derived", 0, "notice_deadline"))
<1>1. Evaluate(reg) = a \cup b \cup c \cup d \cup e \cup r \cup t
  BY DEF Evaluate
<1>2. \A f \in a : f.rule = "PAY_TERMS_MAX"
  BY DEF NumericMax, Finding
<1>3. \A f \in b : f.rule = "CAP_STATED"
  BY DEF Required, Finding
<1>4. \A f \in c : f.rule = "AUTORENEW_NOTICE"
  BY DEF ConditionalNumericMin, Finding, Cited
<1>5. \A f \in d : f.rule = "SPEND_CAP"
  BY DEF AggregateMax, Finding
<1>6. \A f \in e : f.rule = "INVOICE_PO_REF"
  BY DEF ReferenceExists, Finding
<1>7. \A f \in r : f.rule = "RATE_CONSISTENCY"
  BY DEF RateConsistency, Finding
<1>8. \A f \in t : f.rule = "NOTICE_DEADLINE"
  BY DEF DateBefore, Finding
<1> HIDE DEF a, b, c, d, e, r, t
<1>9. /\ {f \in Evaluate(reg) : f.rule = "RATE_CONSISTENCY"} = r
      /\ {f \in Evaluate(reg) : f.rule = "SPEND_CAP"} = d
      /\ {f \in Evaluate(reg) : f.rule = "INVOICE_PO_REF"} = e
  BY <1>1, <1>2, <1>3, <1>4, <1>5, <1>6, <1>7, <1>8
<1> QED
  BY <1>9 DEF Faulted, d, e, r

(* The verdict on a bill is what its date's last row in force says.        *)
LEMMA BillVerdict ==
  ASSUME NEW reg, NEW i \in Invoices
  PROVE  LET bill == At("invoices", i, "unit_price")
             day == reg[At("invoices", i, "date")]
         IN  bill \in Faulted(reg, "RATE_CONSISTENCY")
               <=> /\ IsNumber(reg[bill]) /\ IsNumber(day)
                   /\ \E m : IsLast(m, Due(reg, day)) /\ m.price # reg[bill]
<1> DEFINE bill == At("invoices", i, "unit_price")
           day == reg[At("invoices", i, "date")]
           ps == Match(reg, "invoices", "unit_price")
           places(p) == InForce(Schedule(reg), reg[Sibling(p, "date")])
           rate(p) == Schedule(reg)[Max(places(p))]
           dated == {p \in ps : /\ IsNumber(reg[p]) /\ IsNumber(reg[Sibling(p, "date")])
                                /\ places(p) # {}}
<1>1. bill \in Path /\ bill[2] = "invoices" /\ bill[3] = "unit_price"
      /\ Sibling(bill, "date") = At("invoices", i, "date")
  BY DEF At, Path, Sibling
<1>2. IsNumber(reg[bill]) => bill \in ps
  BY <1>1, NumbersAreStated DEF Match
<1>3. {f.path : f \in RateConsistency(reg, "RATE_CONSISTENCY", ps)}
        = {p \in dated : reg[p] # rate(p).price}
  <2> DEFINE bad == {p \in dated : reg[p] # rate(p).price}
             finding(p) == Finding("RATE_CONSISTENCY", p,
                                   {p, Sibling(p, "date"), rate(p).path})
  <2>1. RateConsistency(reg, "RATE_CONSISTENCY", ps) = {finding(p) : p \in bad}
    BY DEF RateConsistency
  <2>2. \A p : finding(p).path = p
    BY DEF Finding
  <2> HIDE DEF bad, finding
  <2>3. {f.path : f \in {finding(p) : p \in bad}} = bad
    BY <2>2
  <2> QED
    BY <2>1, <2>3 DEF bad
<1>4. bill \in Faulted(reg, "RATE_CONSISTENCY")
        <=> IsNumber(reg[bill]) /\ IsNumber(day) /\ places(bill) # {}
            /\ reg[bill] # rate(bill).price
  BY <1>1, <1>2, <1>3, FaultedAre
<1>5. ASSUME IsNumber(day)
      PROVE  places(bill) # {} /\ reg[bill] # rate(bill).price
               <=> \E m : IsLast(m, Due(reg, day)) /\ m.price # reg[bill]
  <2>1. day \in Nat /\ places(bill) = InForce(Schedule(reg), day)
    BY <1>1, <1>5 DEF IsNumber
  <2>2. places(bill) # {} <=> Due(reg, day) # {}
    BY <2>1, LastInForce
  <2>3. places(bill) # {} => IsLast(rate(bill), Due(reg, day))
    BY <2>1, <2>2, LastInForce
  <2>4. ASSUME NEW m, NEW n, IsLast(m, Due(reg, day)), IsLast(n, Due(reg, day)) PROVE m = n
    <3>1. m \in Rows(reg) /\ n \in Rows(reg)
      BY <2>4 DEF IsLast, Due
    <3>2. Ranked(Rows(reg))
      BY RowsRanked
    <3>3. m # n => Earlier(m, n) /\ Earlier(n, m)
      BY <2>4 DEF IsLast
    <3>4. ~Earlier(m, m) /\ (Earlier(m, n) /\ Earlier(n, m) => Earlier(m, m))
      BY <3>1, <3>2, EarlierOrders
    <3> QED
      BY <3>3, <3>4
  <2>5. \A m : IsLast(m, Due(reg, day)) => Due(reg, day) # {}
    BY DEF IsLast
  <2> HIDE DEF places, rate
  <2> QED
    BY <2>2, <2>3, <2>4, <2>5
<1> HIDE DEF bill, day, places, rate
<1>6. bill \in Faulted(reg, "RATE_CONSISTENCY")
        <=> /\ IsNumber(reg[bill]) /\ IsNumber(day)
            /\ \E m : IsLast(m, Due(reg, day)) /\ m.price # reg[bill]
  BY <1>4, <1>5
<1> QED
  BY <1>6 DEF bill, day

(* A finding on the rate in force is one on the latest rate, however the   *)
(* rates are numbered and whatever they say (_check_rate_consistency).     *)
LEMMA RateInForce == RateInForceIsBilled
<1> SUFFICES ASSUME \A n \in Rates : IsNumber(Price(n)) <=> IsNumber(From(n)),
                    NEW i \in Invoices
             PROVE  LET billed == register[At("invoices", i, "unit_price")]
                        day == register[At("invoices", i, "date")]
                        due == {n \in Rates : IsNumber(From(n)) /\ IsNumber(day) /\ From(n) <= day}
                        latest == {n \in due : \A m \in due : From(m) < From(n) \/ (From(m) = From(n) /\ m <= n)}
                    IN  At("invoices", i, "unit_price") \in Faulted(register, "RATE_CONSISTENCY")
                          <=> IsNumber(billed) /\ \E n \in latest : Price(n) # billed
  BY DEF RateInForceIsBilled
<1> DEFINE billed == register[At("invoices", i, "unit_price")]
           day == register[At("invoices", i, "date")]
           due == {n \in Rates : IsNumber(From(n)) /\ IsNumber(day) /\ From(n) <= day}
           latest == {n \in due : \A m \in due : From(m) < From(n) \/ (From(m) = From(n) /\ m <= n)}
           row(n) == Rate(register, n)
<1>1. \A n : row(n).from = From(n) /\ row(n).price = Price(n) /\ row(n).path[1] = n
  BY DEF Rate, From, Price, At
<1>2. Readable(register) = {n \in Rates : IsNumber(From(n))}
  BY <1>1 DEF Readable
<1>3. Rates \subseteq Nat
  BY SegmentsAssumption
<1> HIDE DEF row
<1>4. ASSUME IsNumber(day) PROVE Due(register, day) = {row(n) : n \in due}
  BY <1>1, <1>2, <1>4, RowsAre DEF Due, row
<1>5. ASSUME IsNumber(day), NEW n \in due
      PROVE  n \in latest <=> IsLast(row(n), Due(register, day))
  <2>1. \A m \in due : m \in Nat /\ From(m) \in Nat
    BY <1>3 DEF IsNumber
  <2>2. \A m \in due : row(m) # row(n) <=> m # n
    BY <1>1
  <2>3. \A m \in due : Earlier(row(m), row(n))
                         <=> From(m) < From(n) \/ (From(m) = From(n) /\ m < n)
    BY <1>1 DEF Earlier
  <2> HIDE DEF due, day
  <2>4. IsLast(row(n), Due(register, day))
          <=> \A m \in due : m # n => Earlier(row(m), row(n))
    BY <1>4, <1>5, <2>2 DEF IsLast
  <2> QED
    BY <2>1, <2>3, <2>4
<1>6. ASSUME IsNumber(day)
      PROVE  (\E m : IsLast(m, Due(register, day)) /\ m.price # billed)
               <=> \E n \in latest : Price(n) # billed
  <2>1. \A m : IsLast(m, Due(register, day)) => \E n \in due : m = row(n)
    BY <1>4, <1>6 DEF IsLast
  <2>2. latest \subseteq due
    OBVIOUS
  <2> HIDE DEF due, latest, day, billed
  <2> QED
    BY <1>1, <1>5, <1>6, <2>1, <2>2
<1>7. latest # {} => IsNumber(day)
  OBVIOUS
<1> HIDE DEF due, latest
<1>8. At("invoices", i, "unit_price") \in Faulted(register, "RATE_CONSISTENCY")
        <=> IsNumber(billed) /\ \E n \in latest : Price(n) # billed
  BY <1>6, <1>7, BillVerdict
<1> QED
  BY <1>8 DEF due, latest

(* Whatever the rates, an invoice is faulted just when the rate in force   *)
(* on its date has another price.                                          *)
THEOREM RateInForceTheorem == Spec => []RateInForceIsBilled
  BY RateInForce, PTL

(* What takes effect after a day does not change what is due on it.        *)
LEMMA LaterRates ==
  ASSUME NEW reg, NEW new, NEW n \in Rates, NEW i \in Invoices,
         LET day == reg[At("invoices", i, "date")]
             from(r) == r[At("rate_table", n, "effective_from")]
         IN  /\ IsNumber(day)
             /\ ~IsNumber(from(reg)) \/ from(reg) > day
             /\ ~IsNumber(from(new)) \/ from(new) > day,
         \A p \in Path : p[1] # n \/ p[2] # "rate_table" => new[p] = reg[p]
  PROVE  At("invoices", i, "unit_price") \in Faulted(reg, "RATE_CONSISTENCY")
           <=> At("invoices", i, "unit_price") \in Faulted(new, "RATE_CONSISTENCY")
<1> DEFINE bill == At("invoices", i, "unit_price")
           date == At("invoices", i, "date")
           day == reg[date]
<1>1. new[bill] = reg[bill] /\ new[date] = reg[date]
  BY DEF Path, At
<1>2. \A m \in Rates \ {n} : Rate(new, m) = Rate(reg, m)
  <2> TAKE m \in Rates \ {n}
  <2> DEFINE p == At("rate_table", m, "unit_price")
             q == At("rate_table", m, "effective_from")
  <2>1. p \in Path /\ q \in Path /\ p[1] # n /\ q[1] # n
    BY DEF Path, At
  <2>2. new[p] = reg[p] /\ new[q] = reg[q]
    BY <2>1
  <2> QED
    BY <2>2 DEF Rate
<1>3. \A r : Due(r, day) = {Rate(r, m) : m \in {k \in Readable(r) : Rate(r, k).from <= day}}
  BY RowsAre DEF Due
<1>4. ASSUME NEW r \in {reg, new}, n \in Readable(r) PROVE ~(Rate(r, n).from <= day)
  BY <1>4 DEF Readable, Rate, IsNumber
<1>5. {k \in Readable(reg) : Rate(reg, k).from <= day}
        = {k \in Readable(new) : Rate(new, k).from <= day}
  BY <1>2, <1>4 DEF Readable
<1>6. \A k \in {m \in Readable(reg) : Rate(reg, m).from <= day} : Rate(new, k) = Rate(reg, k)
  BY <1>2, <1>4 DEF Readable
<1>7. Due(reg, day) = Due(new, day)
  BY <1>3, <1>5, <1>6
<1> QED
  BY <1>1, <1>7, BillVerdict

(* Rates that take effect later leave the verdicts on earlier bills alone. *)
THEOREM LaterRatesTheorem == Spec => LaterRatesDoNotMatter
<1>1. [\A n \in Rates, i \in Invoices :
         LET day == register[At("invoices", i, "date")]
             after(v) == ~IsNumber(v) \/ v > day
             bill == At("invoices", i, "unit_price")
         IN  /\ IsNumber(day)
             /\ after(From(n)) /\ after(From(n)')
             /\ \A p \in Path : p[1] # n \/ p[2] # "rate_table" => register'[p] = register[p]
             => (bill \in Faulted(register, "RATE_CONSISTENCY")
                   <=> bill \in Faulted(register', "RATE_CONSISTENCY"))]_vars
  BY LaterRates DEF From
<1> QED
  BY <1>1, PTL DEF LaterRatesDoNotMatter

(* The amounts of the register that can be read.                           *)
Amounts(reg) == {p \in Match(reg, "invoices", "amount") : IsNumber(reg[p])}

(* The amounts to add are finitely many numbers.                           *)
LEMMA AmountsFinite ==
  ASSUME NEW reg
  PROVE  IsFiniteSet(Amounts(reg)) /\ \A p \in Amounts(reg) : reg[p] \in Nat
<1>1. IsFiniteSet(Invoices)
  BY SegmentsAssumption
<1> DEFINE f == [n \in Invoices |-> At("invoices", n, "amount")]
           all == {At("invoices", n, "amount") : n \in Invoices}
<1>2. f \in Surjection(Invoices, all)
  BY DEF Surjection
<1>3. IsFiniteSet(all)
  <2> HIDE DEF f, all
  <2> QED
    BY <1>1, <1>2, FS_Surjection
<1>4. Amounts(reg) \subseteq all
  <2> SUFFICES ASSUME NEW p \in Amounts(reg)
               PROVE  p[1] \in Invoices /\ p = At("invoices", p[1], "amount")
    OBVIOUS
  <2>1. p \in Path /\ p[2] = "invoices" /\ p[3] = "amount"
    BY DEF Amounts, Match
  <2> QED
    BY <2>1 DEF Path, At
<1>5. \A p \in Amounts(reg) : reg[p] \in Nat
  BY DEF Amounts, IsNumber
<1> QED
  BY <1>3, <1>4, <1>5, FS_Subset

(* The finding that the spend cap is exceeded is there just when it is.    *)
LEMMA CapVerdict ==
  ASSUME NEW reg
  PROVE  LET cap == Contract("spend_cap")
         IN  Faulted(reg, "SPEND_CAP") =
               {l \in {cap} : IsNumber(reg[l]) /\ Sum(reg, Amounts(reg)) > reg[l]}
<1> DEFINE ps == Match(reg, "invoices", "amount")
           bad == {l \in {Contract("spend_cap")} :
                     IsNumber(reg[l]) /\ Sum(reg, Amounts(reg)) > reg[l]}
           finding(l) == Finding("SPEND_CAP", l, {l} \cup ps)
<1>1. Total(reg, ps) = Sum(reg, Amounts(reg))
  BY DEF Total, Sum, Amounts
<1>2. AggregateMax(reg, "SPEND_CAP", ps, Contract("spend_cap")) = {finding(l) : l \in bad}
  BY <1>1 DEF AggregateMax
<1>3. \A l : finding(l).path = l
  BY DEF Finding
<1> HIDE DEF bad, finding
<1>4. {f.path : f \in {finding(l) : l \in bad}} = bad
  BY <1>3
<1> QED
  BY <1>2, <1>4, FaultedAre DEF bad

(* A sum grows with any of its terms, and with a new one.                  *)
LEMMA AmountAdds ==
  ASSUME NEW reg, NEW new, NEW i \in Invoices,
         LET amount == At("invoices", i, "amount")
         IN  /\ IsNumber(new[amount])
             /\ IsNumber(reg[amount]) => reg[amount] <= new[amount]
             /\ \A p \in Path \ {amount} : new[p] = reg[p]
  PROVE  Faulted(reg, "SPEND_CAP") \subseteq Faulted(new, "SPEND_CAP")
<1> DEFINE amount == At("invoices", i, "amount")
           others == Amounts(new) \ {amount}
<1>1. amount \in Path /\ amount[2] = "invoices" /\ amount[3] = "amount"
      /\ Contract("spend_cap") \in Path \ {amount}
  BY DEF At, Path, Contract
<1>2. new[Contract("spend_cap")] = reg[Contract("spend_cap")]
  BY <1>1
<1>3. amount \in Amounts(new)
  BY <1>1, NumbersAreStated DEF Amounts, Match
<1>4. \A p \in Path \ {amount} : p \in Amounts(new) <=> p \in Amounts(reg)
  BY DEF Amounts, Match, Has
<1>5. Amounts(reg) \ {amount} = others /\ \A p \in others : new[p] = reg[p]
  BY <1>4 DEF Amounts, Match
<1>6. /\ IsFiniteSet(Amounts(reg)) /\ IsFiniteSet(Amounts(new)) /\ IsFiniteSet(others)
      /\ \A p \in Amounts(new) : new[p] \in Nat
      /\ \A p \in Amounts(reg) : reg[p] \in Nat
  BY AmountsFinite, FS_Subset
<1> HIDE DEF others
<1>7. Sum(new, Amounts(new)) = new[amount] + Sum(new, others)
  BY <1>3, <1>6, SumRemove DEF others
<1>8. Sum(new, others) = Sum(reg, others) /\ Sum(reg, others) \in Nat
  <2>1. \A p \in others : reg[p] \in Nat
    BY <1>5, <1>6
  <2> QED
    BY <1>5, <1>6, <2>1, SumSame, SumNat
<1>9. Sum(reg, Amounts(reg)) <= Sum(new, Amounts(new))
  <2>1. new[amount] \in Nat
    BY DEF IsNumber
  <2>2. CASE amount \in Amounts(reg)
    <3>1. Sum(reg, Amounts(reg)) = reg[amount] + Sum(reg, others)
      BY <1>5, <1>6, <2>2, SumRemove
    <3>2. reg[amount] \in Nat /\ reg[amount] <= new[amount]
      BY <1>6, <2>2 DEF IsNumber
    <3> QED
      BY <1>7, <1>8, <2>1, <3>1, <3>2
  <2>3. CASE amount \notin Amounts(reg)
    <3>1. Amounts(reg) = others
      BY <1>5, <2>3
    <3> QED
      BY <1>7, <1>8, <2>1, <3>1
  <2> QED
    BY <2>2, <2>3
<1>10. Sum(reg, Amounts(reg)) \in Nat /\ Sum(new, Amounts(new)) \in Nat
  BY <1>6, SumNat
<1> QED
  BY <1>2, <1>9, <1>10, CapVerdict DEF IsNumber

(* Amounts that come in, or go up, never hide a breach of the spend cap.   *)
THEOREM AmountsTheorem == Spec => AmountsOnlyAdd
<1>1. [\A i \in Invoices :
         LET amount == At("invoices", i, "amount")
         IN  /\ IsNumber(register'[amount])
             /\ IsNumber(register[amount]) => register[amount] <= register'[amount]
             /\ \A p \in Path \ {amount} : register'[p] = register[p]
             => Faulted(register, "SPEND_CAP") \subseteq Faulted(register', "SPEND_CAP")]_vars
  BY AmountAdds
<1> QED
  BY <1>1, PTL DEF AmountsOnlyAdd

(* The references found dangling are those no order answers to.            *)
LEMMA ReferenceVerdict ==
  ASSUME NEW reg
  PROVE  Faulted(reg, "INVOICE_PO_REF") =
           {p \in Match(reg, "invoices", "po_ref") :
              \A q \in Match(reg, "purchase_orders", "number") : Normal[reg[p]] # Normal[reg[q]]}
<1> DEFINE ps == Match(reg, "invoices", "po_ref")
           targets == Match(reg, "purchase_orders", "number")
           bad == {p \in ps : Normal[reg[p]] \notin Targets(reg, targets)}
           finding(p) == Finding("INVOICE_PO_REF", p, {p})
<1>1. ReferenceExists(reg, "INVOICE_PO_REF", ps, targets) = {finding(p) : p \in bad}
  BY DEF ReferenceExists
<1>2. \A p : finding(p).path = p
  BY DEF Finding
<1>3. bad = {p \in ps : \A q \in targets : Normal[reg[p]] # Normal[reg[q]]}
  BY DEF Targets
<1> HIDE DEF ps, targets, bad, finding
<1>4. {f.path : f \in {finding(p) : p \in bad}} = bad
  BY <1>2
<1> QED
  BY <1>1, <1>3, <1>4, FaultedAre DEF ps, targets

(* Orders that arrive settle references and never unsettle any.            *)
THEOREM OrdersTheorem == Spec => OrdersOnlyClear
<1>1. ASSUME NEW o \in Orders,
             ~Has(register, At("purchase_orders", o, "number")),
             \A p \in Path \ {At("purchase_orders", o, "number")} : register'[p] = register[p]
      PROVE  Faulted(register', "INVOICE_PO_REF") \subseteq Faulted(register, "INVOICE_PO_REF")
  <2> DEFINE number == At("purchase_orders", o, "number")
  <2>1. number[2] = "purchase_orders"
    BY DEF At
  <2>2. /\ \A p \in Match(register', "invoices", "po_ref") :
              p \in Match(register, "invoices", "po_ref") /\ register'[p] = register[p]
        /\ \A q \in Match(register, "purchase_orders", "number") :
              q \in Match(register', "purchase_orders", "number") /\ register'[q] = register[q]
    BY <1>1, <2>1 DEF Match, Has
  <2> QED
    BY <2>2, ReferenceVerdict
<1>2. [\A o \in Orders :
         LET number == At("purchase_orders", o, "number")
         IN  /\ ~Has(register, number)
             /\ \A p \in Path \ {number} : register'[p] = register[p]
             => Faulted(register', "INVOICE_PO_REF") \subseteq Faulted(register, "INVOICE_PO_REF")]_vars
  BY <1>1
<1> QED
  BY <1>2, PTL DEF OrdersOnlyClear
============================================================================
