----------------------------- MODULE GateProofs -----------------------------
(***************************************************************************)
(* Theorems about module Gate, for every number of runs, reviewers, paths, *)
(* values and documents, and without the bounds the runs of TLC need to    *)
(* stop (they occur in guards only).                                       *)
(***************************************************************************)
EXTENDS Gate, SequenceTheorems, TLAPS

----------------------------------------------------------------------------
(* Type correctness.                                                       *)

(* What reconciliation proposes are keys of items (register/reconcile.py). *)
LEMMA ReconcileType ==
  ASSUME NEW incoming \in Extractions, NEW seen \in [Paths -> FieldRow]
  PROVE  Reconcile(incoming, seen) \subseteq Key
<1>1. \A c \in incoming : /\ c.path \in Paths
                          /\ c.value \in Values
                          /\ Cited(c, incoming) \subseteq Quotes
                          /\ seen[c.path].value \in MaybeValue
  BY ExtractionsAssumption DEF Cited, FieldRow
<1>2. \A c \in incoming :
        DisputeKey(c.path, {d.value : d \in {e \in incoming : e.path = c.path}}) \in Key
  BY <1>1 DEF DisputeKey, Key, MaybeValue
<1>3. \A c \in incoming : UpdateKey(c.path, c.value, Cited(c, incoming)) \in Key
  BY <1>1 DEF UpdateKey, Key, MaybeValue
<1>4. \A c \in incoming :
        ContradictionKey(c.path, seen[c.path].value, c.value) \in Key
  BY <1>1 DEF ContradictionKey, Key, MaybeValue
<1> QED
  BY <1>2, <1>3, <1>4 DEF Reconcile

(* The row an item makes of a field is a row, and the register as a        *)
(* transaction sees it is a register.                                      *)
LEMMA TransactionType ==
  ASSUME TypeOK, NEW v \in Reviewers
  PROVE  /\ TxField(v) \in [Paths -> FieldRow]
         /\ TxLedger(v) \in Seq(Entry)
         /\ \A k \in Key : Revised(v, k) \in FieldRow /\ Past(v, k) \in MaybeValue
<1>1. req[v] \in Request /\ field \in [Paths -> FieldRow] /\ ledger \in Seq(Entry)
  BY DEF TypeOK
<1>2. TxField(v) \in [Paths -> FieldRow]
  BY <1>1 DEF TxField, Request
<1>3. TxLedger(v) \in Seq(Entry)
  BY <1>1 DEF TxLedger, Request
<1>4. \A k \in Key : Revised(v, k) \in FieldRow /\ Past(v, k) \in MaybeValue
  BY <1>2 DEF Key, Revised, Past, FieldRow
<1> QED
  BY <1>2, <1>3, <1>4

(* The null request is a request.                                          *)
LEMMA NoRequestType == NoRequest \in Request
  BY DEF NoRequest, Request

(* Applying an item leaves a request a request.                            *)
LEMMA AppliedType ==
  ASSUME TypeOK, NEW v \in Reviewers, NEW t \in req[v].todo
  PROVE  /\ Applied(v, t) \in Request
         /\ NewEntry(v, t) \in Entry
         /\ t.item \in Key
         /\ t.item.path \in Paths
<1>1. req[v] \in Request
  BY DEF TypeOK
<1>2. t \in [item : Key, by : Reviewers \cup {Nobody}]
  BY <1>1 DEF Request
<1>3. t.item \in Key /\ t.item.path \in Paths /\ t.item.after \in MaybeValue
  BY <1>2 DEF Key
<1>4. Revised(v, t.item) \in FieldRow /\ Past(v, t.item) \in MaybeValue
  BY <1>3, TransactionType
<1>5. NewEntry(v, t) \in Entry
  BY <1>2, <1>3, <1>4 DEF NewEntry, Entry
<1>6. Applied(v, t) \in Request
  <2> DEFINE written == [req[v].written EXCEPT ![t.item.path] = Revised(v, t.item)]
             entries == Append(req[v].entries, NewEntry(v, t))
  <2>1. written \in [Paths -> FieldRow \cup {NoValue}]
    BY <1>1, <1>4 DEF Request
  <2>2. entries \in Seq(Entry)
    BY <1>1, <1>5 DEF Request
  <2>3. req[v].todo \ {t} \in SUBSET [item : Key, by : Reviewers \cup {Nobody}]
    BY <1>1 DEF Request
  <2>4. req[v].run \in RunIds \cup {NoRun} /\ req[v].expected \in Nat
    BY <1>1 DEF Request
  <2> QED
    BY <2>1, <2>2, <2>3, <2>4 DEF Applied, Request
<1> QED
  BY <1>3, <1>5, <1>6

(* What the null request holds.                                            *)
LEMMA NoRequestFields ==
  /\ NoRequest.op = "none" /\ NoRequest.todo = {} /\ NoRequest.entries = << >>
  /\ NoRequest.written = [p \in Paths |-> NoValue]
  BY DEF NoRequest

(* The initial rows and requests have their shapes.                        *)
LEMMA TypeInit == Init => TypeOK
<1> SUFFICES ASSUME Init PROVE TypeOK
  OBVIOUS
<1>1. NoField \in FieldRow
  BY DEF NoField, FieldRow, MaybeValue
<1>2. item = << >> /\ DOMAIN item = {}
  BY DEF Init
<1> QED
  BY <1>1, <1>2, NoRequestType DEF Init, TypeOK, View

(* Every handler keeps every row and request in shape (models.py).         *)
LEMMA TypeStep == TypeOK /\ [Next]_vars => TypeOK'
<1> SUFFICES ASSUME TypeOK, [Next]_vars PROVE TypeOK'
  OBVIOUS
<1> USE DEF TypeOK, runVars, registerVars, deskVars
<1>1. ASSUME NEW r \in RunIds, Claim(r) PROVE TypeOK'
  BY <1>1 DEF Claim
<1>2. ASSUME NEW r \in RunIds, ReconcileStage(r) PROVE TypeOK'
  <2>1. PICK incoming \in Extractions :
          proposed' = [proposed EXCEPT ![r] = Reconcile(incoming, field)]
    BY <1>2 DEF ReconcileStage
  <2>2. Reconcile(incoming, field) \subseteq Key
    BY ReconcileType
  <2> QED
    BY <1>2, <2>1, <2>2 DEF ReconcileStage
<1>3. ASSUME NEW r \in RunIds, GateStage(r) PROVE TypeOK'
  <2>1. item' = Insert(r) /\ proposed[r] \subseteq Key
    BY <1>3 DEF GateStage
  <2>2. NewItem(r) \in ItemRow
    BY DEF NewItem, ItemRow
  <2>3. DOMAIN item' \subseteq Key /\ item' \in [DOMAIN item' -> ItemRow]
    BY <2>1, <2>2 DEF Insert
  <2> QED
    BY <1>3, <2>3 DEF GateStage
<1>4. ASSUME NEW r \in RunIds, FinishRun(r) \/ FailRun(r) \/ Killed(r) PROVE TypeOK'
  BY <1>4 DEF FinishRun, FailRun, Killed
<1>5. ASSUME NEW v \in Reviewers, ListFirst(v) PROVE TypeOK'
  <2>1. [NoRequest EXCEPT !.op = "list", !.expected = version] \in Request
    BY NoRequestType DEF Request
  <2> QED
    BY <1>5, <2>1 DEF ListFirst
<1>6. ASSUME NEW v \in Reviewers, ListSecond(v) PROVE TypeOK'
  <2>1. req[v].expected \in Nat
    BY DEF Request
  <2> QED
    BY <1>6, <2>1, NoRequestType DEF ListSecond, View
<1>7. ASSUME NEW v \in Reviewers, BeginDecide(v) PROVE TypeOK'
  <2>1. PICK keys \in SUBSET Pending, approve \in BOOLEAN :
          req' = [req EXCEPT ![v] = [NoRequest EXCEPT !.op = "decide",
                                                      !.keys = keys,
                                                      !.approve = approve]]
    BY <1>7 DEF BeginDecide
  <2>2. [NoRequest EXCEPT !.op = "decide", !.keys = keys, !.approve = approve]
          \in Request
    BY NoRequestType DEF Request, Pending
  <2> QED
    BY <1>7, <2>1, <2>2 DEF BeginDecide
<1>8. ASSUME NEW v \in Reviewers, FinishDecide(v) PROVE TypeOK'
  <2>1. req[v].keys \subseteq Key
    BY DEF Request
  <2>2. \A k \in DOMAIN item :
          [item[k] EXCEPT !.status = IF req[v].approve THEN "approved" ELSE "rejected",
                          !.by = v] \in ItemRow
    BY DEF ItemRow
  <2>3. DOMAIN item' = DOMAIN item
    BY <1>8 DEF FinishDecide
  <2>4. \A k \in DOMAIN item : item'[k] \in ItemRow
    BY <1>8, <2>2 DEF FinishDecide
  <2>5. item' \in [DOMAIN item' -> ItemRow]
    BY <1>8, <2>3, <2>4 DEF FinishDecide
  <2>6. told' \subseteq [by : Reviewers, item : Key]
    <3>1. told' \subseteq told \cup {[by |-> v, item |-> k] : k \in req[v].keys}
      BY <1>8 DEF FinishDecide
    <3> QED
      BY <2>1, <3>1
  <2>7. req' \in [Reviewers -> Request]
    BY <1>8, NoRequestType DEF FinishDecide
  <2> QED
    BY <1>8, <2>3, <2>5, <2>6, <2>7 DEF FinishDecide
<1>9. ASSUME NEW v \in Reviewers, AskCommit(v) PROVE TypeOK'
  <2>1. \A r \in RunIds :
          [NoRequest EXCEPT !.op = "wait", !.run = r, !.expected = view[v].version]
            \in Request
    BY NoRequestType DEF Request, View
  <2> QED
    BY <1>9, <2>1 DEF AskCommit
<1>10. ASSUME NEW v \in Reviewers, BeginCommit(v) PROVE TypeOK'
  <2>1. Selected(req[v].run) \subseteq [item : Key, by : Reviewers \cup {Nobody}]
    BY DEF Selected, ItemRow
  <2>2. [req[v] EXCEPT !.op = "commit", !.todo = Selected(req[v].run)] \in Request
    BY <2>1 DEF Request
  <2> QED
    BY <1>10, <2>2 DEF BeginCommit
<1>11. ASSUME NEW v \in Reviewers, RefuseCommit(v) \/ DropRequest(v) PROVE TypeOK'
  BY <1>11, NoRequestType DEF RefuseCommit, DropRequest
<1>12. ASSUME NEW v \in Reviewers, ApplyItem(v) PROVE TypeOK'
  <2>1. PICK t \in req[v].todo : req' = [req EXCEPT ![v] = Applied(v, t)]
    BY <1>12 DEF ApplyItem
  <2>2. Applied(v, t) \in Request
    BY AppliedType
  <2> QED
    BY <1>12, <2>1, <2>2 DEF ApplyItem
<1>13. ASSUME NEW v \in Reviewers, FinishCommit(v) PROVE TypeOK'
  <2>1. field' \in [Paths -> FieldRow] /\ ledger' \in Seq(Entry)
    BY <1>13, TransactionType DEF FinishCommit
  <2>2. version' \in Nat /\ req' \in [Reviewers -> Request]
    BY <1>13, NoRequestType DEF FinishCommit
  <2>3. status' \in [RunIds ->
          {"queued", "running", "awaiting_approval", "committed", "failed"}]
    BY <1>13 DEF FinishCommit
  <2> QED
    BY <1>13, <2>1, <2>2, <2>3 DEF FinishCommit
<1>14. CASE UNCHANGED vars
  BY <1>14 DEF vars
<1> HIDE DEF TypeOK, runVars, registerVars, deskVars
<1>15. ASSUME NEW r \in RunIds, RunStep(r) PROVE TypeOK'
  BY <1>1, <1>2, <1>3, <1>4, <1>15, Zenon DEF RunStep
<1>16. ASSUME NEW v \in Reviewers, DeskStep(v) PROVE TypeOK'
  BY <1>5, <1>6, <1>7, <1>8, <1>9, <1>10, <1>11, <1>12, <1>13, <1>16, Zenon
     DEF DeskStep
<1>17. CASE Next
  BY <1>15, <1>16, <1>17 DEF Next
<1> QED
  BY <1>14, <1>17

(* Every reachable state has the shape of the rows of models.py.           *)
THEOREM TypeCorrect == Spec => []TypeOK
  BY TypeInit, TypeStep, PTL DEF Spec
----------------------------------------------------------------------------
(* The commit's transaction.                                               *)

(* At most one commit holds the pile's row.                                *)
OneCommit ==
  \A u, v \in Reviewers : req[u].op = "commit" /\ req[v].op = "commit" => u = v

(* Nothing is written before the row is held.                              *)
CleanUntilLocked ==
  \A v \in Reviewers : req[v].op # "commit" =>
    req[v].written = [p \in Paths |-> NoValue] /\ req[v].entries = << >>

(* The register and ledger an open transaction sees account for each other *)
(* although the committed ones have not moved yet.                         *)
OpenAccounts ==
  \A v \in Reviewers : req[v].op = "commit" => Accounts(TxLedger(v), TxField(v))

(* The strengthening of LedgerAccountsForRegister that every step keeps.   *)
Accounting ==
  TypeOK /\ OneCommit /\ CleanUntilLocked /\ OpenAccounts /\ LedgerAccountsForRegister

(* Appending to the end of a concatenation.                                *)
LEMMA AppendConcat ==
  ASSUME NEW S, NEW s \in Seq(S), NEW t \in Seq(S), NEW e \in S
  PROVE  Append(s \o t, e) = s \o Append(t, e)
<1>1. <<e>> \in Seq(S) /\ s \o t \in Seq(S)
  BY ConcatProperties
<1>2. Append(s \o t, e) = (s \o t) \o <<e>>
  BY <1>1, AppendIsConcat
<1>3. Append(t, e) = t \o <<e>>
  BY AppendIsConcat
<1>4. (s \o t) \o <<e>> = s \o (t \o <<e>>)
  BY <1>1, ConcatAssociative
<1> QED
  BY <1>2, <1>3, <1>4

(* A ledger that accounts for a register still does when an entry is added *)
(* whose past is what the register stated and whose outcome is what it now *)
(* states: the one fact about Accounts the rest needs.                     *)
LEMMA AccountsExtend ==
  ASSUME NEW l \in Seq(Entry), NEW f \in [Paths -> FieldRow], Accounts(l, f),
         NEW e \in Entry, NEW row \in FieldRow,
         e.before = f[e.path].value, row.value = e.after
  PROVE  Accounts(Append(l, e), [f EXCEPT ![e.path] = row])
<1> DEFINE n == Len(l) + 1
           m == Append(l, e)
           g == [f EXCEPT ![e.path] = row]
<1>1. /\ n \in Nat \ {0} /\ DOMAIN l = 1 .. n - 1 /\ DOMAIN m = 1 .. n
      /\ m[n] = e /\ \A i \in 1 .. n - 1 : m[i] = l[i]
  OBVIOUS
<1>2. /\ e.path \in Paths /\ g[e.path].value = e.after
      /\ \A p \in Paths \ {e.path} : g[p] = f[p]
  BY DEF Entry
<1> HIDE DEF n, m, g
<1>3. ASSUME NEW i \in DOMAIN m
      PROVE  \/ /\ m[i].before = NoValue
                /\ \A j \in 1 .. i - 1 : m[j].path # m[i].path
             \/ \E j \in 1 .. i - 1 :
                  /\ m[j].path = m[i].path
                  /\ m[j].after = m[i].before
                  /\ \A k \in j + 1 .. i - 1 : m[k].path # m[i].path
  <2>1. CASE i < n
    <3>1. i \in DOMAIN l /\ m[i] = l[i] /\ \A j \in 1 .. i - 1 : m[j] = l[j]
      BY <1>1, <2>1
    <3>2. CASE l[i].before = NoValue /\ \A j \in 1 .. i - 1 : l[j].path # l[i].path
      BY <3>1, <3>2
    <3>3. ASSUME NEW j \in 1 .. i - 1, l[j].path = l[i].path, l[j].after = l[i].before,
                 \A k \in j + 1 .. i - 1 : l[k].path # l[i].path
          PROVE  \E h \in 1 .. i - 1 :
                    /\ m[h].path = m[i].path
                    /\ m[h].after = m[i].before
                    /\ \A k \in h + 1 .. i - 1 : m[k].path # m[i].path
      <4>1. \A k \in j + 1 .. i - 1 : m[k].path = l[k].path
        BY <1>1, <3>1
      <4>2. m[j].path = m[i].path /\ m[j].after = m[i].before
        BY <3>1, <3>3
      <4> QED
        BY <3>1, <3>3, <4>1, <4>2
    <3> QED
      BY <3>1, <3>2, <3>3 DEF Accounts
  <2>2. CASE i = n
    <3>1. CASE f[e.path].value = NoValue /\ SilentAfter(l, 0, e.path)
      BY <1>1, <2>2, <3>1 DEF SilentAfter
    <3>2. ASSUME NEW j \in DOMAIN l, l[j].path = e.path,
                 l[j].after = f[e.path].value, SilentAfter(l, j, e.path)
          PROVE  \E h \in 1 .. i - 1 :
                    /\ m[h].path = m[i].path
                    /\ m[h].after = m[i].before
                    /\ \A k \in h + 1 .. i - 1 : m[k].path # m[i].path
      <4>1. j \in 1 .. i - 1 /\ m[j].path = m[i].path /\ m[j].after = m[i].before
        BY <1>1, <2>2, <3>2
      <4>2. \A k \in j + 1 .. i - 1 : m[k].path # m[i].path
        BY <1>1, <2>2, <3>2 DEF SilentAfter
      <4> QED
        BY <4>1, <4>2
    <3> QED
      BY <1>2, <3>1, <3>2 DEF Accounts
  <2> QED
    BY <1>1, <2>1, <2>2
<1>4. ASSUME NEW p \in Paths
      PROVE  \/ g[p].value = NoValue /\ SilentAfter(m, 0, p)
             \/ \E i \in DOMAIN m :
                  m[i].path = p /\ m[i].after = g[p].value /\ SilentAfter(m, i, p)
  <2>1. CASE p = e.path
    <3>1. m[n].path = p /\ m[n].after = g[p].value /\ SilentAfter(m, n, p)
      BY <1>1, <1>2, <2>1 DEF SilentAfter
    <3> QED
      BY <1>1, <3>1
  <2>2. CASE p # e.path
    <3>1. g[p] = f[p]
      BY <1>2, <2>2
    <3>2. \A i \in 0 .. n - 1 : SilentAfter(l, i, p) => SilentAfter(m, i, p)
      BY <1>1, <2>2 DEF SilentAfter
    <3>3. CASE f[p].value = NoValue /\ SilentAfter(l, 0, p)
      BY <1>1, <3>1, <3>2, <3>3
    <3>4. ASSUME NEW i \in DOMAIN l, l[i].path = p, l[i].after = f[p].value,
                 SilentAfter(l, i, p)
          PROVE  i \in DOMAIN m /\ m[i].path = p /\ m[i].after = g[p].value
                 /\ SilentAfter(m, i, p)
      BY <1>1, <3>1, <3>2, <3>4
    <3> QED
      BY <3>3, <3>4 DEF Accounts
  <2> QED
    BY <2>1, <2>2
<1> QED
  BY <1>3, <1>4 DEF Accounts, m, g

(* What a run does leaves the register, the ledger and the desk alone.     *)
LEMMA RunStepFrame ==
  ASSUME NEW r \in RunIds, RunStep(r)
  PROVE  UNCHANGED <<version, field, ledger, view, req, told>>
BY DEF RunStep, Claim, ReconcileStage, GateStage, FinishRun, FailRun, Killed,
       registerVars, deskVars, runVars

(* Requests other than an open commit neither read nor write registers: a  *)
(* desk step is one of these or one of the commit's three.                 *)
QuietStep(v) ==
  /\ UNCHANGED <<version, field, ledger>>
  /\ \E q \in Request :
       /\ req' = [req EXCEPT ![v] = q]
       /\ q.op # "commit"
       /\ q.todo = {}
       /\ q.written = [p \in Paths |-> NoValue]
       /\ q.entries = << >>

(* What a step of one client leaves alone, action by action.               *)
LEMMA DeskStepCases ==
  ASSUME TypeOK, NEW v \in Reviewers, DeskStep(v)
  PROVE  QuietStep(v) \/ BeginCommit(v) \/ ApplyItem(v) \/ FinishCommit(v)
<1> USE NoRequestType DEF registerVars, runVars
<1>1. CASE ListFirst(v)
  <2> DEFINE q == [NoRequest EXCEPT !.op = "list", !.expected = version]
  <2>1. q \in Request /\ q.op # "commit" /\ q.todo = {}
        /\ q.written = [p \in Paths |-> NoValue] /\ q.entries = << >>
    BY DEF Request, NoRequest, TypeOK
  <2> QED
    BY <1>1, <2>1 DEF ListFirst, QuietStep
<1>2. CASE BeginDecide(v)
  <2>1. PICK keys \in SUBSET Pending, approve \in BOOLEAN :
          req' = [req EXCEPT ![v] = [NoRequest EXCEPT !.op = "decide",
                                                      !.keys = keys,
                                                      !.approve = approve]]
    BY <1>2 DEF BeginDecide
  <2> DEFINE q == [NoRequest EXCEPT !.op = "decide", !.keys = keys,
                                    !.approve = approve]
  <2>2. q \in Request /\ q.op # "commit" /\ q.todo = {}
        /\ q.written = [p \in Paths |-> NoValue] /\ q.entries = << >>
    BY DEF Request, NoRequest, TypeOK, Pending
  <2> QED
    BY <1>2, <2>1, <2>2 DEF BeginDecide, QuietStep
<1>3. CASE AskCommit(v)
  <2>1. PICK r \in RunIds :
          req' = [req EXCEPT ![v] = [NoRequest EXCEPT !.op = "wait", !.run = r,
                                                      !.expected = view[v].version]]
    BY <1>3 DEF AskCommit
  <2> DEFINE q == [NoRequest EXCEPT !.op = "wait", !.run = r,
                                    !.expected = view[v].version]
  <2>2. q \in Request /\ q.op # "commit" /\ q.todo = {}
        /\ q.written = [p \in Paths |-> NoValue] /\ q.entries = << >>
    BY DEF Request, NoRequest, TypeOK, View
  <2> QED
    BY <1>3, <2>1, <2>2 DEF AskCommit, QuietStep
<1>4. CASE ListSecond(v) \/ FinishDecide(v) \/ RefuseCommit(v) \/ DropRequest(v)
  <2>1. NoRequest.op # "commit" /\ NoRequest.todo = {}
        /\ NoRequest.written = [p \in Paths |-> NoValue] /\ NoRequest.entries = << >>
    BY DEF NoRequest
  <2> QED
    BY <1>4, <2>1 DEF ListSecond, FinishDecide, RefuseCommit, DropRequest, QuietStep
<1> QED
  BY <1>1, <1>2, <1>3, <1>4 DEF DeskStep

(* An empty ledger accounts for an empty register.                         *)
LEMMA AccountingInit == Init => Accounting
<1> SUFFICES ASSUME Init PROVE Accounting
  OBVIOUS
<1>1. ledger = << >> /\ \A p \in Paths : field[p].value = NoValue
  BY DEF Init, NoField
<1>2. LedgerAccountsForRegister
  BY <1>1 DEF LedgerAccountsForRegister, Accounts, SilentAfter
<1>3. \A v \in Reviewers : req[v] = NoRequest
  BY DEF Init
<1> QED
  BY <1>2, <1>3, TypeInit DEF Accounting, OneCommit, CleanUntilLocked, OpenAccounts,
                             NoRequest

(* A step that leaves the registers alone and quietly rewrites one request *)
(* keeps the books.                                                        *)
LEMMA AccountingQuiet ==
  ASSUME Accounting, TypeOK', NEW v \in Reviewers, QuietStep(v)
  PROVE  Accounting'
<1>1. PICK q \in Request :
        /\ req' = [req EXCEPT ![v] = q]
        /\ q.op # "commit"
        /\ q.written = [p \in Paths |-> NoValue]
        /\ q.entries = << >>
  BY DEF QuietStep
<1>2. req'[v] = q /\ \A u \in Reviewers \ {v} : req'[u] = req[u]
  BY <1>1 DEF Accounting, TypeOK
<1>3. field' = field /\ ledger' = ledger
  BY DEF QuietStep
<1>4. OneCommit' /\ CleanUntilLocked'
  BY <1>1, <1>2 DEF Accounting, OneCommit, CleanUntilLocked
<1>5. OpenAccounts'
  BY <1>1, <1>2, <1>3 DEF Accounting, OpenAccounts, TxLedger, TxField
<1>6. LedgerAccountsForRegister'
  BY <1>3 DEF Accounting, LedgerAccountsForRegister
<1> QED
  BY <1>4, <1>5, <1>6 DEF Accounting

(* Only a commit moves the register, and it moves the ledger with it       *)
(* (service.py commit_approved).                                           *)
LEMMA AccountingStep == Accounting /\ [Next]_vars => Accounting'
<1> SUFFICES ASSUME Accounting, [Next]_vars PROVE Accounting'
  OBVIOUS
<1>1. TypeOK /\ TypeOK'
  BY TypeStep DEF Accounting
<1>2. ASSUME UNCHANGED <<version, field, ledger, view, req, told>> PROVE Accounting'
  BY <1>1, <1>2 DEF Accounting, OneCommit, CleanUntilLocked, OpenAccounts, TxLedger,
                    TxField, LedgerAccountsForRegister
<1>3. ASSUME NEW v \in Reviewers, BeginCommit(v) PROVE Accounting'
  <2>1. /\ req[v].op = "wait" /\ \A u \in Reviewers : req[u].op # "commit"
        /\ UNCHANGED <<field, ledger>>
    BY <1>3 DEF BeginCommit, RowLockFree, registerVars
  <2>2. /\ req'[v].op = "commit"
        /\ req'[v].written = req[v].written /\ req'[v].entries = req[v].entries
        /\ \A u \in Reviewers \ {v} : req'[u] = req[u]
    BY <1>1, <1>3 DEF BeginCommit, TypeOK, Request
  <2>3. OneCommit' /\ CleanUntilLocked'
    BY <2>1, <2>2 DEF Accounting, OneCommit, CleanUntilLocked
  <2>4. req'[v].written = [p \in Paths |-> NoValue] /\ req'[v].entries = << >>
    BY <2>1, <2>2 DEF Accounting, CleanUntilLocked
  <2>5. TxField(v)' = field /\ TxLedger(v)' = ledger
    BY <1>1, <2>1, <2>4 DEF TxField, TxLedger, TypeOK
  <2>6. OpenAccounts'
    BY <2>1, <2>2, <2>5 DEF Accounting, OpenAccounts, LedgerAccountsForRegister
  <2> QED
    BY <1>1, <2>1, <2>3, <2>6 DEF Accounting, LedgerAccountsForRegister
<1>4. ASSUME NEW v \in Reviewers, ApplyItem(v) PROVE Accounting'
  <2>1. PICK t \in req[v].todo : req' = [req EXCEPT ![v] = Applied(v, t)]
    BY <1>4 DEF ApplyItem
  <2>2. req[v].op = "commit" /\ UNCHANGED <<field, ledger>>
    BY <1>4 DEF ApplyItem, registerVars
  <2>3. req'[v] = Applied(v, t) /\ \A u \in Reviewers \ {v} : req'[u] = req[u]
    BY <1>1, <2>1 DEF TypeOK
  <2>4. OneCommit' /\ CleanUntilLocked'
    BY <2>2, <2>3 DEF Accounting, OneCommit, CleanUntilLocked, Applied
  <2>5. /\ NewEntry(v, t) \in Entry /\ t.item \in Key /\ t.item.path \in Paths
        /\ TxLedger(v) \in Seq(Entry) /\ TxField(v) \in [Paths -> FieldRow]
        /\ Revised(v, t.item) \in FieldRow
    BY <1>1, AppliedType, TransactionType
  <2>6. Accounts(TxLedger(v), TxField(v))
    BY <2>2 DEF Accounting, OpenAccounts
  <2>7. /\ NewEntry(v, t).path = t.item.path
        /\ NewEntry(v, t).before = TxField(v)[t.item.path].value
        /\ Revised(v, t.item).value = NewEntry(v, t).after
    BY DEF NewEntry, Past, Revised
  <2>8. Accounts(Append(TxLedger(v), NewEntry(v, t)),
                 [TxField(v) EXCEPT ![t.item.path] = Revised(v, t.item)])
    BY <2>5, <2>6, <2>7, AccountsExtend
  <2>9. TxLedger(v)' = Append(TxLedger(v), NewEntry(v, t))
    <3>1. req[v].entries \in Seq(Entry) /\ ledger \in Seq(Entry)
      BY <1>1 DEF TypeOK, Request
    <3>2. req'[v].entries = Append(req[v].entries, NewEntry(v, t))
      BY <2>3 DEF Applied
    <3>3. TxLedger(v)' = ledger \o Append(req[v].entries, NewEntry(v, t))
      BY <2>2, <3>2 DEF TxLedger
    <3> QED
      BY <2>5, <3>1, <3>3, AppendConcat DEF TxLedger
  <2>10. TxField(v)' = [TxField(v) EXCEPT ![t.item.path] = Revised(v, t.item)]
    <3>1. req[v].written \in [Paths -> FieldRow \cup {NoValue}]
      BY <1>1 DEF TypeOK, Request
    <3>2. req'[v].written = [req[v].written EXCEPT ![t.item.path] = Revised(v, t.item)]
      BY <2>3 DEF Applied
    <3>3. Revised(v, t.item) # NoValue
      BY <2>5, FieldRowAssumption
    <3>4. \A p \in Paths :
            TxField(v)'[p] = IF p = t.item.path THEN Revised(v, t.item) ELSE TxField(v)[p]
      BY <2>2, <2>5, <3>1, <3>2, <3>3 DEF TxField
    <3>5. TxField(v)' = [p \in Paths |-> TxField(v)'[p]]
      BY DEF TxField
    <3> QED
      BY <2>5, <3>4, <3>5
  <2>11. OpenAccounts'
    <3>1. \A u \in Reviewers : req'[u].op = "commit" => u = v
      BY <2>2, <2>3 DEF Accounting, OneCommit
    <3> QED
      BY <2>8, <2>9, <2>10, <3>1 DEF OpenAccounts
  <2> QED
    BY <1>1, <2>2, <2>4, <2>11 DEF Accounting, LedgerAccountsForRegister
<1>5. ASSUME NEW v \in Reviewers, FinishCommit(v) PROVE Accounting'
  <2>1. req'[v] = NoRequest /\ \A u \in Reviewers \ {v} : req'[u] = req[u]
    BY <1>1, <1>5 DEF FinishCommit, TypeOK
  <2>2. \A u \in Reviewers : req'[u].op # "commit"
    BY <1>5, <2>1 DEF Accounting, OneCommit, FinishCommit, NoRequest
  <2>3. OneCommit' /\ CleanUntilLocked' /\ OpenAccounts'
    BY <2>1, <2>2 DEF Accounting, OneCommit, CleanUntilLocked, OpenAccounts, NoRequest
  <2>4. LedgerAccountsForRegister'
    BY <1>5 DEF Accounting, OpenAccounts, FinishCommit, LedgerAccountsForRegister
  <2> QED
    BY <1>1, <2>3, <2>4 DEF Accounting
<1>6. ASSUME NEW r \in RunIds, RunStep(r) PROVE Accounting'
  BY <1>2, <1>6, RunStepFrame
<1>7. ASSUME NEW v \in Reviewers, DeskStep(v) PROVE Accounting'
  BY <1>1, <1>3, <1>4, <1>5, <1>7, DeskStepCases, AccountingQuiet
<1>8. CASE UNCHANGED vars
  BY <1>2, <1>8 DEF vars, registerVars, deskVars
<1> QED
  BY <1>6, <1>7, <1>8 DEF Next

(* The ledger replays to the register in every reachable state, for any    *)
(* number of runs, reviewers and paths.                                    *)
THEOREM LedgerAccounts == Spec => []LedgerAccountsForRegister
<1>1. Accounting => LedgerAccountsForRegister
  BY DEF Accounting
<1> QED
  BY <1>1, AccountingInit, AccountingStep, PTL DEF Spec
----------------------------------------------------------------------------
(* Approvals.                                                              *)

Approval(v, k) == [by |-> v, item |-> k]

(* An approved row, an item a commit has loaded and an entry it has        *)
(* written, like an entry of the ledger, name someone who was told so.     *)
Approvals ==
  /\ TypeOK
  /\ \A k \in DOMAIN item : item[k].status = "approved" => Approval(item[k].by, k) \in told
  /\ \A v \in Reviewers : \A t \in req[v].todo : Approval(t.by, t.item) \in told
  /\ \A v \in Reviewers : \A i \in DOMAIN req[v].entries :
       Approval(req[v].entries[i].by, req[v].entries[i].item) \in told
  /\ EntriesWereApproved

(* Before any decision nothing is approved.                                *)
LEMMA ApprovalsInit == Init => Approvals
<1> SUFFICES ASSUME Init PROVE Approvals
  OBVIOUS
<1>1. item = << >> /\ DOMAIN item = {} /\ ledger = << >>
  BY DEF Init
<1>2. \A v \in Reviewers : req[v].todo = {} /\ req[v].entries = << >>
  BY DEF Init, NoRequest
<1> QED
  BY <1>1, <1>2, TypeInit DEF Approvals, EntriesWereApproved

(* An approval is told before a commit can load it, and no step forgets it *)
(* (service.py decide_items).                                              *)
LEMMA ApprovalsStep == Approvals /\ [Next]_vars => Approvals'
<1> SUFFICES ASSUME Approvals, [Next]_vars PROVE Approvals'
  OBVIOUS
<1>1. TypeOK /\ TypeOK'
  BY TypeStep DEF Approvals
<1>0. req \in [Reviewers -> Request]
  BY <1>1 DEF TypeOK
<1>2. ASSUME UNCHANGED <<item, ledger, req, told>> PROVE Approvals'
  BY <1>1, <1>2 DEF Approvals, Approval, EntriesWereApproved
<1>3. ASSUME NEW r \in RunIds, RunStep(r) PROVE Approvals'
  <2>1. UNCHANGED <<ledger, req, told>>
    BY <1>3, RunStepFrame
  <2>2. CASE UNCHANGED item
    BY <1>2, <2>1, <2>2
  <2>3. CASE GateStage(r)
    <3>1. item' = Insert(r)
      BY <2>3 DEF GateStage
    <3>2. \A k \in DOMAIN item' :
            item'[k].status = "approved" => k \in DOMAIN item /\ item'[k] = item[k]
      BY <3>1 DEF Insert, NewItem
    <3>3. \A k \in DOMAIN item' : item'[k].status = "approved" => Approval(item'[k].by, k) \in told'
      BY <2>1, <3>2 DEF Approvals, Approval
    <3> QED
      BY <1>1, <2>1, <3>3 DEF Approvals, Approval, EntriesWereApproved
  <2> QED
    BY <1>3, <2>2, <2>3 DEF RunStep, Claim, ReconcileStage, FinishRun, FailRun, Killed
<1>4. ASSUME NEW v \in Reviewers, FinishDecide(v) PROVE Approvals'
  <2>1. req' = [req EXCEPT ![v] = NoRequest] /\ UNCHANGED ledger /\ told \subseteq told'
    BY <1>4 DEF FinishDecide, registerVars
  <2>2. ASSUME NEW k \in DOMAIN item', item'[k].status = "approved"
        PROVE  Approval(item'[k].by, k) \in told'
    <3>1. DOMAIN item' = DOMAIN item
      BY <1>4 DEF FinishDecide
    <3>2. CASE k \notin req[v].keys
      <4>1. item'[k] = item[k]
        BY <1>4, <3>1, <3>2 DEF FinishDecide
      <4> QED
        BY <2>1, <2>2, <3>1, <4>1 DEF Approvals, Approval
    <3>3. CASE k \in req[v].keys
      <4>1. item[k] \in ItemRow
        BY <1>1, <3>1 DEF TypeOK
      <4>2. item'[k].by = v /\ req[v].approve
        BY <1>4, <2>2, <3>1, <3>3, <4>1 DEF FinishDecide, ItemRow
      <4>3. [by |-> v, item |-> k] \in told'
        BY <1>4, <3>3, <4>2 DEF FinishDecide
      <4> QED
        BY <4>2, <4>3 DEF Approval
    <3> QED
      BY <3>2, <3>3
  <2>3. \A u \in Reviewers : \/ req'[u] = req[u]
                             \/ req'[u].todo = {} /\ req'[u].entries = << >>
    <3>1. req'[v] = NoRequest /\ \A u \in Reviewers \ {v} : req'[u] = req[u]
      BY <1>0, <2>1
    <3> QED
      BY <3>1, NoRequestFields
  <2> QED
    BY <1>1, <2>1, <2>2, <2>3 DEF Approvals, Approval, EntriesWereApproved
<1>5. ASSUME NEW v \in Reviewers, DeskStep(v), ~FinishDecide(v)
      PROVE  UNCHANGED <<item, told>>
  BY <1>5 DEF DeskStep, ListFirst, ListSecond, BeginDecide, AskCommit, BeginCommit,
              RefuseCommit, ApplyItem, FinishCommit, DropRequest
<1>6. ASSUME NEW v \in Reviewers, QuietStep(v), UNCHANGED <<item, told>> PROVE Approvals'
  <2>1. \A u \in Reviewers : \/ req'[u] = req[u]
                             \/ req'[u].todo = {} /\ req'[u].entries = << >>
    <3>1. PICK q \in Request : req' = [req EXCEPT ![v] = q] /\ q.todo = {}
                                 /\ q.entries = << >>
      BY <1>6 DEF QuietStep
    <3>2. req'[v] = q /\ \A u \in Reviewers \ {v} : req'[u] = req[u]
      BY <1>0, <3>1
    <3> QED
      BY <3>1, <3>2
  <2>2. UNCHANGED ledger
    BY <1>6 DEF QuietStep
  <2> QED
    BY <1>1, <1>6, <2>1, <2>2 DEF Approvals, Approval, EntriesWereApproved
<1>7. ASSUME NEW v \in Reviewers, BeginCommit(v) PROVE Approvals'
  <2>1. UNCHANGED <<item, told, ledger>>
    BY <1>7 DEF BeginCommit, registerVars
  <2>2. /\ req'[v].todo = Selected(req[v].run) /\ req'[v].entries = req[v].entries
        /\ \A u \in Reviewers \ {v} : req'[u] = req[u]
    BY <1>1, <1>7 DEF BeginCommit, TypeOK, Request
  <2>3. \A t \in req'[v].todo : Approval(t.by, t.item) \in told'
    <3>1. ASSUME NEW t \in Selected(req[v].run) PROVE Approval(t.by, t.item) \in told
      <4>1. PICK k \in DOMAIN item : item[k].status = "approved"
                                     /\ t = [item |-> k, by |-> item[k].by]
        BY <3>1 DEF Selected
      <4> QED
        BY <4>1 DEF Approvals
    <3> QED
      BY <2>1, <2>2, <3>1
  <2> QED
    BY <1>1, <2>1, <2>2, <2>3 DEF Approvals, Approval, EntriesWereApproved
<1>8. ASSUME NEW v \in Reviewers, ApplyItem(v) PROVE Approvals'
  <2>1. PICK t \in req[v].todo : req' = [req EXCEPT ![v] = Applied(v, t)]
    BY <1>8 DEF ApplyItem
  <2>2. UNCHANGED <<item, told, ledger>>
    BY <1>8 DEF ApplyItem, registerVars
  <2>3. /\ req'[v].todo \subseteq req[v].todo
        /\ req'[v].entries = Append(req[v].entries, NewEntry(v, t))
        /\ \A u \in Reviewers \ {v} : req'[u] = req[u]
    BY <1>1, <2>1 DEF Applied, TypeOK
  <2>4. \A i \in DOMAIN req'[v].entries :
          Approval(req'[v].entries[i].by, req'[v].entries[i].item) \in told'
    <3>1. req[v].entries \in Seq(Entry)
      BY <1>1 DEF TypeOK, Request
    <3>2. NewEntry(v, t).by = t.by /\ NewEntry(v, t).item = t.item
      BY DEF NewEntry
    <3>3. ASSUME NEW i \in DOMAIN req'[v].entries
          PROVE  \/ i \in DOMAIN req[v].entries /\ req'[v].entries[i] = req[v].entries[i]
                 \/ req'[v].entries[i] = NewEntry(v, t)
      BY <2>3, <3>1
    <3> QED
      BY <2>2, <3>2, <3>3 DEF Approvals, Approval
  <2> QED
    BY <1>1, <2>2, <2>3, <2>4 DEF Approvals, Approval, EntriesWereApproved
<1>9. ASSUME NEW v \in Reviewers, FinishCommit(v) PROVE Approvals'
  <2>1. ledger' = ledger \o req[v].entries /\ UNCHANGED <<item, told>>
    BY <1>9 DEF FinishCommit, TxLedger
  <2>2. \A u \in Reviewers : \/ req'[u] = req[u]
                             \/ req'[u].todo = {} /\ req'[u].entries = << >>
    <3>1. req'[v] = NoRequest /\ \A u \in Reviewers \ {v} : req'[u] = req[u]
      BY <1>0, <1>9 DEF FinishCommit
    <3> QED
      BY <3>1, NoRequestFields
  <2>3. ledger \in Seq(Entry) /\ req[v].entries \in Seq(Entry)
    BY <1>1 DEF TypeOK, Request
  <2>4. ASSUME NEW i \in DOMAIN ledger'
        PROVE  \/ i \in DOMAIN ledger /\ ledger'[i] = ledger[i]
               \/ \E j \in DOMAIN req[v].entries : ledger'[i] = req[v].entries[j]
    BY <2>1, <2>3, ConcatProperties
  <2>5. EntriesWereApproved'
    BY <2>1, <2>4 DEF Approvals, Approval, EntriesWereApproved
  <2> QED
    <3>1. UNCHANGED <<item, told>>
      BY <2>1
    <3> QED
      BY <1>1, <2>2, <2>5, <3>1 DEF Approvals
<1>10. ASSUME NEW v \in Reviewers, DeskStep(v) PROVE Approvals'
  BY <1>1, <1>4, <1>5, <1>6, <1>7, <1>8, <1>9, <1>10, DeskStepCases
<1>11. CASE UNCHANGED vars
  BY <1>2, <1>11 DEF vars, registerVars, deskVars
<1> QED
  BY <1>3, <1>10, <1>11 DEF Next

(* Nothing reaches the ledger without a confirmed approval of that item.   *)
THEOREM EntriesApproved == Spec => []EntriesWereApproved
<1>1. Approvals => EntriesWereApproved
  BY DEF Approvals
<1> QED
  BY <1>1, ApprovalsInit, ApprovalsStep, PTL DEF Spec
----------------------------------------------------------------------------
(* Decisions and listings.                                                 *)

(* No step reopens an item, drops it or hands it to another run.           *)
THEOREM DecisionsAreFinal == Spec => DecisionsStick
<1> DEFINE Sticks ==
      \A k \in DOMAIN item :
        /\ k \in DOMAIN item'
        /\ item'[k].run = item[k].run
        /\ item[k].status # "pending" => item'[k].status # "pending"
<1>1. ASSUME TypeOK, [Next]_vars PROVE [Sticks]_item
  <2>1. ASSUME NEW r \in RunIds, GateStage(r) PROVE Sticks
    BY <2>1 DEF GateStage, Insert
  <2>2. ASSUME NEW v \in Reviewers, FinishDecide(v) PROVE Sticks
    <3> SUFFICES ASSUME NEW k \in DOMAIN item
                 PROVE  /\ k \in DOMAIN item'
                        /\ item'[k].run = item[k].run
                        /\ item[k].status # "pending" => item'[k].status # "pending"
      OBVIOUS
    <3>1. item[k] \in ItemRow
      BY <1>1 DEF TypeOK
    <3>2. \/ item'[k] = item[k]
          \/ item'[k] = [item[k] EXCEPT !.status = IF req[v].approve THEN "approved"
                                                                    ELSE "rejected",
                                        !.by = v]
      BY <2>2 DEF FinishDecide
    <3>3. item'[k].run = item[k].run /\ (item'[k] = item[k] \/ item'[k].status # "pending")
      BY <3>1, <3>2 DEF ItemRow
    <3> QED
      BY <2>2, <3>3 DEF FinishDecide
  <2>3. ASSUME NEW r \in RunIds, RunStep(r), ~GateStage(r) PROVE UNCHANGED item
    BY <2>3 DEF RunStep, Claim, ReconcileStage, FinishRun, FailRun, Killed
  <2>4. ASSUME NEW v \in Reviewers, DeskStep(v), ~FinishDecide(v) PROVE UNCHANGED item
    BY <2>4 DEF DeskStep, ListFirst, ListSecond, BeginDecide, AskCommit, BeginCommit,
                RefuseCommit, ApplyItem, FinishCommit, DropRequest
  <2>5. CASE UNCHANGED vars
    BY <2>5 DEF vars
  <2> HIDE DEF Sticks
  <2> QED
    BY <1>1, <2>1, <2>2, <2>3, <2>4, <2>5 DEF Next
<1> QED
  BY <1>1, TypeCorrect, PTL DEF Spec, DecisionsStick

(* What a client believes current never runs ahead of what its items were  *)
(* read at, nor that of the register.                                      *)
Belief ==
  /\ TypeOK
  /\ \A v \in Reviewers :
       /\ view[v].version <= view[v].asOf /\ view[v].asOf <= version
       /\ req[v].op = "list" => req[v].expected <= version
       /\ req[v].op = "wait" => req[v].expected = view[v].version

(* An empty listing of an empty register is current.                       *)
LEMMA BeliefInit == Init => Belief
<1> SUFFICES ASSUME Init PROVE Belief
  OBVIOUS
<1>1. version = 0 /\ \A v \in Reviewers : view[v].version = 0 /\ view[v].asOf = 0
                                         /\ req[v].op = "none"
  BY NoRequestFields DEF Init
<1> QED
  BY <1>1, TypeInit DEF Belief

(* A surface that reads the version first (mcp/server.py) keeps it so.     *)
LEMMA BeliefStep ==
  ASSUME VersionFirst, Belief, [Next]_vars
  PROVE  Belief'
<1>1. TypeOK /\ TypeOK'
  BY TypeStep DEF Belief
<1>2. /\ req \in [Reviewers -> Request] /\ view \in [Reviewers -> View]
      /\ version \in Nat /\ version' \in Nat
  BY <1>1 DEF TypeOK
<1>3. \A v \in Reviewers : /\ view[v].version \in Nat /\ view[v].asOf \in Nat
                           /\ req[v].expected \in Nat
  BY <1>2 DEF View, Request
<1>4. ASSUME UNCHANGED <<version, view, req>> PROVE Belief'
  BY <1>1, <1>4 DEF Belief
<1>5. ASSUME NEW v \in Reviewers, NEW q \in Request, req' = [req EXCEPT ![v] = q],
             UNCHANGED <<version, view>>, q.op # "list", q.op # "wait"
      PROVE  Belief'
  <2>1. req'[v] = q /\ \A u \in Reviewers \ {v} : req'[u] = req[u]
    BY <1>2, <1>5
  <2> QED
    BY <1>1, <1>5, <2>1 DEF Belief
<1>6. ASSUME NEW v \in Reviewers, ListFirst(v) PROVE Belief'
  <2>1. /\ req'[v].op = "list" /\ req'[v].expected = version
        /\ \A u \in Reviewers \ {v} : req'[u] = req[u]
    BY <1>2, <1>6 DEF ListFirst, NoRequest
  <2>2. UNCHANGED <<version, view>>
    BY <1>6 DEF ListFirst, registerVars
  <2> QED
    BY <1>1, <1>2, <2>1, <2>2 DEF Belief
<1>7. ASSUME NEW v \in Reviewers, ListSecond(v) PROVE Belief'
  <2>1. /\ view'[v] = [version |-> req[v].expected, asOf |-> version]
        /\ req'[v].op = "none"
        /\ \A u \in Reviewers \ {v} : req'[u] = req[u] /\ view'[u] = view[u]
    BY <1>2, <1>7, NoRequestFields DEF ListSecond
  <2>2. version' = version /\ req[v].op = "list"
    BY <1>7 DEF ListSecond, registerVars
  <2> QED
    BY <1>1, <1>2, <2>1, <2>2 DEF Belief
<1>8. ASSUME NEW v \in Reviewers, AskCommit(v) PROVE Belief'
  <2>1. /\ req'[v].op = "wait" /\ req'[v].expected = view[v].version
        /\ \A u \in Reviewers \ {v} : req'[u] = req[u]
    BY <1>2, <1>8 DEF AskCommit, NoRequest
  <2>2. UNCHANGED <<version, view>>
    BY <1>8 DEF AskCommit, registerVars
  <2> QED
    BY <1>1, <2>1, <2>2 DEF Belief
<1>9. ASSUME NEW v \in Reviewers, BeginDecide(v) PROVE Belief'
  <2>1. /\ req'[v].op = "decide" /\ \A u \in Reviewers \ {v} : req'[u] = req[u]
    BY <1>2, <1>9 DEF BeginDecide, NoRequest
  <2>2. UNCHANGED <<version, view>>
    BY <1>9 DEF BeginDecide, registerVars
  <2> QED
    BY <1>1, <2>1, <2>2 DEF Belief
<1>10. ASSUME NEW v \in Reviewers, FinishDecide(v) \/ RefuseCommit(v) \/ DropRequest(v)
       PROVE  Belief'
  BY <1>5, <1>10, NoRequestType, NoRequestFields
     DEF FinishDecide, RefuseCommit, DropRequest, registerVars
<1>11. ASSUME NEW v \in Reviewers, BeginCommit(v) \/ ApplyItem(v) PROVE Belief'
  <2>1. UNCHANGED <<version, view>>
    BY <1>11 DEF BeginCommit, ApplyItem, registerVars
  <2>2. /\ req'[v].op = "commit" /\ \A u \in Reviewers \ {v} : req'[u] = req[u]
    <3>1. CASE BeginCommit(v)
      BY <1>2, <3>1 DEF BeginCommit, Request
    <3>2. CASE ApplyItem(v)
      BY <1>2, <3>2 DEF ApplyItem, Applied
    <3> QED
      BY <1>11, <3>1, <3>2
  <2> QED
    BY <1>1, <2>1, <2>2 DEF Belief
<1>12. ASSUME NEW v \in Reviewers, FinishCommit(v) PROVE Belief'
  <2>1. /\ version' = version + 1 /\ view' = view /\ req'[v].op = "none"
        /\ \A u \in Reviewers \ {v} : req'[u] = req[u]
    BY <1>2, <1>12, NoRequestFields DEF FinishCommit
  <2> QED
    BY <1>1, <1>2, <1>3, <2>1 DEF Belief
<1>13. ASSUME NEW r \in RunIds, RunStep(r) PROVE Belief'
  BY <1>4, <1>13, RunStepFrame
<1>14. ASSUME NEW v \in Reviewers, DeskStep(v) PROVE Belief'
  BY <1>6, <1>7, <1>8, <1>9, <1>10, <1>11, <1>12, <1>14, Zenon DEF DeskStep
<1>15. CASE UNCHANGED vars
  BY <1>4, <1>15 DEF vars, registerVars, deskVars
<1> QED
  BY <1>13, <1>14, <1>15 DEF Next

(* On a surface that reads the version before the items, a commit that     *)
(* passes the optimistic check rests on items read at that very version.   *)
THEOREM ListingIsCurrent ==
  ASSUME VersionFirst
  PROVE  Spec => CommitSeesListedRegister
<1> DEFINE Sees == \A v \in Reviewers :
             req[v].op = "wait" /\ req'[v].op = "commit" => view[v].asOf = version
<1>1. ASSUME Belief, [Next]_vars PROVE [Sees]_req
  <2>1. ASSUME NEW v \in Reviewers, req[v].op = "wait", req'[v].op = "commit"
        PROVE  view[v].asOf = version
    <3>1. TypeOK
      BY <1>1 DEF Belief
    <3>2. req \in [Reviewers -> Request]
      BY <3>1 DEF TypeOK
    <3>3. PICK u \in Reviewers : DeskStep(u)
      BY <1>1, <2>1, RunStepFrame DEF Next, vars, deskVars
    <3>4. ASSUME u # v PROVE FALSE
      <4>1. req'[v] = req[v]
        BY <3>2, <3>3, <3>4 DEF DeskStep, ListFirst, ListSecond, BeginDecide,
           FinishDecide, AskCommit, BeginCommit, RefuseCommit, ApplyItem, FinishCommit,
           DropRequest
      <4> QED
        BY <2>1, <4>1
    <3>5. DeskStep(v)
      BY <3>3, <3>4
    <3>6. ~QuietStep(v)
      BY <2>1, <3>2 DEF QuietStep
    <3>7. BeginCommit(v)
      BY <2>1, <3>1, <3>5, <3>6, DeskStepCases DEF ApplyItem, FinishCommit
    <3>8. view[v].version = version
      BY <1>1, <2>1, <3>7 DEF Belief, BeginCommit, VersionHolds
    <3>9. version \in Nat /\ view[v].asOf \in Nat
      BY <3>1 DEF TypeOK, View
    <3> QED
      BY <1>1, <3>8, <3>9 DEF Belief
  <2> QED
    BY <2>1
<1>2. Spec => []Belief
  BY BeliefInit, BeliefStep, PTL DEF Spec
<1> QED
  BY <1>1, <1>2, PTL DEF Spec, CommitSeesListedRegister
----------------------------------------------------------------------------
(* Module Gate implements module CasRegister: its transaction, with a row  *)
(* lock, a loop over items and an installation at the end, is one          *)
(* indivisible compare-and-set to everybody else.                          *)

(* The refinement mapping, named.                                          *)
Contents == [p \in Paths |-> field[p].value]
Standing == [v \in Reviewers |-> IF req[v].op \in {"wait", "commit"}
                                 THEN req[v].expected ELSE NoValue]

(* An open commit rests on the current version, and no other is open.      *)
Exclusive ==
  /\ Accounting
  /\ \A v \in Reviewers : req[v].op = "commit" => req[v].expected = version

(* No commit holds the row lock at the start.                              *)
LEMMA ExclusiveInit == Init => Exclusive
  BY AccountingInit, NoRequestFields DEF Init, Exclusive

(* The row lock is had by one commit at a time, and the version it was     *)
(* checked against stands until it ends.                                   *)
LEMMA ExclusiveStep == Exclusive /\ [Next]_vars => Exclusive'
<1> SUFFICES ASSUME Exclusive, [Next]_vars PROVE Exclusive'
  OBVIOUS
<1>1. Accounting' /\ TypeOK /\ OneCommit
  BY AccountingStep DEF Exclusive, Accounting
<1>2. req \in [Reviewers -> Request]
  BY <1>1 DEF TypeOK
<1>3. ASSUME UNCHANGED <<version, req>> PROVE Exclusive'
  BY <1>1, <1>3 DEF Exclusive
<1>4. ASSUME NEW v \in Reviewers, QuietStep(v) PROVE Exclusive'
  <2>1. PICK q \in Request : req' = [req EXCEPT ![v] = q] /\ q.op # "commit"
    BY <1>4 DEF QuietStep
  <2>2. req'[v] = q /\ \A u \in Reviewers \ {v} : req'[u] = req[u]
    BY <1>2, <2>1
  <2>3. version' = version
    BY <1>4 DEF QuietStep
  <2> QED
    BY <1>1, <2>1, <2>2, <2>3 DEF Exclusive
<1>5. ASSUME NEW v \in Reviewers, BeginCommit(v) \/ ApplyItem(v) PROVE Exclusive'
  <2>1. version' = version /\ \A u \in Reviewers \ {v} : req'[u] = req[u]
    BY <1>2, <1>5 DEF BeginCommit, ApplyItem, registerVars
  <2>2. req'[v].expected = version
    <3>1. CASE BeginCommit(v)
      BY <1>2, <3>1 DEF BeginCommit, VersionHolds, Request
    <3>2. CASE ApplyItem(v)
      BY <1>2, <3>2 DEF ApplyItem, Applied, Exclusive
    <3> QED
      BY <1>5, <3>1, <3>2
  <2> QED
    BY <1>1, <2>1, <2>2 DEF Exclusive
<1>6. ASSUME NEW v \in Reviewers, FinishCommit(v) PROVE Exclusive'
  <2>1. \A u \in Reviewers : req'[u].op # "commit"
    BY <1>1, <1>2, <1>6, NoRequestFields DEF FinishCommit, OneCommit
  <2> QED
    BY <1>1, <2>1 DEF Exclusive
<1>7. ASSUME NEW r \in RunIds, RunStep(r) PROVE Exclusive'
  BY <1>3, <1>7, RunStepFrame
<1>8. ASSUME NEW v \in Reviewers, DeskStep(v) PROVE Exclusive'
  BY <1>1, <1>4, <1>5, <1>6, <1>8, DeskStepCases
<1>9. CASE UNCHANGED vars
  BY <1>3, <1>9 DEF vars, registerVars, deskVars
<1> QED
  BY <1>7, <1>8, <1>9 DEF Next

(* The empty register is the initial compare-and-set store.                *)
LEMMA CasInit == Init => Cas!Init
<1> SUFFICES ASSUME Init PROVE Cas!Init
  OBVIOUS
<1>1. Contents = [p \in Paths |-> NoValue]
  BY DEF Init, Contents, NoField
<1>2. Standing = [v \in Reviewers |-> NoValue]
  BY NoRequestFields DEF Init, Standing
<1> QED
  BY <1>1, <1>2 DEF Init, Cas!Init, Contents, Standing

(* Which step of the compare-and-set store each step of the gate is.       *)
LEMMA CasStep ==
  ASSUME Exclusive, [Next]_vars
  PROVE  [Cas!Next]_(Cas!vars)
<1>1. TypeOK /\ TypeOK' /\ OneCommit
  BY TypeStep DEF Exclusive, Accounting
<1>2. req \in [Reviewers -> Request] /\ version \in Nat
  BY <1>1 DEF TypeOK
<1>3. \A v \in Reviewers : req[v].expected \in Nat /\ req[v].expected # NoValue
  BY <1>2, NoValueAssumption DEF Request
<1>4. ASSUME UNCHANGED <<version, field, ledger>>,
             \A v \in Reviewers : Standing'[v] = Standing[v]
      PROVE  UNCHANGED Cas!vars
  <2>1. Standing' = Standing
    BY <1>4 DEF Standing
  <2>2. Contents' = Contents
    BY <1>4 DEF Contents
  <2> QED
    BY <1>4, <2>1, <2>2 DEF Cas!vars, Standing, Contents
<1>5. ASSUME NEW v \in Reviewers,
             ListFirst(v) \/ ListSecond(v) \/ BeginDecide(v) \/ FinishDecide(v)
      PROVE  UNCHANGED Cas!vars
  <2>1. UNCHANGED <<version, field, ledger>>
    BY <1>5 DEF ListFirst, ListSecond, BeginDecide, FinishDecide, registerVars
  <2>2. req[v].op \notin {"wait", "commit"} /\ req'[v].op \notin {"wait", "commit"}
        /\ \A u \in Reviewers \ {v} : req'[u] = req[u]
    <3>1. CASE ListFirst(v)
      BY <1>2, <3>1 DEF ListFirst, NoRequest
    <3>2. CASE BeginDecide(v)
      BY <1>2, <3>2 DEF BeginDecide, NoRequest
    <3>3. CASE ListSecond(v) \/ FinishDecide(v)
      BY <1>2, <3>3, NoRequestFields DEF ListSecond, FinishDecide
    <3> QED
      BY <1>5, <3>1, <3>2, <3>3
  <2> QED
    BY <1>4, <2>1, <2>2 DEF Standing
<1>6. ASSUME NEW v \in Reviewers, BeginCommit(v) \/ ApplyItem(v)
      PROVE  UNCHANGED Cas!vars
  <2>1. UNCHANGED <<version, field, ledger>>
    BY <1>6 DEF BeginCommit, ApplyItem, registerVars
  <2>2. /\ req[v].op \in {"wait", "commit"} /\ req'[v].op = "commit"
        /\ req'[v].expected = req[v].expected
        /\ \A u \in Reviewers \ {v} : req'[u] = req[u]
    <3>1. CASE BeginCommit(v)
      BY <1>2, <3>1 DEF BeginCommit, Request
    <3>2. CASE ApplyItem(v)
      BY <1>2, <3>2 DEF ApplyItem, Applied
    <3> QED
      BY <1>6, <3>1, <3>2
  <2> QED
    BY <1>4, <2>1, <2>2 DEF Standing
<1>7. ASSUME NEW v \in Reviewers, AskCommit(v) PROVE Cas!Bid(v)
  <2>1. UNCHANGED <<version, field, ledger>>
    BY <1>7 DEF AskCommit, registerVars
  <2>2. /\ req[v].op = "none" /\ req'[v].op = "wait" /\ req'[v].expected \in Nat
        /\ \A u \in Reviewers \ {v} : req'[u] = req[u]
    BY <1>1, <1>2, <1>7 DEF AskCommit, NoRequest, TypeOK, View
  <2>3. Standing[v] = NoValue /\ Standing'[v] \in Nat
    BY <2>2 DEF Standing
  <2>4. Standing' = [Standing EXCEPT ![v] = Standing'[v]]
    BY <2>2 DEF Standing
  <2> QED
    BY <2>1, <2>3, <2>4 DEF Cas!Bid, Standing
<1>8. ASSUME NEW v \in Reviewers, RefuseCommit(v) \/ DropRequest(v)
      PROVE  Cas!Lose(v) \/ UNCHANGED Cas!vars
  <2>1. UNCHANGED <<version, field, ledger>>
    BY <1>8 DEF RefuseCommit, DropRequest, registerVars
  <2>2. req'[v] = NoRequest /\ \A u \in Reviewers \ {v} : req'[u] = req[u]
    BY <1>2, <1>8 DEF RefuseCommit, DropRequest
  <2>3. CASE req[v].op \notin {"wait", "commit"}
    BY <1>4, <2>1, <2>2, <2>3, NoRequestFields DEF Standing
  <2>4. CASE req[v].op \in {"wait", "commit"}
    <3>1. Standing[v] # NoValue
      BY <1>3, <2>4 DEF Standing
    <3>2. Standing' = [Standing EXCEPT ![v] = NoValue]
      BY <2>2, NoRequestFields DEF Standing
    <3> QED
      BY <2>1, <3>1, <3>2 DEF Cas!Lose, Standing
  <2> QED
    BY <2>3, <2>4
<1>9. ASSUME NEW v \in Reviewers, FinishCommit(v) PROVE Cas!Win(v)
  <2>1. version' = version + 1 /\ ledger' = ledger \o req[v].entries
    BY <1>9 DEF FinishCommit, TxLedger
  <2>2. req'[v] = NoRequest /\ \A u \in Reviewers \ {v} : req'[u] = req[u]
    BY <1>2, <1>9 DEF FinishCommit
  <2>3. Standing[v] = version
    BY <1>9 DEF Standing, FinishCommit, Exclusive
  <2>4. Standing' = [Standing EXCEPT ![v] = NoValue]
    BY <2>2, NoRequestFields DEF Standing
  <2>5. Contents' \in [Paths -> MaybeValue]
    BY <1>1 DEF TypeOK, FieldRow, Contents
  <2>6. Len(ledger) <= Len(ledger') /\ \A i \in 1 .. Len(ledger) : ledger'[i] = ledger[i]
    <3>1. ledger \in Seq(Entry) /\ req[v].entries \in Seq(Entry)
      BY <1>1 DEF TypeOK, Request
    <3> QED
      BY <2>1, <3>1, ConcatProperties
  <2> QED
    BY <2>1, <2>3, <2>4, <2>5, <2>6 DEF Cas!Win, Standing, Contents
<1>10. ASSUME NEW r \in RunIds, RunStep(r) PROVE UNCHANGED Cas!vars
  BY <1>4, <1>10, RunStepFrame DEF Standing
<1>11. CASE UNCHANGED vars
  BY <1>4, <1>11 DEF vars, registerVars, deskVars, Standing
<1>12. ASSUME NEW v \in Reviewers, DeskStep(v) PROVE [Cas!Next]_(Cas!vars)
  BY <1>5, <1>6, <1>7, <1>8, <1>9, <1>12 DEF DeskStep, Cas!Next
<1> QED
  BY <1>10, <1>11, <1>12 DEF Next

(* Every behaviour of the gate is one of the compare-and-set store.        *)
THEOREM ImplementsCas == Spec => CommitsAreCompareAndSet
  BY ExclusiveInit, ExclusiveStep, CasInit, CasStep, PTL
  DEF Spec, Cas!Spec, CommitsAreCompareAndSet
=============================================================================
