SPECIFICATION Spec
CONSTANTS
  r1 = r1
  r2 = r2
  ann = ann
  bob = bob
  p = p
  a = a
  b = b
  q1 = q1
  q2 = q2
  RunIds = {r1}
  Reviewers = {ann, bob}
  Paths = {p}
  Values = {a, b}
  Quotes = {q1, q2}
  Extractions <- OneOrBoth
  NoValue = NoValue
  Nobody = Nobody
  NoRun = NoRun
  MayDie = {r1}
  MaxAttempts = 2
  MaxVersion = 2
  MaxBatch = 1
  VersionFirst = TRUE
SYMMETRY Alike
INVARIANTS TypeOK LedgerAccountsForRegister EntriesWereApproved
PROPERTIES DecisionsStick CommitSeesListedRegister CommitsAreCompareAndSet
CHECK_DEADLOCK FALSE
