SPECIFICATION FairSpec
CONSTANTS
  contract = contract
  invoice = invoice
  cap = cap
  amount = amount
  MaxDocs = 2
  DocTypes = {contract, invoice}
  Paths = {cap, amount}
  Allowed <- Patterns
  Poisoned = {1}
  Answers <- SomeAnswers
  Unclassified = Unclassified
  MaxKills = 1
INVARIANTS TypeOK WriteBoundary StatusTellsOutcome HitsSurviveStages DegradationIsKept
PROPERTY ReachesGate
CHECK_DEADLOCK FALSE
