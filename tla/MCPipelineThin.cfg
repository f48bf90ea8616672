SPECIFICATION Spec
CONSTANTS
  contract = contract
  invoice = invoice
  cap = cap
  amount = amount
  MaxDocs = 1
  DocTypes = {contract, invoice}
  Paths = {cap, amount}
  Allowed <- Patterns
  Poisoned = {1}
  Answers <- SomeAnswers
  Unclassified = Unclassified
  MaxKills = 0
INVARIANT ThinIsMarked
CHECK_DEADLOCK FALSE
