SPECIFICATION Spec
CONSTANTS
  MaxRetries = 3
  Plans <- FaultPlans
  Outcomes = {"answer", "throttle", "unavailable", "error"}
  None = None
  MaxCalls = 2
INVARIANTS TiersAreLastResorts UsagesTellTheTruth ReportMatchesCalls
CHECK_DEADLOCK FALSE
