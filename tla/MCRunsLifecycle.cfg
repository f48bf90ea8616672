SPECIFICATION FairSpec
CONSTANTS
  w1 = w1
  w2 = w2
  w3 = w3
  Workers = {w1, w2, w3}
  MaxRuns = 1
  MaxCrashes = 2
  MaxAttempts = 3
  MayRaise = {1}
  NoRun = NoRun
  NoWorker = NoWorker
  SlowStages = FALSE
INVARIANTS TypeOK AwaitingMeansGated RepeatsAreTears OneExecutor
PROPERTIES RunsAreJobs CommittedIsLeftAlone QueuedRunsSettle
