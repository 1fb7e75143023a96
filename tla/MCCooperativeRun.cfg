CONSTANTS
  MaxTaskId = 3
  NoTask = NoTask
  Quantum = 2
  MaxSteps = 3
  MaxCallDepth = 1
  MaxElements = 1
  MaxOutputBytes = 1
  PrintSizes = {1}
  Modes = {"plain", "debug"}
SPECIFICATION FairSpec
INVARIANTS Budgeted FailFastReleases RepliesExact
PROPERTIES OutcomesKept CancelObserved DriveReturns SchedulerSpec
