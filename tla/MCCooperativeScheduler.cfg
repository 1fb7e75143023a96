CONSTANTS
  MaxTaskId = 4
  NoTask = NoTask
SPECIFICATION FairSpec
INVARIANTS Consistent
PROPERTIES FifoOrder JoinersReleased LifecycleSpec ReadyLeavesQueue
