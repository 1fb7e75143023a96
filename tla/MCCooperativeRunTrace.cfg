CONSTANTS
  MaxTaskId = 2
  NoTask = NoTask
  Quantum = 1
  MaxSteps = 2
  MaxCallDepth = 1
  MaxElements = 1
  MaxOutputBytes = 2
  PrintSizes = {1}
  Modes = {"trace"}
SPECIFICATION Spec
INVARIANTS SequenceShared TraceExact
