\* All module graphs of up to four modules built in MCLinker.
SPECIFICATION Spec

CONSTANTS
  MaxSteps = 60
  MaxIndex = 60
  Links <- MCLinks
  Inputs <- MCInputs
  Answer <- MCAnswer

INVARIANTS
  ExpansionSound
  VerdictExact
  LinkedMeansProgram

CHECK_DEADLOCK FALSE
