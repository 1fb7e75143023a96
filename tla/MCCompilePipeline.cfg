CONSTANTS
    Programs <- MCPrograms
    Inputs <- MCInputs
    Answer <- MCAnswer
    MaxSteps = 100
SPECIFICATION Spec
INVARIANTS
    DominanceExact
    StreamsSound
PROPERTIES
    PassKeepsMeaning
CHECK_DEADLOCK FALSE
