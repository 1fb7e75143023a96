CONSTANTS
    Programs <- MCPrograms
    Inputs <- MCInputs
    Answer <- MCAnswer
    MaxSteps = 100
SPECIFICATION Spec
PROPERTIES
    BranchesKeepMeaning
CHECK_DEADLOCK FALSE
