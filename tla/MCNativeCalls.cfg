CONSTANTS
    Elements = {"true", "false"}
    Keys = {"k", "l", "nan"}
    NaN = "nan"
    Natives = {"map", "filter", "flatMap", "any", "all", "count", "find", "findIndex", "reduce"}
    FirstArrays <- MCFirstArrays
    FirstMaps <- MCFirstMaps
    RangeInputs <- MCRangeInputs
    MaxSteps = 8
    MaxElements = 9
    MaxDepth = 2
    MaxCalls = 3
SPECIFICATION Spec
INVARIANTS
    ContentSound
    CallbacksExact
    CollectionsExact
CHECK_DEADLOCK FALSE
