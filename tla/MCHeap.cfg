CONSTANTS
    MaxObjects = 3
    MaxRefs = 2
    MaxEdges = 4
    MaxHeld = 1
    MaxBorrows = 1
SPECIFICATION Spec
INVARIANTS
    LedgerExact
PROPERTIES
    ReachableKept
    GarbageGone
CHECK_DEADLOCK FALSE
