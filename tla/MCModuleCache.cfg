CONSTANTS
    N <- MCN
    Imports <- MCImports
    Declares <- MCDeclares
    Levels = {"O0", "O1"}
    Entries <- MCEntries
    MaxBuilds = 3
    MaxEdits = 2
    MaxCrashes = 1
    MaxRemovals = 1
SPECIFICATION Spec
INVARIANTS
    TypeOK
    OutputsFit
    PreloadedReusedAtDefault
    RepeatReuses
CHECK_DEADLOCK FALSE
