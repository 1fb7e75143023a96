\* Three calls of nine functions; the fourth generation, the third entry and the limit are
\* all out of reach of some and within reach of others.
SPECIFICATION Spec

CONSTANTS
  Functions <- MCFunctions
  Globals <- MCGlobals
  Arguments <- MCArguments
  Modes = {"ordinary", "observed"}
  Whitelist <- MCWhitelist
  Capacity = 7
  Generations = 3
  Limit = 8
  MaxCalls = 3
  MaxModules = 2
  Ordered <- MCOrdered

INVARIANTS
  CacheBounded
  CallsAsInterpreted
  HandlesCurrent

PROPERTY
  CallsEnd

CHECK_DEADLOCK FALSE
