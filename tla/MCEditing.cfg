SPECIFICATION Spec
CONSTANTS
  Comments = {"//a", "//b", "//c"}
  Numbers = {"1", "2"}
  Strings = {"s"}
  LineWidth = 14
  IndentWidth = 2
  Sources <- MCSources
  Typed <- MCTyped
  MaxEdits = 1
INVARIANTS
  FormatKeepsProgram
  FormatStable
PROPERTIES
  RecoverySound
CHECK_DEADLOCK FALSE
