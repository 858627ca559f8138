CONSTANTS
  Stride = 1
  MaxFrames = 2
  BaseInterval = 2
  Code <- Rounds
  Line <- RoundsLines
  Callee = 4
  BreakPcs = {0}
  Targets = {0}
  Counts = {1}
  MaxRetired = 4
SPECIFICATION Spec
INVARIANTS FramesExact HistoryOrdered
PROPERTIES StopsAtBreakpoints OverStaysOut
CHECK_DEADLOCK FALSE
