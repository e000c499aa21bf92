CONSTANTS
  Games <- MCOneGame
  Workers = {w1, w2}
  Settings <- MCLevels
  MaxCommands = 2
SPECIFICATION Spec
INVARIANT SavedDuringAnalysis
CHECK_DEADLOCK FALSE
