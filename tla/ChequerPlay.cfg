CONSTANT Starts <- MCStarts
SPECIFICATION Spec
INVARIANTS MovesAreLegal MovesAgree TextReadsBack PositionsLoad ResultByRules
PROPERTIES RaceStays
CHECK_DEADLOCK FALSE
