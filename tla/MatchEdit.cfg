CONSTANTS
  Men = 2
  MatchLengths = {0, 2}
  MAX_CUBE = 8
  MAXSCORE = 4
  nBeavers = 2
  cAutoDoubles = 1
  fAutoGame = TRUE
  fAutoCrawford = TRUE
  fJacoby = TRUE
  fDisplay = TRUE
  fX = TRUE
  MaxRecords = 6
  MaxGames = 1
  MaxRolls = 2
  MaxEdits = 2
  MaxMatchRecords = 5
SPECIFICATION EditSpec
INVARIANTS WhoseTurn CubeLimits IDLoadsBack EditsAreReplayed
CHECK_DEADLOCK FALSE
