CONSTANTS
  Men = 2
  MatchLengths = {2}
  MAX_CUBE = 4
  MAXSCORE = 4
  nBeavers = 1
  cAutoDoubles = 1
  fAutoGame = TRUE
  fAutoCrawford = TRUE
  fJacoby = TRUE
  fDisplay = TRUE
  fX = FALSE
  MaxRecords = 5
  MaxGames = 3
  MaxRolls = 0
SPECIFICATION ReplaySpec
INVARIANT ResultIsReplayed
CHECK_DEADLOCK FALSE
