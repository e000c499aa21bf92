CONSTANTS
  Men = 1
  MatchLengths = {2, 3}
  MAX_CUBE = 4
  MAXSCORE = 4
  nBeavers = 1
  cAutoDoubles = 1
  fAutoGame = TRUE
  fAutoCrawford = TRUE
  fJacoby = TRUE
  fDisplay = TRUE
  fX = FALSE
  MaxRecords = 4
  MaxGames = 3
  MaxRolls = 0
  Lengths <- MCLengths
  RecordsOf <- MCRecordsOf
SPECIFICATION HistorySpec
INVARIANTS Results Chain Crawford1 LiveIsReplay NextTurnAssert
CHECK_DEADLOCK FALSE
