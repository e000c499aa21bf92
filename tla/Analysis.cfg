CONSTANTS
  Games <- MCGames
  Workers = {w1, w2}
  Settings <- MCSettings
  MaxCommands = 2
SPECIFICATION FairSpec
INVARIANT ListsThere
PROPERTIES AnalysisComplete StatisticsAgree AnalysisReturns
CHECK_DEADLOCK FALSE
