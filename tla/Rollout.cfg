CONSTANTS
  Thread = {t1, t2}
  nAlternatives = 2
  TrialCounts = {2, 3}
  nMinimum = 2
  StopRules = {"none", "STD", "JSD"}
  CubeRollouts = {FALSE, TRUE}
  MaxCalls = 2
SPECIFICATION FairSpec
INVARIANTS ResultsWeighed TrialsOnce EndsRight
PROPERTY RolloutEnds
CHECK_DEADLOCK FALSE
