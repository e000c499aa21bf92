CONSTANTS
  MaxThreads = 2
  MaxTasks = 3
  CreateMayFail = FALSE
SPECIFICATION FairSpec
PROPERTY CloseReturns
CHECK_DEADLOCK FALSE
