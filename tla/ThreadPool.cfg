CONSTANTS
  MaxThreads = 3
  MaxTasks = 3
  CreateMayFail = TRUE
SPECIFICATION FairSpec
INVARIANTS TypeOK MutexInv NoLostWakeup TasksInTurn
PROPERTIES Implements WaitsReturn
CHECK_DEADLOCK FALSE
