CONSTANTS
  Thread = {t1, t2, t3}
  MaxTimeouts = 1
SPECIFICATION FairSpec
INVARIANTS BarrierInv
PROPERTY IterationEnds
CHECK_DEADLOCK FALSE
