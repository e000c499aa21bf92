CONSTANTS
  NoKey = NoKey
  a = a
  b = b
  c = c
  Key <- MCKey
  Hash <- MCHash
  Requests <- MCRequests
  MaxThreads = 2
  Sizes = {1, 3}
SPECIFICATION FairSpec
INVARIANTS HitMatches EntriesGuarded
PROPERTIES LockObtained Implements
CHECK_DEADLOCK FALSE
