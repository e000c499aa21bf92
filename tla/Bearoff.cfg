CONSTANTS
  r1 = r1
  r2 = r2
  Reader = {r1, r2}
  Jobs <- MCJobs
  NonZero <- MCNonZero
  Asked <- MCAsked
  MaxFailures = 1
SPECIFICATION FairSpec
INVARIANTS LookupRight MovesDescend ReadsRight
PROPERTIES GenerationEnds ReadersServed
CHECK_DEADLOCK FALSE
