CONSTANTS
  MAX_ATTEMPT_COUNT = 3
  MaxReboots = 2
SPECIFICATION FairSpec
INVARIANTS
  Restored
  RemovingTold
PROPERTIES
  DestroyEnds
