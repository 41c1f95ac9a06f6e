CONSTANTS
  MaxCount = 4
  MaxActs = 7
  MaxCrashes = 3
SPECIFICATION Spec
CHECK_DEADLOCK FALSE
INVARIANTS
  NoUncountedReboot
  CountExact
  FlagConsumed
PROPERTIES
  TestEnds
