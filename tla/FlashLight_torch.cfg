CONSTANTS
  BIRD_FLASHLIGHT_SOS_ON = TRUE
  BIRD_CLOSE_FLASHLIGHT_WITHOUT_EXIT = FALSE
  Limit = 5
  MaxCrashes = 2
  MaxBcast = 4
SPECIFICATION FairSpec
CHECK_DEADLOCK FALSE
INVARIANTS
  Limited
  OffWhenGone
PROPERTIES
  TurnsOff
