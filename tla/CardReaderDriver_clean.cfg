CONSTANTS
  Uart = FALSE
  CleanPin = TRUE
  Unbinding = FALSE
SPECIFICATION FairSpec
CHECK_DEADLOCK FALSE
INVARIANTS
  FollowsPin
  ErrorPathReleases
PROPERTY SwitchSettles
