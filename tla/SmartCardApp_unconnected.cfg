CONSTANTS
  Devices = {au9540}
  Alcor = {au9540}
  Tasks = {t1}
  NoTask = NoTask
  NoDevice = NoDevice
  MaxListed = 1
  MaxBroadcasts = 1
  HardwareMayFail = FALSE
SPECIFICATION FairSpec
CHECK_DEADLOCK FALSE
INVARIANT ConnectBeforeTalking
