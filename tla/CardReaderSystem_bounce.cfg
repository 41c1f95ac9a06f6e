CONSTANTS
  Devices = {au9540}
  Alcor = {au9540}
  Reader = au9540
  ToReader = "high"
  Tasks = {t1}
  NoTask = NoTask
  NoDevice = NoDevice
  MaxListed = 1
  MaxBroadcasts = 2
  HardwareMayFail = FALSE
SPECIFICATION SysFairSpec
CHECK_DEADLOCK FALSE
INVARIANTS
  ConnectionKnown
PROPERTIES
  Withdrawn
