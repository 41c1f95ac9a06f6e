CONSTANTS
  Devices = {au9540}
  Alcor = {au9540}
  Tasks = {t1, t2}
  NoTask = NoTask
  NoDevice = NoDevice
  MaxListed = 1
  MaxBroadcasts = 1
  HardwareMayFail = FALSE
SPECIFICATION FairSpec
CHECK_DEADLOCK FALSE
INVARIANTS
  NoUiCrash
  OneMonitor
PROPERTIES
  SlotStatusSettles
  ThreadsEnd
