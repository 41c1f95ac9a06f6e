CONSTANTS
  Devices = {au9540, stick}
  Alcor = {au9540}
  Tasks = {t1}
  NoTask = NoTask
  NoDevice = NoDevice
  MaxListed = 1
  MaxBroadcasts = 2
  HardwareMayFail = TRUE
  Chars = {"8", "A", "f", " "}
  MaxLength = 4
  Octets = {10, 128, 255}
  MaxReply = 3
  LineBytes = 2
SPECIFICATION MCSpec
CHECK_DEADLOCK FALSE
INVARIANTS
  ConnectXorPowerOff
  TalksToOpenReader
  ApduExact
