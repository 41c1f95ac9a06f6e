CONSTANTS
  Uart = TRUE
  CleanPin = FALSE
  Unbinding = TRUE
SPECIFICATION FairSpec
CHECK_DEADLOCK FALSE
INVARIANTS
  SwitchAgrees
  WorkReady
  RemovedSettled
PROPERTIES
  KeepsPromise
  PromiseAnswered
