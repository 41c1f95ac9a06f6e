CONSTANTS
  Threads = {1, 2}
  None = None
  Count = 3
  MaxIntents = 1
  Kind <- AllKinds
  EndCalls = 1
  Refuses = TRUE
  Rings = {"dialing"}
SPECIFICATION Spec
CHECK_DEADLOCK FALSE
INVARIANTS
  OneThreadPerService
  SosAllowsCalls
  KeyWorksAgain
PROPERTIES
  SuccessEndsDialling
  CallsUntilSuccess
