SPECIFICATION FairSupervision
CONSTANTS
  Loops <- MCLoops
CHECK_DEADLOCK FALSE
INVARIANTS
  SupervisionTypeOK
  FailureIsReported
  NothingLeftRunning
PROPERTIES
  EventuallyStops
