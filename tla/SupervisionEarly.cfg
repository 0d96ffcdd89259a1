SPECIFICATION SupervisionSpec
CONSTANTS
  Loops <- MCLoops2
CHECK_DEADLOCK FALSE
INVARIANTS
  EarlyStopIsReported
