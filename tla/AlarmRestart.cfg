SPECIFICATION Spec
CONSTANTS
  Failsafe = TRUE
  RegionGiven = TRUE
  Ttl <- MCTtl
  Half <- MCHalf
  FailsafeAfter <- MCFailsafeAfter
  Interval = 1
  MaxWait = 1
  None = None
  MaxIndex = 0
  MaxOutages = 1
  MaxRestarts = 1
  MaxFaults = 0
PROPERTIES
  FailsafeWaitsForThreshold
