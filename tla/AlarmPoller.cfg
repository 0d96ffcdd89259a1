SPECIFICATION FairSpec
CONSTANTS
  Failsafe = TRUE
  RegionGiven = FALSE
  Ttl <- MCTtl
  Half <- MCHalf
  FailsafeAfter <- MCFailsafeAfter
  Interval = 1
  MaxWait = 1
  None = None
  MaxIndex = 1
  MaxOutages = 2
  MaxRestarts = 1
  MaxFaults = 1
INVARIANTS
  StaleStateExpires
PROPERTIES
  RefreshConfirms
  FailsafeNeedsSilence
  EventuallyShown
