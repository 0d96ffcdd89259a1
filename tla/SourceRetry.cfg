SPECIFICATION Spec
CONSTANTS
  p1 = p1
  la = la
  lb = lb
  None = None
  Gone = Gone
  Procs <- MCProcs1
  Msgs <- MCThreat
  Body <- MCThreatBody
  Locations <- MCLocations
  Users <- MCUsers
  Newcomers = {}
  PageSize = 1
  ReadCount = 1
  MaxRetries = 2
  Moves = {}
  MaxMoves = 0
CHECK_DEADLOCK FALSE
PROPERTIES
  DeadLetteredAtLimit
