SPECIFICATION Spec
CONSTANTS
  p1 = p1
  la = la
  lb = lb
  None = None
  Gone = Gone
  Procs <- MCProcs1
  Msgs <- MCMsgs
  Body <- MCBody
  Locations <- MCLocations
  Users <- MCUsers
  Newcomers = {}
  PageSize = 1
  ReadCount = 1
  MaxRetries = 1
  Moves = {"subs", "age", "night", "official"}
  MaxMoves = 2
CHECK_DEADLOCK FALSE
INVARIANTS
  AcknowledgedIsHandled
  ExpiredIsAuditedOnce
  AckedClearsAreRecorded
  LateThreatsStaySilent
