SPECIFICATION Spec
CONSTANTS
  c1 = c1
  c2 = c2
  u1 = u1
  u2 = u2
  p = p
  q = q
  r1 = r1
  r2 = r2
  k1 = k1
  k2 = k2
  None = None
  Calls <- MCCalls
  Users <- MCUsers1
  Phrases <- MCPhrases
  Reconcilers <- MCRecs1
  Matchings <- MCNoTasks
  UserLimit = 1
  GlobalLimit = 2
  MaxOps = 3
  MaxFaults = 0
INVARIANTS
  UserLimitHolds
