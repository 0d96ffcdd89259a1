SPECIFICATION FairSpec
CONSTANTS
  c1 = c1
  c2 = c2
  u1 = u1
  u2 = u2
  p = p
  q = q
  r1 = r1
  r2 = r2
  k1 = k1
  k2 = k2
  None = None
  Calls <- MCCalls
  Users <- MCUsers
  Phrases <- MCPhrases
  Reconcilers <- MCRecs1
  Matchings <- MCTasks
  UserLimit = 1
  GlobalLimit = 1
  MaxOps = 2
  MaxFaults = 1
INVARIANTS
  NoFalseFreshness
  GlobalLimitHolds
PROPERTIES
  ReconcileOverwritesNothing
  CacheConverges
