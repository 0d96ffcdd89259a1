SPECIFICATION PrivacySpec
CONSTANTS
  w1 = w1
  w2 = w2
  o1 = o1
  o2 = o2
  None = None
  Orphan = Orphan
  Workers <- MCWorkers1
  Ids <- MCIds2
  LastStage = 1
  MaxAttempts = 1
  Locations = {}
  Moves = {}
  MaxFaults = 0
  MaxStalls = 0
  Ops <- MCOps1
  MaxGen = 1
  MaxOpFaults = 0
INVARIANTS
  ErasedProfileStaysGone
