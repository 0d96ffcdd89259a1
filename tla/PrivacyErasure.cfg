SPECIFICATION PrivacySpec
CONSTANTS
  w1 = w1
  w2 = w2
  o1 = o1
  o2 = o2
  None = None
  Orphan = Orphan
  Workers <- MCWorkers1
  Ids <- MCIds2
  LastStage = 2
  MaxAttempts = 1
  Locations = {}
  Moves = {}
  MaxFaults = 1
  MaxStalls = 0
  Ops <- MCOps2
  MaxGen = 1
  MaxOpFaults = 1
SYMMETRY OpSymmetry
INVARIANTS
  NoSendAcrossErasure
  ErasedStoresStayEmpty
  OutcomeStands
  GenerationsInOrder
