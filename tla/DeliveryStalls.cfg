SPECIFICATION Spec
CONSTANTS
  w1 = w1
  w2 = w2
  None = None
  Orphan = Orphan
  Workers <- MCWorkers2
  Ids <- MCIds4
  LastStage = 2
  MaxAttempts = 1
  Locations = {}
  Moves = {}
  MaxFaults = 1
  MaxStalls = 1
SYMMETRY WorkerSymmetry
INVARIANTS
  NoStageLost
  StagesInOrder
  DuplicatesNeedFaults
PROPERTIES
  ImplementsChain
