SPECIFICATION Spec
CONSTANTS
  w1 = w1
  w2 = w2
  None = None
  Orphan = Orphan
  Workers <- MCWorkers1
  Ids <- MCIds2
  LastStage = 2
  MaxAttempts = 2
  Locations = {"odesa", "kyiv"}
  Moves = {"age", "night", "mute", "clear"}
  MaxFaults = 1
  MaxStalls = 0
INVARIANTS
  NoStageLost
  StagesInOrder
  GiveUpEndsChain
