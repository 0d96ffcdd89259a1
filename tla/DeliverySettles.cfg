SPECIFICATION FairSpec
CONSTANTS
  w1 = w1
  w2 = w2
  None = None
  Orphan = Orphan
  Workers <- MCWorkers1
  Ids <- MCIds2
  LastStage = 2
  MaxAttempts = 1
  Locations = {}
  Moves = {"age", "night", "mute", "clear"}
  MaxFaults = 1
  MaxStalls = 0
INVARIANTS
  GiveUpEndsChain
PROPERTIES
  EventuallySettled
