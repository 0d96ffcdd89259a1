SPECIFICATION Spec
CONSTANTS
  w1 = w1
  w2 = w2
  None = None
  Orphan = Orphan
  Workers <- MCWorkers1
  Ids <- MCIds2
  LastStage = 2
  MaxAttempts = 1
  Locations = {}
  Moves = {"clear"}
  MaxFaults = 0
  MaxStalls = 0
PROPERTIES
  ClearCancelsReminders
