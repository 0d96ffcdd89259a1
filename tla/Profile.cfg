SPECIFICATION Spec
CONSTANTS
  h1 = h1
  h2 = h2
  c1 = c1
  c2 = c2
  l1 = l1
  l2 = l2
  f1 = f1
  f2 = f2
  f3 = f3
  Tasks <- MCTasks
  Categories <- MCCategories
  Locations <- MCLocations
  Phrases <- MCPhrases
  MaxCustom = 1
  MaxUpdates = 5
  MaxSlow = 1
  MaxFaults = 1
SYMMETRY ProfileSymmetry
CHECK_DEADLOCK FALSE
INVARIANTS
  TogglesAreKept
  PhraseLimitNeedsThrottle
  PhrasesArePrompted
  MuteKeyFollowsProfile
