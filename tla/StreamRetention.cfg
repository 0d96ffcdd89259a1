SPECIFICATION Spec
CONSTANTS
  g1 = g1
  g2 = g2
  k1 = k1
  k2 = k2
  Groups <- MCGroups
  Swept <- MCSwept
  Consumers <- MCConsumers
  Nobody = Nobody
  MaxEntries = 3
SYMMETRY RetentionSymmetry
CHECK_DEADLOCK FALSE
INVARIANTS
  WorkIsKept
  OnlyLateWorkIsLost
PROPERTIES
  TrimmedIsDone
