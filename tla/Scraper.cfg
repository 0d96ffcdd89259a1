SPECIFICATION FairSpec
CONSTANTS
  MaxPost = 2
  Usable <- MCUsable2
  MaxTries = 2
  BatchLimit = 1
  MaxCrashes = 1
  MaxFails = 1
INVARIANTS
  NoGapBelowCheckpoint
  PublishedOnce
PROPERTIES
  ImplementsCourier
  EventuallyPublished
