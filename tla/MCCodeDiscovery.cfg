SPECIFICATION FairSpec
CONSTANTS
  Start = 0
  End = 4
  Images <- MCImages
  SeedSets <- MCSeedSets
INVARIANTS
  FoundIsReachable
  ExpansionIsClosed
  NoOverlap
  LostOnlyToEarlier
PROPERTIES
  ImplementsClosure
CHECK_DEADLOCK FALSE
