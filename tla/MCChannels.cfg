SPECIFICATION FairSpec
CONSTANTS
  N = 2
  KindSets <- MCKindSets
  MaxAttempts = 1
  MaxUpdates = 2
  MaxBoots = 2
  MaxCrashes = 1
INVARIANTS
  NoUpdateLost
  OnceInOrder
  StoppedIsQuiet
PROPERTIES
  EveryUpdateEnds
