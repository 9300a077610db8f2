SPECIFICATION FairSpec
CONSTANTS
  s1 = s1
  s2 = s2
  s3 = s3
  Ids <- MCIds
  Plans <- MCPlans
  MaxParallel = 2
INVARIANTS
  NoIdleSlot
  DependenciesFirst
PROPERTIES
  Termination
  ImplementsContract
