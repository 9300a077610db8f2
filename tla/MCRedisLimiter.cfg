SPECIFICATION Spec
CONSTANTS
  r1 = r1
  r2 = r2
  Replicas = {r1, r2}
  Rate = 2
  Burst = 3
  Cost = 3
  MinTtl = 1
  TtlFactor = 3
  Fallback = TRUE
  Spread = 1
  MaxDelay = 1
  MaxTime = 4
  MaxFailures = 3
  MaxBack = 2
SYMMETRY MCSymmetry
INVARIANTS
  SharedBound
  OwnBound
PROPERTIES
  KeptPromise
