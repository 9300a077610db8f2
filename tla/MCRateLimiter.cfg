SPECIFICATION Spec
CONSTANTS
  alice = alice
  bob = bob
  carol = carol
  Keys <- MCKeys
  Watched = alice
  Rate = 2
  Burst = 4
  Cost = 3
  Persistent = TRUE
  Limits = {1, 2}
  MaxTime = 3
  MaxRestarts = 2
  MaxSetBacks = 1
SYMMETRY MCSymmetry
INVARIANTS
  AdmittedBound
  KeptPromise
PROPERTIES
  RoomKept
