SPECIFICATION DedupSpec
CONSTANTS
  m1 = m1
  m2 = m2
  m3 = m3
  Ids <- MCIds
  Legacy = {m3}
  Cap = 2
  TTL = 2
  MaxCalls = 3
  MaxTime = 3
  MaxRestarts = 1
INVARIANTS
  NoFalseDuplicate
  NoEarlyRepeat
