SPECIFICATION FairSpec
CONSTANTS
  m1 = m1
  m2 = m2
  m3 = m3
  u1 = u1
  u2 = u2
  NumProcs = 2
  Messages <- MCMessages
  Users <- MCUsers
  Senders <- MCSenders
  Window = 2
  MaxLLM = 1
  MaxTries = 2
  MaxLocks = 2
  None = None
INVARIANTS
  OneInstance
  WholeContext
  SeesReplied
PROPERTY EveryMessageEnds
CHECK_DEADLOCK FALSE
