SPECIFICATION FairSpec
CONSTANTS
  stream = stream
  plain = plain
  old1 = old1
  old2 = old2
  old3 = old3
  s1 = s1
  Turns <- MCTurns
  Sessions <- MCSessions
  SessionOf <- MCSessionOf
  Streams <- MCStreams
  Past <- MCPast
  MaxIterations = 2
  Window = 3
  SoftWindow = 2
  KeepOldest = 1
  KeepNewest = 1
  QueueMax = 3
  MaxPerSession = 2
  MaxErasures = 1
INVARIANTS
  SeesAnswered
  StreamTrue
PROPERTIES
  ImplementsContract
  EveryTurnEnds
