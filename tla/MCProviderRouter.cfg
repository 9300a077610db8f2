SPECIFICATION FairSpec
CONSTANTS
  r1 = r1
  r2 = r2
  r3 = r3
  p = p
  q = q
  kp = kp
  kq = kq
  Requests <- MCRequests
  Providers <- MCProviders
  Listed <- MCListed
  KeyOf <- MCKeyOf
  Rank <- MCRank
  Strategy = "round_robin"
  Retries = {r1}
  Attempts = 2
  Backoffs = 1
  FailThreshold = 1
  Cooldown = 1
  MaxTime = 2
PROPERTIES
  PostsBound
  Cooled
  EveryCallEnds
