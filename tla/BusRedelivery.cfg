SPECIFICATION BusFairSpec
CONSTANTS
  c1 = c1
  c2 = c2
  Consumers = {c1, c2}
  Steady = {c1}
  BatchSize = 2
  MaxEntries = 2
PROPERTIES
  Redelivered
