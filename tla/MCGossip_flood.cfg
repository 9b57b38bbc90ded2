\* Two packets that make each other forgotten: an LRU set that holds one.
SPECIFICATION FairSpec
CONSTANTS
  a = a
  b = b
  c = c
  d = d
  Node = {a, b, c, d}
  Foreign = {}
  Restarting = {}
  All = All
  Routing <- Bounce
  Workload <- TwoBroadcasts
  Ttl = 4
  LruSize = 1
  Faulty = FALSE
  MaxSeq = 1
  MaxEpoch = 0
  MaxLog = 20
PROPERTIES FloodDies
CHECK_DEADLOCK FALSE
