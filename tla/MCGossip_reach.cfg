\* Four nodes with paths of different lengths, a broadcast and a message.
SPECIFICATION FairSpec
CONSTANTS
  a = a
  b = b
  c = c
  d = d
  Node = {a, b, c, d}
  Foreign = {}
  Restarting = {}
  All = All
  Routing <- Shortcut
  Workload <- Across
  Ttl = 2
  LruSize = 4
  Faulty = FALSE
  MaxSeq = 1
  MaxEpoch = 0
  MaxLog = 20
PROPERTIES Disseminates
CHECK_DEADLOCK FALSE
