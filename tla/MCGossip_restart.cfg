\* An origin that restarts with the same key pair.
SPECIFICATION Spec
CONSTANTS
  a = a
  b = b
  c = c
  d = d
  Node = {a, b, c}
  Foreign = {}
  Restarting = {a}
  All = All
  Routing <- Mesh
  Workload <- OneBroadcast
  Ttl = 1
  LruSize = 2
  Faulty = FALSE
  MaxSeq = 1
  MaxEpoch = 1
  MaxLog = 3
INVARIANTS AlwaysHeard
CHECK_DEADLOCK FALSE
