\* Three VoidDHTs and a node of another DHT, an LRU set of one entry, requests repeated,
\* given up and refused, an origin and a receiver that restart.
SPECIFICATION Spec
CONSTANTS
  a = a
  b = b
  c = c
  d = d
  Node = {a, b, c, d}
  Foreign = {d}
  Restarting = {a, c}
  All = All
  Routing <- Patchy
  Workload <- Both
  Ttl = 1
  LruSize = 1
  Faulty = TRUE
  MaxSeq = 1
  MaxEpoch = 1
  MaxLog = 3
INVARIANTS TypeOK DedupWindow TrueMeansHeard
CHECK_DEADLOCK FALSE
