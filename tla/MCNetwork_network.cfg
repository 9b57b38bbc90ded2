\* Three nodes, three openings and closings; one packet may be late or lost, a node crash or wake up.
SPECIFICATION FairSpec
CONSTANTS
  n1 = n1
  n2 = n2
  n3 = n3
  Pairs <- Chain
  Peer = {n1, n2, n3}
  Topic = {}
  Name = {}
  Null = Null
  Absent = Absent
  Data = {d0}
  EmptyData = d0
  Persistent = {n3}
  Carried <- ConnectionTypes
  MaxFlips = 3
  Faults = {"late", "lost", "stop", "wake"}
  MaxFaults = 1
INVARIANTS NoInvention SettledInOrder
PROPERTIES EachIsPresence Converges
CHECK_DEADLOCK FALSE
