\* Two connected nodes seen from a third one; one packet overtakes another.
SPECIFICATION Spec
CONSTANTS
  n1 = n1
  n2 = n2
  n3 = n3
  Pairs <- Chain
  Peer = {n1, n2, n3}
  Topic = {}
  Name = {}
  Null = Null
  Absent = Absent
  Data = {d0}
  EmptyData = d0
  Persistent = {n3}
  Carried <- ConnectionTypes
  MaxFlips = 3
  Faults = {"late"}
  MaxFaults = 1
INVARIANTS SettledIsAccurate
CHECK_DEADLOCK FALSE
