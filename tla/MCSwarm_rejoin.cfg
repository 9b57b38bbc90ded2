\* A topic that is joined again while it is being left.
SPECIFICATION SwarmSpec
CONSTANTS
  Me = me
  Peer = {me, a}
  Topic = {t}
  Name = {}
  Null = Null
  Absent = Absent
  Data = {d0}
  EmptyData = d0
  MaxCount = 1
  MaxLeaves = 1
  JoinOptions <- DefaultRoles
  Snapshots <- Responses
INVARIANTS HeardAsAsked
