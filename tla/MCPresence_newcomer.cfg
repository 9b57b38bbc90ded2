\* What a newcomer learns from a bootstrap response.
SPECIFICATION Spec
CONSTANTS
  Me = me
  Peer = {me, a, b}
  Topic = {}
  Name = {}
  Null = Null
  Absent = Absent
  Data = {d0}
  EmptyData = d0
  MaxCount = 0
  Snapshots <- NoResponses
INVARIANTS NewcomerSees
