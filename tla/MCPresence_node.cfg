\* Two other peers and a topic: the graph, connections, timers and bootstrap.
SPECIFICATION Spec
CONSTANTS
  Me = me
  Peer = {me, a, b}
  Topic = {t}
  Name = {}
  Null = Null
  Absent = Absent
  Data = {d0}
  EmptyData = d0
  MaxCount = 2
  Snapshots <- Responses
SYMMETRY OthersSymmetry
INVARIANTS TypeOK OnlineExact SocketIsLive CountedIsListed
PROPERTIES FirstHand
