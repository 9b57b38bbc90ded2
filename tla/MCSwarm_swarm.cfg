\* One other peer and a topic with and without its hashtag; joins overtake leaves.
SPECIFICATION SwarmSpec
CONSTANTS
  Me = me
  Peer = {me, a}
  Topic = {t}
  Name = {n}
  Null = Null
  Absent = Absent
  Data = {d0, d1}
  EmptyData = d0
  MaxCount = 1
  MaxLeaves = 1
  JoinOptions <- AnyRole
  Snapshots <- Responses
INVARIANTS CalmlyAdvertised ListenerCovers Introduces AnswerSurvives
PROPERTIES NameKept
