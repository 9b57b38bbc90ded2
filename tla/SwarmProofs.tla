----------------------------- MODULE SwarmProofs -----------------------------
(***************************************************************************)
(* Proofs about VoidSwarm: whatever the application does with join and     *)
(* leave, its presence behaves as Presence allows, so that every theorem   *)
(* about Presence is one about VoidSwarm; and calls of join and leave that *)
(* do not overtake each other leave the subscriptions that they ask for.   *)
(***************************************************************************)
EXTENDS Swarm, PresenceProofs, WireProofs

\* A step of VoidSwarm is a step of its presence, or leaves it alone.
LEMMA SwarmStep == SwarmNext => [Next]_st
<1>. SUFFICES ASSUME SwarmNext PROVE [Next]_st
  OBVIOUS
<1>1. ASSUME NEW t \in Topic, NEW n \in TopicName, NEW o \in JoinOptions, SwarmJoin(t, n, o)
      PROVE  Local
  <2>1. o.client \in BOOLEAN /\ o.server \in BOOLEAN
    BY JoinOptionsAssumption
  <2>. QED BY <1>1, <2>1 DEF SwarmJoin, Local
<1>2. ASSUME NEW t \in Topic, SwarmLeave(t) \/ LeaveDone(t)
      PROVE  Local \/ UNCHANGED st
  BY <1>2 DEF SwarmLeave, LeaveDone, Local
<1>3. ASSUME SwarmDhtState \/ SwarmUserData \/ Silent \/ \E p \in Others : SwarmPeerAdd(p)
      PROVE  Next
  BY <1>3 DEF SwarmDhtState, SwarmUserData, Silent, SwarmPeerAdd, Next, Local, FromPeer
<1>. QED BY <1>1, <1>2, <1>3 DEF SwarmNext, Next

\* VoidSwarm drives its presence only through the handlers and methods that
\* Presence models (index.ts:33-74, 91-122), whatever Hyperswarm does.
THEOREM SwarmImplementsPresence == SwarmSpec => Spec
<1>1. SwarmInit => Init
  BY DEF SwarmInit
<1>2. [SwarmNext]_vars => [Next]_st
  BY SwarmStep DEF vars
<1>. QED BY <1>1, <1>2, PTL DEF SwarmSpec, Spec

\* What Presence proves of its states holds in VoidSwarm.
LEMMA SwarmSettled == SwarmSpec => []IInv
BY SwarmImplementsPresence, SpecSettled, PTL

------------------------------------------------------------------------------
(* Subscriptions. *)

\* A pending leave that no join has overtaken is the last call.
CalmInv ==
  /\ leaving \in [Topic -> Nat]
  /\ asked \in [Topic -> Roles]
  /\ \A t \in Topic \ overtaken :
       /\ leaving[t] = 0 => RolesOf(st.attr[Me], t) = asked[t]
       /\ leaving[t] > 0 => asked[t] = None

\* What other peers and bootstrap responses say changes nothing that this
\* node says of itself.
LEMMA OwnKept ==
  ASSUME IInv, RecvBootstrapResponse \/ AppBroadcast \/ \E p \in Others : FromPeer(p)
  PROVE  Like(st'.attr[Me], st.attr[Me])
<1>1. Settled(st) /\ st.me = Me /\ Me \in Peer
  BY MeAssumption DEF IInv
<1>2. CASE Hearsay(st', st)
  BY <1>1, <1>2 DEF Hearsay
<1>3. CASE RecvBootstrapResponse
  <2>1. PICK b \in Snapshots : st' = Bootstrap(st, b)
    BY <1>3 DEF RecvBootstrapResponse
  <2>2. b \in Bootstraps
    BY SnapshotsAssumption
  <2>. QED BY <1>1, <2>1, <2>2, BootstrapOnly
<1>4. CASE AppBroadcast
  <2>1. Hearsay(st, st)
    BY DEF Hearsay, Like
  <2>. QED BY <1>1, <1>2, <1>4, <2>1, BroadcastHearsay DEF AppBroadcast
<1>5. CASE \E p \in Others : FromPeer(p)
  <2>1. PICK p \in Others : FromPeer(p)
    BY <1>5
  <2>2. CASE RecvTopicJoin(p) \/ RecvTopicLeave(p) \/ RecvUserData(p) \/ RecvPersistent(p)
    <3>1. p \in Peer /\ Me \in Peer \ {p}
      BY <1>1 DEF Others
    <3>2. st'.attr[Me] = st.attr[Me]
      BY <1>1, <2>2, <3>1, SenderOnly
         DEF RecvTopicJoin, RecvTopicLeave, RecvUserData, RecvPersistent
    <3>. QED BY <3>2 DEF Like
  <2>. QED BY <1>2, <2>1, <2>2, FromPeerHearsay
<1>. QED BY <1>3, <1>4, <1>5

\* The node's DHT and the setter of userData replace one field.
LEMMA OwnFlags ==
  ASSUME IInv
  PROVE  /\ DhtState => \E eph \in BOOLEAN :
              st'.attr[Me] = [st.attr[Me] EXCEPT !.ephemeral = eph]
         /\ NewUserData => \E d \in Data :
              st'.attr[Me] = [st.attr[Me] EXCEPT !.data = d]
<1>1. Settled(st) /\ st.me = Me
  BY DEF IInv
<1>2. ASSUME DhtState
      PROVE  \E eph \in BOOLEAN : st'.attr[Me] = [st.attr[Me] EXCEPT !.ephemeral = eph]
  <2>1. PICK eph \in BOOLEAN : st' = OnState(st, eph)
    BY <1>2 DEF DhtState
  <2>. QED BY <1>1, <2>1, OwnFlagsOnly
<1>3. ASSUME NewUserData
      PROVE  \E d \in Data : st'.attr[Me] = [st.attr[Me] EXCEPT !.data = d]
  <2>1. PICK d \in Data : st' = SetUserData(st, d)
    BY <1>3 DEF NewUserData
  <2>. QED BY <1>1, <2>1, OwnFlagsOnly
<1>. QED BY <1>2, <1>3

\* No step of the presence but join and leave touches this node's roles.
LEMMA OwnRolesKept ==
  ASSUME IInv,
         \/ RecvBootstrapResponse \/ DhtState \/ NewUserData \/ AppBroadcast
         \/ \E p \in Others : FromPeer(p)
  PROVE  \A t \in Topic : RolesOf(st'.attr[Me], t) = RolesOf(st.attr[Me], t)
<1>1. st.attr[Me] \in Attr
  BY OwnAttr DEF IInv
<1>2. CASE DhtState \/ NewUserData
  BY <1>1, <1>2, OwnFlags DEF Attr, RolesOf
<1>. QED BY <1>2, OwnKept DEF Like, RolesOf

\* join() asks for the roles that it gets.
LEMMA JoinCalm ==
  ASSUME IInv, CalmInv, NEW t \in Topic, NEW n \in TopicName, NEW o \in JoinOptions,
         SwarmJoin(t, n, o)
  PROVE  CalmInv'
<1>1. Settled(st) /\ st.me = Me /\ o.client \in BOOLEAN /\ o.server \in BOOLEAN
  BY JoinOptionsAssumption DEF IInv
<1>2. st' = OnJoin(st, t, n, o.client, o.server)
  BY DEF SwarmJoin, Join
<1>3. \A u \in Topic :
        /\ u # t => RolesOf(st'.attr[Me], u) = RolesOf(st.attr[Me], u)
        /\ u = t => RolesOf(st'.attr[Me], u) = Asked(n, o.client, o.server)
  <2>1. \A u \in Topic :
          /\ st'.attr[Me].lookingup[u] =
               IF u # t THEN st.attr[Me].lookingup[u] ELSE IF o.client THEN n ELSE Absent
          /\ st'.attr[Me].announcing[u] =
               IF u # t THEN st.attr[Me].announcing[u] ELSE IF o.server THEN n ELSE Absent
    BY <1>1, <1>2, OnJoinOnly
  <2>. QED BY <2>1 DEF RolesOf, Asked
<1>4. Asked(n, o.client, o.server) \in Roles
  BY <1>1 DEF Asked, Roles
<1>. QED BY <1>3, <1>4 DEF CalmInv, SwarmJoin

\* The end of a leave takes away every role.
LEMMA LeaveCalm ==
  ASSUME IInv, CalmInv, NEW t \in Topic, SwarmLeave(t) \/ LeaveDone(t)
  PROVE  CalmInv'
<1>1. Settled(st) /\ st.me = Me /\ None \in Roles
  BY DEF IInv, None, Roles
<1>2. CASE SwarmLeave(t)
  BY <1>1, <1>2 DEF CalmInv, SwarmLeave
<1>3. CASE LeaveDone(t)
  <2>1. st' = OnLeave(st, t)
    BY <1>3 DEF LeaveDone, Leave
  <2>2. \A u \in Topic :
          /\ u # t => RolesOf(st'.attr[Me], u) = RolesOf(st.attr[Me], u)
          /\ u = t => RolesOf(st'.attr[Me], u) = None
    BY <1>1, <2>1, OnLeaveOnly DEF RolesOf, None
  <2>. QED BY <1>3, <2>2 DEF CalmInv, LeaveDone
<1>. QED BY <1>2, <1>3

\* Once no leave of a topic is pending and no join has overtaken one, this
\* node's roles in the topic are those last asked for (index.ts:91-122,
\* presence.ts:602-631).
THEOREM SpecCalmlyAdvertised == SwarmSpec => []CalmlyAdvertised
<1>1. SwarmInit => CalmInv
  <2>. SUFFICES ASSUME SwarmInit PROVE CalmInv
    OBVIOUS
  <2>1. PICK d \in Data : st = NewState(Me, d)
    BY DEF SwarmInit, Init
  <2>2. st.attr[Me] = [Fresh(FALSE) EXCEPT !.data = d]
    BY <2>1, MeAssumption DEF NewState
  <2>3. \A t \in Topic : RolesOf(st.attr[Me], t) = None
    BY <2>2 DEF Fresh, NoSubs, RolesOf, None
  <2>. QED BY <2>3 DEF SwarmInit, CalmInv, None, Roles
<1>2. IInv /\ CalmInv /\ [SwarmNext]_vars => CalmInv'
  <2>. SUFFICES ASSUME IInv, CalmInv, [SwarmNext]_vars PROVE CalmInv'
    OBVIOUS
  <2>1. CASE \E t \in Topic, n \in TopicName, o \in JoinOptions : SwarmJoin(t, n, o)
    BY <2>1, JoinCalm
  <2>2. CASE \E t \in Topic : SwarmLeave(t) \/ LeaveDone(t)
    BY <2>2, LeaveCalm
  <2>3. CASE /\ SwarmDhtState \/ SwarmUserData \/ Silent \/ \E p \in Others : SwarmPeerAdd(p)
             /\ UNCHANGED <<leaving, asked, overtaken>>
    <3>1. \A t \in Topic : RolesOf(st'.attr[Me], t) = RolesOf(st.attr[Me], t)
      BY <2>3, OwnRolesKept
         DEF SwarmDhtState, SwarmUserData, Silent, SwarmPeerAdd, FromPeer
    <3>. QED BY <2>3, <3>1 DEF CalmInv
  <2>4. CASE UNCHANGED vars
    BY <2>4 DEF vars, CalmInv
  <2>. QED BY <2>1, <2>2, <2>3, <2>4 DEF SwarmNext
<1>3. CalmInv => CalmlyAdvertised
  BY DEF CalmInv, CalmlyAdvertised
<1>. QED BY <1>1, <1>2, <1>3, SwarmSettled, PTL DEF SwarmSpec

------------------------------------------------------------------------------
(* What other peers are told.                                              *)

\* encode() and decode() keep every entry of a bootstrap response apart from
\* what is not in it (messages.ts:9-94, schema.js:83-829, presence.ts:221-246).
THEOREM SpecAnswerSurvives == SwarmSpec => []AnswerSurvives
<1>1. IInv => AnswerSurvives
  <2>. SUFFICES ASSUME IInv PROVE AnswerSurvives
    OBVIOUS
  <2>. DEFINE b == Bootstrapper(st)
  <2>1. Settled(st) /\ st.nodes \in SUBSET Peer
    BY DEF IInv, Settled, Sound, State
  <2>2. b \in [st.nodes -> BootstrapPeer] /\ \A p \in st.nodes : Plain(b[p])
    BY <2>1, BootstrapperPlain
  <2>. HIDE DEF b
  <2>3. Decode(Encode(BootstrapResponse(b))).bootstrap = b
    BY <2>1, <2>2, ResponseSurvives
  <2>. QED BY <2>3 DEF AnswerSurvives, b
<1>. QED BY <1>1, SwarmSettled, PTL

\* A node that both serves and looks up a topic does so under one name.
OneName == RolesAgree(st.attr[Me])

\* Roles come from calls of join, both of a call with its name, and go together.
LEMMA OneNameKept == IInv /\ OneName /\ [SwarmNext]_vars => OneName'
<1>. SUFFICES ASSUME IInv, OneName, [SwarmNext]_vars PROVE OneName'
  OBVIOUS
<1>1. Settled(st) /\ st.me = Me
  BY DEF IInv
<1>2. ASSUME \A t \in Topic : RolesOf(st'.attr[Me], t) = RolesOf(st.attr[Me], t)
      PROVE  OneName'
  BY <1>2 DEF OneName, RolesAgree, RolesOf
<1>3. ASSUME NEW t \in Topic, NEW n \in TopicName, NEW o \in JoinOptions, SwarmJoin(t, n, o)
      PROVE  OneName'
  <2>1. o.client \in BOOLEAN /\ o.server \in BOOLEAN
    BY JoinOptionsAssumption
  <2>2. st' = OnJoin(st, t, n, o.client, o.server)
    BY <1>3 DEF SwarmJoin, Join
  <2>3. \A u \in Topic :
          /\ st'.attr[Me].lookingup[u] =
               IF u # t THEN st.attr[Me].lookingup[u] ELSE IF o.client THEN n ELSE Absent
          /\ st'.attr[Me].announcing[u] =
               IF u # t THEN st.attr[Me].announcing[u] ELSE IF o.server THEN n ELSE Absent
    BY <1>1, <2>1, <2>2, OnJoinOnly
  <2>. QED BY <2>3 DEF OneName, RolesAgree
<1>4. ASSUME NEW t \in Topic, LeaveDone(t) PROVE OneName'
  <2>1. st' = OnLeave(st, t)
    BY <1>4 DEF LeaveDone, Leave
  <2>2. \A u \in Topic :
          /\ st'.attr[Me].lookingup[u] = IF u = t THEN Absent ELSE st.attr[Me].lookingup[u]
          /\ st'.attr[Me].announcing[u] = IF u = t THEN Absent ELSE st.attr[Me].announcing[u]
    BY <1>1, <2>1, OnLeaveOnly
  <2>. QED BY <2>2 DEF OneName, RolesAgree
<1>5. CASE SwarmDhtState \/ SwarmUserData \/ Silent \/ \E p \in Others : SwarmPeerAdd(p)
  <2>1. \A t \in Topic : RolesOf(st'.attr[Me], t) = RolesOf(st.attr[Me], t)
    BY <1>5, OwnRolesKept DEF SwarmDhtState, SwarmUserData, Silent, SwarmPeerAdd, FromPeer
  <2>. QED BY <1>2, <2>1
<1>6. CASE (\E t \in Topic : SwarmLeave(t)) \/ UNCHANGED vars
  BY <1>6 DEF SwarmLeave, vars, OneName
<1>. QED BY <1>3, <1>4, <1>5, <1>6 DEF SwarmNext

\* A new node has no role, and its listener nothing to unlearn.
LEMMA FirstRoles ==
  ASSUME SwarmInit
  PROVE  /\ st.attr[Me] \in Attr /\ st.me = Me /\ Taken(st.attr[Me]) = {} /\ OneName
         /\ \A t \in Topic : RolesOf(Fresh(FALSE), t) = None
<1>1. PICK d \in Data : st = NewState(Me, d)
  BY DEF SwarmInit, Init
<1>2. st.attr[Me] = [Fresh(FALSE) EXCEPT !.data = d] /\ st.me = Me
  BY <1>1, MeAssumption DEF NewState
<1>3. \A t \in Topic : st.attr[Me].lookingup[t] = Absent /\ st.attr[Me].announcing[t] = Absent
  <2>1. st.attr[Me].lookingup = NoSubs /\ st.attr[Me].announcing = NoSubs
    BY <1>2 DEF Fresh
  <2>. QED BY <2>1 DEF NoSubs
<1>4. st.attr[Me] \in Attr
  BY <1>2, FreshType DEF Attr, Fresh
<1>5. \A t \in Topic : RolesOf(Fresh(FALSE), t) = None
  BY DEF Fresh, NoSubs, RolesOf, None
<1>. QED BY <1>2, <1>3, <1>4, <1>5 DEF Taken, OneName, RolesAgree

\* It stays so.
LEMMA SwarmOneName == SwarmSpec => []OneName
<1>1. SwarmInit => OneName
  BY FirstRoles
<1>. QED BY <1>1, OneNameKept, SwarmSettled, PTL DEF SwarmSpec

\* A peer that this node connects to knows it from then on, as a new record.
LEMMA FirstMet ==
  ASSUME NEW p \in Others, NEW r, r = OnPeerAdd(NewState(p, EmptyData), Me)
  PROVE  /\ Near(r, Me) /\ r.me = p /\ r.attr[Me] = Fresh(TRUE)
         /\ Me \in r.conns
<1>. DEFINE s == NewState(p, EmptyData)
<1>1. p \in Peer /\ Me \in Peer /\ p # Me
  BY MeAssumption DEF Others
<1>2. Settled(s) /\ s.me = p
  BY <1>1, DataAssumption, NewStateSettled
<1>3. s.nodes = {p}
  BY DEF NewState
<1>. HIDE DEF s
<1>4. Settled(r) /\ r.me = s.me /\ r.conns = s.conns \cup {Me}
  BY <1>1, <1>2, OnPeerAddKeeps DEF Keeps, s
<1>5. Edge(p, Me) \in r.edges /\ r.attr[Me] = Fresh(TRUE)
  <2>1. p \in Edge(p, Me)
    BY DEF Edge
  <2>. QED BY <1>1, <1>2, <1>3, <2>1, OnPeerAddOwn DEF s
<1>. QED BY <1>1, <1>2, <1>4, <1>5 DEF Near

\* onpeeradd tells a peer that knows nothing all there is to know of this node
\* (presence.ts:394-460), whatever this node has joined.
THEOREM SpecIntroduces == SwarmSpec => []Introduces
<1>1. IInv /\ OneName => Introduces
  <2>. SUFFICES ASSUME IInv, OneName, NEW p \in Others
                PROVE  LET new == Hearing(OnPeerAdd(NewState(p, EmptyData), Me), Me,
                                          Announcements(st, p))
                       IN  /\ Edge(Me, p) \in new.edges
                           /\ new.attr[Me] = [st.attr[Me] EXCEPT !.connection = TRUE,
                                                                 !.connected = {}]
    BY DEF Introduces
  <2>. DEFINE mine == st.attr[Me]
              r    == OnPeerAdd(NewState(p, EmptyData), Me)
              new  == Hearing(r, Me, Announcements(st, p))
              a    == new.attr[Me]
  <2>1. mine \in Attr /\ st.me = Me /\ RolesAgree(mine) /\ p \in Peer /\ p # Me
    BY OwnAttr DEF IInv, OneName, Others
  <2>2. Near(r, Me) /\ r.me = p /\ r.attr[Me] = Fresh(TRUE)
    BY FirstMet
  <2>. HIDE DEF r
  <2>3. /\ Near(new, Me) /\ new.me = r.me
        /\ Takes(a, r.attr[Me], mine, mine.ephemeral, mine.data, Taken(mine))
    BY <2>1, <2>2, AnnouncementsHeard
  <2>4. Edge(Me, p) \in new.edges
    BY <2>2, <2>3 DEF Near, Edge
  <2>. HIDE DEF new, a, mine
  <2>5. /\ a \in Attr /\ a.ephemeral = mine.ephemeral /\ a.data = mine.data
        /\ a.connection = TRUE /\ a.connected = {}
        /\ \A t \in Topic : /\ a.lookingup[t] = mine.lookingup[t]
                            /\ a.announcing[t] = mine.announcing[t]
    BY <2>2, <2>3 DEF Takes, Taken, Over, Fresh, NoSubs
  <2>6. a.lookingup = mine.lookingup /\ a.announcing = mine.announcing
    BY <2>1, <2>5 DEF Attr, SubMap
  <2>7. a = [mine EXCEPT !.connection = TRUE, !.connected = {}]
    BY <2>1, <2>5, <2>6 DEF Attr
  <2>. QED BY <2>4, <2>7 DEF a, mine, new, r
<1>. QED BY <1>1, SwarmSettled, SwarmOneName, PTL

------------------------------------------------------------------------------
(* The listener.                                                           *)

\* The listener, when it knows "a" of this node.
Ear(a) == SetAttr(OnPeerAdd(NewState(Ears, EmptyData), Me), Me, a)

\* It is connected to this node.
LEMMA EarNear ==
  ASSUME NEW a \in Attr
  PROVE  Near(Ear(a), Me) /\ Ear(a).attr[Me] = a /\ Ears \in Others
<1>. DEFINE r == OnPeerAdd(NewState(Ears, EmptyData), Me)
<1>1. Ears \in Others
  BY OthersAssumption DEF Ears
<1>2. Near(r, Me) /\ Me \in r.conns
  BY <1>1, FirstMet
<1>. HIDE DEF r
<1>3. Me \in r.nodes /\ Settled(r) /\ Me \in Peer
  BY <1>2, NearNode DEF Near
<1>4. /\ Settled(SetAttr(r, Me, a)) /\ Same(SetAttr(r, Me, a), r)
      /\ SetAttr(r, Me, a).attr = [r.attr EXCEPT ![Me] = a]
  BY <1>2, <1>3, SetAttrSettled
<1>5. SetAttr(r, Me, a).edges = r.edges /\ r.attr \in [Peer -> Attr]
  BY <1>3 DEF SetAttr, Settled, Sound, State
<1>. QED BY <1>1, <1>2, <1>3, <1>4, <1>5 DEF Ear, Near, Same, r

\* What it makes of one packet.
LEMMA HearOne ==
  ASSUME NEW a \in Attr, NEW m, NEW b, Learns(OnBroadcast(Ear(a), Me, Encode(m)), Ear(a), Me, b)
  PROVE  Hear(a, <<m>>) = b /\ b \in Attr
<1>. DEFINE r == OnBroadcast(Ear(a), Me, Encode(m))
<1>1. Hearing(Ear(a), Me, <<m>>) = r
  BY HearingOne
<1>2. Near(r, Me) /\ r.attr[Me] = b
  BY DEF Learns
<1>. HIDE DEF r
<1>3. b \in Attr
  BY <1>2, NearNode
<1>. QED BY <1>1, <1>2, <1>3 DEF Hear, Ear

\* The flag and the data.
LEMMA HearFlags ==
  ASSUME NEW a \in Attr
  PROVE  /\ \A b \in BOOLEAN : /\ Hear(a, <<Persistence(b)>>) = [a EXCEPT !.ephemeral = b]
                               /\ Hear(a, <<Persistence(b)>>) \in Attr
         /\ \A d \in Data : /\ Hear(a, <<Advertise(d)>>) = [a EXCEPT !.data = d]
                            /\ Hear(a, <<Advertise(d)>>) \in Attr
<1>1. Near(Ear(a), Me) /\ Ear(a).attr[Me] = a
  BY EarNear
<1>2. ASSUME NEW b \in BOOLEAN
      PROVE  /\ Hear(a, <<Persistence(b)>>) = [a EXCEPT !.ephemeral = b]
             /\ [a EXCEPT !.ephemeral = b] \in Attr
  <2>1. Learns(OnBroadcast(Ear(a), Me, Encode(Persistence(b))), Ear(a), Me,
               [Ear(a).attr[Me] EXCEPT !.ephemeral = b])
    BY <1>1, NearFlags
  <2>. QED BY <1>1, <2>1, HearOne
<1>3. ASSUME NEW d \in Data
      PROVE  Hear(a, <<Advertise(d)>>) = [a EXCEPT !.data = d] /\ [a EXCEPT !.data = d] \in Attr
  <2>1. Learns(OnBroadcast(Ear(a), Me, Encode(Advertise(d))), Ear(a), Me,
               [Ear(a).attr[Me] EXCEPT !.data = d])
    BY <1>1, NearFlags
  <2>. QED BY <1>1, <2>1, HearOne
<1>. QED BY <1>2, <1>3

\* The roles in a topic.
LEMMA HearRoles ==
  ASSUME NEW a \in Attr, NEW t \in Topic, NEW n \in TopicName,
         NEW client \in BOOLEAN, NEW server \in BOOLEAN
  PROVE  /\ Hear(a, <<TopicJoin(t, n, client, server)>>) =
              WithRoles(a, t, IF client THEN n ELSE a.lookingup[t],
                              IF server THEN n ELSE a.announcing[t])
         /\ Hear(a, <<TopicJoin(t, n, client, server)>>) \in Attr
         /\ Hear(a, <<TopicLeave(t)>>) = WithRoles(a, t, Absent, Absent)
         /\ Hear(a, <<TopicLeave(t)>>) \in Attr
<1>1. Near(Ear(a), Me) /\ Ear(a).attr[Me] = a
  BY EarNear
<1>. DEFINE look == IF client THEN n ELSE a.lookingup[t]
            ann  == IF server THEN n ELSE a.announcing[t]
<1>2. /\ Learns(OnBroadcast(Ear(a), Me, Encode(TopicJoin(t, n, client, server))), Ear(a), Me,
                WithRoles(a, t, look, ann))
      /\ Learns(OnBroadcast(Ear(a), Me, Encode(TopicLeave(t))), Ear(a), Me,
                WithRoles(a, t, Absent, Absent))
  BY <1>1, NearRoles
<1>. HIDE DEF look, ann
<1>3. /\ Hear(a, <<TopicJoin(t, n, client, server)>>) = WithRoles(a, t, look, ann)
      /\ WithRoles(a, t, look, ann) \in Attr
      /\ Hear(a, <<TopicLeave(t)>>) = WithRoles(a, t, Absent, Absent)
      /\ WithRoles(a, t, Absent, Absent) \in Attr
  BY <1>2, HearOne
<1>. QED BY <1>3 DEF look, ann

\* All that onpeeradd announces.
LEMMA HearAll ==
  ASSUME st.attr[Me] \in Attr, st.me = Me, OneName, NEW a \in Attr, NEW p \in Others
  PROVE  Takes(Hear(a, Announcements(st, p)), a, st.attr[Me], st.attr[Me].ephemeral,
               st.attr[Me].data, Taken(st.attr[Me]))
<1>1. Near(Ear(a), Me) /\ Ear(a).attr[Me] = a /\ p \in Peer /\ p # Me
  BY EarNear DEF Others
<1>. DEFINE q == Hearing(Ear(a), Me, Announcements(st, p))
<1>2. Takes(q.attr[Me], Ear(a).attr[Me], st.attr[Me], st.attr[Me].ephemeral,
            st.attr[Me].data, Taken(st.attr[Me]))
  BY <1>1, AnnouncementsHeard DEF OneName
<1>. QED BY <1>1, <1>2 DEF Hear, Ear

\* What "a" knows of the attributes "mine".
Covers(a, mine) ==
  /\ a \in Attr
  /\ a.ephemeral = mine.ephemeral
  /\ a.data = mine.data
  /\ \A t \in Topic :
       /\ mine.lookingup[t] # Absent => a.lookingup[t] = mine.lookingup[t]
       /\ mine.announcing[t] # Absent => a.announcing[t] = mine.announcing[t]

\* It has the roles that were claimed.
Matches == claimed \in [Topic -> Roles] /\ \A t \in Topic : RolesOf(listener, t) = claimed[t]
ListenInv == Covers(listener, st.attr[Me]) /\ Matches

\* A list of announcements tells everything, whatever was known before.
LEMMA TakesCovers ==
  ASSUME NEW a, NEW old, NEW mine, Takes(a, old, mine, mine.ephemeral, mine.data, Taken(mine))
  PROVE  Covers(a, mine)
BY DEF Takes, Covers, Taken, Over

\* ... and adds no role to one who knew them.
LEMMA TakesRoles ==
  ASSUME NEW a, NEW old, NEW mine, NEW eph, NEW d, Takes(a, old, mine, eph, d, Taken(mine)),
         Covers(old, mine), NEW t \in Topic
  PROVE  RolesOf(a, t) = RolesOf(old, t)
<1>1. /\ a.lookingup[t]  = IF t \in Taken(mine) THEN Over(mine.lookingup[t], old.lookingup[t])
                           ELSE old.lookingup[t]
      /\ a.announcing[t] = IF t \in Taken(mine) THEN Over(mine.announcing[t], old.announcing[t])
                           ELSE old.announcing[t]
  BY DEF Takes
<1>2. a.lookingup[t] = old.lookingup[t] /\ a.announcing[t] = old.announcing[t]
  BY <1>1 DEF Covers, Over
<1>. QED BY <1>2 DEF RolesOf

\* The listener hears every change of what this node says of itself.
LEMMA ListenKept == IInv /\ OneName /\ ListenInv /\ [SwarmNext]_vars => ListenInv'
<1>. SUFFICES ASSUME IInv, OneName, ListenInv, [SwarmNext]_vars PROVE ListenInv'
  OBVIOUS
<1>. DEFINE mine == st.attr[Me]
<1>1. Settled(st) /\ st.me = Me /\ mine \in Attr
  BY OwnAttr DEF IInv
<1>2. /\ listener \in Attr /\ listener.lookingup \in SubMap /\ listener.announcing \in SubMap
      /\ Covers(listener, mine)
  BY DEF ListenInv, Covers, Attr
<1>11. claimed \in [Topic -> Roles] /\ \A t \in Topic : RolesOf(listener, t) = claimed[t]
  BY DEF ListenInv, Matches
<1>3. ASSUME NEW look \in TopicName \cup {Absent}, NEW ann \in TopicName \cup {Absent},
             NEW t \in Topic
      PROVE  LET a == WithRoles(listener, t, look, ann)
             IN  /\ a.ephemeral = listener.ephemeral /\ a.data = listener.data
                 /\ \A u \in Topic :
                      /\ a.lookingup[u] = IF u = t THEN look ELSE listener.lookingup[u]
                      /\ a.announcing[u] = IF u = t THEN ann ELSE listener.announcing[u]
  BY <1>2 DEF WithRoles, SetSubs, Attr, SubMap
<1>4. ASSUME NEW t \in Topic, NEW n \in TopicName, NEW o \in JoinOptions, SwarmJoin(t, n, o)
      PROVE  ListenInv'
  <2>. DEFINE look == IF o.client THEN n ELSE listener.lookingup[t]
              ann  == IF o.server THEN n ELSE listener.announcing[t]
  <2>1. o.client \in BOOLEAN /\ o.server \in BOOLEAN
    BY JoinOptionsAssumption
  <2>2. listener' = WithRoles(listener, t, look, ann) /\ listener' \in Attr
    BY <1>2, <1>4, <2>1, HearRoles DEF SwarmJoin
  <2>3. look \in TopicName \cup {Absent} /\ ann \in TopicName \cup {Absent}
    BY <1>2 DEF SubMap
  <2>4. st' = OnJoin(st, t, n, o.client, o.server)
    BY <1>4 DEF SwarmJoin, Join
  <2>5. /\ \A u \in Topic :
             /\ st'.attr[Me].lookingup[u] =
                  IF u # t THEN mine.lookingup[u] ELSE IF o.client THEN n ELSE Absent
             /\ st'.attr[Me].announcing[u] =
                  IF u # t THEN mine.announcing[u] ELSE IF o.server THEN n ELSE Absent
        /\ st'.attr[Me].ephemeral = mine.ephemeral /\ st'.attr[Me].data = mine.data
    BY <1>1, <2>1, <2>4, OnJoinOnly
  <2>. HIDE DEF mine, look, ann
  <2>6. /\ listener'.ephemeral = listener.ephemeral /\ listener'.data = listener.data
        /\ \A u \in Topic :
             /\ listener'.lookingup[u] = IF u = t THEN look ELSE listener.lookingup[u]
             /\ listener'.announcing[u] = IF u = t THEN ann ELSE listener.announcing[u]
    BY <1>3, <2>2, <2>3
  <2>7. Covers(listener', st'.attr[Me])
    BY <1>2, <2>2, <2>5, <2>6 DEF Covers, look, ann
  <2>8. Matches'
    <3>1. claimed' = [claimed EXCEPT ![t].lookingup  = IF o.client THEN n ELSE claimed[t].lookingup,
                                     ![t].announcing = IF o.server THEN n ELSE claimed[t].announcing]
      BY <1>4 DEF SwarmJoin
    <3>2. claimed[t].lookingup = listener.lookingup[t] /\ claimed[t].announcing = listener.announcing[t]
      <4>1. claimed[t] = RolesOf(listener, t)
        BY <1>11
      <4>. QED BY <4>1 DEF RolesOf
    <3>3. claimed[t] \in Roles
      BY <1>11
    <3>4. claimed'[t] = [lookingup |-> look, announcing |-> ann]
      BY <1>11, <3>1, <3>2, <3>3 DEF look, ann, Roles
    <3>5. \A u \in Topic \ {t} : claimed'[u] = claimed[u]
      BY <1>11, <3>1
    <3>6. [lookingup |-> look, announcing |-> ann] \in Roles
      BY <2>3 DEF Roles
    <3>7. claimed' \in [Topic -> Roles]
      BY <1>11, <3>1, <3>4, <3>5, <3>6
    <3>8. ASSUME NEW u \in Topic PROVE RolesOf(listener', u) = claimed'[u]
      <4>1. CASE u = t
        BY <2>6, <3>4, <4>1 DEF RolesOf
      <4>2. CASE u # t
        BY <1>11, <2>6, <3>5, <4>2 DEF RolesOf
      <4>. QED BY <4>1, <4>2
    <3>. QED BY <3>7, <3>8 DEF Matches
  <2>. QED BY <2>7, <2>8 DEF ListenInv
<1>5. ASSUME NEW t \in Topic, LeaveDone(t) PROVE ListenInv'
  <2>1. listener' = WithRoles(listener, t, Absent, Absent) /\ listener' \in Attr
    <3>1. Null \in TopicName /\ TRUE \in BOOLEAN
      BY DEF TopicName
    <3>. QED BY <1>2, <1>5, <3>1, HearRoles DEF LeaveDone
  <2>2. st' = OnLeave(st, t)
    BY <1>5 DEF LeaveDone, Leave
  <2>3. /\ \A u \in Topic :
             /\ st'.attr[Me].lookingup[u] = IF u = t THEN Absent ELSE mine.lookingup[u]
             /\ st'.attr[Me].announcing[u] = IF u = t THEN Absent ELSE mine.announcing[u]
        /\ st'.attr[Me].ephemeral = mine.ephemeral /\ st'.attr[Me].data = mine.data
    BY <1>1, <2>2, OnLeaveOnly
  <2>. HIDE DEF mine
  <2>4. /\ listener'.ephemeral = listener.ephemeral /\ listener'.data = listener.data
        /\ \A u \in Topic :
             /\ listener'.lookingup[u] = IF u = t THEN Absent ELSE listener.lookingup[u]
             /\ listener'.announcing[u] = IF u = t THEN Absent ELSE listener.announcing[u]
    <3>. DEFINE a == WithRoles(listener, t, Absent, Absent)
    <3>1. /\ a.ephemeral = listener.ephemeral /\ a.data = listener.data
          /\ \A u \in Topic :
               /\ a.lookingup[u] = IF u = t THEN Absent ELSE listener.lookingup[u]
               /\ a.announcing[u] = IF u = t THEN Absent ELSE listener.announcing[u]
      BY <1>3
    <3>2. listener' = a
      BY <2>1
    <3>. HIDE DEF a
    <3>. QED BY <3>1, <3>2
  <2>5. Covers(listener', st'.attr[Me])
    BY <1>2, <2>1, <2>3, <2>4 DEF Covers
  <2>6. Matches'
    <3>1. claimed' = [claimed EXCEPT ![t] = None]
      BY <1>5 DEF LeaveDone
    <3>2. claimed' \in [Topic -> Roles]
      BY <1>11, <3>1 DEF None, Roles
    <3>3. ASSUME NEW u \in Topic PROVE RolesOf(listener', u) = claimed'[u]
      <4>1. CASE u = t
        BY <1>11, <2>4, <3>1, <4>1 DEF RolesOf, None
      <4>2. CASE u # t
        BY <1>11, <2>4, <3>1, <4>2 DEF RolesOf
      <4>. QED BY <4>1, <4>2
    <3>. QED BY <3>2, <3>3 DEF Matches
  <2>. QED BY <2>5, <2>6 DEF ListenInv
<1>6. ASSUME NEW p \in Others, SwarmPeerAdd(p), claimed' = claimed PROVE ListenInv'
  <2>1. Like(st'.attr[Me], mine)
    BY <1>6, OwnKept DEF SwarmPeerAdd, FromPeer
  <2>2. Takes(listener', listener, mine, mine.ephemeral, mine.data, Taken(mine))
    BY <1>1, <1>2, <1>6, HearAll DEF SwarmPeerAdd
  <2>3. Covers(listener', mine)
    BY <2>2, TakesCovers
  <2>4. \A t \in Topic : RolesOf(listener', t) = RolesOf(listener, t)
    BY <1>2, <2>2, TakesRoles
  <2>5. Covers(listener', st'.attr[Me])
    BY <2>1, <2>3 DEF Like, Covers
  <2>6. Matches'
    BY <1>11, <1>6, <2>4 DEF Matches
  <2>. QED BY <2>5, <2>6 DEF ListenInv
<1>7. CASE SwarmDhtState /\ claimed' = claimed
  <2>1. PICK eph \in BOOLEAN : st'.attr[Me] = [mine EXCEPT !.ephemeral = eph]
    BY <1>7, OwnFlags DEF SwarmDhtState
  <2>2. st'.attr[Me].ephemeral = eph
    BY <1>1, <2>1 DEF Attr
  <2>3. listener' = [listener EXCEPT !.ephemeral = eph] /\ listener' \in Attr
    BY <1>2, <1>7, <2>2, HearFlags DEF SwarmDhtState
  <2>4. Covers(listener', st'.attr[Me])
    BY <1>1, <1>2, <2>1, <2>3 DEF Covers, Attr
  <2>5. Matches'
    BY <1>2, <1>7, <1>11, <2>3 DEF Matches, RolesOf, Attr
  <2>. QED BY <2>4, <2>5 DEF ListenInv
<1>8. CASE SwarmUserData /\ claimed' = claimed
  <2>1. PICK d \in Data : st'.attr[Me] = [mine EXCEPT !.data = d]
    BY <1>8, OwnFlags DEF SwarmUserData
  <2>2. st'.attr[Me].data = d
    BY <1>1, <2>1 DEF Attr
  <2>3. listener' = [listener EXCEPT !.data = d] /\ listener' \in Attr
    BY <1>2, <1>8, <2>2, HearFlags DEF SwarmUserData
  <2>4. Covers(listener', st'.attr[Me])
    BY <1>1, <1>2, <2>1, <2>3 DEF Covers, Attr
  <2>5. Matches'
    BY <1>2, <1>8, <1>11, <2>3 DEF Matches, RolesOf, Attr
  <2>. QED BY <2>4, <2>5 DEF ListenInv
<1>9. CASE Silent /\ claimed' = claimed
  <2>1. Like(st'.attr[Me], mine) /\ listener' = listener
    BY <1>9, OwnKept DEF Silent, FromPeer
  <2>. QED BY <1>2, <1>9, <1>11, <2>1 DEF Like, Covers, Matches, ListenInv
<1>10. CASE (\E t \in Topic : SwarmLeave(t)) \/ UNCHANGED vars
  BY <1>10 DEF SwarmLeave, vars, ListenInv, Matches
<1>. QED BY <1>4, <1>5, <1>6, <1>7, <1>8, <1>9, <1>10 DEF SwarmNext

\* A peer that heard every packet of this node once and in order knows its flag,
\* its data and every role with its hashtag, and has no role that was not claimed
\* since the last leave (presence.ts:394-460, 602-669).
THEOREM SpecListenerCovers == SwarmSpec => []ListenerCovers
<1>1. SwarmInit => ListenInv
  <2>. SUFFICES ASSUME SwarmInit PROVE ListenInv
    OBVIOUS
  <2>1. st.attr[Me] \in Attr /\ st.me = Me /\ OneName
    BY FirstRoles
  <2>2. Fresh(FALSE) \in Attr /\ Ears \in Others
    BY FreshType, EarNear
  <2>3. Takes(listener, Fresh(FALSE), st.attr[Me], st.attr[Me].ephemeral, st.attr[Me].data,
              Taken(st.attr[Me]))
    BY <2>1, <2>2, HearAll DEF SwarmInit
  <2>4. \A t \in Topic : RolesOf(listener, t) = None
    BY <2>1, <2>3, FirstRoles DEF Takes, RolesOf
  <2>5. Matches
    <3>1. claimed = [t \in Topic |-> None] /\ None \in Roles
      BY DEF SwarmInit, None, Roles
    <3>. QED BY <2>4, <3>1 DEF Matches
  <2>. QED BY <2>3, <2>5, TakesCovers DEF ListenInv
<1>2. ListenInv => ListenerCovers
  BY DEF ListenInv, Covers, Matches, ListenerCovers
<1>. QED BY <1>1, <1>2, ListenKept, SwarmSettled, SwarmOneName, PTL DEF SwarmSpec
==============================================================================
