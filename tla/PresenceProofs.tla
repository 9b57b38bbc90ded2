--------------------------- MODULE PresenceProofs ---------------------------
(***************************************************************************)
(* Proofs about one VoidPresence in an arbitrary network, for any sets of  *)
(* peers, topics, names and data and any bootstrap responses.  The lemmas  *)
(* about its handlers are those of PresenceLemmas.                         *)
(***************************************************************************)
EXTENDS Presence, PresenceLemmas

\* The inductive invariant.
IInv == Settled(st) /\ st.me = Me

------------------------------------------------------------------------------
(* The specification. *)

\* The constructor establishes the inductive invariant.
LEMMA InitSettled == Init => IInv
BY NewStateSettled, MeAssumption DEF Init, IInv

\* Every step that names another peer keeps it.
LEMMA FromPeerKeeps ==
  ASSUME IInv, NEW p \in Others, FromPeer(p)
  PROVE  IInv'
<1>1. Settled(st) /\ st.me = Me /\ p \in Peer /\ p # st.me
  BY DEF IInv, Others
<1>2. SUFFICES Keeps(st', st)
  BY <1>1 DEF IInv, Keeps
<1>3. CASE PeerAdd(p)
  BY <1>1, <1>3, OnPeerAddKeeps DEF PeerAdd
<1>4. CASE PeerDrop(p) \/ DestroyTimer(p)
  BY <1>1, <1>4, OnPeerDropKeeps DEF PeerDrop, DestroyTimer
<1>5. CASE RecvPersistent(p)
  BY <1>1, <1>5, OnPersistentKeeps DEF RecvPersistent
<1>6. CASE RecvConnected(p)
  BY <1>1, <1>6, OnConnectedKeeps DEF RecvConnected
<1>7. CASE RecvDisconnected(p)
  BY <1>1, <1>7, OnDisconnectedKeeps DEF RecvDisconnected
<1>8. CASE RecvTopicJoin(p)
  BY <1>1, <1>8, OnTopicJoinKeeps DEF RecvTopicJoin
<1>9. CASE RecvTopicLeave(p)
  BY <1>1, <1>9, OnTopicLeaveKeeps DEF RecvTopicLeave
<1>10. CASE RecvUserData(p)
  BY <1>1, <1>10, OnUserDataKeeps DEF RecvUserData
<1>11. CASE RecvBroadcast(p) \/ RecvBootstrapRequest(p) \/ AppSend(p) \/ QueryPeer(p)
  BY <1>1, <1>11, GetPeerStateKeeps
     DEF RecvBroadcast, OnAppBroadcast, RecvBootstrapRequest, AppSend, SendTo, QueryPeer
<1>. QED BY <1>3, <1>4, <1>5, <1>6, <1>7, <1>8, <1>9, <1>10, <1>11
       DEF FromPeer, Unannounced

\* Every other step keeps it.
LEMMA LocalKeeps ==
  ASSUME IInv, Local
  PROVE  IInv'
<1>1. Settled(st) /\ st.me = Me
  BY DEF IInv
<1>2. SUFFICES Keeps(st', st)
  BY <1>1 DEF IInv, Keeps
<1>3. CASE RecvBootstrapResponse
  BY <1>1, <1>3, BootstrapKeeps, SnapshotsAssumption DEF RecvBootstrapResponse
<1>4. CASE DhtState
  BY <1>1, <1>4, OnStateKeeps DEF DhtState
<1>5. CASE \E t \in Topic, n \in TopicName, client, server \in BOOLEAN :
             Join(t, n, client, server)
  BY <1>1, <1>5, OnJoinKeeps DEF Join
<1>6. CASE \E t \in Topic : Leave(t)
  BY <1>1, <1>6, OnLeaveKeeps DEF Leave
<1>7. CASE NewUserData
  BY <1>1, <1>7, SetUserDataKeeps DEF NewUserData
<1>8. CASE AppBroadcast
  BY <1>1, <1>8, BroadcastKeeps DEF AppBroadcast, Keeps
<1>. QED BY <1>3, <1>4, <1>5, <1>6, <1>7, <1>8 DEF Local

\* The inductive step.
LEMMA NextSettled == IInv /\ [Next]_st => IInv'
<1>. SUFFICES ASSUME IInv, [Next]_st PROVE IInv'
  OBVIOUS
<1>1. CASE Local
  BY <1>1, LocalKeeps
<1>2. CASE \E p \in Others : FromPeer(p)
  BY <1>2, FromPeerKeeps
<1>3. CASE UNCHANGED st
  BY <1>3 DEF IInv
<1>. QED BY <1>1, <1>2, <1>3 DEF Next

\* The inductive invariant: every handler leaves the state settled.
THEOREM SpecSettled == Spec => []IInv
BY InitSettled, NextSettled, PTL DEF Spec

\* The fields of a VoidPresence keep their types (presence.ts:103-123).
THEOREM SpecTypeOK == Spec => []TypeOK
<1>1. IInv => TypeOK
  BY DEF IInv, Settled, Sound, TypeOK
<1>. QED BY <1>1, SpecSettled, PTL

\* "online" is exactly what has a path to this node, after every handler
\* (_recalculate, presence.ts:193-219).
THEOREM SpecOnlineExact == Spec => []OnlineExact
<1>1. IInv => OnlineExact
  <2>. SUFFICES ASSUME IInv PROVE OnlineExact
    OBVIOUS
  <2>1. st.edges \in SUBSET SUBSET Peer
    BY DEF IInv, Settled, Sound, State, Edges
  <2>2. Me \in Reach(Me, st.edges)
    BY <2>1, MeAssumption, ReachClosed
  <2>. QED BY <2>2 DEF IInv, Settled, Sound, OnlineExact
<1>. QED BY <1>1, SpecSettled, PTL

\* No state refers to a closed socket (onpeeradd, onpeerdrop and getPeerState,
\* presence.ts:33-73 and 394-484).
THEOREM SpecSocketIsLive == Spec => []SocketIsLive
<1>1. IInv => SocketIsLive
  BY DEF IInv, Settled, Sound, SocketIsLive
<1>. QED BY <1>1, SpecSettled, PTL

\* A topic with a positive count is listed (topics.ts:67-89).
THEOREM SpecCountedIsListed == Spec => []CountedIsListed
<1>1. IInv => CountedIsListed
  BY DEF IInv, Settled, Sound, CountedIsListed
<1>. QED BY <1>1, SpecSettled, PTL

------------------------------------------------------------------------------
(* What the node believes of its peers.                                    *)

\* Every step that another peer causes is hearsay, unless it is a packet of
\* that peer about its own state.
LEMMA FromPeerHearsay ==
  ASSUME IInv, NEW p \in Others, FromPeer(p)
  PROVE  \/ Hearsay(st', st)
         \/ RecvTopicJoin(p) \/ RecvTopicLeave(p) \/ RecvUserData(p) \/ RecvPersistent(p)
<1>1. Settled(st) /\ st.me = Me /\ p \in Peer /\ p # st.me
  BY DEF IInv, Others
<1>2. CASE PeerAdd(p)
  BY <1>1, <1>2, OnPeerAddHearsay DEF PeerAdd
<1>3. CASE PeerDrop(p) \/ DestroyTimer(p)
  BY <1>1, <1>3, OnPeerDropHearsay DEF PeerDrop, DestroyTimer
<1>5. CASE RecvConnected(p)
  BY <1>1, <1>5, PacketHearsay DEF RecvConnected
<1>6. CASE RecvDisconnected(p)
  BY <1>1, <1>6, PacketHearsay DEF RecvDisconnected
<1>7. CASE RecvBroadcast(p) \/ RecvBootstrapRequest(p) \/ AppSend(p) \/ QueryPeer(p)
  BY <1>1, <1>7, PacketHearsay
     DEF RecvBroadcast, OnAppBroadcast, RecvBootstrapRequest, AppSend, SendTo, QueryPeer
<1>. QED BY <1>2, <1>3, <1>5, <1>6, <1>7 DEF FromPeer, Unannounced

\* The node's own calls change no other peer and no hashtag.
LEMMA LocalOnly ==
  ASSUME IInv, Local
  PROVE  \/ RecvBootstrapResponse
         \/ Hearsay(st', st)
         \/ st'.topics = st.topics /\ \A q \in Others : st'.attr[q] = st.attr[q]
<1>1. Settled(st) /\ st.me = Me /\ Hearsay(st, st)
  BY DEF IInv, Hearsay, Like
<1>2. CASE DhtState
  <2>1. PICK eph \in BOOLEAN : st' = OnState(st, eph)
    BY <1>2 DEF DhtState
  <2>2. /\ OnState(st, eph).topics = st.topics
        /\ \A q \in Peer \ {st.me} : OnState(st, eph).attr[q] = st.attr[q]
    BY <1>1, OwnFlagsOnly
  <2>. QED BY <1>1, <2>1, <2>2 DEF Others
<1>6. CASE NewUserData
  <2>1. PICK d \in Data : st' = SetUserData(st, d)
    BY <1>6 DEF NewUserData
  <2>2. /\ SetUserData(st, d).topics = st.topics
        /\ \A q \in Peer \ {st.me} : SetUserData(st, d).attr[q] = st.attr[q]
    BY <1>1, OwnFlagsOnly
  <2>. QED BY <1>1, <2>1, <2>2 DEF Others
<1>3. CASE AppBroadcast
  BY <1>1, <1>3, BroadcastHearsay DEF AppBroadcast
<1>4. CASE \E t \in Topic, n \in TopicName, client, server \in BOOLEAN :
             Join(t, n, client, server)
  <2>1. PICK t \in Topic, n \in TopicName, c \in BOOLEAN, v \in BOOLEAN :
          st' = OnJoin(st, t, n, c, v)
    BY <1>4 DEF Join
  <2>2. st'.topics = st.topics /\ \A q \in Peer \ {Me} : st'.attr[q] = st.attr[q]
    BY <1>1, <2>1, OnJoinOnly
  <2>. QED BY <2>2 DEF Others
<1>5. CASE \E t \in Topic : Leave(t)
  <2>1. PICK t \in Topic : st' = OnLeave(st, t)
    BY <1>5 DEF Leave
  <2>2. st'.topics = st.topics /\ \A q \in Peer \ {Me} : st'.attr[q] = st.attr[q]
    BY <1>1, <2>1, OnLeaveOnly
  <2>. QED BY <2>2 DEF Others
<1>. QED BY <1>2, <1>3, <1>4, <1>5, <1>6 DEF Local

\* No step of the node unlearns a hashtag, or replaces one by another
\* (topics.ts:83-89 and the set() calls of presence.ts:285-288).
THEOREM SpecNameKept == Spec => NameKept
<1>. DEFINE Kept == \A t \in Topic :
                      st.topics.store[t] \in Name
                        => st'.topics.store[t] \in {st.topics.store[t], Absent}
<1>1. IInv /\ [Next]_st => [Kept]_st
  <2>. SUFFICES ASSUME IInv, Next, NEW t \in Topic, st.topics.store[t] \in Name
                PROVE  st'.topics.store[t] \in {st.topics.store[t], Absent}
    OBVIOUS
  <2>1. Settled(st) /\ st.me = Me /\ st.topics \in TopicMap
    BY DEF IInv, Settled, Sound, State
  <2>2. CASE st'.topics = st.topics
    BY <2>2
  <2>3. CASE Local
    <3>1. CASE RecvBootstrapResponse
      BY <2>1, <3>1, BootstrapOnly, SnapshotsAssumption DEF RecvBootstrapResponse
    <3>. QED BY <2>2, <2>3, <3>1, LocalOnly DEF Hearsay
  <2>4. CASE \E p \in Others : FromPeer(p)
    <3>1. PICK p \in Others : FromPeer(p)
      BY <2>4
    <3>2. p \in Peer /\ \E q \in Peer : q \in Peer \ {p}
      BY MeAssumption DEF Others
    <3>3. CASE RecvTopicJoin(p)
      <4>1. PICK m \in TopicJoinPkt : st' = OnTopicJoin(st, p, m)
        BY <3>3 DEF RecvTopicJoin
      <4>2. st'.topics = TopicsSet(st.topics, m.topic, m.name)
        BY <2>1, <3>2, <4>1, SenderOnly
      <4>3. m.topic \in Topic /\ m.name \in TopicName
        BY DEF TopicJoinPkt
      <4>. QED BY <2>1, <4>2, <4>3, TopicsKeepName
    <3>4. CASE RecvTopicLeave(p)
      <4>1. PICK m \in TopicLeavePkt : st' = OnTopicLeave(st, p, m)
        BY <3>4 DEF RecvTopicLeave
      <4>2. st'.topics = TopicsDelete(st.topics, m.topic)
        BY <2>1, <3>2, <4>1, SenderOnly
      <4>3. m.topic \in Topic
        BY DEF TopicLeavePkt
      <4>. QED BY <2>1, <4>2, <4>3, TopicsKeepName
    <3>5. CASE RecvUserData(p)
      BY <2>1, <2>2, <3>2, <3>5, SenderOnly DEF RecvUserData
    <3>6. CASE RecvPersistent(p)
      BY <2>1, <2>2, <3>2, <3>6, SenderOnly DEF RecvPersistent
    <3>. QED BY <2>2, <3>1, <3>3, <3>4, <3>5, <3>6, FromPeerHearsay DEF Hearsay
  <2>. QED BY <2>3, <2>4 DEF Next
<1>. QED BY <1>1, SpecSettled, PTL DEF Spec, NameKept

\* Once bootstrapped, a peer's subscriptions and data change only by its own
\* packets or by forgetting the peer (_bootstrap, presence.ts:254-283).
THEOREM SpecFirstHand == Spec => FirstHand
<1>. DEFINE Firm(p) ==
              \/ /\ st'.attr[p].lookingup  = st.attr[p].lookingup
                 /\ st'.attr[p].announcing = st.attr[p].announcing
                 /\ st'.attr[p].data       = st.attr[p].data
              \/ st'.attr[p] = Fresh(FALSE)
              \/ RecvTopicJoin(p) \/ RecvTopicLeave(p) \/ RecvUserData(p)
<1>1. IInv /\ [Next]_st => [st.bootstrapped => \A p \in Others : Firm(p)]_st
  <2>. SUFFICES ASSUME IInv, Next, st.bootstrapped, NEW p \in Others
                PROVE  Firm(p)
    OBVIOUS
  <2>1. Settled(st) /\ st.me = Me /\ p \in Peer
    BY DEF IInv, Others
  <2>2. CASE Hearsay(st', st)
    BY <2>1, <2>2 DEF Hearsay, Like
  <2>3. CASE Local
    <3>1. CASE RecvBootstrapResponse
      <4>1. st' = st
        BY <2>1, <3>1, BootstrapOnly, SnapshotsAssumption DEF RecvBootstrapResponse
      <4>. QED BY <4>1
    <3>. QED BY <2>2, <2>3, <3>1, LocalOnly
  <2>4. CASE \E q \in Others : FromPeer(q)
    <3>1. PICK q \in Others : FromPeer(q)
      BY <2>4
    <3>2. CASE RecvTopicJoin(q) \/ RecvTopicLeave(q) \/ RecvUserData(q) \/ RecvPersistent(q)
      <4>1. CASE q = p
        <5>1. CASE RecvPersistent(p)
          <6>1. PICK m \in PersistentPkt : st' = OnPersistent(st, p, m)
            BY <5>1 DEF RecvPersistent
          <6>2. st'.attr[p] = [st.attr[p] EXCEPT !.ephemeral = m.ephemeral]
            BY <2>1, <6>1, SenderFlags
          <6>3. st.attr[p] \in Attr
            BY <2>1 DEF Settled, Sound, State
          <6>. QED BY <6>2, <6>3 DEF Attr
        <5>. QED BY <3>2, <4>1, <5>1
      <4>2. CASE q # p
        <5>1. q \in Peer /\ p \in Peer \ {q}
          BY <2>1, <4>2 DEF Others
        <5>2. st'.attr[p] = st.attr[p]
          BY <2>1, <3>2, <5>1, SenderOnly
             DEF RecvTopicJoin, RecvTopicLeave, RecvUserData, RecvPersistent
        <5>. QED BY <5>2
      <4>. QED BY <4>1, <4>2
    <3>. QED BY <2>2, <3>1, <3>2, FromPeerHearsay
  <2>. QED BY <2>3, <2>4 DEF Next
<1>. QED BY <1>1, SpecSettled, PTL DEF Spec, FirstHand
==============================================================================
