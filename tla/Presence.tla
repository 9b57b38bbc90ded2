------------------------------ MODULE Presence ------------------------------
(***************************************************************************)
(* One VoidPresence, "Me", in an arbitrary network: other peers connect,   *)
(* disconnect and gossip in any order, packets may be lost, repeated or    *)
(* late, and the application calls the public methods at any moment.       *)
(* One action per handler or method; each runs to completion because the   *)
(* program is single threaded.  What the node sends is not part of this    *)
(* module: the environment is already free to say anything.                *)
(***************************************************************************)
EXTENDS PresenceOps

CONSTANTS
    Me,         \* this node's public key
    Snapshots,  \* the bootstrap responses that may arrive
    MaxCount    \* bound on the topic counters (not in the code)

ASSUME MeAssumption == Me \in Peer
ASSUME SnapshotsAssumption == Snapshots \subseteq Bootstraps
ASSUME MaxCountAssumption == MaxCount \in Nat

VARIABLE st     \* the fields of VoidPresence

Others == Peer \ {Me}

Init == \E d \in Data : st = NewState(Me, d)

------------------------------------------------------------------------------
(* Hyperswarm reports connections.  It keeps at most one per peer. *)
PeerAdd(p)  == p \notin st.conns /\ st' = OnPeerAdd(st, p)
PeerDrop(p) == p \in st.conns /\ st' = OnPeerDrop(st, p)

\* The timer armed by onleave fires: the socket is destroyed and closes.
DestroyTimer(p) == p \in st.doomed /\ st' = OnPeerDrop(st, p)

------------------------------------------------------------------------------
(* Packets, by gossip or as a fallback (onfallback hands them to the same  *)
(* handlers).  The transport never delivers a packet of this node to       *)
(* itself, and no peer is connected to itself.                             *)
RecvPersistent(p) ==
  \E m \in PersistentPkt : st' = OnPersistent(st, p, m)
RecvConnected(p) ==
  \E m \in ConnectionPkt : /\ m.type = "CONNECTED" /\ m.peer # p
                           /\ st' = OnConnected(st, p, m)
RecvDisconnected(p) ==
  \E m \in ConnectionPkt : /\ m.type = "DISCONNECTED" /\ m.peer # p
                           /\ st' = OnDisconnected(st, p, m)
RecvTopicJoin(p) ==
  \E m \in TopicJoinPkt : /\ st.topics.counter[m.topic] < MaxCount
                          /\ st' = OnTopicJoin(st, p, m)
RecvTopicLeave(p) ==
  \E m \in TopicLeavePkt : /\ -MaxCount < st.topics.counter[m.topic]
                           /\ st' = OnTopicLeave(st, p, m)
RecvUserData(p) ==
  \E m \in UserDataPkt : st' = OnUserData(st, p, m)
RecvBroadcast(p) ==
  \E m \in BroadcastPkt : st' = OnAppBroadcast(st, p, m)

\* onmessage: a request is answered with send(), a response is taken in.
RecvBootstrapRequest(p) == st' = SendTo(st, p)
RecvBootstrapResponse ==
  \E b \in Snapshots :
    /\ \A t \in Topic : st.topics.counter[t] + Cardinality(DOMAIN b) <= MaxCount
    /\ st' = Bootstrap(st, b)

------------------------------------------------------------------------------
(* The node's own DHT and application. *)
DhtState     == \E eph \in BOOLEAN : st' = OnState(st, eph)
Join(t, n, client, server) == st' = OnJoin(st, t, n, client, server)
Leave(t)     == st' = OnLeave(st, t)
NewUserData  == \E d \in Data : st' = SetUserData(st, d)
AppBroadcast == st' = Broadcast(st)
AppSend(p)   == st' = SendTo(st, p)
\* getPeerEphemeral, getPeerTopics, getPeerConnectedTo, getPeerUserData, and
\* _shouldRequeue, which Hyperswarm asks: all of them only look the peer up.
QueryPeer(p) == st' = GetPeerState(st, p, FALSE)

\* The steps in which this node announces nothing about itself.
Unannounced(p) ==
  \/ PeerDrop(p) \/ DestroyTimer(p)
  \/ RecvPersistent(p) \/ RecvConnected(p) \/ RecvDisconnected(p)
  \/ RecvTopicJoin(p) \/ RecvTopicLeave(p) \/ RecvUserData(p)
  \/ RecvBroadcast(p) \/ RecvBootstrapRequest(p)
  \/ AppSend(p) \/ QueryPeer(p)

FromPeer(p) == PeerAdd(p) \/ Unannounced(p)

Local ==
  \/ RecvBootstrapResponse \/ DhtState \/ NewUserData \/ AppBroadcast
  \/ \E t \in Topic, n \in TopicName, client, server \in BOOLEAN :
       Join(t, n, client, server)
  \/ \E t \in Topic : Leave(t)

Next == Local \/ \E p \in Others : FromPeer(p)

Spec == Init /\ [][Next]_st

------------------------------------------------------------------------------
TypeOK == st \in State /\ st.me = Me

(* _recalculate runs after every change of an edge: the peers reported     *)
(* online are exactly those with a path to this node, this node is one of  *)
(* them, and an edge never outlives the reachability of its ends.          *)
OnlineExact ==
  /\ Me \in st.online
  /\ st.online = Reach(Me, st.edges)
  /\ st.online \subseteq st.nodes
  /\ \A e \in st.edges : e \subseteq st.online

(* A connection recorded in a peer's state, which send() and broadcast()   *)
(* would use, is one Hyperswarm still reports: never a closed socket,      *)
(* also when the node is dropped from the graph and created again while    *)
(* the connection opens and closes.                                        *)
SocketIsLive == \A p \in Peer : st.attr[p].connection => p \in st.conns

(* A topic this node counts is in the store it lists topics from, and a    *)
(* topic leaves the store only with its counter entry (topics.ts keeps     *)
(* them in two maps): what is positive is listed.                          *)
CountedIsListed ==
  \A t \in Topic : st.topics.counter[t] > 0 => TopicsHas(st.topics, t)

(* A step of the node never unlearns a hashtag: a named topic keeps its    *)
(* name until it leaves the map.                                           *)
NameKept ==
  [][\A t \in Topic :
       st.topics.store[t] \in Name
         => st'.topics.store[t] \in {st.topics.store[t], Absent}]_st

(* Once bootstrapped, what the node believes of a peer is first hand: its  *)
(* topics and its data change by that peer's own packets or by forgetting  *)
(* the peer, never by a second bootstrap response, repeated or of another. *)
(* (The first one does replace what peers said while it was on its way.)   *)
FirstHand ==
  [][st.bootstrapped =>
       \A p \in Others :
         \/ /\ st'.attr[p].lookingup  = st.attr[p].lookingup
            /\ st'.attr[p].announcing = st.attr[p].announcing
            /\ st'.attr[p].data       = st.attr[p].data
         \/ st'.attr[p] = Fresh(FALSE)
         \/ RecvTopicJoin(p) \/ RecvTopicLeave(p) \/ RecvUserData(p)]_st

------------------------------------------------------------------------------
(* What the documentation says and the code does not do. *)

(* "After this you should have a pretty good picture of the network"       *)
(* (README.md:124-125): a newcomer that connects to this node and takes in *)
(* its bootstrap response sees online whom this node sees.                 *)
NewcomerSees ==
  \A p \in Others \ st.online :
    LET connected    == OnPeerAdd(NewState(p, EmptyData), Me)
        bootstrapped == Bootstrap(connected, Bootstrapper(st))
    IN  st.online \subseteq bootstrapped.online
==============================================================================
