----------------------------- MODULE PresenceOps -----------------------------
(***************************************************************************)
(* The state of one VoidPresence (src/presence.ts) and its handlers, each  *)
(* as a function from a state to the state it leaves behind.  Presence.tla *)
(* runs them for one node against arbitrary peers.                         *)
(*                                                                         *)
(* The handlers are async functions without an await before their last     *)
(* state change, so each runs as one step of the event loop.               *)
(***************************************************************************)
EXTENDS TopicsOps, FiniteSets

CONSTANTS
    Peer,       \* public keys
    Data,       \* advertised user data
    EmptyData   \* the {} a state starts with

ASSUME PeerAssumption == IsFiniteSet(Peer)
ASSUME DataAssumption == EmptyData \in Data

------------------------------------------------------------------------------
(* type State.  "connection" tells whether a Connection is recorded. *)
Attr == [ephemeral  : BOOLEAN,
         connected  : SUBSET Peer,
         announcing : SubMap,
         lookingup  : SubMap,
         data       : Data,
         connection : BOOLEAN]

Fresh(conn) == [ephemeral  |-> TRUE,   connected |-> {},
                announcing |-> NoSubs, lookingup |-> NoSubs,
                data       |-> EmptyData, connection |-> conn]

Edge(a, b) == {a, b}
Edges == {e \in SUBSET Peer : \E a, b \in Peer : a # b /\ e = Edge(a, b)}

(***************************************************************************)
(* The fields of VoidPresence.  "attr" is the attributes of the graph's    *)
(* nodes; a peer that is not a node has the attributes a new node gets,    *)
(* and this._state is attr[me], the object the constructor put there.      *)
(* "conns" is the keys of _connections, "doomed" the sockets whose         *)
(* 100 ms destroy timer (onleave) is running: at most one per connection.  *)
(***************************************************************************)
State == [me           : Peer,
          nodes        : SUBSET Peer,
          edges        : SUBSET Edges,
          attr         : [Peer -> Attr],
          online       : SUBSET Peer,
          conns        : SUBSET Peer,
          doomed       : SUBSET Peer,
          topics       : TopicMap,
          bootstrapped : BOOLEAN]

\* constructor(publicKey, userData, ...)
NewState(me, data) ==
  [me |-> me, nodes |-> {me}, edges |-> {},
   attr |-> [p \in Peer |-> IF p = me THEN [Fresh(FALSE) EXCEPT !.data = data]
                                      ELSE Fresh(FALSE)],
   online |-> {me}, conns |-> {}, doomed |-> {},
   topics |-> NoTopics, bootstrapped |-> FALSE]

------------------------------------------------------------------------------
\* The attributes of one node replaced, and the two maps of its topics.
SetAttr(s, p, a) == [s EXCEPT !.attr = [s.attr EXCEPT ![p] = a]]
SetSubs(a, lookingup, announcing) ==
  [[a EXCEPT !.lookingup = lookingup] EXCEPT !.announcing = announcing]
Unsubscribed(a, t) ==
  SetSubs(a, [a.lookingup EXCEPT ![t] = Absent], [a.announcing EXCEPT ![t] = Absent])

(* getPeerState(graph, publicKey, connection): a lookup that creates the node. *)
(* The connection is recorded only when the node is new.                       *)
GetPeerState(s, p, conn) ==
  IF p \in s.nodes THEN s
  ELSE SetAttr([s EXCEPT !.nodes = s.nodes \cup {p}], p, Fresh(conn))

\* A set of peers closed under the edges, and what can be reached from m.
Closed(S, E) == \A e \in E : e \cap S # {} => e \subseteq S
Reach(m, E) ==
  {p \in Peer : \A S \in SUBSET Peer : m \in S /\ Closed(S, E) => p \in S}

\* A faulty variant of DropConnection: the graph is not brought up to date.
DropEdge(s, a, b) == [s EXCEPT !.edges = s.edges \ {Edge(a, b)}]

(* _recalculate(): drop every node without a path from this node, with its  *)
(* edges and attributes, and bring "online" up to date.                     *)
Recalculate(s) ==
  LET on  == s.nodes \cap Reach(s.me, s.edges)
      off == s.nodes \ on
  IN  [s EXCEPT !.nodes  = on,
                !.edges  = {e \in s.edges : e \subseteq on},
                !.attr   = [p \in Peer |-> IF p \in off THEN Fresh(FALSE)
                                                        ELSE s.attr[p]],
                !.online = (s.online \cup on) \ off]

\* A faulty variant of MergeEdge: a swapped argument makes a self loop.
MergeLoop(s, a, b) == [s EXCEPT !.nodes = @ \cup {a, b}, !.edges = @ \cup {Edge(a, a)}]

\* _addConnection(a, b, false) and _addConnection(a, b)
MergeEdge(s, a, b) ==
  LET s1 == GetPeerState(GetPeerState(s, a, FALSE), b, FALSE)
  IN  [s1 EXCEPT !.edges = s1.edges \cup {Edge(a, b)}]
AddConnection(s, a, b) == Recalculate(MergeEdge(s, a, b))

\* _dropConnection(a, b): dropEdge throws, and nothing is recalculated,
\* when there is no such edge.
DropConnection(s, a, b) ==
  IF Edge(a, b) \in s.edges
  THEN Recalculate([s EXCEPT !.edges = s.edges \ {Edge(a, b)}])
  ELSE s

\* What getPeerState leaves behind when it is called for every peer of P.
TouchAll(s, P) ==
  [s EXCEPT !.nodes = @ \cup P,
            !.attr  = [p \in Peer |-> IF p \in P \ s.nodes THEN Fresh(FALSE)
                                                           ELSE s.attr[p]]]

\* broadcast(message): asks for the state of every connected peer; the
\* ephemeral ones are sent a fallback message besides the gossip.
Broadcast(s) == TouchAll(s, s.conns)

\* The synchronous part of send(target, message).
SendTo(s, p) == GetPeerState(s, p, FALSE)

------------------------------------------------------------------------------
\* onpeeradd(socket, info).  All its broadcasts have the same effect here.
OnPeerAdd(s, p) ==
  LET s1 == GetPeerState(s, p, TRUE)
      s2 == [s1 EXCEPT !.conns = s.conns \cup {p}]
      s3 == Broadcast(AddConnection(s2, s.me, p))
  IN  IF s.bootstrapped THEN s3 ELSE SendTo(s3, p)

\* A faulty variant of OnPeerDrop: the recorded connection stays.
OnPeerDropKeeping(s, p) ==
  Broadcast(DropConnection([s EXCEPT !.conns = @ \ {p}, !.doomed = @ \ {p}], s.me, p))

\* onpeerdrop(publicKey), the socket's "close" listener.
OnPeerDrop(s, p) ==
  LET mine == s.attr[s.me]
      s1 == SetAttr(s, s.me, [mine EXCEPT !.connected = mine.connected \ {p}])
      s2 == GetPeerState(s1, p, FALSE)
      s3 == SetAttr(s2, p, [s2.attr[p] EXCEPT !.connection = FALSE])
      s4 == [s3 EXCEPT !.conns = s.conns \ {p}, !.doomed = s.doomed \ {p}]
  IN  Broadcast(DropConnection(s4, s.me, p))

------------------------------------------------------------------------------
(* Packets of the broadcast kind, after decode() (src/messages.ts). *)
PersistentPkt   == [type : {"PERSISTENT"}, ephemeral : BOOLEAN]
ConnectionPkt   == [type : {"CONNECTED", "DISCONNECTED"}, peer : Peer]
TopicJoinPkt    == [type : {"TOPIC_JOIN"}, topic : Topic, name : TopicName,
                    client : BOOLEAN, server : BOOLEAN]
TopicLeavePkt   == [type : {"TOPIC_LEAVE"}, topic : Topic]
UserDataPkt     == [type : {"USER_DATA"}, data : Data]
BroadcastPkt    == [type : {"BROADCAST"}]

\* onbroadcast(data, publicKey), one operator per case of its switch; each
\* starts from the state getPeerState leaves.
OnPersistent(s, p, m) ==
  LET s1 == GetPeerState(s, p, FALSE)
  IN  SetAttr(s1, p, [s1.attr[p] EXCEPT !.ephemeral = m.ephemeral])

\* A faulty variant of OnConnected: the edge starts at this node.
OnConnectedMine(s, p, m) == AddConnection(GetPeerState(s, p, FALSE), s.me, m.peer)

OnConnected(s, p, m) == AddConnection(GetPeerState(s, p, FALSE), p, m.peer)

\* A faulty variant of OnDisconnected: the edge is sought at this node.
OnDisconnectedMine(s, p, m) == DropConnection(GetPeerState(s, p, FALSE), s.me, m.peer)

OnDisconnected(s, p, m) == DropConnection(GetPeerState(s, p, FALSE), p, m.peer)

\* A role that the packet does not claim is left as it was.
OnTopicJoin(s, p, m) ==
  LET s1 == GetPeerState(s, p, FALSE)
      a  == s1.attr[p]
      look == [a.lookingup EXCEPT ![m.topic] = IF m.client THEN m.name ELSE @]
      ann  == [a.announcing EXCEPT ![m.topic] = IF m.server THEN m.name ELSE @]
  IN  [SetAttr(s1, p, SetSubs(a, look, ann))
        EXCEPT !.topics = TopicsSet(s.topics, m.topic, m.name)]

OnTopicLeave(s, p, m) ==
  LET s1 == GetPeerState(s, p, FALSE)
      a  == s1.attr[p]
  IN  [SetAttr(s1, p, Unsubscribed(a, m.topic))
        EXCEPT !.topics = TopicsDelete(s.topics, m.topic)]

OnUserData(s, p, m) ==
  LET s1 == GetPeerState(s, p, FALSE)
  IN  SetAttr(s1, p, [s1.attr[p] EXCEPT !.data = m.data])

\* BROADCAST is handed to the application: only the node may be new.
OnAppBroadcast(s, p, m) == GetPeerState(s, p, FALSE)

------------------------------------------------------------------------------
(* Bootstrap snapshots: the peers a node knows, with topics and edges. *)
Meta == [name : TopicName, client : BOOLEAN, server : BOOLEAN]
NoMeta == [name |-> Null, client |-> FALSE, server |-> FALSE]
Listed(meta) == meta.client \/ meta.server
BootstrapPeer == [connected : SUBSET Peer, topics : [Topic -> Meta], data : Data]
Bootstraps == {b \in UNION {[D -> BootstrapPeer] : D \in SUBSET Peer} :
                 \A p \in DOMAIN b : p \notin b[p].connected}

\* _bootstrapper()
Bootstrapper(s) ==
  [p \in s.nodes |->
    LET a == s.attr[p]
        NameOf(t) == IF a.announcing[t] # Absent THEN a.announcing[t]
                     ELSE IF a.lookingup[t] # Absent THEN a.lookingup[t]
                     ELSE Null
    IN  [connected |-> a.connected,
         topics    |-> [t \in Topic |-> [name   |-> NameOf(t),
                                         client |-> a.lookingup[t] # Absent,
                                         server |-> a.announcing[t] # Absent]],
         data      |-> a.data]]

\* Topics.set once per peer of the snapshot that lists the topic.
JoinListed(tp, b, ids) ==
  LET Sayers(t) == {p \in ids : Listed(b[p].topics[t])}
      Names(t)  == {b[p].topics[t].name : p \in Sayers(t)} \cap Name
  IN  [store   |-> [t \in Topic |->
                     IF tp.store[t] \in Name \/ Sayers(t) = {} THEN tp.store[t]
                     ELSE IF Names(t) # {} THEN CHOOSE n \in Names(t) : TRUE
                     ELSE Null],
       counter |-> [t \in Topic |-> tp.counter[t] + Cardinality(Sayers(t))]]

\* The state of a listed peer after its entry is read.
Listen(a, entry) ==
  LET look == [t \in Topic |-> IF entry.topics[t].client
                               THEN entry.topics[t].name ELSE a.lookingup[t]]
      ann  == [t \in Topic |-> IF entry.topics[t].server
                               THEN entry.topics[t].name ELSE a.announcing[t]]
  IN  [SetSubs(a, look, ann) EXCEPT !.data = entry.data]

\* The edges and all the peers that the entries of "ids" mention.
Links(b, ids)     == UNION {{Edge(p, q) : q \in b[p].connected} : p \in ids}
Mentioned(b, ids) == ids \cup UNION {b[p].connected : p \in ids}

\* A faulty variant of Bootstrap: every snapshot is taken in.
BootstrapAgain(s, b) ==
  LET ids == DOMAIN b \ {s.me}
      s1  == TouchAll(s, Mentioned(b, ids))
  IN  Recalculate([s1 EXCEPT
        !.attr = [p \in Peer |-> IF p \in ids THEN Listen(s1.attr[p], b[p]) ELSE s1.attr[p]],
        !.edges = @ \cup Links(b, ids), !.bootstrapped = TRUE])

\* _bootstrap(bootstrap): nothing after the first snapshot.
Bootstrap(s, b) ==
  LET ids == DOMAIN b \ {s.me}
      s1  == TouchAll(s, Mentioned(b, ids))
      s2  == [s1 EXCEPT
               !.attr  = [p \in Peer |-> IF p \in ids THEN Listen(s1.attr[p], b[p])
                                                      ELSE s1.attr[p]],
               !.edges  = @ \cup Links(b, ids),
               !.topics = JoinListed(s.topics, b, ids),
               !.bootstrapped = TRUE]
  IN  IF s.bootstrapped THEN s ELSE Recalculate(s2)

------------------------------------------------------------------------------
\* onstate(ephemeral)
OnState(s, eph) ==
  Broadcast(SetAttr(s, s.me, [s.attr[s.me] EXCEPT !.ephemeral = eph]))

\* A faulty variant of OnJoin: a role not asked for is left as it was.
OnJoinAdding(s, t, name, client, server) ==
  LET a == s.attr[s.me]
      look == [a.lookingup EXCEPT ![t] = IF client THEN name ELSE @]
      ann  == [a.announcing EXCEPT ![t] = IF server THEN name ELSE @]
  IN  Broadcast(SetAttr(s, s.me, SetSubs(a, look, ann)))

\* onjoin(topic, name, { client, server }): here a role not asked for is removed.
OnJoin(s, t, name, client, server) ==
  LET a == s.attr[s.me]
      look == [a.lookingup EXCEPT ![t] = IF client THEN name ELSE Absent]
      ann  == [a.announcing EXCEPT ![t] = IF server THEN name ELSE Absent]
  IN  Broadcast(SetAttr(s, s.me, SetSubs(a, look, ann)))

\* The peer serves nothing this node looks up and looks up nothing it serves.
NothingInCommon(s, p) ==
  \A t \in Topic :
    /\ s.attr[p].announcing[t] = Absent \/ s.attr[s.me].lookingup[t] = Absent
    /\ s.attr[p].lookingup[t] = Absent \/ s.attr[s.me].announcing[t] = Absent

\* onleave(topic): arms the destroy timer of the connections left without
\* a topic in common.
OnLeave(s, t) ==
  LET s1 == Broadcast(SetAttr(s, s.me, Unsubscribed(s.attr[s.me], t)))
  IN  [s1 EXCEPT !.doomed = @ \cup {p \in s1.conns : NothingInCommon(s1, p)}]

\* set userData(data)
SetUserData(s, d) == Broadcast(SetAttr(s, s.me, [s.attr[s.me] EXCEPT !.data = d]))
==============================================================================
