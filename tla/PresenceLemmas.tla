--------------------------- MODULE PresenceLemmas ---------------------------
(***************************************************************************)
(* What the handlers of PresenceOps do to the state of one VoidPresence,   *)
(* for any sets of peers, topics, names and data.                          *)
(*                                                                         *)
(* A handler of presence.ts first creates nodes and edges and then calls   *)
(* _recalculate, so two predicates are carried along.  Sound(s) holds in   *)
(* the middle of a handler too; Settled(s) adds what _recalculate restores *)
(* and is what every handler keeps.                                        *)
(***************************************************************************)
EXTENDS PresenceOps, FiniteSetTheorems, TLAPS

Sound(s) ==
  /\ s \in State
  /\ s.me \in s.nodes
  /\ s.online \subseteq s.nodes
  /\ \A e \in s.edges : e \subseteq s.nodes
  /\ \A p \in Peer : s.attr[p].connection => p \in s.conns
  /\ s.doomed \subseteq s.conns
  /\ \A p \in Peer \ s.nodes : s.attr[p] = Fresh(FALSE)
  /\ \A t \in Topic : s.topics.counter[t] > 0 => TopicsHas(s.topics, t)

Settled(s) ==
  /\ Sound(s)
  /\ s.online = Reach(s.me, s.edges)
  /\ \A e \in s.edges : e \subseteq s.online

\* Nothing but the graph differs.
Same(r, s) == /\ r.me = s.me /\ r.conns = s.conns /\ r.doomed = s.doomed
              /\ r.topics = s.topics /\ r.bootstrapped = s.bootstrapped

------------------------------------------------------------------------------
(* The building blocks: creating nodes and edges. *)

\* A new node has the attributes of the type State.
LEMMA FreshType == ASSUME NEW c \in BOOLEAN PROVE Fresh(c) \in Attr
BY DataAssumption DEF Fresh, Attr, NoSubs, SubMap, TopicName


\* A peer's attributes can be replaced, as long as a recorded connection is open.
LEMMA SetAttrSound ==
  ASSUME NEW s, Sound(s), NEW p \in s.nodes, NEW a \in Attr,
         a.connection => p \in s.conns
  PROVE  Sound(SetAttr(s, p, a)) /\ Same(SetAttr(s, p, a), s)
<1>. DEFINE at == [s.attr EXCEPT ![p] = a]
<1>1. at \in [Peer -> Attr] /\ \A q \in Peer : at[q] = IF q = p THEN a ELSE s.attr[q]
  BY DEF Sound, State
<1>. HIDE DEF at
<1>2. Sound([s EXCEPT !.attr = at]) /\ Same([s EXCEPT !.attr = at], s)
  BY <1>1 DEF Sound, State, Same
<1>. QED BY <1>2 DEF at, SetAttr

\* What getPeerState changes: one node and its attributes, nothing else.
LEMMA GetPeerStateSound ==
  ASSUME NEW s, Sound(s), NEW p \in Peer
  PROVE  /\ Sound(GetPeerState(s, p, FALSE))
         /\ GetPeerState(s, p, FALSE) = [s EXCEPT !.nodes = s.nodes \cup {p}]
         /\ Same(GetPeerState(s, p, FALSE), s)
         /\ p \in GetPeerState(s, p, FALSE).nodes
         /\ s.nodes \subseteq GetPeerState(s, p, FALSE).nodes
<1>1. GetPeerState(s, p, FALSE) = [s EXCEPT !.nodes = s.nodes \cup {p}]
  <2>1. CASE p \in s.nodes
    <3>1. s.nodes \cup {p} = s.nodes
      BY <2>1
    <3>. QED BY <2>1, <3>1 DEF Sound, State, GetPeerState
  <2>2. CASE p \notin s.nodes
    <3>1. s.attr[p] = Fresh(FALSE)
      BY <2>2 DEF Sound
    <3>2. [s.attr EXCEPT ![p] = Fresh(FALSE)] = s.attr
      BY <3>1 DEF Sound, State
    <3>. QED BY <2>2, <3>2 DEF Sound, State, GetPeerState, SetAttr
  <2>. QED BY <2>1, <2>2
<1>. DEFINE r == [s EXCEPT !.nodes = s.nodes \cup {p}]
<1>2. Sound(r) /\ Same(r, s) /\ p \in r.nodes /\ s.nodes \subseteq r.nodes
  BY DEF Sound, State, Same
<1>. QED BY <1>1, <1>2

\* The same for the peers that broadcast() and _bootstrap() look up.
LEMMA TouchAllSound ==
  ASSUME NEW s, Sound(s), NEW P \in SUBSET Peer
  PROVE  /\ Sound(TouchAll(s, P))
         /\ TouchAll(s, P) = [s EXCEPT !.nodes = s.nodes \cup P]
<1>1. TouchAll(s, P) = [s EXCEPT !.nodes = s.nodes \cup P]
  <2>1. \A p \in P \ s.nodes : s.attr[p] = Fresh(FALSE)
    BY DEF Sound
  <2>2. [p \in Peer |-> IF p \in P \ s.nodes THEN Fresh(FALSE) ELSE s.attr[p]] = s.attr
    BY <2>1 DEF Sound, State
  <2>. QED BY <2>2 DEF TouchAll, Sound, State
<1>2. Sound([s EXCEPT !.nodes = s.nodes \cup P])
  BY DEF Sound, State
<1>. QED BY <1>1, <1>2

------------------------------------------------------------------------------
(* Reachability. *)

\* A closed set that holds m holds everything reachable from m.
LEMMA ReachLeast ==
  ASSUME NEW m, NEW E, NEW S \in SUBSET Peer, m \in S, Closed(S, E)
  PROVE  Reach(m, E) \subseteq S
BY DEF Reach

\* What can be reached contains its start and is closed under the edges.
LEMMA ReachClosed ==
  ASSUME NEW m \in Peer, NEW E \in SUBSET SUBSET Peer
  PROVE  m \in Reach(m, E) /\ Closed(Reach(m, E), E)
<1>1. m \in Reach(m, E)
  BY DEF Reach
<1>2. ASSUME NEW e \in E, NEW p \in e, p \in Reach(m, E), NEW q \in e
      PROVE  q \in Reach(m, E)
  <2>1. q \in Peer
    OBVIOUS
  <2>2. ASSUME NEW S \in SUBSET Peer, m \in S, Closed(S, E)
        PROVE  q \in S
    BY <1>2, <2>2 DEF Reach, Closed
  <2>. QED BY <2>1, <2>2 DEF Reach
<1>. QED BY <1>1, <1>2 DEF Closed

\* Dropping the edges that nothing reachable touches changes nothing.
LEMMA ReachPruned ==
  ASSUME NEW m \in Peer, NEW E \in SUBSET SUBSET Peer
  PROVE  Reach(m, {e \in E : e \subseteq Reach(m, E)}) = Reach(m, E)
<1>. DEFINE R == Reach(m, E)
            F == {e \in E : e \subseteq R}
<1>1. m \in R /\ Closed(R, E) /\ R \subseteq Peer
  BY ReachClosed DEF Reach
<1>2. m \in Reach(m, F) /\ Closed(Reach(m, F), F) /\ Reach(m, F) \subseteq Peer
  BY ReachClosed DEF Reach
<1>3. Reach(m, F) \subseteq R
  <2>1. Closed(R, F)
    BY <1>1 DEF Closed
  <2>. QED BY <1>1, <2>1, ReachLeast
<1>4. R \subseteq Reach(m, F)
  <2>1. Closed(Reach(m, F), E)
    BY <1>1, <1>2, <1>3 DEF Closed
  <2>. QED BY <1>2, <2>1, ReachLeast
<1>. QED BY <1>3, <1>4

\* _recalculate restores what the handlers rely on.
LEMMA RecalculateSettles ==
  ASSUME NEW s, Sound(s)
  PROVE  Settled(Recalculate(s)) /\ Same(Recalculate(s), s)
<1>. DEFINE R  == Reach(s.me, s.edges)
            F  == {e \in s.edges : e \subseteq R}
            at == [p \in Peer |-> IF p \in s.nodes \ R THEN Fresh(FALSE) ELSE s.attr[p]]
            r  == [s EXCEPT !.nodes = R, !.edges = F, !.attr = at, !.online = R]
<1>1. s.me \in Peer /\ s.edges \in SUBSET SUBSET Peer /\ s.nodes \subseteq Peer
  BY DEF Sound, State, Edges
<1>2. s.me \in R /\ R \subseteq s.nodes
  <2>1. Closed(s.nodes, s.edges)
    BY DEF Sound, Closed
  <2>. QED BY <1>1, <2>1, ReachLeast, ReachClosed DEF Sound
<1>3. Reach(s.me, F) = R
  BY <1>1, ReachPruned
<1>4. Recalculate(s) = r
  <2>1. s.nodes \cap R = R /\ (s.online \cup R) \ (s.nodes \ R) = R
    BY <1>2 DEF Sound
  <2>2. s.nodes \ (s.nodes \cap R) = s.nodes \ R
    OBVIOUS
  <2>. QED BY <2>1, <2>2 DEF Recalculate
<1>5. /\ at \in [Peer -> Attr]
      /\ \A p \in Peer : at[p].connection => p \in s.conns
      /\ \A p \in Peer \ R : at[p] = Fresh(FALSE)
  <2>1. Fresh(FALSE).connection = FALSE
    BY DEF Fresh
  <2>. QED BY <2>1, FreshType DEF Sound, State
<1>6. F \subseteq s.edges /\ \A e \in F : e \subseteq R
  OBVIOUS
<1>. HIDE DEF R, F, at
<1>7. Settled(r) /\ Same(r, s)
  BY <1>1, <1>2, <1>3, <1>5, <1>6 DEF Settled, Sound, State, Same
<1>. QED BY <1>4, <1>7

------------------------------------------------------------------------------
(* The building blocks keep a settled state settled. *)

\* New nodes alone do not change what is reachable.
LEMMA MoreNodesSettled ==
  ASSUME NEW s, Settled(s), NEW P \in SUBSET Peer,
         NEW r, Sound(r), r = [s EXCEPT !.nodes = s.nodes \cup P]
  PROVE  /\ Settled(r) /\ Same(r, s) /\ r.attr = s.attr
         /\ r.nodes = s.nodes \cup P
<1>1. /\ r.me = s.me /\ r.online = s.online /\ r.edges = s.edges
      /\ r.attr = s.attr /\ r.nodes = s.nodes \cup P /\ Same(r, s)
  BY DEF Settled, Sound, State, Same
<1>. QED BY <1>1 DEF Settled

\* A lookup keeps a settled state settled: the new node has no edge.
LEMMA GetPeerStateSettled ==
  ASSUME NEW s, Settled(s), NEW p \in Peer
  PROVE  /\ Settled(GetPeerState(s, p, FALSE))
         /\ Same(GetPeerState(s, p, FALSE), s)
         /\ GetPeerState(s, p, FALSE).attr = s.attr
         /\ p \in GetPeerState(s, p, FALSE).nodes
         /\ s.nodes \subseteq GetPeerState(s, p, FALSE).nodes
<1>1. Sound(s)
  BY DEF Settled
<1>2. /\ GetPeerState(s, p, FALSE) = [s EXCEPT !.nodes = s.nodes \cup {p}]
      /\ Sound(GetPeerState(s, p, FALSE))
  BY <1>1, GetPeerStateSound
<1>. DEFINE r == GetPeerState(s, p, FALSE)
<1>. HIDE DEF r
<1>3. /\ Settled(r) /\ Same(r, s) /\ r.attr = s.attr
      /\ r.nodes = s.nodes \cup {p}
  BY <1>2, MoreNodesSettled DEF r
<1>. QED BY <1>3 DEF r

\* So does broadcast(), which only looks peers up.
LEMMA BroadcastSettled ==
  ASSUME NEW s, Settled(s)
  PROVE  Settled(Broadcast(s)) /\ Same(Broadcast(s), s)
<1>1. Sound(s) /\ s.conns \in SUBSET Peer
  BY DEF Settled, Sound, State
<1>. QED BY <1>1, TouchAllSound, MoreNodesSettled DEF Broadcast

\* So does a change of the attributes of a node.
LEMMA SetAttrSettled ==
  ASSUME NEW s, Settled(s), NEW p \in s.nodes, NEW a \in Attr,
         a.connection => p \in s.conns
  PROVE  /\ Settled(SetAttr(s, p, a)) /\ Same(SetAttr(s, p, a), s)
         /\ SetAttr(s, p, a).nodes = s.nodes
         /\ SetAttr(s, p, a).attr = [s.attr EXCEPT ![p] = a]
<1>1. Sound(SetAttr(s, p, a)) /\ Same(SetAttr(s, p, a), s)
  BY SetAttrSound DEF Settled
<1>2. /\ SetAttr(s, p, a).online = s.online /\ SetAttr(s, p, a).edges = s.edges
      /\ SetAttr(s, p, a).nodes = s.nodes /\ SetAttr(s, p, a).me = s.me
      /\ SetAttr(s, p, a).attr = [s.attr EXCEPT ![p] = a]
  BY DEF SetAttr, Settled, Sound, State
<1>. QED BY <1>1, <1>2 DEF Settled

\* What _addConnection leaves to _recalculate.
LEMMA MergeEdgeSound ==
  ASSUME NEW s, Sound(s), NEW a \in Peer, NEW b \in Peer, a # b
  PROVE  Sound(MergeEdge(s, a, b)) /\ Same(MergeEdge(s, a, b), s)
<1>. DEFINE s1 == GetPeerState(GetPeerState(s, a, FALSE), b, FALSE)
<1>1. /\ Sound(s1) /\ Same(s1, s) /\ {a, b} \subseteq s1.nodes
  <2>1. /\ Sound(GetPeerState(s, a, FALSE)) /\ Same(GetPeerState(s, a, FALSE), s)
        /\ a \in GetPeerState(s, a, FALSE).nodes
    BY GetPeerStateSound
  <2>2. /\ Sound(s1) /\ Same(s1, GetPeerState(s, a, FALSE)) /\ b \in s1.nodes
        /\ GetPeerState(s, a, FALSE).nodes \subseteq s1.nodes
    BY <2>1, GetPeerStateSound
  <2>. QED BY <2>1, <2>2 DEF Same
<1>2. Edge(a, b) \in Edges /\ Edge(a, b) \subseteq s1.nodes
  BY <1>1 DEF Edge, Edges
<1>. HIDE DEF s1
<1>3. /\ Sound([s1 EXCEPT !.edges = s1.edges \cup {Edge(a, b)}])
      /\ Same([s1 EXCEPT !.edges = s1.edges \cup {Edge(a, b)}], s1)
  BY <1>1, <1>2 DEF Sound, State, Same
<1>. QED BY <1>1, <1>3 DEF MergeEdge, Same, s1

\* _addConnection with _recalculate leaves a settled state.
LEMMA AddConnectionSettles ==
  ASSUME NEW s, Sound(s), NEW a \in Peer, NEW b \in Peer, a # b
  PROVE  Settled(AddConnection(s, a, b)) /\ Same(AddConnection(s, a, b), s)
BY MergeEdgeSound, RecalculateSettles DEF AddConnection, Same

\* So does _dropConnection, whether or not there is such an edge.
LEMMA DropConnectionSettled ==
  ASSUME NEW s, Settled(s), NEW a, NEW b
  PROVE  Settled(DropConnection(s, a, b)) /\ Same(DropConnection(s, a, b), s)
<1>. DEFINE s1 == [s EXCEPT !.edges = s.edges \ {Edge(a, b)}]
<1>1. Sound(s1) /\ Same(s1, s)
  BY DEF Settled, Sound, State, Same
<1>. HIDE DEF s1
<1>2. Settled(Recalculate(s1)) /\ Same(Recalculate(s1), s)
  BY <1>1, RecalculateSettles DEF Same
<1>3. Same(s, s)
  BY DEF Same
<1>. QED BY <1>2, <1>3 DEF DropConnection, s1

\* No edge comes from anywhere but _addConnection.
LEMMA RecalculateEdges ==
  ASSUME NEW s, Sound(s)
  PROVE  Recalculate(s).edges \subseteq s.edges
BY DEF Recalculate, Sound, State

\* A lookup changes no edge.
LEMMA GetPeerStateEdges ==
  ASSUME NEW s, Sound(s), NEW p \in Peer
  PROVE  GetPeerState(s, p, FALSE).edges = s.edges
<1>1. GetPeerState(s, p, FALSE) = [s EXCEPT !.nodes = s.nodes \cup {p}]
  BY GetPeerStateSound
<1>. QED BY <1>1 DEF Sound, State

\* _addConnection adds one edge,
LEMMA AddConnectionEdges ==
  ASSUME NEW s, Sound(s), NEW a \in Peer, NEW b \in Peer, a # b
  PROVE  AddConnection(s, a, b).edges \subseteq s.edges \cup {Edge(a, b)}
<1>. DEFINE s1 == GetPeerState(s, a, FALSE)
            s2 == GetPeerState(s1, b, FALSE)
<1>1. Sound(s1) /\ s1.edges = s.edges
  BY GetPeerStateSound, GetPeerStateEdges
<1>. HIDE DEF s1
<1>2. Sound(s2) /\ s2.edges = s.edges
  BY <1>1, GetPeerStateSound, GetPeerStateEdges
<1>. HIDE DEF s2
<1>3. MergeEdge(s, a, b) = [s2 EXCEPT !.edges = s2.edges \cup {Edge(a, b)}]
  BY DEF MergeEdge, s1, s2
<1>4. MergeEdge(s, a, b).edges = s.edges \cup {Edge(a, b)}
  BY <1>2, <1>3 DEF Sound, State
<1>. QED BY <1>4, MergeEdgeSound, RecalculateEdges DEF AddConnection

\* _dropConnection none.
LEMMA DropConnectionEdges ==
  ASSUME NEW s, Sound(s), NEW a, NEW b
  PROVE  DropConnection(s, a, b).edges \subseteq s.edges
<1>. DEFINE s1 == [s EXCEPT !.edges = s.edges \ {Edge(a, b)}]
<1>1. Sound(s1) /\ s1.edges \subseteq s.edges
  BY DEF Sound, State
<1>. HIDE DEF s1
<1>2. Recalculate(s1).edges \subseteq s.edges
  BY <1>1, RecalculateEdges
<1>. QED BY <1>2 DEF DropConnection, s1

\* broadcast() and lookups change neither.
LEMMA LookupEdges ==
  ASSUME NEW s, Settled(s)
  PROVE  /\ Broadcast(s).edges = s.edges
         /\ \A p \in Peer : GetPeerState(s, p, FALSE).edges = s.edges
<1>1. Sound(s) /\ s.conns \in SUBSET Peer
  BY DEF Settled, Sound, State
<1>2. Broadcast(s) = [s EXCEPT !.nodes = s.nodes \cup s.conns]
  BY <1>1, TouchAllSound DEF Broadcast
<1>3. Broadcast(s).edges = s.edges
  BY <1>1, <1>2 DEF Sound, State
<1>. QED BY <1>1, <1>3, GetPeerStateEdges

\* _recalculate drops no edge of this node, and forgets nobody at such an edge.
LEMMA RecalculateOwn ==
  ASSUME NEW s, Sound(s), NEW e \in s.edges, s.me \in e
  PROVE  e \in Recalculate(s).edges /\ \A q \in e : Recalculate(s).attr[q] = s.attr[q]
<1>. DEFINE on  == s.nodes \cap Reach(s.me, s.edges)
            off == s.nodes \ on
            at  == [p \in Peer |-> IF p \in off THEN Fresh(FALSE) ELSE s.attr[p]]
<1>1. s.me \in Peer /\ s.edges \in SUBSET SUBSET Peer /\ e \subseteq s.nodes /\ e \subseteq Peer
  BY DEF Sound, State, Edges
<1>2. e \subseteq on
  <2>1. s.me \in Reach(s.me, s.edges) /\ Closed(Reach(s.me, s.edges), s.edges)
    BY <1>1, ReachClosed
  <2>2. e \cap Reach(s.me, s.edges) # {}
    BY <2>1
  <2>. QED BY <1>1, <2>1, <2>2 DEF Closed
<1>3. Recalculate(s).edges = {f \in s.edges : f \subseteq on} /\ Recalculate(s).attr = at
  BY DEF Recalculate, Sound, State
<1>4. \A q \in e : at[q] = s.attr[q]
  BY <1>1, <1>2
<1>. HIDE DEF on, at
<1>. QED BY <1>2, <1>3, <1>4

\* _addConnection drops none either.
LEMMA AddConnectionOwn ==
  ASSUME NEW s, Sound(s), NEW a \in Peer, NEW b \in Peer, a # b
  PROVE  /\ \A e \in s.edges \cup {Edge(a, b)} : s.me \in e => e \in AddConnection(s, a, b).edges
         /\ \A e \in s.edges \cup {Edge(a, b)} : s.me \in e =>
              \A q \in e : AddConnection(s, a, b).attr[q] = s.attr[q]
<1>. DEFINE s1 == GetPeerState(s, a, FALSE)
            s2 == GetPeerState(s1, b, FALSE)
            s3 == [s2 EXCEPT !.edges = s2.edges \cup {Edge(a, b)}]
<1>1. Sound(s1) /\ s1 = [s EXCEPT !.nodes = s.nodes \cup {a}]
  BY GetPeerStateSound
<1>2. s1.edges = s.edges /\ s1.attr = s.attr /\ s1.me = s.me
  BY <1>1 DEF Sound, State
<1>. HIDE DEF s1
<1>3. Sound(s2) /\ s2 = [s1 EXCEPT !.nodes = s1.nodes \cup {b}]
  BY <1>1, GetPeerStateSound
<1>4. s2.edges = s.edges /\ s2.attr = s.attr /\ s2.me = s.me
  BY <1>1, <1>2, <1>3 DEF Sound, State
<1>. HIDE DEF s2
<1>5. s3.edges = s.edges \cup {Edge(a, b)} /\ s3.attr = s.attr /\ s3.me = s.me
  BY <1>3, <1>4 DEF Sound, State
<1>6. s3 = MergeEdge(s, a, b)
  BY DEF MergeEdge, s1, s2
<1>. HIDE DEF s3
<1>7. Sound(s3)
  BY <1>6, MergeEdgeSound
<1>. QED BY <1>5, <1>6, <1>7, RecalculateOwn DEF AddConnection

\* _dropConnection drops the one it is told to.
LEMMA DropConnectionOwn ==
  ASSUME NEW s, Sound(s), NEW a, NEW b
  PROVE  /\ Edge(a, b) \notin DropConnection(s, a, b).edges
         /\ \A e \in s.edges \ {Edge(a, b)} : s.me \in e =>
              e \in DropConnection(s, a, b).edges
<1>. DEFINE s1 == [s EXCEPT !.edges = s.edges \ {Edge(a, b)}]
<1>1. Sound(s1) /\ s1.edges = s.edges \ {Edge(a, b)} /\ s1.me = s.me
  BY DEF Sound, State
<1>. HIDE DEF s1
<1>2. Recalculate(s1).edges \subseteq s1.edges
  BY <1>1, RecalculateEdges
<1>3. \A e \in s1.edges : s1.me \in e => e \in Recalculate(s1).edges
  BY <1>1, RecalculateOwn
<1>. QED BY <1>1, <1>2, <1>3 DEF DropConnection, s1

------------------------------------------------------------------------------
(* Every handler keeps a settled state settled and leaves "me" alone. *)

Keeps(r, s) == Settled(r) /\ r.me = s.me

\* Replacing the subscriptions or another field of a peer's attributes.
LEMMA AttrUpdates ==
  ASSUME NEW a \in Attr
  PROVE  /\ \A b \in BOOLEAN : [a EXCEPT !.ephemeral = b] \in Attr
         /\ \A P \in SUBSET Peer : [a EXCEPT !.connected = P] \in Attr
         /\ \A d \in Data : [a EXCEPT !.data = d] \in Attr
         /\ [a EXCEPT !.connection = FALSE] \in Attr
BY DEF Attr

\* The two topic maps of a peer replaced by two others.
LEMMA SetSubsType ==
  ASSUME NEW a \in Attr, NEW look \in SubMap, NEW ann \in SubMap
  PROVE  /\ SetSubs(a, look, ann) \in Attr
         /\ SetSubs(a, look, ann).connection = a.connection
BY DEF Attr, SetSubs

\* A topic removed from both maps of a peer.
LEMMA UnsubscribedType ==
  ASSUME NEW a \in Attr, NEW t \in Topic
  PROVE  /\ Unsubscribed(a, t) \in Attr
         /\ Unsubscribed(a, t).connection = a.connection
<1>1. /\ [a.lookingup EXCEPT ![t] = Absent] \in SubMap
      /\ [a.announcing EXCEPT ![t] = Absent] \in SubMap
  BY DEF Attr, SubMap
<1>. QED BY <1>1, SetSubsType DEF Unsubscribed

\* What the counter counts is listed, as the two maps of class Topics change.
Listing(tp) == /\ tp \in TopicMap
               /\ \A t \in Topic : tp.counter[t] > 0 => TopicsHas(tp, t)

\* The constructor leaves a settled state.
LEMMA NewStateSettled ==
  ASSUME NEW m \in Peer, NEW d \in Data
  PROVE  Settled(NewState(m, d)) /\ NewState(m, d).me = m
<1>. DEFINE s == NewState(m, d)
            mine == [Fresh(FALSE) EXCEPT !.data = d]
            at   == [p \in Peer |-> IF p = m THEN mine ELSE Fresh(FALSE)]
            none == [store |-> NoSubs, counter |-> [t \in Topic |-> 0]]
<1>1. mine \in Attr /\ mine.connection = FALSE
  BY FreshType DEF Attr, Fresh
<1>2. Fresh(FALSE) \in Attr /\ Fresh(FALSE).connection = FALSE
  BY FreshType DEF Fresh
<1>3. /\ at \in [Peer -> Attr]
      /\ \A p \in Peer : at[p].connection = FALSE
      /\ \A p \in Peer \ {m} : at[p] = Fresh(FALSE)
  BY <1>1, <1>2
<1>4. Listing(none)
  BY DEF Listing, TopicMap, SubMap, NoSubs, TopicsHas
<1>5. s = [me |-> m, nodes |-> {m}, edges |-> {}, attr |-> at, online |-> {m},
           conns |-> {}, doomed |-> {}, topics |-> none, bootstrapped |-> FALSE]
  BY DEF NewState, NoTopics
<1>. HIDE DEF at, none, s
<1>6. Reach(m, {}) = {m}
  <2>1. Closed({m}, {})
    BY DEF Closed
  <2>2. m \in Reach(m, {})
    BY ReachClosed
  <2>. QED BY <2>1, <2>2, ReachLeast
<1>7. /\ s.me = m /\ s.nodes = {m} /\ s.edges = {} /\ s.attr = at
      /\ s.online = {m} /\ s.conns = {} /\ s.doomed = {} /\ s.topics = none
  BY <1>5
<1>8. s \in State
  BY <1>3, <1>4, <1>5 DEF State, Listing
<1>9. Sound(s)
  BY <1>3, <1>4, <1>7, <1>8 DEF Sound, Listing
<1>. QED BY <1>6, <1>7, <1>9 DEF Settled, s

\* Topics.set keeps a counted topic listed.
LEMMA TopicsSetListing ==
  ASSUME NEW tp, Listing(tp), NEW t \in Topic, NEW n \in TopicName
  PROVE  Listing(TopicsSet(tp, t, n))
BY NameAssumption DEF Listing, TopicMap, SubMap, TopicName, TopicsHas, TopicsSet

\* So does Topics.delete.
LEMMA TopicsDeleteListing ==
  ASSUME NEW tp, Listing(tp), NEW t \in Topic
  PROVE  Listing(TopicsDelete(tp, t))
<1>1. CASE tp.counter[t] = 1
  <2>1. TopicsHas(tp, t)
    BY <1>1 DEF Listing
  <2>2. TopicsDelete(tp, t) =
          [store   |-> [tp.store EXCEPT ![t] = Absent],
           counter |-> [tp.counter EXCEPT ![t] = 0]]
    BY <1>1, <2>1 DEF TopicsDelete
  <2>. QED BY <2>2 DEF Listing, TopicMap, SubMap, TopicsHas
<1>2. CASE tp.counter[t] # 1
  <2>1. TopicsDelete(tp, t) =
          [tp EXCEPT !.counter = [tp.counter EXCEPT ![t] = tp.counter[t] - 1]]
    BY <1>2 DEF TopicsDelete, Listing, TopicMap
  <2>. QED BY <1>2, <2>1 DEF Listing, TopicMap, SubMap, TopicsHas
<1>. QED BY <1>1, <1>2

\* The topic map can be replaced by another that lists what it counts.
LEMMA SetTopicsSettled ==
  ASSUME NEW s, Settled(s), NEW tp, Listing(tp)
  PROVE  Keeps([s EXCEPT !.topics = tp], s)
<1>. DEFINE r == [s EXCEPT !.topics = tp]
<1>1. /\ r.online = s.online /\ r.edges = s.edges /\ r.me = s.me
      /\ Sound(r)
  BY DEF Settled, Sound, State, Listing
<1>. HIDE DEF r
<1>2. Keeps(r, s)
  BY <1>1 DEF Settled, Keeps
<1>. QED BY <1>2 DEF r

\* onpeeradd: the connection is recorded before it is in _connections.
LEMMA OnPeerAddKeeps ==
  ASSUME NEW s, Settled(s), NEW p \in Peer, p # s.me
  PROVE  /\ Keeps(OnPeerAdd(s, p), s)
         /\ OnPeerAdd(s, p).conns = s.conns \cup {p}
         /\ OnPeerAdd(s, p).edges \subseteq s.edges \cup {Edge(s.me, p)}
<1>. DEFINE s1 == GetPeerState(s, p, TRUE)
            s2 == [s1 EXCEPT !.conns = s.conns \cup {p}]
            s3 == Broadcast(AddConnection(s2, s.me, p))
<1>1. Sound(s2) /\ s2.me = s.me /\ s2.conns = s.conns \cup {p} /\ s2.edges = s.edges
  <2>1. CASE p \in s.nodes
    <3>1. s1 = s
      BY <2>1 DEF GetPeerState
    <3>. QED BY <3>1 DEF Settled, Sound, State
  <2>2. CASE p \notin s.nodes
    <3>. DEFINE at == [s.attr EXCEPT ![p] = Fresh(TRUE)]
    <3>1. /\ at \in [Peer -> Attr]
          /\ \A q \in Peer : at[q] = IF q = p THEN Fresh(TRUE) ELSE s.attr[q]
      BY FreshType DEF Settled, Sound, State
    <3>2. s2 = [s EXCEPT !.nodes = s.nodes \cup {p}, !.attr = at,
                         !.conns = s.conns \cup {p}]
      BY <2>2 DEF Settled, Sound, State, GetPeerState, SetAttr
    <3>. HIDE DEF s2, at
    <3>. QED BY <3>1, <3>2 DEF Settled, Sound, State
  <2>. QED BY <2>1, <2>2
<1>. DEFINE s4 == AddConnection(s2, s.me, p)
            Added(r) == /\ Settled(r) /\ r.me = s.me /\ r.conns = s.conns \cup {p}
                        /\ r.edges \subseteq s.edges \cup {Edge(s.me, p)}
<1>2. s2.conns = s.conns \cup {p} /\ s2 = [s1 EXCEPT !.conns = s.conns \cup {p}]
  BY <1>1
<1>3. Added(s4)
  <2>1. s.me \in Peer
    BY DEF Settled, Sound, State
  <2>. HIDE DEF s2
  <2>. QED BY <1>1, <2>1, AddConnectionSettles, AddConnectionEdges DEF Same
<1>4. Added(s3)
  <2>1. s3 = Broadcast(s4)
    OBVIOUS
  <2>. HIDE DEF s4, s3
  <2>. QED BY <1>3, <2>1, BroadcastSettled, LookupEdges DEF Same
<1>5. OnPeerAdd(s, p) = s3 \/ OnPeerAdd(s, p) = SendTo(s3, p)
  <2>1. s1.conns = s.conns
    BY DEF GetPeerState, SetAttr, Settled, Sound, State
  <2>. QED BY <2>1 DEF OnPeerAdd
<1>. HIDE DEF s3
<1>6. Added(SendTo(s3, p))
  BY <1>4, GetPeerStateSettled, LookupEdges DEF SendTo, Same
<1>. QED BY <1>4, <1>5, <1>6 DEF Keeps

\* onpeeradd shows the connection and drops none of this node's; the record of a
\* new peer has it.
LEMMA OnPeerAddOwn ==
  ASSUME NEW s, Settled(s), NEW p \in Peer, p # s.me
  PROVE  /\ \A e \in s.edges \cup {Edge(s.me, p)} : s.me \in e => e \in OnPeerAdd(s, p).edges
         /\ p \notin s.nodes => OnPeerAdd(s, p).attr[p] = Fresh(TRUE)
<1>. DEFINE s1 == GetPeerState(s, p, TRUE)
            s2 == [s1 EXCEPT !.conns = s.conns \cup {p}]
            s3 == AddConnection(s2, s.me, p)
            s4 == Broadcast(s3)
<1>1. /\ Sound(s2) /\ s2.me = s.me /\ s2.edges = s.edges
      /\ p \notin s.nodes => s2.attr[p] = Fresh(TRUE)
  <2>1. CASE p \in s.nodes
    <3>1. s1 = s
      BY <2>1 DEF GetPeerState
    <3>. QED BY <2>1, <3>1 DEF Settled, Sound, State
  <2>2. CASE p \notin s.nodes
    <3>. DEFINE at == [s.attr EXCEPT ![p] = Fresh(TRUE)]
    <3>1. /\ at \in [Peer -> Attr]
          /\ \A q \in Peer : at[q] = IF q = p THEN Fresh(TRUE) ELSE s.attr[q]
      BY FreshType DEF Settled, Sound, State
    <3>2. s2 = [s EXCEPT !.nodes = s.nodes \cup {p}, !.attr = at,
                         !.conns = s.conns \cup {p}]
      BY <2>2 DEF Settled, Sound, State, GetPeerState, SetAttr
    <3>. HIDE DEF s2, at
    <3>. QED BY <3>1, <3>2 DEF Settled, Sound, State
  <2>. QED BY <2>1, <2>2
<1>2. s.me \in Peer /\ s.me \in Edge(s.me, p) /\ p \in Edge(s.me, p)
  BY DEF Settled, Sound, State, Edge
<1>3. s1.conns = s.conns
  BY DEF GetPeerState, SetAttr, Settled, Sound, State
<1>4. OnPeerAdd(s, p) = s4 \/ OnPeerAdd(s, p) = SendTo(s4, p)
  BY <1>3 DEF OnPeerAdd
<1>. HIDE DEF s2
<1>5. /\ \A e \in s.edges \cup {Edge(s.me, p)} : s.me \in e => e \in s3.edges
      /\ p \notin s.nodes => s3.attr[p] = Fresh(TRUE)
  BY <1>1, <1>2, AddConnectionOwn
<1>6. Settled(s3)
  BY <1>1, <1>2, AddConnectionSettles
<1>. HIDE DEF s3
<1>7. s4.edges = s3.edges /\ s4.attr = s3.attr /\ Settled(s4)
  <2>1. Sound(s3) /\ s3.conns \in SUBSET Peer
    BY <1>6 DEF Settled, Sound, State
  <2>2. s4 = [s3 EXCEPT !.nodes = s3.nodes \cup s3.conns]
    BY <2>1, TouchAllSound DEF Broadcast
  <2>. QED BY <1>6, <2>1, <2>2, BroadcastSettled DEF Sound, State
<1>. HIDE DEF s4
<1>8. SendTo(s4, p).edges = s4.edges /\ SendTo(s4, p).attr = s4.attr
  BY <1>7, GetPeerStateSettled, LookupEdges DEF SendTo
<1>. QED BY <1>4, <1>5, <1>7, <1>8

\* broadcast() keeps the inductive invariant.
LEMMA BroadcastKeeps ==
  ASSUME NEW s, NEW r, Keeps(r, s)
  PROVE  Keeps(Broadcast(r), s)
BY BroadcastSettled DEF Keeps, Same

\* A lookup keeps it.
LEMMA GetPeerStateKeeps ==
  ASSUME NEW s, Settled(s), NEW p \in Peer
  PROVE  Keeps(GetPeerState(s, p, FALSE), s)
BY GetPeerStateSettled DEF Keeps, Same

\* onpeerdrop: the socket and its timers go with the connection, and that edge,
\* but no other of this node's.
LEMMA OnPeerDropKeeps ==
  ASSUME NEW s, Settled(s), NEW p \in Peer
  PROVE  /\ Keeps(OnPeerDrop(s, p), s)
         /\ OnPeerDrop(s, p).conns = s.conns \ {p}
         /\ OnPeerDrop(s, p).edges \subseteq s.edges
         /\ Edge(s.me, p) \notin OnPeerDrop(s, p).edges
         /\ \A e \in s.edges \ {Edge(s.me, p)} : s.me \in e => e \in OnPeerDrop(s, p).edges
<1>. DEFINE mine == s.attr[s.me]
            s1 == SetAttr(s, s.me, [mine EXCEPT !.connected = mine.connected \ {p}])
            s2 == GetPeerState(s1, p, FALSE)
            gone == [s2.attr[p] EXCEPT !.connection = FALSE]
            s3 == SetAttr(s2, p, gone)
            s4 == [s3 EXCEPT !.conns = s.conns \ {p}, !.doomed = s.doomed \ {p}]
<1>1. Settled(s1) /\ Same(s1, s) /\ s1.edges = s.edges
  <2>1. s.me \in s.nodes /\ mine \in Attr
        /\ (mine.connection => s.me \in s.conns)
    BY DEF Settled, Sound, State
  <2>2. mine.connected \ {p} \in SUBSET Peer
    BY <2>1 DEF Attr
  <2>3. /\ [mine EXCEPT !.connected = mine.connected \ {p}] \in Attr
        /\ [mine EXCEPT !.connected = mine.connected \ {p}].connection = mine.connection
    BY <2>1, <2>2 DEF Attr
  <2>4. s1.edges = s.edges
    BY DEF SetAttr, Settled, Sound, State
  <2>. QED BY <2>1, <2>3, <2>4, SetAttrSettled
<1>. HIDE DEF s1
<1>2. Settled(s2) /\ Same(s2, s) /\ p \in s2.nodes /\ s2.edges = s.edges
  BY <1>1, GetPeerStateSettled, LookupEdges DEF Same
<1>. HIDE DEF s2
<1>3. /\ Settled(s3) /\ Same(s3, s) /\ s3.attr[p].connection = FALSE
      /\ s3.edges = s.edges
  <2>1. s2.attr[p] \in Attr /\ s2.attr \in [Peer -> Attr]
    BY <1>2 DEF Settled, Sound, State
  <2>2. gone \in Attr /\ gone.connection = FALSE
    BY <2>1 DEF Attr
  <2>. HIDE DEF gone
  <2>3. Settled(s3) /\ Same(s3, s2) /\ s3.attr = [s2.attr EXCEPT ![p] = gone]
    BY <1>2, <2>2, SetAttrSettled
  <2>4. s3.edges = s2.edges
    BY <1>2 DEF SetAttr, Settled, Sound, State
  <2>. QED BY <1>2, <2>1, <2>2, <2>3, <2>4 DEF Same
<1>. HIDE DEF s3
<1>4. Settled(s4) /\ s4.me = s.me /\ s4.conns = s.conns \ {p} /\ s4.edges = s.edges
  <2>1. /\ s4.online = s3.online /\ s4.edges = s3.edges /\ s4.me = s3.me
        /\ s4.conns = s.conns \ {p} /\ Sound(s4)
    BY <1>3 DEF Settled, Sound, State, Same
  <2>. QED BY <1>3, <2>1 DEF Settled, Same
<1>. HIDE DEF s4
<1>. DEFINE s5 == DropConnection(s4, s.me, p)
<1>5. Settled(s5) /\ s5.me = s.me /\ s5.conns = s.conns \ {p} /\ s5.edges \subseteq s.edges
  BY <1>4, DropConnectionSettled, DropConnectionEdges DEF Settled, Same
<1>51. /\ Edge(s.me, p) \notin s5.edges
       /\ \A e \in s.edges \ {Edge(s.me, p)} : s.me \in e => e \in s5.edges
  BY <1>4, DropConnectionOwn DEF Settled
<1>6. OnPeerDrop(s, p) = Broadcast(s5)
  BY DEF OnPeerDrop, s1, s2, s3, s4
<1>. HIDE DEF s5
<1>. QED BY <1>5, <1>51, <1>6, BroadcastSettled, LookupEdges DEF Keeps, Same

\* A handler that looks the sender up and replaces its attributes.
LEMMA SenderKeeps ==
  ASSUME NEW s, Settled(s), NEW p \in Peer, NEW a \in Attr,
         a.connection = GetPeerState(s, p, FALSE).attr[p].connection
  PROVE  /\ Keeps(SetAttr(GetPeerState(s, p, FALSE), p, a), s)
         /\ SetAttr(GetPeerState(s, p, FALSE), p, a).topics = s.topics
<1>. DEFINE s1 == GetPeerState(s, p, FALSE)
<1>1. Settled(s1) /\ Same(s1, s) /\ p \in s1.nodes
  BY GetPeerStateSettled
<1>2. a.connection => p \in s1.conns
  BY <1>1 DEF Settled, Sound
<1>. HIDE DEF s1
<1>3. Settled(SetAttr(s1, p, a)) /\ Same(SetAttr(s1, p, a), s1)
  BY <1>1, <1>2, SetAttrSettled
<1>. QED BY <1>1, <1>3 DEF Keeps, Same, s1

\* The sender of a packet is a node whose attributes have their type.
LEMMA SenderAttr ==
  ASSUME NEW s, Settled(s), NEW p \in Peer
  PROVE  GetPeerState(s, p, FALSE).attr[p] \in Attr
<1>1. Settled(GetPeerState(s, p, FALSE))
  BY GetPeerStateSettled
<1>. QED BY <1>1 DEF Settled, Sound, State

\* The PERSISTENT case of onbroadcast keeps the inductive invariant.
LEMMA OnPersistentKeeps ==
  ASSUME NEW s, Settled(s), NEW p \in Peer, NEW m \in PersistentPkt
  PROVE  Keeps(OnPersistent(s, p, m), s)
<1>. DEFINE a == GetPeerState(s, p, FALSE).attr[p]
<1>1. a \in Attr /\ m.ephemeral \in BOOLEAN
  BY SenderAttr DEF PersistentPkt
<1>2. /\ [a EXCEPT !.ephemeral = m.ephemeral] \in Attr
      /\ [a EXCEPT !.ephemeral = m.ephemeral].connection = a.connection
  BY <1>1 DEF Attr
<1>. QED BY <1>2, SenderKeeps DEF OnPersistent

\* The USER_DATA case keeps it.
LEMMA OnUserDataKeeps ==
  ASSUME NEW s, Settled(s), NEW p \in Peer, NEW m \in UserDataPkt
  PROVE  Keeps(OnUserData(s, p, m), s)
<1>. DEFINE a == GetPeerState(s, p, FALSE).attr[p]
<1>1. a \in Attr /\ m.data \in Data
  BY SenderAttr DEF UserDataPkt
<1>2. /\ [a EXCEPT !.data = m.data] \in Attr
      /\ [a EXCEPT !.data = m.data].connection = a.connection
  BY <1>1 DEF Attr
<1>. QED BY <1>2, SenderKeeps DEF OnUserData

\* The CONNECTED case keeps it.
LEMMA OnConnectedKeeps ==
  ASSUME NEW s, Settled(s), NEW p \in Peer, NEW m \in ConnectionPkt, m.peer # p
  PROVE  Keeps(OnConnected(s, p, m), s)
<1>1. Settled(GetPeerState(s, p, FALSE)) /\ GetPeerState(s, p, FALSE).me = s.me
  BY GetPeerStateSettled DEF Same
<1>2. m.peer \in Peer /\ Sound(GetPeerState(s, p, FALSE))
  BY <1>1 DEF ConnectionPkt, Settled
<1>. QED BY <1>1, <1>2, AddConnectionSettles DEF OnConnected, Keeps, Same

\* The DISCONNECTED case keeps it.
LEMMA OnDisconnectedKeeps ==
  ASSUME NEW s, Settled(s), NEW p \in Peer, NEW m \in ConnectionPkt
  PROVE  Keeps(OnDisconnected(s, p, m), s)
<1>. DEFINE s1 == GetPeerState(s, p, FALSE)
<1>1. Settled(s1) /\ s1.me = s.me
  BY GetPeerStateSettled DEF Same
<1>. HIDE DEF s1
<1>2. Settled(DropConnection(s1, p, m.peer)) /\ DropConnection(s1, p, m.peer).me = s1.me
  BY <1>1, DropConnectionSettled DEF Same
<1>. QED BY <1>1, <1>2 DEF OnDisconnected, Keeps, s1

\* The TOPIC_JOIN case keeps it.
LEMMA OnTopicJoinKeeps ==
  ASSUME NEW s, Settled(s), NEW p \in Peer, NEW m \in TopicJoinPkt
  PROVE  Keeps(OnTopicJoin(s, p, m), s)
<1>. DEFINE s1 == GetPeerState(s, p, FALSE)
            a  == s1.attr[p]
            look == [a.lookingup EXCEPT ![m.topic] = IF m.client THEN m.name ELSE @]
            ann  == [a.announcing EXCEPT ![m.topic] = IF m.server THEN m.name ELSE @]
            s2 == SetAttr(s1, p, SetSubs(a, look, ann))
            tp == TopicsSet(s.topics, m.topic, m.name)
<1>1. m.topic \in Topic /\ m.name \in TopicName
  BY DEF TopicJoinPkt
<1>2. a \in Attr
  BY SenderAttr
<1>. HIDE DEF s1, a
<1>3. look \in SubMap /\ ann \in SubMap
  BY <1>1, <1>2 DEF Attr, SubMap
<1>. HIDE DEF look, ann
<1>4. SetSubs(a, look, ann) \in Attr /\ SetSubs(a, look, ann).connection = a.connection
  BY <1>2, <1>3, SetSubsType
<1>5. Keeps(s2, s) /\ s2.topics = s.topics
  BY <1>4, SenderKeeps DEF s1, a
<1>. HIDE DEF s2
<1>6. Listing(tp)
  <2>1. Listing(s.topics)
    BY DEF Settled, Sound, State, Listing
  <2>. QED BY <1>1, <2>1, TopicsSetListing
<1>. HIDE DEF tp
<1>7. Keeps([s2 EXCEPT !.topics = tp], s2)
  BY <1>5, <1>6, SetTopicsSettled DEF Keeps
<1>8. OnTopicJoin(s, p, m) = [s2 EXCEPT !.topics = tp]
  BY DEF OnTopicJoin, s1, a, look, ann, s2, tp
<1>. QED BY <1>5, <1>7, <1>8 DEF Keeps

\* The TOPIC_LEAVE case keeps it.
LEMMA OnTopicLeaveKeeps ==
  ASSUME NEW s, Settled(s), NEW p \in Peer, NEW m \in TopicLeavePkt
  PROVE  Keeps(OnTopicLeave(s, p, m), s)
<1>. DEFINE s1 == GetPeerState(s, p, FALSE)
            a  == s1.attr[p]
            s2 == SetAttr(s1, p, Unsubscribed(a, m.topic))
            tp == TopicsDelete(s.topics, m.topic)
<1>1. m.topic \in Topic /\ a \in Attr
  BY SenderAttr DEF TopicLeavePkt
<1>2. /\ Unsubscribed(a, m.topic) \in Attr
      /\ Unsubscribed(a, m.topic).connection = a.connection
  BY <1>1, UnsubscribedType
<1>3. Keeps(s2, s) /\ s2.topics = s.topics
  BY <1>2, SenderKeeps
<1>. HIDE DEF s2
<1>4. Listing(tp)
  <2>1. Listing(s.topics)
    BY DEF Settled, Sound, State, Listing
  <2>. QED BY <1>1, <2>1, TopicsDeleteListing
<1>. HIDE DEF tp
<1>5. Keeps([s2 EXCEPT !.topics = tp], s2)
  BY <1>3, <1>4, SetTopicsSettled DEF Keeps
<1>6. OnTopicLeave(s, p, m) = [s2 EXCEPT !.topics = tp]
  BY DEF OnTopicLeave, s2, tp
<1>. QED BY <1>3, <1>5, <1>6 DEF Keeps

------------------------------------------------------------------------------
(* The bootstrap response. *)

\* The Topics.set calls of _bootstrap keep a counted topic listed.
LEMMA JoinListedListing ==
  ASSUME NEW tp, Listing(tp), NEW b \in Bootstraps, NEW ids \in SUBSET DOMAIN b
  PROVE  Listing(JoinListed(tp, b, ids))
<1>. DEFINE Sayers(t) == {p \in ids : Listed(b[p].topics[t])}
            Names(t)  == {b[p].topics[t].name : p \in Sayers(t)} \cap Name
            store == [t \in Topic |->
                       IF tp.store[t] \in Name \/ Sayers(t) = {} THEN tp.store[t]
                       ELSE IF Names(t) # {} THEN CHOOSE n \in Names(t) : TRUE
                       ELSE Null]
            counter == [t \in Topic |-> tp.counter[t] + Cardinality(Sayers(t))]
<1>1. \A t \in Topic : /\ Cardinality(Sayers(t)) \in Nat
                       /\ Sayers(t) = {} => Cardinality(Sayers(t)) = 0
  <2>. TAKE t \in Topic
  <2>1. DOMAIN b \subseteq Peer
    BY DEF Bootstraps
  <2>2. IsFiniteSet(Sayers(t))
    BY <2>1, PeerAssumption, FS_Subset
  <2>. QED BY <2>2, FS_CardinalityType, FS_EmptySet
<1>2. \A t \in Topic : Names(t) # {} => (CHOOSE n \in Names(t) : TRUE) \in Name
  OBVIOUS
<1>. HIDE DEF Sayers, Names
<1>3. store \in SubMap /\ counter \in [Topic -> Int]
  BY <1>1, <1>2 DEF Listing, TopicMap, SubMap, TopicName
<1>4. ASSUME NEW t \in Topic, counter[t] > 0 PROVE store[t] # Absent
  <2>1. CASE Sayers(t) = {}
    <3>1. tp.counter[t] \in Int /\ counter[t] = tp.counter[t]
      BY <1>1, <2>1 DEF Listing, TopicMap
    <3>2. store[t] = tp.store[t]
      BY <2>1
    <3>. QED BY <1>4, <3>1, <3>2 DEF Listing, TopicsHas
  <2>2. CASE Sayers(t) # {}
    BY <1>2, <2>2, NameAssumption
  <2>. QED BY <2>1, <2>2
<1>. HIDE DEF store, counter
<1>5. Listing([store |-> store, counter |-> counter])
  BY <1>3, <1>4 DEF Listing, TopicMap, TopicsHas
<1>6. JoinListed(tp, b, ids) = [store |-> store, counter |-> counter]
  BY DEF JoinListed, store, counter, Sayers, Names
<1>. QED BY <1>5, <1>6

\* The attributes of a peer after its entry in a snapshot is read.
LEMMA ListenType ==
  ASSUME NEW a \in Attr, NEW entry \in BootstrapPeer
  PROVE  Listen(a, entry) \in Attr /\ Listen(a, entry).connection = a.connection
<1>. DEFINE look == [t \in Topic |-> IF entry.topics[t].client
                                     THEN entry.topics[t].name ELSE a.lookingup[t]]
            ann  == [t \in Topic |-> IF entry.topics[t].server
                                     THEN entry.topics[t].name ELSE a.announcing[t]]
<1>1. look \in SubMap /\ ann \in SubMap
  BY DEF Attr, SubMap, BootstrapPeer, Meta
<1>. HIDE DEF look, ann
<1>2. SetSubs(a, look, ann) \in Attr /\ SetSubs(a, look, ann).connection = a.connection
  BY <1>1, SetSubsType
<1>3. entry.data \in Data
  BY DEF BootstrapPeer
<1>4. /\ [SetSubs(a, look, ann) EXCEPT !.data = entry.data] \in Attr
      /\ [SetSubs(a, look, ann) EXCEPT !.data = entry.data].connection = a.connection
  BY <1>2, <1>3 DEF Attr
<1>. QED BY <1>4 DEF Listen, look, ann

\* What _bootstrap leaves to _recalculate: a sound state in which nothing has
\* changed for this node, and every listed topic is set.
LEMMA BootstrapSound ==
  ASSUME NEW s, Settled(s), NEW b \in Bootstraps
  PROVE  \E r : /\ Sound(r) /\ r.me = s.me /\ r.attr[s.me] = s.attr[s.me]
                /\ r.topics = JoinListed(s.topics, b, DOMAIN b \ {s.me})
                /\ Bootstrap(s, b) = IF s.bootstrapped THEN s ELSE Recalculate(r)
<1>. DEFINE ids == DOMAIN b \ {s.me}
            s1  == TouchAll(s, Mentioned(b, ids))
            at  == [p \in Peer |-> IF p \in ids THEN Listen(s1.attr[p], b[p])
                                                ELSE s1.attr[p]]
            E   == s1.edges \cup Links(b, ids)
            tp  == JoinListed(s.topics, b, ids)
            s2  == [s1 EXCEPT !.attr = at, !.edges = E, !.topics = tp,
                              !.bootstrapped = TRUE]
<1>1. /\ ids \subseteq Peer
      /\ \A p \in ids : /\ b[p] \in BootstrapPeer
                        /\ b[p].connected \subseteq Peer
                        /\ p \notin b[p].connected
  BY DEF Bootstraps, BootstrapPeer
<1>2. Mentioned(b, ids) \in SUBSET Peer
  BY <1>1 DEF Mentioned
<1>3. /\ Sound(s1) /\ s1.me = s.me /\ Mentioned(b, ids) \subseteq s1.nodes
      /\ s1.topics = s.topics
  <2>1. Sound(s)
    BY DEF Settled
  <2>2. Sound(s1) /\ s1 = [s EXCEPT !.nodes = s.nodes \cup Mentioned(b, ids)]
    BY <1>2, <2>1, TouchAllSound
  <2>3. /\ [s EXCEPT !.nodes = s.nodes \cup Mentioned(b, ids)].me = s.me
        /\ [s EXCEPT !.nodes = s.nodes \cup Mentioned(b, ids)].topics = s.topics
        /\ [s EXCEPT !.nodes = s.nodes \cup Mentioned(b, ids)].nodes
             = s.nodes \cup Mentioned(b, ids)
    BY <2>1 DEF Sound, State
  <2>. HIDE DEF s1
  <2>. QED BY <2>2, <2>3
<1>. HIDE DEF s1
<1>4. /\ at \in [Peer -> Attr]
      /\ \A p \in Peer : at[p].connection = s1.attr[p].connection
      /\ \A p \in Peer \ s1.nodes : at[p] = s1.attr[p]
  <2>1. \A p \in Peer : s1.attr[p] \in Attr
    BY <1>3 DEF Sound, State
  <2>2. \A p \in ids : /\ Listen(s1.attr[p], b[p]) \in Attr
                       /\ Listen(s1.attr[p], b[p]).connection = s1.attr[p].connection
    BY <1>1, <2>1, ListenType
  <2>3. ids \subseteq s1.nodes
    BY <1>3 DEF Mentioned
  <2>. QED BY <2>1, <2>2, <2>3
<1>5. E \subseteq Edges /\ \A e \in E : e \subseteq s1.nodes
  <2>1. ASSUME NEW p \in ids, NEW q \in b[p].connected
        PROVE  Edge(p, q) \in Edges /\ Edge(p, q) \subseteq s1.nodes
    <3>1. p \in Peer /\ q \in Peer /\ p # q
      BY <1>1
    <3>2. p \in Mentioned(b, ids) /\ q \in Mentioned(b, ids)
      BY DEF Mentioned
    <3>. QED BY <1>3, <3>1, <3>2 DEF Edge, Edges
  <2>2. Links(b, ids) \subseteq Edges /\ \A e \in Links(b, ids) : e \subseteq s1.nodes
    BY <2>1 DEF Links
  <2>3. s1.edges \subseteq Edges /\ \A e \in s1.edges : e \subseteq s1.nodes
    BY <1>3 DEF Sound, State
  <2>. QED BY <2>2, <2>3
<1>6. Listing(tp)
  <2>1. Listing(s.topics)
    BY DEF Settled, Sound, State, Listing
  <2>. QED BY <2>1, JoinListedListing
<1>7. at[s.me] = s.attr[s.me]
  <2>1. Sound(s) /\ s.me \in Peer
    BY DEF Settled, Sound, State
  <2>2. TouchAll(s, Mentioned(b, ids)) = [s EXCEPT !.nodes = s.nodes \cup Mentioned(b, ids)]
    BY <1>2, <2>1, TouchAllSound
  <2>3. s1.attr = s.attr
    BY <2>1, <2>2 DEF s1, Sound, State
  <2>. QED BY <2>1, <2>3
<1>. HIDE DEF at, E, tp
<1>8. Sound(s2) /\ s2.me = s.me /\ s2.attr = at /\ s2.topics = tp
  BY <1>3, <1>4, <1>5, <1>6 DEF Sound, State, Listing
<1>9. Bootstrap(s, b) = IF s.bootstrapped THEN s ELSE Recalculate(s2)
  BY DEF Bootstrap, s1, at, E, tp
<1>. HIDE DEF s2
<1>. QED BY <1>7, <1>8, <1>9 DEF tp

\* _bootstrap keeps the inductive invariant.
LEMMA BootstrapKeeps ==
  ASSUME NEW s, Settled(s), NEW b \in Bootstraps
  PROVE  Keeps(Bootstrap(s, b), s)
<1>1. PICK r : /\ Sound(r) /\ r.me = s.me
               /\ Bootstrap(s, b) = IF s.bootstrapped THEN s ELSE Recalculate(r)
  BY BootstrapSound
<1>2. Settled(Recalculate(r)) /\ Recalculate(r).me = s.me
  BY <1>1, RecalculateSettles DEF Same
<1>. QED BY <1>1, <1>2 DEF Keeps

------------------------------------------------------------------------------
(* The node's own calls. *)

\* A method that replaces this node's attributes and broadcasts.
LEMMA OwnKeeps ==
  ASSUME NEW s, Settled(s), NEW a \in Attr, a.connection = s.attr[s.me].connection
  PROVE  Keeps(Broadcast(SetAttr(s, s.me, a)), s)
<1>1. s.me \in s.nodes /\ (a.connection => s.me \in s.conns)
  BY DEF Settled, Sound, State
<1>2. Keeps(SetAttr(s, s.me, a), s)
  BY <1>1, SetAttrSettled DEF Keeps, Same
<1>. QED BY <1>2, BroadcastKeeps

\* The attributes of the node itself have their type.
LEMMA OwnAttr ==
  ASSUME NEW s, Settled(s)
  PROVE  s.attr[s.me] \in Attr
BY DEF Settled, Sound, State

\* onstate keeps the inductive invariant.
LEMMA OnStateKeeps ==
  ASSUME NEW s, Settled(s), NEW eph \in BOOLEAN
  PROVE  Keeps(OnState(s, eph), s)
<1>1. /\ [s.attr[s.me] EXCEPT !.ephemeral = eph] \in Attr
      /\ [s.attr[s.me] EXCEPT !.ephemeral = eph].connection = s.attr[s.me].connection
  BY OwnAttr DEF Attr
<1>. QED BY <1>1, OwnKeeps DEF OnState

\* The setter of userData keeps it.
LEMMA SetUserDataKeeps ==
  ASSUME NEW s, Settled(s), NEW d \in Data
  PROVE  Keeps(SetUserData(s, d), s)
<1>1. /\ [s.attr[s.me] EXCEPT !.data = d] \in Attr
      /\ [s.attr[s.me] EXCEPT !.data = d].connection = s.attr[s.me].connection
  BY OwnAttr DEF Attr
<1>. QED BY <1>1, OwnKeeps DEF SetUserData

\* onjoin keeps it.
LEMMA OnJoinKeeps ==
  ASSUME NEW s, Settled(s), NEW t \in Topic, NEW n \in TopicName,
         NEW c \in BOOLEAN, NEW v \in BOOLEAN
  PROVE  Keeps(OnJoin(s, t, n, c, v), s)
<1>. DEFINE a == s.attr[s.me]
            look == [a.lookingup EXCEPT ![t] = IF c THEN n ELSE Absent]
            ann  == [a.announcing EXCEPT ![t] = IF v THEN n ELSE Absent]
<1>1. a \in Attr
  BY OwnAttr
<1>2. look \in SubMap /\ ann \in SubMap
  BY <1>1 DEF Attr, SubMap
<1>. HIDE DEF a, look, ann
<1>3. SetSubs(a, look, ann) \in Attr /\ SetSubs(a, look, ann).connection = a.connection
  BY <1>1, <1>2, SetSubsType
<1>4. Keeps(Broadcast(SetAttr(s, s.me, SetSubs(a, look, ann))), s)
  BY <1>3, OwnKeeps DEF a
<1>. QED BY <1>4 DEF OnJoin, a, look, ann

\* onleave: a timer is armed only for sockets that are open.
LEMMA OnLeaveKeeps ==
  ASSUME NEW s, Settled(s), NEW t \in Topic
  PROVE  Keeps(OnLeave(s, t), s)
<1>. DEFINE a  == Unsubscribed(s.attr[s.me], t)
            s1 == Broadcast(SetAttr(s, s.me, a))
            D  == {p \in s1.conns : NothingInCommon(s1, p)}
            s2 == [s1 EXCEPT !.doomed = s1.doomed \cup D]
<1>1. a \in Attr /\ a.connection = s.attr[s.me].connection
  BY OwnAttr, UnsubscribedType
<1>2. Settled(s1) /\ s1.me = s.me
  BY <1>1, OwnKeeps DEF Keeps
<1>3. D \subseteq s1.conns
  OBVIOUS
<1>. HIDE DEF s1, D
<1>4. Settled(s2) /\ s2.me = s1.me
  <2>1. /\ s2.online = s1.online /\ s2.edges = s1.edges /\ s2.me = s1.me
        /\ Sound(s2)
    BY <1>2, <1>3 DEF Settled, Sound, State
  <2>. QED BY <1>2, <2>1 DEF Settled
<1>. QED BY <1>2, <1>4 DEF OnLeave, Keeps, s1, D

------------------------------------------------------------------------------
(* What a step leaves of what the node believed: hearsay changes no peer's *)
(* subscriptions, data or flag, but _recalculate may forget the peer.      *)

Like(a, b)    == /\ a.lookingup = b.lookingup /\ a.announcing = b.announcing
                 /\ a.data = b.data /\ a.ephemeral = b.ephemeral
Alike(r, s)   == /\ r.me = s.me /\ r.topics = s.topics
                 /\ \A p \in Peer : Like(r.attr[p], s.attr[p])
Hearsay(r, s) == /\ r.topics = s.topics
                 /\ \A p \in Peer : \/ Like(r.attr[p], s.attr[p])
                                    \/ r.attr[p] = Fresh(FALSE) /\ p # s.me

\* What _recalculate forgets is not this node.
LEMMA RecalculateHearsay ==
  ASSUME NEW s, Sound(s)
  PROVE  Hearsay(Recalculate(s), s)
<1>. DEFINE on  == s.nodes \cap Reach(s.me, s.edges)
            off == s.nodes \ on
            at  == [p \in Peer |-> IF p \in off THEN Fresh(FALSE) ELSE s.attr[p]]
<1>1. s.me \in Peer /\ s.edges \in SUBSET SUBSET Peer /\ s.me \in s.nodes
  BY DEF Sound, State, Edges
<1>2. s.me \notin off
  BY <1>1, ReachClosed
<1>3. Recalculate(s).attr = at /\ Recalculate(s).topics = s.topics
  BY DEF Recalculate, Sound, State
<1>. HIDE DEF off
<1>. QED BY <1>2, <1>3 DEF Hearsay, Like

\* Hearsay about a state that is like another is hearsay about the other.
LEMMA HearsayAlike ==
  ASSUME NEW q, NEW r, NEW s, Alike(r, s), Hearsay(q, r)
  PROVE  Hearsay(q, s)
BY DEF Alike, Hearsay, Like

\* Creating nodes changes no attributes.
LEMMA GetPeerStateAlike ==
  ASSUME NEW s, Sound(s), NEW p \in Peer
  PROVE  Alike(GetPeerState(s, p, FALSE), s) /\ Sound(GetPeerState(s, p, FALSE))
<1>1. /\ GetPeerState(s, p, FALSE) = [s EXCEPT !.nodes = s.nodes \cup {p}]
      /\ Sound(GetPeerState(s, p, FALSE))
  BY GetPeerStateSound
<1>2. Alike([s EXCEPT !.nodes = s.nodes \cup {p}], s)
  BY DEF Alike, Like, Sound, State
<1>. QED BY <1>1, <1>2

\* _addConnection with _recalculate is hearsay about every peer.
LEMMA AddConnectionHearsay ==
  ASSUME NEW s, Sound(s), NEW a \in Peer, NEW b \in Peer, a # b
  PROVE  Hearsay(AddConnection(s, a, b), s)
<1>. DEFINE s1 == GetPeerState(s, a, FALSE)
            s2 == GetPeerState(s1, b, FALSE)
            s3 == [s2 EXCEPT !.edges = s2.edges \cup {Edge(a, b)}]
<1>1. Alike(s1, s) /\ Sound(s1)
  BY GetPeerStateAlike
<1>. HIDE DEF s1
<1>2. Alike(s2, s1) /\ Sound(s2)
  BY <1>1, GetPeerStateAlike
<1>. HIDE DEF s2
<1>3. Alike(s3, s2)
  BY <1>2 DEF Alike, Like, Sound, State
<1>4. s3 = MergeEdge(s, a, b)
  BY DEF MergeEdge, s1, s2
<1>. HIDE DEF s3
<1>5. Sound(s3)
  BY <1>4, MergeEdgeSound
<1>6. Alike(s3, s)
  BY <1>1, <1>2, <1>3 DEF Alike, Like
<1>. QED BY <1>4, <1>5, <1>6, RecalculateHearsay, HearsayAlike DEF AddConnection

\* So is _dropConnection.
LEMMA DropConnectionHearsay ==
  ASSUME NEW s, Sound(s), NEW a, NEW b
  PROVE  Hearsay(DropConnection(s, a, b), s)
<1>. DEFINE s1 == [s EXCEPT !.edges = s.edges \ {Edge(a, b)}]
<1>1. Sound(s1) /\ Alike(s1, s) /\ Hearsay(s, s)
  BY DEF Sound, State, Alike, Like, Hearsay
<1>. HIDE DEF s1
<1>2. Hearsay(Recalculate(s1), s)
  BY <1>1, RecalculateHearsay, HearsayAlike
<1>. QED BY <1>1, <1>2 DEF DropConnection, s1

\* broadcast() and send() leave the attributes as they are.
LEMMA BroadcastHearsay ==
  ASSUME NEW s, Settled(s), NEW r, Hearsay(s, r)
  PROVE  /\ Hearsay(Broadcast(s), r)
         /\ Broadcast(s).attr = s.attr /\ Broadcast(s).topics = s.topics
         /\ \A p \in Peer : Hearsay(SendTo(s, p), r)
<1>1. Sound(s) /\ s.conns \in SUBSET Peer
  BY DEF Settled, Sound, State
<1>2. Broadcast(s) = [s EXCEPT !.nodes = s.nodes \cup s.conns]
  BY <1>1, TouchAllSound DEF Broadcast
<1>3. Broadcast(s).attr = s.attr /\ Broadcast(s).topics = s.topics
  BY <1>1, <1>2 DEF Sound, State
<1>4. \A p \in Peer : SendTo(s, p).attr = s.attr /\ SendTo(s, p).topics = s.topics
  BY GetPeerStateSettled DEF SendTo, Same
<1>. QED BY <1>3, <1>4 DEF Hearsay

\* onpeeradd learns nothing about anyone but the connection.
LEMMA OnPeerAddHearsay ==
  ASSUME NEW s, Settled(s), NEW p \in Peer, p # s.me
  PROVE  Hearsay(OnPeerAdd(s, p), s)
<1>. DEFINE s1 == GetPeerState(s, p, TRUE)
            s2 == [s1 EXCEPT !.conns = s.conns \cup {p}]
            s3 == AddConnection(s2, s.me, p)
<1>1. Sound(s2) /\ s2.me = s.me /\ Alike(s2, s)
  <2>1. CASE p \in s.nodes
    <3>1. s1 = s
      BY <2>1 DEF GetPeerState
    <3>. QED BY <3>1 DEF Settled, Sound, State, Alike, Like
  <2>2. CASE p \notin s.nodes
    <3>. DEFINE at == [s.attr EXCEPT ![p] = Fresh(TRUE)]
    <3>1. /\ at \in [Peer -> Attr]
          /\ \A q \in Peer : at[q] = IF q = p THEN Fresh(TRUE) ELSE s.attr[q]
      BY FreshType DEF Settled, Sound, State
    <3>2. s2 = [s EXCEPT !.nodes = s.nodes \cup {p}, !.attr = at,
                         !.conns = s.conns \cup {p}]
      BY <2>2 DEF Settled, Sound, State, GetPeerState, SetAttr
    <3>3. s.attr[p] = Fresh(FALSE) /\ Like(Fresh(TRUE), Fresh(FALSE))
      BY <2>2 DEF Settled, Sound, Fresh, Like
    <3>. HIDE DEF s2, at
    <3>4. Sound(s2) /\ s2.me = s.me /\ s2.topics = s.topics /\ s2.attr = at
      BY <3>1, <3>2 DEF Settled, Sound, State
    <3>5. \A q \in Peer : Like(at[q], s.attr[q])
      BY <3>1, <3>3 DEF Like
    <3>. QED BY <3>4, <3>5 DEF Alike
  <2>. QED BY <2>1, <2>2
<1>. HIDE DEF s2
<1>2. Settled(s3) /\ Hearsay(s3, s)
  <2>1. s.me \in Peer
    BY DEF Settled, Sound, State
  <2>. QED BY <1>1, <2>1, AddConnectionSettles, AddConnectionHearsay, HearsayAlike
<1>. HIDE DEF s3
<1>3. Hearsay(Broadcast(s3), s) /\ Settled(Broadcast(s3))
  BY <1>2, BroadcastHearsay, BroadcastSettled
<1>4. Hearsay(SendTo(Broadcast(s3), p), s)
  BY <1>3, BroadcastHearsay
<1>5. s1.conns = s.conns
  BY DEF GetPeerState, SetAttr, Settled, Sound, State
<1>. QED BY <1>3, <1>4, <1>5 DEF OnPeerAdd, s2, s3

\* A peer's connection can be replaced without a word about its topics.
LEMMA SetAttrAlike ==
  ASSUME NEW s, Settled(s), NEW p \in s.nodes, NEW a \in Attr,
         a.connection => p \in s.conns, Like(a, s.attr[p])
  PROVE  Alike(SetAttr(s, p, a), s)
<1>1. /\ SetAttr(s, p, a).attr = [s.attr EXCEPT ![p] = a]
      /\ Same(SetAttr(s, p, a), s)
  BY SetAttrSettled
<1>2. s.attr \in [Peer -> Attr]
  BY DEF Settled, Sound, State
<1>. QED BY <1>1, <1>2 DEF Alike, Like, Same

\* onpeerdrop learns nothing about anyone but the connection.
LEMMA OnPeerDropHearsay ==
  ASSUME NEW s, Settled(s), NEW p \in Peer
  PROVE  Hearsay(OnPeerDrop(s, p), s)
<1>. DEFINE mine == s.attr[s.me]
            cut  == [mine EXCEPT !.connected = mine.connected \ {p}]
            s1 == SetAttr(s, s.me, cut)
            s2 == GetPeerState(s1, p, FALSE)
            gone == [s2.attr[p] EXCEPT !.connection = FALSE]
            s3 == SetAttr(s2, p, gone)
            s4 == [s3 EXCEPT !.conns = s.conns \ {p}, !.doomed = s.doomed \ {p}]
            s5 == DropConnection(s4, s.me, p)
<1>1. Settled(s1) /\ Same(s1, s) /\ Alike(s1, s)
  <2>1. s.me \in s.nodes /\ mine \in Attr /\ (mine.connection => s.me \in s.conns)
    BY DEF Settled, Sound, State
  <2>2. mine.connected \ {p} \in SUBSET Peer
    BY <2>1 DEF Attr
  <2>3. cut \in Attr /\ cut.connection = mine.connection /\ Like(cut, mine)
    BY <2>1, <2>2 DEF Attr, Like
  <2>. HIDE DEF cut
  <2>. QED BY <2>1, <2>3, SetAttrSettled, SetAttrAlike
<1>. HIDE DEF s1
<1>2. Settled(s2) /\ Same(s2, s) /\ p \in s2.nodes /\ Alike(s2, s)
  <2>1. Sound(s1)
    BY <1>1 DEF Settled
  <2>2. Alike(s2, s1) /\ Settled(s2) /\ Same(s2, s1) /\ p \in s2.nodes
    BY <1>1, <2>1, GetPeerStateSettled, GetPeerStateAlike
  <2>. QED BY <1>1, <2>2 DEF Same, Alike, Like
<1>. HIDE DEF s2
<1>3. /\ Settled(s3) /\ Same(s3, s) /\ Alike(s3, s) /\ s3.attr[p].connection = FALSE
  <2>1. s2.attr[p] \in Attr /\ s2.attr \in [Peer -> Attr]
    BY <1>2 DEF Settled, Sound, State
  <2>2. gone \in Attr /\ gone.connection = FALSE /\ Like(gone, s2.attr[p])
    BY <2>1 DEF Attr, Like
  <2>. HIDE DEF gone
  <2>3. Settled(s3) /\ Same(s3, s2) /\ Alike(s3, s2) /\ s3.attr = [s2.attr EXCEPT ![p] = gone]
    BY <1>2, <2>2, SetAttrSettled, SetAttrAlike
  <2>. QED BY <1>2, <2>1, <2>2, <2>3 DEF Same, Alike, Like
<1>. HIDE DEF s3
<1>4. Settled(s4) /\ Alike(s4, s)
  <2>1. /\ s4.online = s3.online /\ s4.edges = s3.edges /\ s4.me = s3.me
        /\ s4.attr = s3.attr /\ s4.topics = s3.topics /\ Sound(s4)
    BY <1>3 DEF Settled, Sound, State, Same
  <2>. QED BY <1>3, <2>1 DEF Settled, Alike
<1>. HIDE DEF s4
<1>5. Settled(s5) /\ Hearsay(s5, s)
  <2>1. Sound(s4)
    BY <1>4 DEF Settled
  <2>2. Hearsay(s5, s4) /\ Settled(s5)
    BY <1>4, <2>1, DropConnectionHearsay, DropConnectionSettled
  <2>. QED BY <1>4, <2>2, HearsayAlike
<1>6. OnPeerDrop(s, p) = Broadcast(s5)
  BY DEF OnPeerDrop, s1, s2, s3, s4
<1>. HIDE DEF s5
<1>. QED BY <1>5, <1>6, BroadcastHearsay

\* Every packet but the four about their sender's own state is hearsay.
LEMMA PacketHearsay ==
  ASSUME NEW s, Settled(s), NEW p \in Peer
  PROVE  /\ Hearsay(GetPeerState(s, p, FALSE), s)
         /\ \A m \in ConnectionPkt : m.peer # p => Hearsay(OnConnected(s, p, m), s)
         /\ \A m \in ConnectionPkt : Hearsay(OnDisconnected(s, p, m), s)
<1>. DEFINE s1 == GetPeerState(s, p, FALSE)
<1>1. Settled(s1) /\ Sound(s1) /\ Alike(s1, s) /\ p \in s1.nodes /\ Sound(s)
  <2>1. Sound(s)
    BY DEF Settled
  <2>. QED BY <2>1, GetPeerStateSettled, GetPeerStateAlike
<1>2. Hearsay(s1, s)
  BY <1>1 DEF Hearsay, Alike
<1>. HIDE DEF s1
<1>4. ASSUME NEW m \in ConnectionPkt, m.peer # p
      PROVE  Hearsay(OnConnected(s, p, m), s)
  <2>1. m.peer \in Peer
    BY DEF ConnectionPkt
  <2>2. Hearsay(AddConnection(s1, p, m.peer), s1)
    BY <1>1, <1>4, <2>1, AddConnectionHearsay
  <2>. QED BY <1>1, <2>2, HearsayAlike DEF OnConnected, s1
<1>5. ASSUME NEW m \in ConnectionPkt PROVE Hearsay(OnDisconnected(s, p, m), s)
  <2>1. Hearsay(DropConnection(s1, p, m.peer), s1)
    BY <1>1, DropConnectionHearsay
  <2>. QED BY <1>1, <2>1, HearsayAlike DEF OnDisconnected, s1
<1>. QED BY <1>2, <1>4, <1>5 DEF s1

------------------------------------------------------------------------------
(* The steps that do say something about a peer's own state. *)

\* Attributes of one peer replaced: those of the others stay.
LEMMA SetAttrOthers ==
  ASSUME NEW s, Settled(s), NEW p \in Peer, NEW a
  PROVE  /\ SetAttr(s, p, a).topics = s.topics
         /\ SetAttr(s, p, a).attr = [s.attr EXCEPT ![p] = a]
         /\ \A q \in Peer \ {p} : SetAttr(s, p, a).attr[q] = s.attr[q]
BY DEF SetAttr, Settled, Sound, State

\* A packet about the subscriptions, data or flag of its sender changes no other
\* peer, and the topic map only by Topics.set or Topics.delete.
LEMMA SenderOnly ==
  ASSUME NEW s, Settled(s), NEW p \in Peer, NEW q \in Peer \ {p}
  PROVE  /\ \A m \in TopicJoinPkt :
              /\ OnTopicJoin(s, p, m).attr[q] = s.attr[q]
              /\ OnTopicJoin(s, p, m).topics = TopicsSet(s.topics, m.topic, m.name)
         /\ \A m \in TopicLeavePkt :
              /\ OnTopicLeave(s, p, m).attr[q] = s.attr[q]
              /\ OnTopicLeave(s, p, m).topics = TopicsDelete(s.topics, m.topic)
         /\ \A m \in UserDataPkt :
              /\ OnUserData(s, p, m).attr[q] = s.attr[q]
              /\ OnUserData(s, p, m).topics = s.topics
         /\ \A m \in PersistentPkt :
              /\ OnPersistent(s, p, m).attr[q] = s.attr[q]
              /\ OnPersistent(s, p, m).topics = s.topics
<1>. DEFINE s1 == GetPeerState(s, p, FALSE)
<1>1. Settled(s1) /\ s1.attr = s.attr /\ s1.topics = s.topics
  BY GetPeerStateSettled DEF Same
<1>2. ASSUME NEW a
      PROVE  /\ SetAttr(s1, p, a).topics = s.topics
             /\ SetAttr(s1, p, a).attr[q] = s.attr[q]
  <2>1. s1.attr \in [Peer -> Attr] /\ q \in Peer /\ q # p
    BY <1>1 DEF Settled, Sound, State
  <2>. HIDE DEF s1
  <2>2. /\ SetAttr(s1, p, a).topics = s1.topics
        /\ SetAttr(s1, p, a).attr = [s1.attr EXCEPT ![p] = a]
    BY <1>1, SetAttrOthers
  <2>. QED BY <1>1, <2>1, <2>2
<1>3. ASSUME NEW a, NEW tp
      PROVE  /\ [SetAttr(s1, p, a) EXCEPT !.topics = tp].topics = tp
             /\ [SetAttr(s1, p, a) EXCEPT !.topics = tp].attr[q] = s.attr[q]
  <2>1. SetAttr(s1, p, a) = [s1 EXCEPT !.attr = [s1.attr EXCEPT ![p] = a]]
    BY DEF SetAttr
  <2>. HIDE DEF s1
  <2>2. /\ [SetAttr(s1, p, a) EXCEPT !.topics = tp].topics = tp
        /\ [SetAttr(s1, p, a) EXCEPT !.topics = tp].attr = SetAttr(s1, p, a).attr
    BY <1>1, <2>1 DEF Settled, Sound, State
  <2>. QED BY <1>2, <2>2
<1>4. ASSUME NEW m \in TopicJoinPkt
      PROVE  /\ OnTopicJoin(s, p, m).attr[q] = s.attr[q]
             /\ OnTopicJoin(s, p, m).topics = TopicsSet(s.topics, m.topic, m.name)
  <2>. DEFINE b == SetSubs(s1.attr[p],
                     [s1.attr[p].lookingup EXCEPT ![m.topic] = IF m.client THEN m.name ELSE @],
                     [s1.attr[p].announcing EXCEPT ![m.topic] = IF m.server THEN m.name ELSE @])
              tp == TopicsSet(s.topics, m.topic, m.name)
  <2>1. OnTopicJoin(s, p, m) = [SetAttr(s1, p, b) EXCEPT !.topics = tp]
    BY DEF OnTopicJoin
  <2>. HIDE DEF b, tp, s1
  <2>2. OnTopicJoin(s, p, m).attr[q] = s.attr[q] /\ OnTopicJoin(s, p, m).topics = tp
    BY <1>3, <2>1
  <2>. QED BY <2>2 DEF tp
<1>5. ASSUME NEW m \in TopicLeavePkt
      PROVE  /\ OnTopicLeave(s, p, m).attr[q] = s.attr[q]
             /\ OnTopicLeave(s, p, m).topics = TopicsDelete(s.topics, m.topic)
  <2>. DEFINE b == Unsubscribed(s1.attr[p], m.topic)
              tp == TopicsDelete(s.topics, m.topic)
  <2>1. OnTopicLeave(s, p, m) = [SetAttr(s1, p, b) EXCEPT !.topics = tp]
    BY DEF OnTopicLeave
  <2>. HIDE DEF b, tp, s1
  <2>2. OnTopicLeave(s, p, m).attr[q] = s.attr[q] /\ OnTopicLeave(s, p, m).topics = tp
    BY <1>3, <2>1
  <2>. QED BY <2>2 DEF tp
<1>6. ASSUME NEW m \in UserDataPkt
      PROVE  /\ OnUserData(s, p, m).attr[q] = s.attr[q]
             /\ OnUserData(s, p, m).topics = s.topics
  <2>. DEFINE b == [s1.attr[p] EXCEPT !.data = m.data]
  <2>1. OnUserData(s, p, m) = SetAttr(s1, p, b)
    BY DEF OnUserData
  <2>. HIDE DEF b, s1
  <2>. QED BY <1>2, <2>1
<1>7. ASSUME NEW m \in PersistentPkt
      PROVE  /\ OnPersistent(s, p, m).attr[q] = s.attr[q]
             /\ OnPersistent(s, p, m).topics = s.topics
  <2>. DEFINE b == [s1.attr[p] EXCEPT !.ephemeral = m.ephemeral]
  <2>1. OnPersistent(s, p, m) = SetAttr(s1, p, b)
    BY DEF OnPersistent
  <2>. HIDE DEF b, s1
  <2>. QED BY <1>2, <2>1
<1>. QED BY <1>4, <1>5, <1>6, <1>7

\* PERSISTENT and USER_DATA replace that one field of their sender.
LEMMA SenderFlags ==
  ASSUME NEW s, Settled(s), NEW p \in Peer
  PROVE  /\ \A m \in PersistentPkt :
              OnPersistent(s, p, m).attr[p] = [s.attr[p] EXCEPT !.ephemeral = m.ephemeral]
         /\ \A m \in UserDataPkt :
              OnUserData(s, p, m).attr[p] = [s.attr[p] EXCEPT !.data = m.data]
<1>. DEFINE s1 == GetPeerState(s, p, FALSE)
<1>1. Settled(s1) /\ s1.attr = s.attr
  BY GetPeerStateSettled DEF Same
<1>. HIDE DEF s1
<1>2. ASSUME NEW a PROVE SetAttr(s1, p, a).attr[p] = a
  <2>1. SetAttr(s1, p, a).attr = [s1.attr EXCEPT ![p] = a]
    BY <1>1, SetAttrOthers
  <2>. QED BY <1>1, <2>1 DEF Settled, Sound, State
<1>3. \A m : OnPersistent(s, p, m) = SetAttr(s1, p, [s1.attr[p] EXCEPT !.ephemeral = m.ephemeral])
  BY DEF OnPersistent, s1
<1>4. \A m : OnUserData(s, p, m) = SetAttr(s1, p, [s1.attr[p] EXCEPT !.data = m.data])
  BY DEF OnUserData, s1
<1>. QED BY <1>1, <1>2, <1>3, <1>4

\* A method about this node changes no other peer and no topic count.
LEMMA OwnOnly ==
  ASSUME NEW s, Settled(s), NEW a \in Attr, a.connection = s.attr[s.me].connection,
         NEW r, r = Broadcast(SetAttr(s, s.me, a))
  PROVE  /\ \A q \in Peer \ {s.me} : r.attr[q] = s.attr[q]
         /\ r.topics = s.topics
         /\ r.attr[s.me] = a
<1>. DEFINE s1 == SetAttr(s, s.me, a)
<1>1. s.me \in s.nodes /\ (a.connection => s.me \in s.conns) /\ s.me \in Peer
      /\ s.attr \in [Peer -> Attr]
  BY DEF Settled, Sound, State
<1>2. Settled(s1) /\ s1.attr = [s.attr EXCEPT ![s.me] = a] /\ s1.topics = s.topics
  BY <1>1, SetAttrSettled DEF Same
<1>. HIDE DEF s1
<1>3. Broadcast(s1).attr = s1.attr /\ Broadcast(s1).topics = s1.topics
  <2>1. Hearsay(s1, s1)
    BY DEF Hearsay, Like
  <2>. QED BY <1>2, <2>1, BroadcastHearsay
<1>. QED BY <1>1, <1>2, <1>3 DEF s1

\* onjoin: this node's roles in the topic are exactly those asked for.
LEMMA OnJoinOnly ==
  ASSUME NEW s, Settled(s), NEW t \in Topic, NEW n \in TopicName,
         NEW c \in BOOLEAN, NEW v \in BOOLEAN, NEW r, r = OnJoin(s, t, n, c, v)
  PROVE  /\ r.topics = s.topics
         /\ \A q \in Peer \ {s.me} : r.attr[q] = s.attr[q]
         /\ \A u \in Topic :
              /\ r.attr[s.me].lookingup[u] =
                   IF u # t THEN s.attr[s.me].lookingup[u] ELSE IF c THEN n ELSE Absent
              /\ r.attr[s.me].announcing[u] =
                   IF u # t THEN s.attr[s.me].announcing[u] ELSE IF v THEN n ELSE Absent
         /\ r.attr[s.me].ephemeral = s.attr[s.me].ephemeral
         /\ r.attr[s.me].data = s.attr[s.me].data
<1>. DEFINE a == s.attr[s.me]
            look == [a.lookingup EXCEPT ![t] = IF c THEN n ELSE Absent]
            ann  == [a.announcing EXCEPT ![t] = IF v THEN n ELSE Absent]
<1>1. a \in Attr
  BY OwnAttr
<1>2. look \in SubMap /\ ann \in SubMap
  BY <1>1 DEF Attr, SubMap
<1>. HIDE DEF a, look, ann
<1>3. /\ SetSubs(a, look, ann) \in Attr /\ SetSubs(a, look, ann).connection = a.connection
      /\ SetSubs(a, look, ann).lookingup = look /\ SetSubs(a, look, ann).announcing = ann
      /\ SetSubs(a, look, ann).ephemeral = a.ephemeral /\ SetSubs(a, look, ann).data = a.data
  BY <1>1, <1>2, SetSubsType DEF SetSubs, Attr
<1>4. r = Broadcast(SetAttr(s, s.me, SetSubs(a, look, ann)))
  BY DEF OnJoin, a, look, ann
<1>5. /\ \A q \in Peer \ {s.me} : r.attr[q] = s.attr[q]
      /\ r.topics = s.topics
      /\ r.attr[s.me].lookingup = look /\ r.attr[s.me].announcing = ann
      /\ r.attr[s.me].ephemeral = a.ephemeral /\ r.attr[s.me].data = a.data
  BY <1>3, <1>4, OwnOnly DEF a
<1>6. \A u \in Topic :
        /\ look[u] = IF u # t THEN a.lookingup[u] ELSE IF c THEN n ELSE Absent
        /\ ann[u]  = IF u # t THEN a.announcing[u] ELSE IF v THEN n ELSE Absent
  BY <1>1 DEF Attr, SubMap, look, ann
<1>. QED BY <1>5, <1>6 DEF a

\* onleave: this node has no role in the topic any more.
LEMMA OnLeaveOnly ==
  ASSUME NEW s, Settled(s), NEW t \in Topic, NEW r, r = OnLeave(s, t)
  PROVE  /\ r.topics = s.topics
         /\ \A q \in Peer \ {s.me} : r.attr[q] = s.attr[q]
         /\ \A u \in Topic :
              /\ r.attr[s.me].lookingup[u] =
                   IF u = t THEN Absent ELSE s.attr[s.me].lookingup[u]
              /\ r.attr[s.me].announcing[u] =
                   IF u = t THEN Absent ELSE s.attr[s.me].announcing[u]
         /\ r.attr[s.me].ephemeral = s.attr[s.me].ephemeral
         /\ r.attr[s.me].data = s.attr[s.me].data
<1>. DEFINE a  == s.attr[s.me]
            b  == Unsubscribed(a, t)
            s1 == Broadcast(SetAttr(s, s.me, b))
            D  == {p \in s1.conns : NothingInCommon(s1, p)}
            s2 == [s1 EXCEPT !.doomed = s1.doomed \cup D]
<1>1. a \in Attr
  BY OwnAttr
<1>2. /\ b \in Attr /\ b.connection = a.connection
      /\ b.lookingup = [a.lookingup EXCEPT ![t] = Absent]
      /\ b.announcing = [a.announcing EXCEPT ![t] = Absent]
      /\ b.ephemeral = a.ephemeral /\ b.data = a.data
  BY <1>1, UnsubscribedType DEF Unsubscribed, SetSubs, Attr
<1>. HIDE DEF b
<1>3. /\ \A q \in Peer \ {s.me} : s1.attr[q] = s.attr[q]
      /\ s1.topics = s.topics /\ s1.attr[s.me] = b /\ Settled(s1)
  BY <1>2, OwnOnly, OwnKeeps DEF Keeps
<1>. HIDE DEF s1, D
<1>4. s2.attr = s1.attr /\ s2.topics = s1.topics
  BY <1>3 DEF Settled, Sound, State
<1>5. r = s2
  BY DEF OnLeave, s1, D, b, a
<1>6. \A u \in Topic :
        /\ b.lookingup[u]  = IF u = t THEN Absent ELSE a.lookingup[u]
        /\ b.announcing[u] = IF u = t THEN Absent ELSE a.announcing[u]
  BY <1>1, <1>2 DEF Attr, SubMap
<1>. QED BY <1>2, <1>3, <1>4, <1>5, <1>6 DEF a

\* onstate and the setter of userData replace that one field of this node.
LEMMA OwnFlagsOnly ==
  ASSUME NEW s, Settled(s)
  PROVE  /\ \A eph \in BOOLEAN :
              /\ OnState(s, eph).topics = s.topics
              /\ \A q \in Peer \ {s.me} : OnState(s, eph).attr[q] = s.attr[q]
              /\ OnState(s, eph).attr[s.me] = [s.attr[s.me] EXCEPT !.ephemeral = eph]
         /\ \A d \in Data :
              /\ SetUserData(s, d).topics = s.topics
              /\ \A q \in Peer \ {s.me} : SetUserData(s, d).attr[q] = s.attr[q]
              /\ SetUserData(s, d).attr[s.me] = [s.attr[s.me] EXCEPT !.data = d]
<1>. DEFINE a == s.attr[s.me]
<1>1. a \in Attr
  BY OwnAttr
<1>2. ASSUME NEW eph \in BOOLEAN
      PROVE  /\ OnState(s, eph).topics = s.topics
             /\ \A q \in Peer \ {s.me} : OnState(s, eph).attr[q] = s.attr[q]
             /\ OnState(s, eph).attr[s.me] = [a EXCEPT !.ephemeral = eph]
  <2>. DEFINE b == [a EXCEPT !.ephemeral = eph]
  <2>1. b \in Attr /\ b.connection = a.connection
    BY <1>1 DEF Attr
  <2>2. OnState(s, eph) = Broadcast(SetAttr(s, s.me, b))
    BY DEF OnState
  <2>. HIDE DEF b
  <2>3. /\ OnState(s, eph).topics = s.topics
        /\ \A q \in Peer \ {s.me} : OnState(s, eph).attr[q] = s.attr[q]
        /\ OnState(s, eph).attr[s.me] = b
    BY <2>1, <2>2, OwnOnly
  <2>. QED BY <2>3 DEF b
<1>3. ASSUME NEW d \in Data
      PROVE  /\ SetUserData(s, d).topics = s.topics
             /\ \A q \in Peer \ {s.me} : SetUserData(s, d).attr[q] = s.attr[q]
             /\ SetUserData(s, d).attr[s.me] = [a EXCEPT !.data = d]
  <2>. DEFINE b == [a EXCEPT !.data = d]
  <2>1. b \in Attr /\ b.connection = a.connection
    BY <1>1 DEF Attr
  <2>2. SetUserData(s, d) = Broadcast(SetAttr(s, s.me, b))
    BY DEF SetUserData
  <2>. HIDE DEF b
  <2>3. /\ SetUserData(s, d).topics = s.topics
        /\ \A q \in Peer \ {s.me} : SetUserData(s, d).attr[q] = s.attr[q]
        /\ SetUserData(s, d).attr[s.me] = b
    BY <2>1, <2>2, OwnOnly
  <2>. QED BY <2>3 DEF b
<1>. QED BY <1>2, <1>3

\* _bootstrap: nothing after the first response, nothing about this node, and
\* no hashtag is replaced.
LEMMA BootstrapOnly ==
  ASSUME NEW s, Settled(s), NEW b \in Bootstraps
  PROVE  /\ s.bootstrapped => Bootstrap(s, b) = s
         /\ Like(Bootstrap(s, b).attr[s.me], s.attr[s.me])
         /\ \A t \in Topic : s.topics.store[t] \in Name
              => Bootstrap(s, b).topics.store[t] = s.topics.store[t]
<1>1. PICK r : /\ Sound(r) /\ r.me = s.me /\ r.attr[s.me] = s.attr[s.me]
               /\ r.topics = JoinListed(s.topics, b, DOMAIN b \ {s.me})
               /\ Bootstrap(s, b) = IF s.bootstrapped THEN s ELSE Recalculate(r)
  BY BootstrapSound
<1>2. r.me \in Peer
  BY <1>1 DEF Sound, State
<1>3. /\ Like(Recalculate(r).attr[s.me], s.attr[s.me])
      /\ Recalculate(r).topics = r.topics
  BY <1>1, <1>2, RecalculateHearsay DEF Hearsay
<1>4. \A t \in Topic : s.topics.store[t] \in Name => r.topics.store[t] = s.topics.store[t]
  BY <1>1 DEF JoinListed
<1>. QED BY <1>1, <1>3, <1>4 DEF Like

\* Topics.set and Topics.delete: a hashtag stays until the topic goes.
LEMMA TopicsKeepName ==
  ASSUME NEW tp \in TopicMap, NEW t \in Topic, tp.store[t] \in Name, NEW u \in Topic
  PROVE  /\ \A n \in TopicName : TopicsSet(tp, u, n).store[t] = tp.store[t]
         /\ TopicsDelete(tp, u).store[t] \in {tp.store[t], Absent}
<1>1. \A n \in TopicName : TopicsSet(tp, u, n).store[t] = tp.store[t]
  BY NameAssumption DEF TopicMap, SubMap, TopicName, TopicsHas, TopicsSet
<1>2. CASE tp.counter[u] = 1
  BY <1>1, <1>2 DEF TopicMap, SubMap, TopicsDelete
<1>3. CASE tp.counter[u] # 1
  BY <1>1, <1>3 DEF TopicMap, SubMap, TopicsDelete
<1>. QED BY <1>1, <1>2, <1>3

=============================================================================
