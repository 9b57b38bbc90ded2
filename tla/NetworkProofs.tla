---------------------------- MODULE NetworkProofs ----------------------------
(***************************************************************************)
(* Proofs about several VoidPresences that hear each other, for any number *)
(* of nodes and any faults: each of them takes only steps that Presence    *)
(* allows, and none of them invents a connection.                          *)
(***************************************************************************)
EXTENDS Network, WireProofs

------------------------------------------------------------------------------
(* What a handler leaves of a node that joined no topic. *)

\* Neither announced nor looked up.
Idle(s) == s.attr[s.me].lookingup = NoSubs /\ s.attr[s.me].announcing = NoSubs

\* The node goes from s to r and learns no edge that is not in E.
Goes(r, s, E) ==
  Settled(r) /\ r.me = s.me /\ Idle(r) /\ r.edges \subseteq s.edges \cup E

\* Hearsay about a node is no word about its own topics.
LEMMA HearsayIdle ==
  ASSUME NEW s, Settled(s), Idle(s), NEW r, r.me = s.me, Hearsay(r, s)
  PROVE  Idle(r)
<1>1. s.me \in Peer
  BY DEF Settled, Sound, State
<1>. QED BY <1>1 DEF Hearsay, Like, Idle

\* onpeeradd: the edge to the peer.
LEMMA PeerAddGoes ==
  ASSUME NEW s, Settled(s), Idle(s), NEW p \in Peer, p # s.me
  PROVE  /\ Goes(OnPeerAdd(s, p), s, {Edge(s.me, p)})
         /\ OnPeerAdd(s, p).conns = s.conns \cup {p}
BY OnPeerAddKeeps, OnPeerAddHearsay, HearsayIdle DEF Keeps, Goes

\* onpeerdrop: none.
LEMMA PeerDropGoes ==
  ASSUME NEW s, Settled(s), Idle(s), NEW p \in Peer
  PROVE  /\ Goes(OnPeerDrop(s, p), s, {})
         /\ OnPeerDrop(s, p).conns = s.conns \ {p}
BY OnPeerDropKeeps, OnPeerDropHearsay, HearsayIdle DEF Keeps, Goes

\* CONNECTED: the one it tells of.  DISCONNECTED: none.
LEMMA ConnectionGoes ==
  ASSUME NEW s, Settled(s), Idle(s), NEW p \in Peer, NEW m \in ConnectionPkt, m.peer # p
  PROVE  /\ Goes(OnConnected(s, p, m), s, {Edge(p, m.peer)})
         /\ OnConnected(s, p, m).conns = s.conns
         /\ Goes(OnDisconnected(s, p, m), s, {})
         /\ OnDisconnected(s, p, m).conns = s.conns
<1>. DEFINE s1 == GetPeerState(s, p, FALSE)
<1>1. Settled(s1) /\ Same(s1, s) /\ s1.edges = s.edges /\ m.peer \in Peer
  BY GetPeerStateSettled, LookupEdges DEF ConnectionPkt
<1>. HIDE DEF s1
<1>2. /\ Settled(AddConnection(s1, p, m.peer)) /\ Same(AddConnection(s1, p, m.peer), s)
      /\ AddConnection(s1, p, m.peer).edges \subseteq s.edges \cup {Edge(p, m.peer)}
  BY <1>1, AddConnectionSettles, AddConnectionEdges DEF Settled, Same
<1>3. /\ Settled(DropConnection(s1, p, m.peer)) /\ Same(DropConnection(s1, p, m.peer), s)
      /\ DropConnection(s1, p, m.peer).edges \subseteq s.edges
  BY <1>1, DropConnectionSettled, DropConnectionEdges DEF Settled, Same
<1>4. /\ OnConnected(s, p, m) = AddConnection(s1, p, m.peer)
      /\ OnDisconnected(s, p, m) = DropConnection(s1, p, m.peer)
  BY DEF OnConnected, OnDisconnected, s1
<1>5. Hearsay(OnConnected(s, p, m), s) /\ Hearsay(OnDisconnected(s, p, m), s)
  BY PacketHearsay
<1>. QED BY <1>2, <1>3, <1>4, <1>5, HearsayIdle DEF Goes, Same

\* A packet about the sender's own flags or data: none.
LEMMA SenderGoes ==
  ASSUME NEW s, Settled(s), Idle(s), NEW p \in Peer \ {s.me}
  PROVE  /\ \A m \in PersistentPkt : /\ Goes(OnPersistent(s, p, m), s, {})
                                     /\ OnPersistent(s, p, m).conns = s.conns
         /\ \A m \in UserDataPkt : /\ Goes(OnUserData(s, p, m), s, {})
                                   /\ OnUserData(s, p, m).conns = s.conns
<1>. DEFINE s1 == GetPeerState(s, p, FALSE)
<1>1. Settled(s1) /\ Same(s1, s) /\ s1.edges = s.edges
  BY GetPeerStateSettled, LookupEdges
<1>2. ASSUME NEW a
      PROVE  SetAttr(s1, p, a).edges = s.edges /\ SetAttr(s1, p, a).conns = s.conns
  <2>. HIDE DEF s1
  <2>. QED BY <1>1 DEF SetAttr, Settled, Sound, State, Same
<1>3. ASSUME NEW m \in PersistentPkt
      PROVE  Goes(OnPersistent(s, p, m), s, {}) /\ OnPersistent(s, p, m).conns = s.conns
  <2>. DEFINE a == [s1.attr[p] EXCEPT !.ephemeral = m.ephemeral]
              r == OnPersistent(s, p, m)
  <2>1. r = SetAttr(s1, p, a)
    BY DEF OnPersistent
  <2>2. s.me \in Peer \ {p}
    BY DEF Settled, Sound, State
  <2>3. Settled(r) /\ r.me = s.me /\ r.attr[s.me] = s.attr[s.me]
    BY <2>2, OnPersistentKeeps, SenderOnly DEF Keeps
  <2>. HIDE DEF s1, a, r
  <2>4. r.edges = s.edges /\ r.conns = s.conns
    BY <1>2, <2>1
  <2>. QED BY <2>3, <2>4 DEF Goes, Idle, r
<1>4. ASSUME NEW m \in UserDataPkt
      PROVE  Goes(OnUserData(s, p, m), s, {}) /\ OnUserData(s, p, m).conns = s.conns
  <2>. DEFINE a == [s1.attr[p] EXCEPT !.data = m.data]
              r == OnUserData(s, p, m)
  <2>1. r = SetAttr(s1, p, a)
    BY DEF OnUserData
  <2>2. s.me \in Peer \ {p}
    BY DEF Settled, Sound, State
  <2>3. Settled(r) /\ r.me = s.me /\ r.attr[s.me] = s.attr[s.me]
    BY <2>2, OnUserDataKeeps, SenderOnly DEF Keeps
  <2>. HIDE DEF s1, a, r
  <2>4. r.edges = s.edges /\ r.conns = s.conns
    BY <1>2, <2>1
  <2>. QED BY <2>3, <2>4 DEF Goes, Idle, r
<1>. QED BY <1>3, <1>4

\* onstate: none.
LEMMA StateGoes ==
  ASSUME NEW s, Settled(s), Idle(s), NEW eph \in BOOLEAN
  PROVE  Goes(OnState(s, eph), s, {}) /\ OnState(s, eph).conns = s.conns
<1>. DEFINE a  == [s.attr[s.me] EXCEPT !.ephemeral = eph]
            s1 == SetAttr(s, s.me, a)
<1>1. /\ s.me \in s.nodes /\ a \in Attr /\ a.connection = s.attr[s.me].connection
      /\ (s.attr[s.me].connection => s.me \in s.conns)
  BY OwnAttr DEF Attr, Settled, Sound, State
<1>2. OnState(s, eph) = Broadcast(s1)
  BY DEF OnState
<1>. HIDE DEF a
<1>3. Settled(s1) /\ Same(s1, s)
  BY <1>1, SetAttrSettled
<1>4. s1.edges = s.edges
  BY DEF SetAttr, Settled, Sound, State
<1>. HIDE DEF s1
<1>5. Settled(Broadcast(s1)) /\ Same(Broadcast(s1), s) /\ Broadcast(s1).edges = s.edges
  BY <1>3, <1>4, BroadcastSettled, LookupEdges DEF Same
<1>6. /\ OnState(s, eph).attr[s.me].lookingup = s.attr[s.me].lookingup
      /\ OnState(s, eph).attr[s.me].announcing = s.attr[s.me].announcing
  <2>1. OnState(s, eph).attr[s.me] = [s.attr[s.me] EXCEPT !.ephemeral = eph]
    BY OwnFlagsOnly
  <2>2. s.attr[s.me] \in Attr
    BY OwnAttr
  <2>. QED BY <2>1, <2>2 DEF Attr
<1>. QED BY <1>2, <1>5, <1>6 DEF Goes, Idle, Same

\* A node that joined no topic announces three packets.
LEMMA IdleAnnouncements ==
  ASSUME NEW s, Settled(s), Idle(s), NEW p
  PROVE  Announcements(s, p) =
           <<Connected(p), Persistence(s.attr[s.me].ephemeral), Advertise(s.attr[s.me].data)>>
<1>. DEFINE mine == s.attr[s.me]
            served == {t \in Topic : mine.announcing[t] # Absent}
            sought == {t \in Topic : mine.lookingup[t] # Absent}
            first  == <<Connected(p), Persistence(mine.ephemeral)>>
            final  == <<Advertise(mine.data)>>
            all    == <<Connected(p), Persistence(mine.ephemeral), Advertise(mine.data)>>
            S      == {Connected(p), Persistence(mine.ephemeral), Advertise(mine.data)}
<1>1. served = {} /\ sought = {}
  BY DEF Idle, NoSubs
<1>2. /\ {TopicJoin(t, mine.announcing[t], t \in sought, TRUE) : t \in served} = {}
      /\ {TopicJoin(t, mine.lookingup[t], TRUE, FALSE) : t \in sought \ served} = {}
  BY <1>1, ZenonT(60)
<1>3. Announcements(s, p) = first \o <<>> \o <<>> \o final
  BY <1>2, NothingToList DEF Announcements
<1>4. /\ first \in Seq(S) /\ final \in Seq(S) /\ all \in Seq(S)
      /\ Len(first) = 2 /\ Len(final) = 1 /\ Len(all) = 3
      /\ first[1] = all[1] /\ first[2] = all[2] /\ final[1] = all[3]
  OBVIOUS
<1>. HIDE DEF first, final, all, S
<1>5. first \o <<>> = first
  BY <1>4, ConcatEmptySeq
<1>6. /\ first \o final \in Seq(S) /\ Len(first \o final) = 3
      /\ (first \o final)[1] = first[1] /\ (first \o final)[2] = first[2]
      /\ (first \o final)[3] = final[1]
  BY <1>4, ConcatProperties
<1>7. first \o final = all
  BY <1>4, <1>6, SeqEqual
<1>. QED BY <1>3, <1>5, <1>7 DEF all

------------------------------------------------------------------------------
(* The inductive invariant. *)

\* What the node o may have said, when L is the pairs that have been connected.
Sayable(o, L) ==
  {Persistence(b) : b \in BOOLEAN} \cup {Advertise(d) : d \in Data}
  \cup {Disconnected(q) : q \in Peer \ {o}}
  \cup {Connected(q) : q \in {r \in Peer \ {o} : Edge(o, r) \in L}}

Linked == {e \in Edges : link[e] > 0}

\* The nodes are as Presence leaves them, connected to whom they were told.
NodeInv ==
  /\ node \in [Peer -> State]
  /\ \A n \in Peer :
       /\ Settled(node[n]) /\ node[n].me = n /\ Idle(node[n])
       /\ node[n].edges \subseteq Linked
       /\ \A m \in Peer : m \in node[n].conns <=> Open(view[n][m])
LinkInv ==
  /\ link \in [Edges -> Nat] /\ view \in [Peer -> [Peer -> Nat]]
  /\ stopped \subseteq Peer
MailInv ==
  \A k \in mail :
    /\ k.from \in Peer /\ k.to \in Peer \ {k.from}
    /\ \E packet \in Sayable(k.from, Linked) : k.buf = Encode(packet)
Inv == NodeInv /\ LinkInv /\ MailInv

\* A pair that has been connected stays one.
LEMMA LinkedGrows ==
  ASSUME LinkInv, link' \in [Edges -> Nat], \A e \in Edges : link'[e] >= link[e], NEW o
  PROVE  Linked \subseteq Linked' /\ Sayable(o, Linked) \subseteq Sayable(o, Linked')
<1>1. Linked \subseteq Linked'
  <2>1. \A e \in Edges : link[e] \in Nat /\ link'[e] \in Nat
    BY DEF LinkInv
  <2>2. \A e \in Edges : link[e] > 0 => link'[e] > 0
    BY <2>1
  <2>. QED BY <2>2 DEF Linked
<1>. QED BY <1>1 DEF Sayable

\* One node changes its state and speaks.
LEMMA TurnKeeps ==
  ASSUME Inv, NEW n \in Peer, NEW s, NEW packets, Turn(n, s, packets),
         Goes(s, node[n], Linked), link' = link, stopped' = stopped,
         view' \in [Peer -> [Peer -> Nat]],
         \A o \in Peer \ {n} : view'[o] = view[o],
         \A m \in Peer : m \in s.conns <=> Open(view'[n][m]),
         \A i \in DOMAIN packets : packets[i] \in Sayable(n, Linked)
  PROVE  Inv'
<1>1. s \in State /\ Settled(s) /\ s.me = n /\ Idle(s) /\ s.conns \subseteq Peer
      /\ s.edges \subseteq Linked
  BY DEF Goes, Settled, Sound, State, Inv, NodeInv
<1>2. Linked' = Linked
  BY DEF Linked
<1>3. node' = [node EXCEPT ![n] = s] /\ node \in [Peer -> State]
  BY DEF Turn, Inv, NodeInv
<1>4. NodeInv'
  <2>1. node' \in [Peer -> State]
    BY <1>1, <1>3
  <2>2. ASSUME NEW o \in Peer
        PROVE  /\ Settled(node'[o]) /\ node'[o].me = o /\ Idle(node'[o])
               /\ node'[o].edges \subseteq Linked'
               /\ \A m \in Peer : m \in node'[o].conns <=> Open(view'[o][m])
    <3>1. CASE o = n
      <4>1. node'[o] = s
        BY <1>3, <3>1
      <4>. QED BY <1>1, <1>2, <3>1, <4>1
    <3>2. CASE o # n
      <4>1. node'[o] = node[o] /\ view'[o] = view[o]
        BY <1>3, <3>2
      <4>. QED BY <1>2, <4>1 DEF Inv, NodeInv
    <3>. QED BY <3>1, <3>2
  <2>. QED BY <2>1, <2>2 DEF NodeInv
<1>5. LinkInv'
  BY DEF Inv, LinkInv
<1>6. MailInv'
  <2>1. Audience(s) \subseteq Peer \ {n}
    BY <1>1, PersistentAssumption DEF Audience, Fallback
  <2>2. ASSUME NEW k \in mail'
        PROVE  /\ k.from \in Peer /\ k.to \in Peer \ {k.from}
               /\ \E packet \in Sayable(k.from, Linked) : k.buf = Encode(packet)
    <3>1. CASE k \in mail
      BY <3>1 DEF Inv, MailInv
    <3>2. CASE k \notin mail
      <4>1. PICK d \in Audience(s), i \in DOMAIN packets :
              k = [from |-> n, to |-> d, seq |-> sent[n] + i, buf |-> Encode(packets[i])]
        BY <3>2 DEF Turn
      <4>2. k.from = n /\ k.to = d /\ k.buf = Encode(packets[i])
        BY <4>1
      <4>. QED BY <2>1, <4>2
    <3>. QED BY <3>1, <3>2
  <2>. QED BY <1>2, <2>2 DEF MailInv
<1>. QED BY <1>4, <1>5, <1>6 DEF Inv

\* Only connections open or close, or what is on the way gets less.
LEMMA WorldKeeps ==
  ASSUME Inv, link' \in [Edges -> Nat], \A e \in Edges : link'[e] >= link[e],
         mail' \subseteq mail, stopped' \subseteq Peer, node' = node, view' = view
  PROVE  Inv'
<1>1. /\ Linked \subseteq Linked'
      /\ \A o : Sayable(o, Linked) \subseteq Sayable(o, Linked')
  BY LinkedGrows DEF Inv
<1>2. NodeInv'
  <2>1. ASSUME NEW n \in Peer
        PROVE  /\ Settled(node'[n]) /\ node'[n].me = n /\ Idle(node'[n])
               /\ node'[n].edges \subseteq Linked'
               /\ \A m \in Peer : m \in node'[n].conns <=> Open(view'[n][m])
    BY <1>1 DEF Inv, NodeInv
  <2>. QED BY <2>1 DEF Inv, NodeInv
<1>3. LinkInv'
  BY DEF Inv, LinkInv
<1>4. MailInv'
  <2>1. ASSUME NEW k \in mail'
        PROVE  /\ k.from \in Peer /\ k.to \in Peer \ {k.from}
               /\ \E packet \in Sayable(k.from, Linked') : k.buf = Encode(packet)
    BY <1>1 DEF Inv, MailInv
  <2>. QED BY <2>1 DEF MailInv
<1>. QED BY <1>2, <1>3, <1>4 DEF Inv

\* Connections.
LEMMA ConnectionsKeep ==
  ASSUME Inv, (\E e \in Pairs : Connect(e) \/ Disconnect(e)) \/ \E n \in Peer : Stop(n)
  PROVE  Inv'
<1>0. link \in [Edges -> Nat] /\ stopped \subseteq Peer
  BY DEF Inv, LinkInv
<1>1. CASE \E e \in Pairs : Connect(e) \/ Disconnect(e)
  <2>1. PICK e \in Edges : link' = [link EXCEPT ![e] = link[e] + 1]
    BY <1>1, PairsAssumption DEF Connect, Disconnect
  <2>2. link' \in [Edges -> Nat] /\ \A f \in Edges : link'[f] >= link[f]
    BY <1>0, <2>1
  <2>. QED BY <1>0, <1>1, <2>2, WorldKeeps DEF Connect, Disconnect
<1>2. CASE \E n \in Peer : Stop(n)
  <2>1. PICK n \in Peer : Stop(n)
    BY <1>2
  <2>2. link' = [e \in Edges |-> IF n \in e /\ Open(link[e]) THEN link[e] + 1 ELSE link[e]]
    BY <2>1 DEF Stop
  <2>3. link' \in [Edges -> Nat] /\ \A f \in Edges : link'[f] >= link[f]
    BY <1>0, <2>2
  <2>4. mail' \subseteq mail /\ stopped' \subseteq Peer /\ node' = node /\ view' = view
    BY <1>0, <2>1 DEF Stop
  <2>. QED BY <2>3, <2>4, WorldKeeps
<1>. QED BY <1>1, <1>2

\* Open and closed alternate.
LEMMA OpenAlternates == \A k \in Nat : Open(k + 1) <=> ~Open(k)
BY Z3 DEF Open

\* How far a node has come with a connection, one further.
LEMMA Noticed ==
  ASSUME LinkInv, NEW n \in Peer, NEW m \in Peer, view[n][m] < Link(n, m),
         view' = [view EXCEPT ![n][m] = view[n][m] + 1]
  PROVE  /\ n # m /\ Edge(n, m) \in Linked
         /\ view' \in [Peer -> [Peer -> Nat]]
         /\ \A o \in Peer \ {n} : view'[o] = view[o]
         /\ \A p \in Peer \ {m} : view'[n][p] = view[n][p]
         /\ Open(view'[n][m]) <=> ~Open(view[n][m])
<1>1. /\ view \in [Peer -> [Peer -> Nat]] /\ view[n][m] \in Nat
      /\ link \in [Edges -> Nat]
  BY DEF LinkInv
<1>2. n # m
  BY <1>1 DEF Link
<1>3. Edge(n, m) \in Edges
  BY <1>2 DEF Edges, Edge
<1>4. link[Edge(n, m)] \in Nat /\ view[n][m] < link[Edge(n, m)]
  BY <1>1, <1>2, <1>3 DEF Link
<1>5. view'[n][m] = view[n][m] + 1
  BY <1>1
<1>6. Open(view'[n][m]) <=> ~Open(view[n][m])
  BY <1>1, <1>5, OpenAlternates
<1>7. Edge(n, m) \in Linked
  BY <1>1, <1>3, <1>4 DEF Linked
<1>. QED BY <1>1, <1>2, <1>6, <1>7

\* What onpeeradd announces may be said.
LEMMA AnnouncementsSayable ==
  ASSUME NEW s, Settled(s), Idle(s), NEW p \in Peer \ {s.me}, NEW L, Edge(s.me, p) \in L,
         NEW packets, packets = Announcements(s, p)
  PROVE  \A i \in DOMAIN packets : packets[i] \in Sayable(s.me, L)
<1>. DEFINE eph == s.attr[s.me].ephemeral
            d   == s.attr[s.me].data
<1>1. eph \in BOOLEAN /\ d \in Data
  BY OwnAttr DEF Attr
<1>2. packets = <<Connected(p), Persistence(eph), Advertise(d)>>
  BY IdleAnnouncements
<1>3. /\ Connected(p) \in Sayable(s.me, L) /\ Persistence(eph) \in Sayable(s.me, L)
      /\ Advertise(d) \in Sayable(s.me, L)
  BY <1>1 DEF Sayable
<1>. HIDE DEF eph, d
<1>. QED BY <1>2, <1>3

\* A node is told of a connection.
LEMMA NoticeKeeps ==
  ASSUME Inv, NEW n \in Peer, NEW m \in Peer, Notice(n, m)
  PROVE  Inv'
<1>. DEFINE s == node[n]
<1>1. Settled(s) /\ s.me = n /\ Idle(s) /\ s.edges \subseteq Linked
      /\ \A p \in Peer : p \in s.conns <=> Open(view[n][p])
  BY DEF Inv, NodeInv
<1>2. LinkInv
  BY DEF Inv
<1>3. CASE NoticeOpen(n, m)
  <2>. DEFINE r == OnPeerAdd(s, m)
              packets == Announcements(s, m)
  <2>1. /\ view[n][m] < Link(n, m) /\ ~Open(view[n][m])
        /\ view' = [view EXCEPT ![n][m] = view[n][m] + 1]
        /\ Turn(n, r, packets) /\ link' = link /\ stopped' = stopped
    BY <1>3 DEF NoticeOpen
  <2>2. /\ n # m /\ Edge(n, m) \in Linked
        /\ view' \in [Peer -> [Peer -> Nat]]
        /\ \A o \in Peer \ {n} : view'[o] = view[o]
        /\ \A p \in Peer \ {m} : view'[n][p] = view[n][p]
        /\ Open(view'[n][m])
    BY <1>2, <2>1, Noticed
  <2>3. Goes(r, s, {Edge(n, m)}) /\ r.conns = s.conns \cup {m}
    BY <1>1, <2>2, PeerAddGoes
  <2>4. \A i \in DOMAIN packets : packets[i] \in Sayable(n, Linked)
    BY <1>1, <2>2, AnnouncementsSayable
  <2>. HIDE DEF r, packets, s
  <2>5. Goes(r, s, Linked)
    BY <2>2, <2>3 DEF Goes
  <2>6. \A p \in Peer : p \in r.conns <=> Open(view'[n][p])
    BY <1>1, <2>2, <2>3
  <2>. QED BY <2>1, <2>2, <2>4, <2>5, <2>6, TurnKeeps DEF s
<1>4. CASE NoticeClose(n, m)
  <2>. DEFINE r == OnPeerDrop(s, m)
              packets == <<Disconnected(m)>>
  <2>1. /\ view[n][m] < Link(n, m) /\ Open(view[n][m])
        /\ view' = [view EXCEPT ![n][m] = view[n][m] + 1]
        /\ Turn(n, r, packets) /\ link' = link /\ stopped' = stopped
    BY <1>4 DEF NoticeClose
  <2>2. /\ n # m
        /\ view' \in [Peer -> [Peer -> Nat]]
        /\ \A o \in Peer \ {n} : view'[o] = view[o]
        /\ \A p \in Peer \ {m} : view'[n][p] = view[n][p]
        /\ ~Open(view'[n][m])
    BY <1>2, <2>1, Noticed
  <2>3. Goes(r, s, {}) /\ r.conns = s.conns \ {m}
    BY <1>1, PeerDropGoes
  <2>4. \A i \in DOMAIN packets : packets[i] \in Sayable(n, Linked)
    BY <2>2 DEF Sayable
  <2>. HIDE DEF r, packets, s
  <2>5. Goes(r, s, Linked)
    BY <2>3 DEF Goes
  <2>6. \A p \in Peer : p \in r.conns <=> Open(view'[n][p])
    BY <1>1, <2>2, <2>3
  <2>. QED BY <2>1, <2>2, <2>4, <2>5, <2>6, TurnKeeps DEF s
<1>. QED BY <1>3, <1>4 DEF Notice

\* The DHT of a node says what it is.
LEMMA StateKeeps ==
  ASSUME Inv, NEW n \in Peer, NEW eph \in BOOLEAN,
         Turn(n, OnState(node[n], eph), <<Persistence(eph)>>),
         UNCHANGED <<link, stopped, view>>
  PROVE  Inv'
<1>. DEFINE s == node[n]
            r == OnState(s, eph)
            packets == <<Persistence(eph)>>
<1>1. /\ Settled(s) /\ s.me = n /\ Idle(s) /\ s.edges \subseteq Linked
      /\ \A p \in Peer : p \in s.conns <=> Open(view[n][p])
      /\ view \in [Peer -> [Peer -> Nat]]
  BY DEF Inv, NodeInv, LinkInv
<1>2. Turn(n, r, packets) /\ link' = link /\ stopped' = stopped /\ view' = view
  OBVIOUS
<1>3. Goes(r, s, {}) /\ r.conns = s.conns
  BY <1>1, StateGoes
<1>4. \A i \in DOMAIN packets : packets[i] \in Sayable(n, Linked)
  <2>1. Persistence(eph) \in Sayable(n, Linked)
    BY DEF Sayable
  <2>. DEFINE one == Persistence(eph)
  <2>. HIDE DEF one
  <2>2. \A i \in DOMAIN <<one>> : <<one>>[i] = one
    OBVIOUS
  <2>. QED BY <2>1, <2>2 DEF one
<1>. HIDE DEF r, packets, s
<1>5. Goes(r, s, Linked)
  BY <1>3 DEF Goes
<1>. QED BY <1>1, <1>2, <1>3, <1>4, <1>5, TurnKeeps DEF s

\* It turns persistent, or its computer wakes up.
LEMMA PersistentKeeps ==
  ASSUME Inv, NEW n \in Peer, TurnPersistent(n) \/ WakeUp(n)
  PROVE  Inv'
<1>1. PICK eph \in BOOLEAN : Turn(n, OnState(node[n], eph), <<Persistence(eph)>>)
  BY DEF TurnPersistent, WakeUp
<1>2. UNCHANGED <<link, stopped, view>>
  BY DEF TurnPersistent, WakeUp
<1>. QED BY <1>1, <1>2, StateKeeps

\* What a packet that may be said does to the node that hears it: an edge
\* only for a pair that has been connected.
LEMMA PacketGoes ==
  ASSUME NEW s, Settled(s), Idle(s), NEW o \in Peer \ {s.me}, NEW L,
         NEW packet \in Sayable(o, L), NEW r, r = OnBroadcast(s, o, Encode(packet))
  PROVE  Goes(r, s, L) /\ r.conns = s.conns
<1>1. CASE \E b \in BOOLEAN : packet = Persistence(b)
  <2>1. PICK b \in BOOLEAN : packet = Persistence(b)
    BY <1>1
  <2>2. [type |-> "PERSISTENT", ephemeral |-> b] \in PersistentPkt
    BY DEF PersistentPkt
  <2>3. r = OnPersistent(s, o, [type |-> "PERSISTENT", ephemeral |-> b])
    BY <2>1, HeardAsSaid
  <2>4. Goes(r, s, {}) /\ r.conns = s.conns
    BY <2>2, <2>3, SenderGoes
  <2>. QED BY <2>4 DEF Goes
<1>2. CASE \E d \in Data : packet = Advertise(d)
  <2>1. PICK d \in Data : packet = Advertise(d)
    BY <1>2
  <2>2. [type |-> "USER_DATA", data |-> d] \in UserDataPkt
    BY DEF UserDataPkt
  <2>3. r = OnUserData(s, o, [type |-> "USER_DATA", data |-> d])
    BY <2>1, HeardAsSaid
  <2>4. Goes(r, s, {}) /\ r.conns = s.conns
    BY <2>2, <2>3, SenderGoes
  <2>. QED BY <2>4 DEF Goes
<1>3. CASE \E q \in Peer \ {o} : packet = Disconnected(q)
  <2>1. PICK q \in Peer \ {o} : packet = Disconnected(q)
    BY <1>3
  <2>. DEFINE m == [type |-> "DISCONNECTED", peer |-> q]
  <2>2. m \in ConnectionPkt /\ m.peer = q /\ m.peer # o
    BY DEF ConnectionPkt
  <2>3. r = OnDisconnected(s, o, m)
    BY <2>1, HeardAsSaid
  <2>. HIDE DEF m
  <2>4. Goes(OnDisconnected(s, o, m), s, {}) /\ OnDisconnected(s, o, m).conns = s.conns
    BY <2>2, ConnectionGoes
  <2>5. Goes(r, s, {}) /\ r.conns = s.conns
    BY <2>3, <2>4
  <2>. QED BY <2>5 DEF Goes
<1>4. CASE \E q \in {p \in Peer \ {o} : Edge(o, p) \in L} : packet = Connected(q)
  <2>1. PICK q \in Peer \ {o} : Edge(o, q) \in L /\ packet = Connected(q)
    BY <1>4
  <2>. DEFINE m == [type |-> "CONNECTED", peer |-> q]
  <2>2. m \in ConnectionPkt /\ m.peer = q /\ m.peer # o
    BY DEF ConnectionPkt
  <2>3. r = OnConnected(s, o, m)
    BY <2>1, HeardAsSaid
  <2>. HIDE DEF m
  <2>4. Goes(r, s, {Edge(o, q)}) /\ r.conns = s.conns
    BY <2>2, <2>3, ConnectionGoes
  <2>. QED BY <2>1, <2>4 DEF Goes
<1>. QED BY <1>1, <1>2, <1>3, <1>4 DEF Sayable

\* A packet arrives or is lost.
LEMMA MailKeeps ==
  ASSUME Inv, NEW k \in mail, Deliver(k) \/ Overtake(k) \/ Lose(k)
  PROVE  Inv'
<1>1. CASE Lose(k)
  <2>1. link' = link /\ link \in [Edges -> Nat] /\ mail' \subseteq mail
        /\ stopped' \subseteq Peer /\ node' = node /\ view' = view
    BY <1>1 DEF Lose, Inv, LinkInv
  <2>. QED BY <2>1, WorldKeeps
<1>2. CASE Receive(k)
  <2>1. k.from \in Peer /\ k.to \in Peer \ {k.from}
    BY DEF Inv, MailInv
  <2>2. PICK packet \in Sayable(k.from, Linked) : k.buf = Encode(packet)
    BY DEF Inv, MailInv
  <2>. DEFINE n == k.to
              s == node[n]
              r == OnBroadcast(s, k.from, k.buf)
  <2>3. /\ Settled(s) /\ s.me = n /\ Idle(s) /\ s.edges \subseteq Linked
        /\ \A p \in Peer : p \in s.conns <=> Open(view[n][p])
        /\ node \in [Peer -> State]
    BY <2>1 DEF Inv, NodeInv
  <2>4. Goes(r, s, Linked) /\ r.conns = s.conns
    BY <2>1, <2>2, <2>3, PacketGoes
  <2>5. node' = [node EXCEPT ![n] = r] /\ link' = link /\ view' = view /\ stopped' = stopped
        /\ mail' \subseteq mail
    BY <1>2 DEF Receive
  <2>. HIDE DEF r, s, n
  <2>6. r \in State /\ Settled(r) /\ r.me = n /\ Idle(r) /\ r.edges \subseteq Linked
        /\ n \in Peer
    BY <2>1, <2>3, <2>4 DEF Goes, Settled, Sound, n
  <2>7. Linked' = Linked
    BY <2>5 DEF Linked
  <2>8. node' \in [Peer -> State]
    BY <2>3, <2>5, <2>6
  <2>9. ASSUME NEW o \in Peer
        PROVE  /\ Settled(node'[o]) /\ node'[o].me = o /\ Idle(node'[o])
               /\ node'[o].edges \subseteq Linked'
               /\ \A m \in Peer : m \in node'[o].conns <=> Open(view'[o][m])
    <3>1. CASE o = n
      <4>1. node'[o] = r
        BY <2>3, <2>5, <2>6, <3>1
      <4>. QED BY <2>3, <2>4, <2>5, <2>6, <2>7, <3>1, <4>1
    <3>2. CASE o # n
      <4>1. node'[o] = node[o]
        BY <2>3, <2>5, <3>2
      <4>. QED BY <2>5, <2>7, <4>1 DEF Inv, NodeInv
    <3>. QED BY <3>1, <3>2
  <2>10. NodeInv'
    BY <2>8, <2>9 DEF NodeInv
  <2>11. LinkInv' /\ MailInv'
    BY <2>5, <2>7 DEF Inv, LinkInv, MailInv
  <2>. QED BY <2>10, <2>11 DEF Inv
<1>. QED BY <1>1, <1>2 DEF Deliver, Overtake

------------------------------------------------------------------------------
(* The specification. *)

\* The constructors establish the inductive invariant.
LEMMA InitInv == Init => Inv
<1>. SUFFICES ASSUME Init PROVE Inv
  OBVIOUS
<1>1. ASSUME NEW n \in Peer
      PROVE  /\ node[n] \in State /\ Settled(node[n]) /\ node[n].me = n /\ Idle(node[n])
             /\ node[n].edges = {} /\ node[n].conns = {}
  <2>1. node[n] = NewState(n, EmptyData)
    BY DEF Init
  <2>2. Settled(NewState(n, EmptyData)) /\ NewState(n, EmptyData).me = n
    BY NewStateSettled, DataAssumption
  <2>3. /\ NewState(n, EmptyData).edges = {} /\ NewState(n, EmptyData).conns = {}
        /\ NewState(n, EmptyData).attr[n] = [Fresh(FALSE) EXCEPT !.data = EmptyData]
    BY DEF NewState
  <2>4. Idle(NewState(n, EmptyData))
    BY <2>2, <2>3 DEF Idle, Fresh
  <2>. QED BY <2>1, <2>2, <2>3, <2>4 DEF Settled, Sound
<1>2. ~Open(0)
  BY Z3 DEF Open
<1>3. \A n, m \in Peer : view[n][m] = 0
  BY DEF Init
<1>4. NodeInv
  <2>1. node \in [Peer -> State]
    BY <1>1 DEF Init
  <2>. QED BY <1>1, <1>2, <1>3, <2>1 DEF NodeInv
<1>5. LinkInv /\ MailInv
  BY DEF Init, LinkInv, MailInv
<1>. QED BY <1>4, <1>5 DEF Inv

\* Every step keeps it.
LEMMA NextInv == Inv /\ [Next]_vars => Inv'
<1>. SUFFICES ASSUME Inv, [Next]_vars PROVE Inv'
  OBVIOUS
<1>1. CASE (\E e \in Pairs : Connect(e) \/ Disconnect(e)) \/ \E n \in Peer : Stop(n)
  BY <1>1, ConnectionsKeep
<1>2. CASE \E n \in Peer : TurnPersistent(n) \/ WakeUp(n)
  BY <1>2, PersistentKeeps
<1>3. CASE \E n \in Peer, m \in Peer : Notice(n, m)
  BY <1>3, NoticeKeeps
<1>4. CASE \E k \in mail : Deliver(k) \/ Overtake(k) \/ Lose(k)
  BY <1>4, MailKeeps
<1>5. CASE UNCHANGED vars
  BY <1>5 DEF vars, Inv, NodeInv, LinkInv, MailInv, Linked
<1>. QED BY <1>1, <1>2, <1>3, <1>4, <1>5 DEF Next

\* Every node is as Presence leaves it, and every packet on the way says
\* what its sender saw.
THEOREM SpecInv == Spec => []Inv
BY InitInv, NextInv, PTL DEF Spec

\* A node shows two peers connected only if they have been, whatever is lost,
\* late or crashed (CONNECTED and DISCONNECTED, presence.ts:394-416 and 497-500).
THEOREM SpecNoInvention == Spec => []NoInvention
<1>1. Inv => NoInvention
  BY DEF Inv, NodeInv, NoInvention, Linked
<1>. QED BY <1>1, SpecInv, PTL

------------------------------------------------------------------------------
(* Every node takes only steps of Presence.  First: the instance for one   *)
(* node means the same operators.                                          *)

\* getPeerState.
LEMMA SameGetPeerState ==
  ASSUME NEW n
  PROVE  \A s, p, c : P(n)!GetPeerState(s, p, c) = GetPeerState(s, p, c)
BY DEF P!GetPeerState, GetPeerState, P!SetAttr, SetAttr, P!Fresh, Fresh, P!NoSubs, NoSubs

\* _recalculate.
LEMMA SameRecalculate ==
  ASSUME NEW n
  PROVE  \A s : P(n)!Recalculate(s) = Recalculate(s)
BY DEF P!Recalculate, Recalculate, P!Reach, Reach, P!Closed, Closed,
       P!Fresh, Fresh, P!NoSubs, NoSubs

\* _addConnection and _dropConnection.
LEMMA SameConnection ==
  ASSUME NEW n
  PROVE  /\ \A s, a, b : P(n)!AddConnection(s, a, b) = AddConnection(s, a, b)
         /\ \A s, a, b : P(n)!DropConnection(s, a, b) = DropConnection(s, a, b)
<1>1. \A s, a, b : P(n)!MergeEdge(s, a, b) = MergeEdge(s, a, b)
  BY SameGetPeerState DEF P!MergeEdge, MergeEdge, P!Edge, Edge
<1>2. \A s, a, b : P(n)!AddConnection(s, a, b) = AddConnection(s, a, b)
  BY <1>1, SameRecalculate DEF P!AddConnection, AddConnection
<1>3. \A s, a, b : P(n)!DropConnection(s, a, b) = DropConnection(s, a, b)
  BY SameRecalculate DEF P!DropConnection, DropConnection, P!Edge, Edge
<1>. QED BY <1>2, <1>3

\* broadcast() and send().
LEMMA SameBroadcast ==
  ASSUME NEW n
  PROVE  /\ \A s : P(n)!Broadcast(s) = Broadcast(s)
         /\ \A s, p : P(n)!SendTo(s, p) = SendTo(s, p)
<1>1. \A s, S : P(n)!TouchAll(s, S) = TouchAll(s, S)
  BY DEF P!TouchAll, TouchAll, P!Fresh, Fresh, P!NoSubs, NoSubs
<1>. QED BY <1>1, SameGetPeerState DEF P!Broadcast, Broadcast, P!SendTo, SendTo

\* The handlers, and the constructor.
LEMMA SameHandlers ==
  ASSUME NEW n
  PROVE  /\ \A s, p : P(n)!OnPeerAdd(s, p) = OnPeerAdd(s, p)
         /\ \A s, p : P(n)!OnPeerDrop(s, p) = OnPeerDrop(s, p)
         /\ \A s, p, m : P(n)!OnConnected(s, p, m) = OnConnected(s, p, m)
         /\ \A s, p, m : P(n)!OnDisconnected(s, p, m) = OnDisconnected(s, p, m)
         /\ \A s, p, m : P(n)!OnPersistent(s, p, m) = OnPersistent(s, p, m)
         /\ \A s, p, m : P(n)!OnUserData(s, p, m) = OnUserData(s, p, m)
         /\ \A s, eph : P(n)!OnState(s, eph) = OnState(s, eph)
         /\ \A m, d : P(n)!NewState(m, d) = NewState(m, d)
<1>0. \A s, p, a : P(n)!SetAttr(s, p, a) = SetAttr(s, p, a)
  BY DEF P!SetAttr, SetAttr
<1>01. /\ \A s, p, c : P(n)!GetPeerState(s, p, c) = GetPeerState(s, p, c)
       /\ \A s, a, b : P(n)!AddConnection(s, a, b) = AddConnection(s, a, b)
       /\ \A s, a, b : P(n)!DropConnection(s, a, b) = DropConnection(s, a, b)
       /\ \A s : P(n)!Broadcast(s) = Broadcast(s)
       /\ \A s, p : P(n)!SendTo(s, p) = SendTo(s, p)
  BY SameGetPeerState, SameConnection, SameBroadcast
<1>1. ASSUME NEW s, NEW p PROVE P(n)!OnPeerAdd(s, p) = OnPeerAdd(s, p)
  <2>. DEFINE s1 == GetPeerState(s, p, TRUE)
              s2 == [s1 EXCEPT !.conns = s.conns \cup {p}]
              s3 == Broadcast(AddConnection(s2, s.me, p))
  <2>1. OnPeerAdd(s, p) = IF s.bootstrapped THEN s3 ELSE SendTo(s3, p)
    BY DEF OnPeerAdd
  <2>2. P(n)!OnPeerAdd(s, p) =
          LET t1 == GetPeerState(s, p, TRUE)
              t2 == [t1 EXCEPT !.conns = s.conns \cup {p}]
              t3 == Broadcast(AddConnection(t2, s.me, p))
          IN  IF s.bootstrapped THEN t3 ELSE SendTo(t3, p)
    BY <1>01, Zenon DEF P!OnPeerAdd
  <2>. QED BY <2>1, <2>2
<1>2. ASSUME NEW s, NEW p PROVE P(n)!OnPeerDrop(s, p) = OnPeerDrop(s, p)
  <2>. DEFINE mine == s.attr[s.me]
              cut == [mine EXCEPT !.connected = mine.connected \ {p}]
              s1 == SetAttr(s, s.me, cut)
              s2 == GetPeerState(s1, p, FALSE)
              s3 == SetAttr(s2, p, [s2.attr[p] EXCEPT !.connection = FALSE])
              s4 == [s3 EXCEPT !.conns = s.conns \ {p}, !.doomed = s.doomed \ {p}]
              t1 == P(n)!SetAttr(s, s.me, cut)
              t2 == P(n)!GetPeerState(t1, p, FALSE)
              t3 == P(n)!SetAttr(t2, p, [t2.attr[p] EXCEPT !.connection = FALSE])
              t4 == [t3 EXCEPT !.conns = s.conns \ {p}, !.doomed = s.doomed \ {p}]
  <2>1. OnPeerDrop(s, p) = Broadcast(DropConnection(s4, s.me, p))
    BY DEF OnPeerDrop
  <2>2. P(n)!OnPeerDrop(s, p) = P(n)!Broadcast(P(n)!DropConnection(t4, s.me, p))
    BY DEF P!OnPeerDrop
  <2>3. t1 = s1
    BY <1>0
  <2>. HIDE DEF t1, s1
  <2>4. t2 = s2
    BY <1>01, <2>3
  <2>. HIDE DEF t2, s2
  <2>5. t3 = s3
    BY <1>0, <2>4
  <2>. HIDE DEF t3, s3
  <2>6. t4 = s4
    BY <2>5
  <2>. HIDE DEF t4, s4
  <2>. QED BY <1>01, <2>1, <2>2, <2>6
<1>3. \A s, p, m : P(n)!OnConnected(s, p, m) = OnConnected(s, p, m)
  BY SameGetPeerState, SameConnection DEF P!OnConnected, OnConnected
<1>4. \A s, p, m : P(n)!OnDisconnected(s, p, m) = OnDisconnected(s, p, m)
  BY SameGetPeerState, SameConnection DEF P!OnDisconnected, OnDisconnected
<1>5. \A s, p, m : P(n)!OnPersistent(s, p, m) = OnPersistent(s, p, m)
  BY <1>0, SameGetPeerState DEF P!OnPersistent, OnPersistent
<1>6. \A s, p, m : P(n)!OnUserData(s, p, m) = OnUserData(s, p, m)
  BY <1>0, SameGetPeerState DEF P!OnUserData, OnUserData
<1>7. \A s, eph : P(n)!OnState(s, eph) = OnState(s, eph)
  BY <1>0, SameBroadcast DEF P!OnState, OnState
<1>8. \A m, d : P(n)!NewState(m, d) = NewState(m, d)
  BY DEF P!NewState, NewState, P!Fresh, Fresh, P!NoSubs, NoSubs, P!NoTopics, NoTopics
<1>. QED BY <1>1, <1>2, <1>3, <1>4, <1>5, <1>6, <1>7, <1>8

\* A packet that may be said is one that Presence expects.
LEMMA PacketIsPresence ==
  ASSUME NEW n \in Peer, NEW o \in Peer \ {n}, NEW L, NEW packet \in Sayable(o, L),
         node'[n] = OnBroadcast(node[n], o, Encode(packet))
  PROVE  P(n)!FromPeer(o)
<1>. DEFINE s == node[n]
<1>1. CASE \E b \in BOOLEAN : packet = Persistence(b)
  <2>1. PICK b \in BOOLEAN : packet = Persistence(b)
    BY <1>1
  <2>. DEFINE m == [type |-> "PERSISTENT", ephemeral |-> b]
  <2>2. m \in P(n)!PersistentPkt
    BY DEF P!PersistentPkt
  <2>3. node'[n] = OnPersistent(s, o, m)
    BY <2>1, HeardAsSaid
  <2>. HIDE DEF m
  <2>4. P(n)!RecvPersistent(o)
    BY <2>2, <2>3, SameHandlers DEF P!RecvPersistent
  <2>. QED BY <2>4 DEF P!FromPeer, P!Unannounced
<1>2. CASE \E d \in Data : packet = Advertise(d)
  <2>1. PICK d \in Data : packet = Advertise(d)
    BY <1>2
  <2>. DEFINE m == [type |-> "USER_DATA", data |-> d]
  <2>2. m \in P(n)!UserDataPkt
    BY DEF P!UserDataPkt
  <2>3. node'[n] = OnUserData(s, o, m)
    BY <2>1, HeardAsSaid
  <2>. HIDE DEF m
  <2>4. P(n)!RecvUserData(o)
    BY <2>2, <2>3, SameHandlers DEF P!RecvUserData
  <2>. QED BY <2>4 DEF P!FromPeer, P!Unannounced
<1>3. CASE \E q \in Peer \ {o} : packet = Disconnected(q)
  <2>1. PICK q \in Peer \ {o} : packet = Disconnected(q)
    BY <1>3
  <2>. DEFINE m == [type |-> "DISCONNECTED", peer |-> q]
  <2>2. m \in P(n)!ConnectionPkt /\ m.type = "DISCONNECTED" /\ m.peer # o
    BY DEF P!ConnectionPkt
  <2>3. node'[n] = OnDisconnected(s, o, m)
    BY <2>1, HeardAsSaid
  <2>. HIDE DEF m
  <2>4. P(n)!RecvDisconnected(o)
    BY <2>2, <2>3, SameHandlers DEF P!RecvDisconnected
  <2>. QED BY <2>4 DEF P!FromPeer, P!Unannounced
<1>4. CASE \E q \in {r \in Peer \ {o} : Edge(o, r) \in L} : packet = Connected(q)
  <2>1. PICK q \in Peer \ {o} : packet = Connected(q)
    BY <1>4
  <2>. DEFINE m == [type |-> "CONNECTED", peer |-> q]
  <2>2. m \in P(n)!ConnectionPkt /\ m.type = "CONNECTED" /\ m.peer # o
    BY DEF P!ConnectionPkt
  <2>3. node'[n] = OnConnected(s, o, m)
    BY <2>1, HeardAsSaid
  <2>. HIDE DEF m
  <2>4. P(n)!RecvConnected(o)
    BY <2>2, <2>3, SameHandlers DEF P!RecvConnected
  <2>. QED BY <2>4 DEF P!FromPeer, P!Unannounced
<1>. QED BY <1>1, <1>2, <1>3, <1>4 DEF Sayable

\* The connections a node is told of, and its DHT, are what Presence expects.
LEMMA OwnIsPresence ==
  ASSUME Inv, NEW n \in Peer,
         TurnPersistent(n) \/ WakeUp(n) \/ \E m \in Peer : Notice(n, m)
  PROVE  P(n)!Next
<1>1. /\ node \in [Peer -> State] /\ LinkInv
      /\ \A m \in Peer : m \in node[n].conns <=> Open(view[n][m])
  BY DEF Inv, NodeInv
<1>2. CASE TurnPersistent(n) \/ WakeUp(n)
  <2>0. PICK eph \in BOOLEAN : Turn(n, OnState(node[n], eph), <<Persistence(eph)>>)
    BY <1>2 DEF TurnPersistent, WakeUp
  <2>1. node'[n] = OnState(node[n], eph)
    BY <1>1, <2>0 DEF Turn
  <2>2. P(n)!DhtState
    BY <2>1, SameHandlers DEF P!DhtState
  <2>. QED BY <2>2 DEF P!Next, P!Local
<1>3. CASE \E m \in Peer : Notice(n, m)
  <2>1. PICK m \in Peer : Notice(n, m)
    BY <1>3
  <2>2. n # m
    BY <1>1, <2>1, Noticed DEF Notice, NoticeOpen, NoticeClose
  <2>3. CASE NoticeOpen(n, m)
    <3>1. node'[n] = OnPeerAdd(node[n], m) /\ m \notin node[n].conns
      BY <1>1, <2>3 DEF NoticeOpen, Turn
    <3>2. P(n)!PeerAdd(m)
      BY <3>1, SameHandlers DEF P!PeerAdd
    <3>. QED BY <2>2, <3>2 DEF P!Next, P!Others, P!FromPeer
  <2>4. CASE NoticeClose(n, m)
    <3>1. node'[n] = OnPeerDrop(node[n], m) /\ m \in node[n].conns
      BY <1>1, <2>4 DEF NoticeClose, Turn
    <3>2. P(n)!PeerDrop(m)
      BY <3>1, SameHandlers DEF P!PeerDrop
    <3>. QED BY <2>2, <3>2 DEF P!Next, P!Others, P!FromPeer, P!Unannounced
  <2>. QED BY <2>1, <2>3, <2>4 DEF Notice
<1>. QED BY <1>2, <1>3

\* Every step of the network is one of Presence for every node it changes.
LEMMA StepIsPresence ==
  ASSUME Inv, [Next]_vars, NEW n \in Peer
  PROVE  node'[n] = node[n] \/ P(n)!Next
<1>1. node \in [Peer -> State]
  BY DEF Inv, NodeInv
<1>2. CASE (\E e \in Pairs : Connect(e) \/ Disconnect(e)) \/ \E m \in Peer : Stop(m)
  BY <1>2 DEF Connect, Disconnect, Stop
<1>3. CASE \E o \in Peer : TurnPersistent(o) \/ WakeUp(o) \/ \E m \in Peer : Notice(o, m)
  <2>1. PICK o \in Peer : TurnPersistent(o) \/ WakeUp(o) \/ \E m \in Peer : Notice(o, m)
    BY <1>3
  <2>2. CASE o = n
    BY <2>1, <2>2, OwnIsPresence
  <2>3. CASE o # n
    <3>1. ASSUME NEW s, NEW packets, Turn(o, s, packets)
          PROVE  node'[n] = node[n]
      BY <1>1, <2>3, <3>1 DEF Turn
    <3>2. CASE TurnPersistent(o) \/ WakeUp(o)
      BY <3>1, <3>2 DEF TurnPersistent, WakeUp
    <3>3. CASE \E m \in Peer : Notice(o, m)
      BY <3>1, <3>3 DEF Notice, NoticeOpen, NoticeClose
    <3>. QED BY <2>1, <3>2, <3>3
  <2>. QED BY <2>2, <2>3
<1>4. CASE \E k \in mail : Deliver(k) \/ Overtake(k) \/ Lose(k)
  <2>1. PICK k \in mail : Receive(k) \/ Lose(k)
    BY <1>4 DEF Deliver, Overtake
  <2>2. CASE Lose(k)
    BY <2>2 DEF Lose
  <2>3. CASE Receive(k) /\ k.to # n
    BY <1>1, <2>3 DEF Receive
  <2>4. CASE Receive(k) /\ k.to = n
    <3>1. k.from \in Peer \ {n}
      BY <2>4 DEF Inv, MailInv
    <3>2. PICK packet \in Sayable(k.from, Linked) : k.buf = Encode(packet)
      BY DEF Inv, MailInv
    <3>3. node'[n] = OnBroadcast(node[n], k.from, Encode(packet))
      BY <1>1, <2>4, <3>2 DEF Receive
    <3>4. P(n)!FromPeer(k.from)
      BY <3>1, <3>2, <3>3, PacketIsPresence
    <3>. QED BY <3>1, <3>4 DEF P!Next, P!Others
  <2>. QED BY <2>1, <2>2, <2>3, <2>4
<1>5. CASE UNCHANGED vars
  BY <1>5 DEF vars
<1>. QED BY <1>2, <1>3, <1>4, <1>5 DEF Next

\* Every VoidPresence in a network of them behaves as Presence allows: what is
\* proved of one among arbitrary peers holds of each (presence.ts:394-600).
THEOREM SpecEachIsPresence == Spec => EachIsPresence
<1>1. Init => \A n \in Peer : P(n)!Init
  <2>. SUFFICES ASSUME Init, NEW n \in Peer PROVE P(n)!Init
    OBVIOUS
  <2>1. node[n] = NewState(n, EmptyData)
    BY DEF Init
  <2>. QED BY <2>1, DataAssumption, SameHandlers DEF P!Init
<1>2. Inv /\ [Next]_vars => [\A n \in Peer : UNCHANGED node[n] \/ P(n)!Next]_node
  BY StepIsPresence
<1>. QED BY <1>1, <1>2, SpecInv, PTL DEF Spec, EachIsPresence
==============================================================================
