------------------------- MODULE NetworkOrderProofs -------------------------
(***************************************************************************)
(* Proofs about nodes that hear every packet, and each sender's in order:  *)
(* when nothing is left to happen, what such a node shows of the           *)
(* connections is how the nodes are connected.                             *)
(***************************************************************************)
EXTENDS NetworkProofs

------------------------------------------------------------------------------
(* What a packet does to the edges of the node that hears it. *)

\* CONNECTED shows a connection of this node; DISCONNECTED drops any.
LEMMA HeardConnection ==
  ASSUME NEW s, Settled(s), NEW o \in Peer, NEW q \in Peer \ {o}
  PROVE  /\ s.me \in Edge(o, q) => Edge(o, q) \in OnBroadcast(s, o, Encode(Connected(q))).edges
         /\ Edge(o, q) \notin OnBroadcast(s, o, Encode(Disconnected(q))).edges
<1>. DEFINE s1 == GetPeerState(s, o, FALSE)
<1>1. Sound(s1) /\ s1.me = s.me /\ s1.edges = s.edges
  BY GetPeerStateSettled, LookupEdges DEF Settled, Same
<1>. HIDE DEF s1
<1>2. OnBroadcast(s, o, Encode(Connected(q))) = AddConnection(s1, o, q)
  BY HeardAsSaid DEF OnConnected, s1
<1>3. OnBroadcast(s, o, Encode(Disconnected(q))) = DropConnection(s1, o, q)
  BY HeardAsSaid DEF OnDisconnected, s1
<1>4. s.me \in Edge(o, q) => Edge(o, q) \in AddConnection(s1, o, q).edges
  BY <1>1, AddConnectionOwn
<1>5. Edge(o, q) \notin DropConnection(s1, o, q).edges
  BY <1>1, DropConnectionOwn
<1>. QED BY <1>2, <1>3, <1>4, <1>5

\* Only CONNECTED adds an edge, and only DISCONNECTED drops one of this node's.
HeardEdges(r, s, o, packet) ==
  /\ \A e \in r.edges \ s.edges :
       \E q \in Peer \ {o} : packet = Connected(q) /\ e = Edge(o, q)
  /\ \A e \in s.edges \ r.edges : s.me \in e =>
       \E q \in Peer \ {o} : packet = Disconnected(q) /\ e = Edge(o, q)

\* All that is said is heard so.
LEMMA PacketEdges ==
  ASSUME NEW s, Settled(s), NEW o \in Peer \ {s.me}, NEW L, NEW packet \in Sayable(o, L),
         NEW r, r = OnBroadcast(s, o, Encode(packet))
  PROVE  HeardEdges(r, s, o, packet)
<1>. DEFINE s1 == GetPeerState(s, o, FALSE)
<1>1. Settled(s1) /\ Sound(s1) /\ s1.me = s.me /\ s1.edges = s.edges
  BY GetPeerStateSettled, LookupEdges DEF Settled, Same
<1>2. ASSUME NEW a PROVE SetAttr(s1, o, a).edges = s.edges
  <2>. HIDE DEF s1
  <2>. QED BY <1>1 DEF SetAttr, Sound, State
<1>3. CASE \E b \in BOOLEAN : packet = Persistence(b)
  <2>1. PICK b \in BOOLEAN : packet = Persistence(b)
    BY <1>3
  <2>2. r = SetAttr(s1, o, [s1.attr[o] EXCEPT !.ephemeral = b])
    BY <2>1, HeardAsSaid DEF OnPersistent
  <2>. QED BY <1>2, <2>2 DEF HeardEdges
<1>4. CASE \E d \in Data : packet = Advertise(d)
  <2>1. PICK d \in Data : packet = Advertise(d)
    BY <1>4
  <2>2. r = SetAttr(s1, o, [s1.attr[o] EXCEPT !.data = d])
    BY <2>1, HeardAsSaid, ZenonT(60) DEF OnUserData
  <2>. QED BY <1>2, <2>2 DEF HeardEdges
<1>. HIDE DEF s1
<1>5. CASE \E q \in Peer \ {o} : packet = Disconnected(q)
  <2>1. PICK q \in Peer \ {o} : packet = Disconnected(q)
    BY <1>5
  <2>2. r = DropConnection(s1, o, q)
    BY <2>1, HeardAsSaid DEF OnDisconnected, s1
  <2>3. /\ r.edges \subseteq s.edges
        /\ \A e \in s.edges \ {Edge(o, q)} : s.me \in e => e \in r.edges
    BY <1>1, <2>2, DropConnectionOwn, DropConnectionEdges
  <2>. QED BY <2>1, <2>3 DEF HeardEdges
<1>6. CASE \E q \in {p \in Peer \ {o} : Edge(o, p) \in L} : packet = Connected(q)
  <2>1. PICK q \in Peer \ {o} : packet = Connected(q)
    BY <1>6
  <2>2. r = AddConnection(s1, o, q)
    BY <2>1, HeardAsSaid DEF OnConnected, s1
  <2>3. /\ r.edges \subseteq s.edges \cup {Edge(o, q)}
        /\ \A e \in s.edges : s.me \in e => e \in r.edges
    BY <1>1, <2>2, AddConnectionOwn, AddConnectionEdges
  <2>. QED BY <2>1, <2>3 DEF HeardEdges
<1>. QED BY <1>3, <1>4, <1>5, <1>6 DEF Sayable

------------------------------------------------------------------------------
(* Whom a node takes for a node of the DHT. *)

\* Only one that is, or was before its computer woke up.  So a broadcast
\* reaches every connected peer, by the gossip or as a fallback, unless the
\* gossip passes by it.
Truthful(s) == \A p \in Peer : s.attr[p].ephemeral \/ p \in Persistent

\* ... as only such a node says that it is not ephemeral.
Honest(o, packet) == packet.type = PacketType.PERSISTENT => packet.ephemeral \/ o \in Persistent

\* Hearsay leaves it so: a peer that is forgotten counts as ephemeral again.
LEMMA HearsayTruthful ==
  ASSUME NEW s, Truthful(s), NEW r, Hearsay(r, s)
  PROVE  Truthful(r)
BY DEF Truthful, Hearsay, Like, Fresh

\* So do the handlers of connections, and onstate of a node of the DHT.
LEMMA OwnTruthful ==
  ASSUME NEW s, Settled(s), Truthful(s)
  PROVE  /\ \A p \in Peer \ {s.me} : Truthful(OnPeerAdd(s, p))
         /\ \A p \in Peer : Truthful(OnPeerDrop(s, p))
         /\ \A eph \in BOOLEAN : eph \/ s.me \in Persistent => Truthful(OnState(s, eph))
<1>1. \A p \in Peer \ {s.me} : Hearsay(OnPeerAdd(s, p), s)
  BY OnPeerAddHearsay
<1>2. \A p \in Peer : Hearsay(OnPeerDrop(s, p), s)
  BY OnPeerDropHearsay
<1>3. ASSUME NEW eph \in BOOLEAN, eph \/ s.me \in Persistent
      PROVE  Truthful(OnState(s, eph))
  <2>1. /\ \A q \in Peer \ {s.me} : OnState(s, eph).attr[q] = s.attr[q]
        /\ OnState(s, eph).attr[s.me] = [s.attr[s.me] EXCEPT !.ephemeral = eph]
    BY OwnFlagsOnly
  <2>2. OnState(s, eph).attr[s.me].ephemeral = eph
    BY <2>1, OwnAttr DEF Attr
  <2>. QED BY <1>3, <2>1, <2>2 DEF Truthful
<1>4. (\A p \in Peer \ {s.me} : Truthful(OnPeerAdd(s, p))) /\ \A p \in Peer : Truthful(OnPeerDrop(s, p))
  BY <1>1, <1>2, HearsayTruthful
<1>. QED BY <1>3, <1>4

\* So does every packet, if only nodes of the DHT say that they are some.
LEMMA PacketTruthful ==
  ASSUME NEW s, Settled(s), Truthful(s), NEW o \in Peer \ {s.me}, NEW L,
         NEW packet \in Sayable(o, L), Honest(o, packet),
         NEW r, r = OnBroadcast(s, o, Encode(packet))
  PROVE  Truthful(r)
<1>1. CASE \E b \in BOOLEAN : packet = Persistence(b)
  <2>1. PICK b \in BOOLEAN : packet = Persistence(b)
    BY <1>1
  <2>. DEFINE m == [type |-> "PERSISTENT", ephemeral |-> b]
  <2>2. m \in PersistentPkt /\ m.ephemeral = b
    BY DEF PersistentPkt
  <2>3. r = OnPersistent(s, o, m)
    BY <2>1, HeardAsSaid
  <2>. HIDE DEF m
  <2>4. s.attr[o] \in Attr
    BY DEF Settled, Sound, State
  <2>5. r.attr[o] = [s.attr[o] EXCEPT !.ephemeral = b]
    BY <2>2, <2>3, SenderFlags
  <2>6. r.attr[o].ephemeral = b
    BY <2>4, <2>5 DEF Attr
  <2>7. \A q \in Peer \ {o} : r.attr[q] = s.attr[q]
    BY <2>2, <2>3, SenderOnly
  <2>8. b \/ o \in Persistent
    BY <2>1 DEF Honest, Persistence, Blank
  <2>. QED BY <2>6, <2>7, <2>8 DEF Truthful
<1>2. CASE \E d \in Data : packet = Advertise(d)
  <2>1. PICK d \in Data : packet = Advertise(d)
    BY <1>2
  <2>. DEFINE m == [type |-> "USER_DATA", data |-> d]
  <2>2. m \in UserDataPkt /\ m.data = d
    BY DEF UserDataPkt
  <2>3. r = OnUserData(s, o, m)
    BY <2>1, HeardAsSaid
  <2>. HIDE DEF m
  <2>4. s.attr[o] \in Attr
    BY DEF Settled, Sound, State
  <2>5. r.attr[o] = [s.attr[o] EXCEPT !.data = d]
    BY <2>2, <2>3, SenderFlags
  <2>6. r.attr[o].ephemeral = s.attr[o].ephemeral
    BY <2>4, <2>5 DEF Attr
  <2>7. \A q \in Peer \ {o} : r.attr[q] = s.attr[q]
    BY <2>2, <2>3, SenderOnly
  <2>. QED BY <2>6, <2>7 DEF Truthful
<1>3. CASE \E q \in Peer \ {o} : packet = Disconnected(q) \/ packet = Connected(q)
  <2>1. PICK q \in Peer \ {o} : packet = Disconnected(q) \/ packet = Connected(q)
    BY <1>3
  <2>2. /\ [type |-> "CONNECTED", peer |-> q] \in ConnectionPkt
        /\ [type |-> "DISCONNECTED", peer |-> q] \in ConnectionPkt
    BY DEF ConnectionPkt
  <2>3. \/ r = OnConnected(s, o, [type |-> "CONNECTED", peer |-> q])
        \/ r = OnDisconnected(s, o, [type |-> "DISCONNECTED", peer |-> q])
    BY <2>1, HeardAsSaid
  <2>4. Hearsay(r, s)
    BY <2>2, <2>3, PacketHearsay
  <2>. QED BY <2>4, HearsayTruthful
<1>. QED BY <1>1, <1>2, <1>3 DEF Sayable

------------------------------------------------------------------------------
(* Which packet a buffer is. *)

\* The packets that a node says of itself and of its connections differ.
LEMMA EncodeTells ==
  /\ \A p, q \in Peer : Encode(Connected(p)) # Encode(Disconnected(q))
  /\ \A p, q \in Peer : p # q => /\ Encode(Connected(p)) # Encode(Connected(q))
                                 /\ Encode(Disconnected(p)) # Encode(Disconnected(q))
  /\ \A b \in BOOLEAN, q \in Peer : /\ Encode(Persistence(b)) # Encode(Connected(q))
                                    /\ Encode(Persistence(b)) # Encode(Disconnected(q))
  /\ \A d \in Data, q \in Peer : /\ Encode(Advertise(d)) # Encode(Connected(q))
                                 /\ Encode(Advertise(d)) # Encode(Disconnected(q))
<1>1. \A q \in Peer : /\ Decode(Encode(Connected(q))).type = 4
                      /\ Decode(Encode(Connected(q))).peer = q
                      /\ Decode(Encode(Disconnected(q))).type = 5
                      /\ Decode(Encode(Disconnected(q))).peer = q
  BY DecodeGiven
<1>2. \A d \in Data : Decode(Encode(Advertise(d))).type = 8
  BY DecodeGiven
<1>3. \A b \in BOOLEAN : Decode(Encode(Persistence(b))).type = 1
  BY DecodeGiven
<1>. QED BY <1>1, <1>2, <1>3

------------------------------------------------------------------------------
(* Packets on their way from one node to another. *)

Says(k, o, d, packet) == k.from = o /\ k.to = d /\ k.buf = Encode(packet)
Said(o, d, packet)    == \E k \in mail : Says(k, o, d, packet)

\* It comes after everything of the other kind.
Latest(o, d, packet, other) ==
  \E k \in mail : /\ Says(k, o, d, packet)
                  /\ \A j \in mail : Says(j, o, d, other) => j.seq < k.seq

\* What is on its way was said by now, by a node of the DHT if it says so, to
\* a node that did not crash.  Nobody has come further than the connection.
Posted(k) ==
  /\ k.to \notin stopped
  /\ k.seq \in Nat /\ k.seq <= sent[k.from]
  /\ \E packet \in Sayable(k.from, Linked) : k.buf = Encode(packet) /\ Honest(k.from, packet)
PostInv ==
  /\ sent \in [Peer -> Nat]
  /\ \A k \in mail : Posted(k)
  /\ \A n, m \in Peer : view[n][m] <= Link(n, m)
  /\ \A n \in Peer : Truthful(node[n])

\* None, or one, of the packets of a turn is this one.
Mute(packets, packet)   == \A i \in DOMAIN packets : Encode(packets[i]) # Encode(packet)
Voiced(packets, packet) == packet.type \in Carried /\ \E i \in DOMAIN packets : packets[i] = packet

\* What a turn adds.
LEMMA TurnMail ==
  ASSUME NEW n, NEW s, NEW packets, Turn(n, s, packets)
  PROVE  /\ mail \subseteq mail' /\ misled \subseteq misled'
         /\ \A k \in mail' \ mail :
              /\ k.from = n /\ k.to \in Audience(s) \ stopped
              /\ \E i \in DOMAIN packets : k.seq = sent[n] + i /\ k.buf = Encode(packets[i])
         /\ \A d \in Audience(s) \ (stopped \cup misled'), i \in DOMAIN packets :
              packets[i].type \in Carried =>
                \E k \in mail' : /\ k.from = n /\ k.to = d
                                 /\ k.seq = sent[n] + i /\ k.buf = Encode(packets[i])
<1>. DEFINE letter(d, i) ==
              [from |-> n, to |-> d, seq |-> sent[n] + i, buf |-> Encode(packets[i])]
<1>0. PICK missed \in SUBSET Astray(s) :
        /\ mail' = mail \cup {letter(d, i) : d \in Audience(s) \ (stopped \cup missed),
                                  i \in {j \in DOMAIN packets : packets[j].type \in Carried}}
        /\ misled' = misled \cup missed
  BY DEF Turn
<1>1. mail' = mail \cup {letter(d, i) : d \in Audience(s) \ (stopped \cup missed),
                                        i \in {j \in DOMAIN packets : packets[j].type \in Carried}}
  BY <1>0
<1>2. \A d, i : /\ letter(d, i).from = n /\ letter(d, i).to = d
                /\ letter(d, i).seq = sent[n] + i /\ letter(d, i).buf = Encode(packets[i])
  OBVIOUS
<1>. HIDE DEF letter
<1>3. ASSUME NEW k \in mail' \ mail
      PROVE  /\ k.from = n /\ k.to \in Audience(s) \ stopped
             /\ \E i \in DOMAIN packets : k.seq = sent[n] + i /\ k.buf = Encode(packets[i])
  <2>1. PICK d \in Audience(s) \ stopped, i \in DOMAIN packets : k = letter(d, i)
    BY <1>1
  <2>. QED BY <1>2, <2>1
<1>4. ASSUME NEW d \in Audience(s) \ (stopped \cup misled'), NEW i \in DOMAIN packets,
             packets[i].type \in Carried
      PROVE  \E k \in mail' : /\ k.from = n /\ k.to = d
                              /\ k.seq = sent[n] + i /\ k.buf = Encode(packets[i])
  <2>0. d \notin missed
    BY <1>0
  <2>1. letter(d, i) \in mail'
    BY <1>1, <1>4, <2>0
  <2>. QED BY <1>2, <2>1
<1>5. mail \subseteq mail' /\ misled \subseteq misled'
  BY <1>0
<1>. QED BY <1>3, <1>4, <1>5

\* What was said before a turn is still on its way after it.
LEMMA SaidKept ==
  ASSUME mail \subseteq mail', NEW o, NEW d, NEW packet, Said(o, d, packet)
  PROVE  Said(o, d, packet)'
BY DEF Said, Says

\* What the turn does not say was there before.
LEMMA SaidBefore ==
  ASSUME NEW n, NEW s, NEW packets, Turn(n, s, packets), NEW o, NEW d, NEW packet,
         o = n => Mute(packets, packet), Said(o, d, packet)'
  PROVE  Said(o, d, packet)
<1>1. PICK k \in mail' : Says(k, o, d, packet)
  BY DEF Said, Says
<1>2. k \in mail
  BY <1>1, TurnMail DEF Says, Mute
<1>. QED BY <1>1, <1>2 DEF Said

\* The last word stays the last unless the turn says otherwise,
LEMMA LatestKept ==
  ASSUME NEW n, NEW s, NEW packets, Turn(n, s, packets), NEW o, NEW d, NEW packet, NEW other,
         o = n => Mute(packets, other), Latest(o, d, packet, other)
  PROVE  Latest(o, d, packet, other)'
<1>1. PICK k \in mail : /\ Says(k, o, d, packet)
                        /\ \A j \in mail : Says(j, o, d, other) => j.seq < k.seq
  BY DEF Latest
<1>2. mail \subseteq mail'
  BY TurnMail
<1>3. ASSUME NEW j \in mail', Says(j, o, d, other)
      PROVE  j \in mail
  BY <1>3, TurnMail DEF Says, Mute
<1>. QED BY <1>1, <1>2, <1>3 DEF Latest, Says

\* ... and what the turn says is the last word to everybody it reaches.
LEMMA LatestSent ==
  ASSUME PostInv, NEW n \in Peer, NEW s, NEW packets, Turn(n, s, packets),
         DOMAIN packets \subseteq Nat \ {0},
         NEW d \in Audience(s) \ (stopped \cup misled'), NEW packet, NEW other,
         Voiced(packets, packet), Mute(packets, other)
  PROVE  Latest(n, d, packet, other)'
<1>1. PICK i \in DOMAIN packets : packets[i] = packet /\ packets[i].type \in Carried
  BY DEF Voiced
<1>2. PICK k \in mail' : k.from = n /\ k.to = d /\ k.seq = sent[n] + i /\ k.buf = Encode(packets[i])
  BY <1>1, TurnMail
<1>3. ASSUME NEW j \in mail', Says(j, n, d, other)
      PROVE  j.seq < k.seq
  <2>1. j \in mail
    BY <1>3, TurnMail DEF Says, Mute
  <2>2. j.seq \in Nat /\ j.seq <= sent[n] /\ sent[n] \in Nat /\ i \in Nat \ {0}
    BY <1>3, <2>1 DEF PostInv, Posted, Says
  <2>. QED BY <1>2, <2>2
<1>4. Says(k, n, d, packet)
  BY <1>1, <1>2 DEF Says
<1>. QED BY <1>3, <1>4 DEF Latest, Says

\* When a packet arrives in its turn, what comes behind another stays so,
LEMMA LatestLeft ==
  ASSUME PostInv, NEW k \in mail, Oldest(k), mail' = mail \ {k},
         NEW o, NEW d, NEW packet, NEW other,
         Latest(o, d, packet, other), Said(o, d, other)'
  PROVE  Latest(o, d, packet, other)'
<1>1. PICK c \in mail : /\ Says(c, o, d, packet)
                        /\ \A j \in mail : Says(j, o, d, other) => j.seq < c.seq
  BY DEF Latest
<1>2. PICK j \in mail' : Says(j, o, d, other)
  BY DEF Said, Says
<1>3. j.seq \in Nat /\ c.seq \in Nat /\ k.seq \in Nat
  BY <1>1, <1>2 DEF PostInv, Posted
<1>4. c # k
  <2>1. j \in mail /\ j.seq < c.seq
    BY <1>1, <1>2
  <2>2. c = k => c.seq <= j.seq
    BY <1>1, <1>2, <2>1 DEF Oldest, Says
  <2>. QED BY <1>3, <2>1, <2>2
<1>. QED BY <1>1, <1>4 DEF Latest, Says

\* ... and what comes behind the packet that arrives is still to come.
LEMMA LatestBehind ==
  ASSUME PostInv, NEW k \in mail, mail' = mail \ {k},
         NEW o, NEW d, NEW packet, NEW other,
         Latest(o, d, packet, other), Says(k, o, d, other)
  PROVE  Latest(o, d, packet, other)' /\ Said(o, d, packet)'
<1>1. PICK c \in mail : /\ Says(c, o, d, packet)
                        /\ \A j \in mail : Says(j, o, d, other) => j.seq < c.seq
  BY DEF Latest
<1>2. c # k
  <2>1. k.seq < c.seq /\ k.seq \in Nat
    BY <1>1 DEF PostInv, Posted
  <2>. QED BY <2>1
<1>. QED BY <1>1, <1>2 DEF Latest, Said, Says

------------------------------------------------------------------------------
(* PostInv is kept. *)

\* How often a connection opened and closed only grows.
LEMMA LinkGrows ==
  ASSUME LinkInv, link' \in [Edges -> Nat], \A e \in Edges : link'[e] >= link[e],
         NEW n \in Peer, NEW m \in Peer
  PROVE  Link(n, m) \in Nat /\ Link(n, m)' \in Nat /\ Link(n, m) <= Link(n, m)'
<1>1. CASE n = m
  BY <1>1 DEF Link
<1>2. CASE n # m
  <2>1. Edge(n, m) \in Edges
    BY <1>2 DEF Edges, Edge
  <2>2. link[Edge(n, m)] \in Nat /\ link'[Edge(n, m)] \in Nat
        /\ link[Edge(n, m)] <= link'[Edge(n, m)]
    BY <2>1 DEF LinkInv
  <2>. QED BY <1>2, <2>2 DEF Link
<1>. QED BY <1>1, <1>2

\* By a turn.
LEMMA PostTurn ==
  ASSUME Inv, PostInv, NEW n \in Peer, NEW s, NEW packets, Turn(n, s, packets), Truthful(s),
         Len(packets) \in Nat, DOMAIN packets = 1 .. Len(packets),
         \A i \in DOMAIN packets : packets[i] \in Sayable(n, Linked) /\ Honest(n, packets[i]),
         link' = link, stopped' = stopped,
         \A a, b \in Peer : view'[a][b] <= Link(a, b)
  PROVE  PostInv'
<1>1. Linked' = Linked /\ \A a, b \in Peer : Link(a, b)' = Link(a, b)
  BY DEF Linked, Link
<1>2. node' = [node EXCEPT ![n] = s] /\ sent' = [sent EXCEPT ![n] = sent[n] + Len(packets)]
  BY DEF Turn
<1>3. sent \in [Peer -> Nat] /\ node \in [Peer -> State]
  BY DEF PostInv, Inv, NodeInv
<1>4. sent' \in [Peer -> Nat] /\ \A o \in Peer : sent[o] <= sent'[o]
  BY <1>2, <1>3
<1>5. \A o \in Peer : Truthful(node'[o])
  <2>1. \A o \in Peer : node'[o] = s \/ node'[o] = node[o]
    BY <1>2, <1>3
  <2>. QED BY <2>1 DEF PostInv
<1>6. ASSUME NEW k \in mail' PROVE Posted(k)'
  <2>1. CASE k \in mail
    <3>1. k.from \in Peer
      BY <2>1 DEF Inv, MailInv
    <3>2. k.seq \in Nat /\ k.seq <= sent[k.from] /\ k.to \notin stopped
      BY <2>1 DEF PostInv, Posted
    <3>3. k.seq <= sent'[k.from]
      BY <1>3, <1>4, <3>1, <3>2
    <3>. QED BY <1>1, <2>1, <3>2, <3>3 DEF PostInv, Posted
  <2>2. CASE k \notin mail
    <3>1. k.from = n /\ k.to \notin stopped
      BY <2>2, TurnMail
    <3>2. PICK i \in DOMAIN packets : k.seq = sent[n] + i /\ k.buf = Encode(packets[i])
      BY <2>2, TurnMail
    <3>3. i \in Nat /\ i <= Len(packets) /\ sent[n] \in Nat /\ sent'[n] = sent[n] + Len(packets)
      BY <1>2, <1>3, <3>2
    <3>4. k.seq \in Nat /\ k.seq <= sent'[n]
      BY <3>2, <3>3
    <3>5. packets[i] \in Sayable(n, Linked) /\ Honest(n, packets[i])
      OBVIOUS
    <3>. QED BY <1>1, <3>1, <3>2, <3>4, <3>5 DEF Posted
  <2>. QED BY <2>1, <2>2
<1>. QED BY <1>1, <1>4, <1>5, <1>6 DEF PostInv

\* By connections and losses.
LEMMA PostWorld ==
  ASSUME Inv, PostInv, link' \in [Edges -> Nat], \A e \in Edges : link'[e] >= link[e],
         mail' \subseteq mail, \A k \in mail' : k.to \notin stopped', node' = node,
         view' = view, sent' = sent
  PROVE  PostInv'
<1>1. /\ \A o : Sayable(o, Linked) \subseteq Sayable(o, Linked')
      /\ view \in [Peer -> [Peer -> Nat]]
  BY LinkedGrows DEF Inv, LinkInv
<1>2. ASSUME NEW k \in mail' PROVE Posted(k)'
  BY <1>1 DEF PostInv, Posted
<1>3. ASSUME NEW n \in Peer, NEW m \in Peer PROVE view[n][m] <= Link(n, m)'
  <2>1. Link(n, m) \in Nat /\ Link(n, m)' \in Nat /\ Link(n, m) <= Link(n, m)'
    BY LinkGrows DEF Inv
  <2>2. view[n][m] \in Nat /\ view[n][m] <= Link(n, m)
    BY <1>1 DEF PostInv
  <2>. QED BY <2>1, <2>2
<1>. QED BY <1>2, <1>3 DEF PostInv

\* By a packet that arrives.
LEMMA PostDeliver ==
  ASSUME Inv, PostInv, NEW k \in mail, Receive(k)
  PROVE  PostInv'
<1>1. k.from \in Peer /\ k.to \in Peer \ {k.from}
  BY DEF Inv, MailInv
<1>2. PICK packet \in Sayable(k.from, Linked) :
        k.buf = Encode(packet) /\ Honest(k.from, packet)
  BY DEF PostInv, Posted
<1>. DEFINE s == node[k.to]
            r == OnBroadcast(s, k.from, k.buf)
<1>3. Settled(s) /\ s.me = k.to /\ Truthful(s) /\ node \in [Peer -> State]
  BY <1>1 DEF Inv, NodeInv, PostInv
<1>4. Truthful(r)
  BY <1>1, <1>2, <1>3, PacketTruthful
<1>5. /\ node' = [node EXCEPT ![k.to] = r] /\ mail' \subseteq mail /\ link' = link
      /\ view' = view /\ sent' = sent /\ stopped' = stopped
  BY DEF Receive
<1>. HIDE DEF r
<1>6. \A o \in Peer : Truthful(node'[o])
  <2>1. \A o \in Peer : node'[o] = r \/ node'[o] = node[o]
    BY <1>3, <1>5
  <2>. QED BY <1>4, <2>1 DEF PostInv
<1>7. Linked' = Linked /\ \A a, b \in Peer : Link(a, b)' = Link(a, b)
  BY <1>5 DEF Linked, Link
<1>8. \A j \in mail' : Posted(j)'
  BY <1>5, <1>7 DEF PostInv, Posted
<1>. QED BY <1>5, <1>6, <1>7, <1>8 DEF PostInv

------------------------------------------------------------------------------
(* The inductive invariant of nodes that hear every packet in order. *)

Informed == Live \ misled

\* Such a node, told of its open connection, shows it, unless the other end
\* has to catch up, and will say so, or has said so last.
OwnShown ==
  \A n \in Informed, m \in Live : n # m /\ Open(Link(n, m)) /\ view[n][m] = Link(n, m) =>
    \/ Edge(n, m) \in node[n].edges
    \/ view[m][n] < Link(n, m)
    \/ Latest(m, n, Connected(n), Disconnected(n))

\* A DISCONNECTED of an earlier connection has the CONNECTED behind it,
Reopened ==
  \A n \in Informed, m \in Peer : n # m /\ Open(view[m][n]) /\ Said(m, n, Disconnected(n)) =>
    Latest(m, n, Connected(n), Disconnected(n))

\* ... and to a node of the DHT a CONNECTED that is out of date the DISCONNECTED.
Reclosed ==
  \A n \in Informed \cap Persistent, a, b \in Peer :
    a # b /\ ~Open(view[a][b]) /\ Said(a, n, Connected(b)) =>
      Latest(a, n, Disconnected(b), Connected(b))

\* What such a node shows is open at an end, or it will be told.
Accounted(n, a, b) == Open(view[a][b]) \/ Said(a, n, Disconnected(b))
ShownAccounted ==
  \A n \in Informed \cap Persistent, a, b \in Live :
    a # b /\ Edge(a, b) \in node[n].edges => Accounted(n, a, b) \/ Accounted(n, b, a)

Order == OwnShown /\ Reopened /\ Reclosed /\ ShownAccounted

\* What a turn of n says of d, and does to its end of the connection: nothing,
\* or that it opened, or that it closed.
Quiet(n, r, packets, d) ==
  /\ view'[n][d] = view[n][d]
  /\ Mute(packets, Connected(d)) /\ Mute(packets, Disconnected(d))
  /\ Edge(n, d) \in r.edges <=> Edge(n, d) \in node[n].edges
Opens(n, r, packets, d) ==
  /\ Open(view'[n][d])
  /\ Voiced(packets, Connected(d)) /\ Mute(packets, Disconnected(d))
  /\ Edge(n, d) \in r.edges /\ d \in r.conns
Closes(n, r, packets, d) ==
  /\ ~Open(view'[n][d])
  /\ Voiced(packets, Disconnected(d)) /\ Mute(packets, Connected(d))
  /\ Edge(n, d) \notin r.edges

\* An edge has no direction.
LEMMA EdgeTurns == \A a, b : Edge(a, b) = Edge(b, a)
BY DEF Edge

\* Turns keep it.
LEMMA OrderTurn ==
  ASSUME Inv, PostInv, Order, Inv', PostInv',
         NEW n \in Peer, NEW r, NEW packets, Turn(n, r, packets),
         DOMAIN packets \subseteq Nat \ {0}, link' = link, stopped' = stopped,
         \A o \in Peer \ {n} : view'[o] = view[o],
         \A d \in Peer \ {n} : \/ Quiet(n, r, packets, d) \/ Opens(n, r, packets, d)
                               \/ Closes(n, r, packets, d),
         \A e \in r.edges : e \in node[n].edges \/ n \in e
  PROVE  Order'
<1>0. /\ Informed' \subseteq Informed /\ Informed \subseteq Live
      /\ Informed' \cap misled' = {}
  BY TurnMail DEF Informed, Live
<1>1. /\ Live' = Live /\ Live \subseteq Peer /\ mail \subseteq mail'
      /\ \A a, b \in Peer : Link(a, b)' = Link(a, b)
      /\ \A a, b : a # b => Link(a, b) = Link(b, a)
  BY TurnMail, EdgeTurns DEF Live, Link
<1>2. node'[n] = r /\ \A o \in Peer \ {n} : node'[o] = node[o]
  BY DEF Turn, Inv, NodeInv
<1>3. ASSUME NEW d \in Informed' \ {n}, d \in r.conns \/ d \in Persistent
      PROVE  d \in Audience(r) \ (stopped \cup misled')
  <2>1. r.me = n /\ Truthful(r)
    BY <1>2 DEF Inv, NodeInv, PostInv
  <2>2. d \in Live /\ d \notin misled'
    BY <1>0
  <2>. QED BY <1>3, <2>1, <2>2 DEF Audience, Fallback, Truthful, Live
<1>4. \A d \in Peer \ {n} : \/ Quiet(n, r, packets, d) \/ Opens(n, r, packets, d)
                            \/ Closes(n, r, packets, d)
  OBVIOUS
<1>5. ASSUME NEW a \in Informed', NEW b \in Live, a # b, Open(Link(a, b)),
             view'[a][b] = Link(a, b)
      PROVE  \/ Edge(a, b) \in node'[a].edges
             \/ view'[b][a] < Link(a, b)
             \/ Latest(b, a, Connected(a), Disconnected(a))'
  <2>00. a \in Informed /\ a \in Live
    BY <1>0
  <2>0. \/ view[a][b] # Link(a, b)
        \/ Edge(a, b) \in node[a].edges
        \/ view[b][a] < Link(a, b)
        \/ Latest(b, a, Connected(a), Disconnected(a))
    BY <1>5, <2>00 DEF Order, OwnShown
  <2>1. CASE a = n
    <3>1. ~Closes(n, r, packets, b)
      BY <1>5, <2>1 DEF Closes
    <3>2. CASE Opens(n, r, packets, b)
      BY <1>2, <2>1, <3>2 DEF Opens
    <3>3. CASE Quiet(n, r, packets, b)
      <4>1. view'[a][b] = view[a][b] /\ view'[b] = view[b]
        BY <1>1, <1>5, <2>00, <2>1, <3>3 DEF Quiet
      <4>2. Edge(a, b) \in node[a].edges => Edge(a, b) \in node'[a].edges
        BY <1>2, <2>1, <3>3 DEF Quiet
      <4>3. Latest(b, a, Connected(a), Disconnected(a)) =>
              Latest(b, a, Connected(a), Disconnected(a))'
        BY <1>5, <2>1, LatestKept
      <4>. QED BY <1>5, <2>0, <4>1, <4>2, <4>3
    <3>. QED BY <1>1, <1>4, <1>5, <2>00, <2>1, <3>1, <3>2, <3>3
  <2>2. CASE b = n
    <3>0. view'[a] = view[a] /\ node'[a] = node[a]
      BY <1>1, <1>2, <1>5, <2>00, <2>2
    <3>1. CASE Closes(n, r, packets, a)
      <4>1. ~Open(view'[b][a]) /\ view'[b][a] <= Link(b, a) /\ Link(b, a) = Link(a, b)
        BY <1>1, <1>5, <2>00, <2>2, <3>1 DEF Closes, PostInv
      <4>2. view'[b][a] \in Nat /\ Link(a, b) \in Nat
        <5>1. view'[b][a] \in Nat
          BY <1>1, <2>00 DEF Inv, LinkInv
        <5>2. Link(a, b) \in Nat
          BY <1>1, <2>00, LinkGrows DEF Inv, LinkInv
        <5>. QED BY <5>1, <5>2
      <4>. QED BY <1>5, <4>1, <4>2
    <3>2. CASE Opens(n, r, packets, a)
      <4>1. a \in Audience(r) \ (stopped \cup misled')
        BY <1>3, <1>5, <2>2, <3>2 DEF Opens
      <4>2. Latest(n, a, Connected(a), Disconnected(a))'
        BY <3>2, <4>1, LatestSent DEF Opens
      <4>. QED BY <2>2, <4>2
    <3>3. CASE Quiet(n, r, packets, a)
      <4>1. view'[b][a] = view[b][a]
        BY <2>2, <3>3 DEF Quiet
      <4>2. Latest(b, a, Connected(a), Disconnected(a)) =>
              Latest(b, a, Connected(a), Disconnected(a))'
        BY <2>2, <3>3, LatestKept DEF Quiet
      <4>. QED BY <1>5, <2>0, <3>0, <4>1, <4>2
    <3>. QED BY <1>1, <1>4, <1>5, <2>00, <2>2, <3>1, <3>2, <3>3
  <2>3. CASE a # n /\ b # n
    <3>1. view'[a] = view[a] /\ view'[b] = view[b] /\ node'[a] = node[a]
      BY <1>1, <1>2, <2>00, <2>3
    <3>2. Latest(b, a, Connected(a), Disconnected(a)) =>
            Latest(b, a, Connected(a), Disconnected(a))'
      BY <2>3, LatestKept
    <3>. QED BY <1>5, <2>0, <3>1, <3>2
  <2>. QED BY <2>1, <2>2, <2>3
<1>6. ASSUME NEW d \in Informed', NEW o \in Peer, d # o, Open(view'[o][d]),
             Said(o, d, Disconnected(d))'
      PROVE  Latest(o, d, Connected(d), Disconnected(d))'
  <2>0. d \in Informed /\ d \in Peer
    BY <1>0, <1>1
  <2>1. ASSUME o = n => Mute(packets, Disconnected(d)), view'[o][d] = view[o][d]
        PROVE  Latest(o, d, Connected(d), Disconnected(d))'
    <3>1. Said(o, d, Disconnected(d))
      BY <1>6, <2>1, SaidBefore
    <3>2. Latest(o, d, Connected(d), Disconnected(d))
      BY <1>6, <2>0, <2>1, <3>1 DEF Order, Reopened
    <3>. QED BY <2>1, <3>2, LatestKept
  <2>2. CASE o # n
    BY <2>1, <2>2
  <2>3. CASE o = n /\ Quiet(n, r, packets, d)
    BY <2>1, <2>3 DEF Quiet
  <2>4. CASE o = n /\ Opens(n, r, packets, d)
    <3>1. d \in Audience(r) \ (stopped \cup misled')
      BY <1>3, <1>6, <2>4 DEF Opens
    <3>. QED BY <2>4, <3>1, LatestSent DEF Opens
  <2>5. CASE o = n /\ Closes(n, r, packets, d)
    BY <1>6, <2>5 DEF Closes
  <2>. QED BY <1>4, <1>6, <2>0, <2>2, <2>3, <2>4, <2>5
<1>7. ASSUME NEW x \in Informed' \cap Persistent, NEW a \in Peer, NEW b \in Peer, a # b,
             ~Open(view'[a][b]), Said(a, x, Connected(b))'
      PROVE  Latest(a, x, Disconnected(b), Connected(b))'
  <2>1. ASSUME a = n => Mute(packets, Connected(b)), view'[a][b] = view[a][b]
        PROVE  Latest(a, x, Disconnected(b), Connected(b))'
    <3>1. Said(a, x, Connected(b))
      BY <1>7, <2>1, SaidBefore
    <3>2. Latest(a, x, Disconnected(b), Connected(b))
      BY <1>0, <1>7, <2>1, <3>1 DEF Order, Reclosed
    <3>. QED BY <2>1, <3>2, LatestKept
  <2>2. CASE a # n
    BY <2>1, <2>2
  <2>3. CASE a = n /\ Quiet(n, r, packets, b)
    BY <2>1, <2>3 DEF Quiet
  <2>4. CASE a = n /\ Closes(n, r, packets, b)
    <3>1. x # n
      BY <1>7, <2>4 DEF Said, Says, Inv, MailInv
    <3>2. x \in Audience(r) \ (stopped \cup misled')
      BY <1>3, <1>7, <3>1
    <3>. QED BY <2>4, <3>2, LatestSent DEF Closes
  <2>5. CASE a = n /\ Opens(n, r, packets, b)
    BY <1>7, <2>5 DEF Opens
  <2>. QED BY <1>4, <1>7, <2>2, <2>3, <2>4, <2>5
<1>8. ASSUME NEW x \in Informed' \cap Persistent, NEW a \in Live, NEW b \in Live, a # b,
             Edge(a, b) \in node'[x].edges, Accounted(x, a, b)
      PROVE  Accounted(x, a, b)'
  <2>1. CASE Said(a, x, Disconnected(b))
    BY <1>1, <2>1, SaidKept DEF Accounted
  <2>2. CASE Open(view[a][b]) /\ (a = n => ~Closes(n, r, packets, b))
    <3>1. a = n => Quiet(n, r, packets, b) \/ Opens(n, r, packets, b)
      BY <1>1, <1>4, <1>8, <2>2
    <3>2. Open(view'[a][b])
      BY <1>1, <2>2, <3>1 DEF Quiet, Opens
    <3>. QED BY <3>2 DEF Accounted
  <2>3. CASE a = n /\ Closes(n, r, packets, b)
    <3>1. x # n
      BY <1>2, <1>8, <2>3 DEF Closes
    <3>2. x \in Audience(r) \ (stopped \cup misled')
      BY <1>3, <3>1
    <3>3. Latest(n, x, Disconnected(b), Connected(b))'
      BY <2>3, <3>2, LatestSent DEF Closes
    <3>. QED BY <2>3, <3>3 DEF Latest, Said, Accounted
  <2>. QED BY <1>8, <2>1, <2>2, <2>3 DEF Accounted
<1>9. ASSUME NEW x \in Informed' \cap Persistent, NEW a \in Live, NEW b \in Live, a # b,
             Edge(a, b) \in node'[x].edges
      PROVE  Accounted(x, a, b)' \/ Accounted(x, b, a)'
  <2>1. CASE Edge(a, b) \in node[x].edges
    <3>1. Accounted(x, a, b) \/ Accounted(x, b, a)
      BY <1>0, <1>9, <2>1 DEF Order, ShownAccounted
    <3>2. Edge(b, a) \in node'[x].edges
      BY <1>9, EdgeTurns
    <3>. QED BY <1>8, <1>9, <3>1, <3>2
  <2>2. CASE Edge(a, b) \notin node[x].edges
    <3>1. x = n /\ n \in Edge(a, b)
      BY <1>0, <1>1, <1>2, <1>9, <2>2
    <3>2. PICK d \in Live \ {n} : Edge(a, b) = Edge(n, d) /\ ((a = n /\ b = d) \/ (b = n /\ a = d))
      BY <1>9, <3>1, EdgeTurns DEF Edge
    <3>3. Opens(n, r, packets, d)
      BY <1>1, <1>2, <1>4, <1>9, <2>2, <3>1, <3>2 DEF Quiet, Closes
    <3>4. Open(view'[n][d])
      BY <3>3 DEF Opens
    <3>. QED BY <3>2, <3>4 DEF Accounted
  <2>. QED BY <2>1, <2>2
<1>10. OwnShown'
  BY <1>0, <1>1, <1>5 DEF OwnShown
<1>11. Reopened' /\ Reclosed'
  BY <1>1, <1>6, <1>7 DEF Reopened, Reclosed
<1>12. ShownAccounted'
  BY <1>1, <1>9 DEF ShownAccounted
<1>. QED BY <1>10, <1>11, <1>12 DEF Order

\* Connections that open and close, and crashes, keep it; so does what befalls
\* the others.
LEMMA OrderWorld ==
  ASSUME Inv, PostInv, Order, PostInv', link' \in [Edges -> Nat],
         \A e \in Edges : link'[e] >= link[e],
         \A n \in Informed' : node'[n] = node[n],
         view' = view, Live' \subseteq Live, misled \subseteq misled', mail' \subseteq mail,
         \A k \in mail : k.to \in Informed' => k \in mail'
  PROVE  Order'
<1>0. Informed' \subseteq Informed /\ Informed' \subseteq Live' /\ Live' \subseteq Live
      /\ Live \subseteq Peer
  BY DEF Informed, Live
<1>1. ASSUME NEW o, NEW d, NEW packet
      PROVE  /\ Said(o, d, packet)' => Said(o, d, packet)
             /\ d \in Informed' /\ Said(o, d, packet) => Said(o, d, packet)'
  BY DEF Said, Says
<1>2. ASSUME NEW o, NEW d \in Informed', NEW packet, NEW other, Latest(o, d, packet, other)
      PROVE  Latest(o, d, packet, other)'
  BY <1>2 DEF Latest, Says
<1>3. ASSUME NEW a \in Informed', NEW b \in Live', a # b, Open(Link(a, b)'),
             view[a][b] = Link(a, b)'
      PROVE  \/ Edge(a, b) \in node'[a].edges
             \/ view[b][a] < Link(a, b)'
             \/ Latest(b, a, Connected(a), Disconnected(a))'
  <2>1. a \in Informed /\ b \in Live /\ a \in Peer /\ b \in Peer /\ node'[a] = node[a]
    BY <1>0
  <2>2. Link(a, b) \in Nat /\ Link(a, b)' \in Nat /\ Link(a, b) <= Link(a, b)'
    BY <2>1, LinkGrows DEF Inv
  <2>3. view[a][b] <= Link(a, b)
    BY <2>1 DEF PostInv
  <2>4. Link(a, b)' = Link(a, b)
    BY <1>3, <2>2, <2>3
  <2>5. \/ Edge(a, b) \in node[a].edges
        \/ view[b][a] < Link(a, b)
        \/ Latest(b, a, Connected(a), Disconnected(a))
    BY <1>3, <2>1, <2>4 DEF Order, OwnShown
  <2>. QED BY <1>2, <2>4, <2>5
<1>4. ASSUME NEW d \in Informed', NEW o \in Peer, d # o, Open(view[o][d]),
             Said(o, d, Disconnected(d))'
      PROVE  Latest(o, d, Connected(d), Disconnected(d))'
  <2>1. Latest(o, d, Connected(d), Disconnected(d))
    BY <1>0, <1>1, <1>4 DEF Order, Reopened
  <2>. QED BY <1>2, <2>1
<1>5. ASSUME NEW x \in Informed' \cap Persistent, NEW a \in Peer, NEW b \in Peer, a # b,
             ~Open(view[a][b]), Said(a, x, Connected(b))'
      PROVE  Latest(a, x, Disconnected(b), Connected(b))'
  <2>1. Latest(a, x, Disconnected(b), Connected(b))
    BY <1>0, <1>1, <1>5 DEF Order, Reclosed
  <2>. QED BY <1>2, <2>1
<1>6. ASSUME NEW x \in Informed' \cap Persistent, NEW a \in Live', NEW b \in Live', a # b,
             Edge(a, b) \in node'[x].edges
      PROVE  Accounted(x, a, b)' \/ Accounted(x, b, a)'
  <2>1. Accounted(x, a, b) \/ Accounted(x, b, a)
    BY <1>0, <1>6 DEF Order, ShownAccounted
  <2>. QED BY <1>1, <2>1 DEF Accounted
<1>7. OwnShown' /\ Reopened' /\ Reclosed' /\ ShownAccounted'
  BY <1>3, <1>4, <1>5, <1>6 DEF OwnShown, Reopened, Reclosed, ShownAccounted
<1>. QED BY <1>7 DEF Order

\* So does a packet that arrives in its turn.
LEMMA OrderDeliver ==
  ASSUME Inv, PostInv, Order, NEW k \in mail, Deliver(k)
  PROVE  Order'
<1>. DEFINE n == k.to
            s == node[n]
            r == OnBroadcast(s, k.from, k.buf)
<1>1. k.from \in Peer /\ n \in Peer \ {k.from}
  BY DEF Inv, MailInv
<1>2. PICK packet \in Sayable(k.from, Linked) : k.buf = Encode(packet)
  BY DEF Inv, MailInv
<1>3. Settled(s) /\ s.me = n
  BY <1>1 DEF Inv, NodeInv
<1>4. HeardEdges(r, s, k.from, packet)
  BY <1>1, <1>2, <1>3, PacketEdges
<1>5. /\ mail' = mail \ {k} /\ link' = link /\ view' = view /\ Live' = Live
      /\ node'[n] = r /\ \A o \in Peer \ {n} : node'[o] = node[o]
      /\ \A a, b \in Peer : Link(a, b)' = Link(a, b)
      /\ Informed' = Informed /\ Informed \subseteq Live /\ Live \subseteq Peer /\ Oldest(k)
  BY <1>1 DEF Deliver, Receive, Inv, NodeInv, Informed, Live, Link
<1>6. ASSUME NEW a \in Peer, Says(k, a, n, Connected(n))
      PROVE  Edge(n, a) \in r.edges
  <2>1. a = k.from /\ k.buf = Encode(Connected(n)) /\ s.me \in Edge(a, n)
    BY <1>3, <1>6 DEF Says, Edge
  <2>2. Edge(a, n) \in r.edges
    BY <1>1, <1>3, <2>1, HeardConnection
  <2>. QED BY <2>2, EdgeTurns
<1>7. ASSUME NEW a \in Peer, NEW b \in Peer \ {a}, Says(k, a, n, Disconnected(b))
      PROVE  Edge(a, b) \notin r.edges
  BY <1>3, <1>7, HeardConnection DEF Says
<1>. HIDE DEF n, s, r
<1>8. ASSUME NEW a \in Informed, NEW b \in Live, a # b, Open(Link(a, b)),
             view[a][b] = Link(a, b)
      PROVE  \/ Edge(a, b) \in node'[a].edges
             \/ view[b][a] < Link(a, b)
             \/ Latest(b, a, Connected(a), Disconnected(a))'
  <2>0. a \in Peer /\ b \in Peer
    BY <1>5 DEF Live
  <2>1. CASE Latest(b, a, Connected(a), Disconnected(a))
    <3>1. PICK c \in mail : /\ Says(c, b, a, Connected(a))
                            /\ \A j \in mail : Says(j, b, a, Disconnected(a)) => j.seq < c.seq
      BY <2>1 DEF Latest
    <3>2. CASE c # k
      BY <1>5, <3>1, <3>2 DEF Latest, Says
    <3>3. CASE c = k
      <4>1. a = n
        BY <3>1, <3>3 DEF Says, n
      <4>. QED BY <1>5, <1>6, <2>0, <3>1, <3>3, <4>1
    <3>. QED BY <3>2, <3>3
  <2>2. CASE Edge(a, b) \in node[a].edges
    <3>1. CASE Edge(a, b) \in node'[a].edges
      BY <3>1
    <3>2. CASE Edge(a, b) \notin node'[a].edges
      <4>1. a = n /\ Edge(a, b) \in s.edges \ r.edges
        BY <1>5, <2>0, <2>2, <3>2 DEF s
      <4>2. s.me \in Edge(a, b)
        BY <1>3, <4>1 DEF Edge
      <4>3. PICK q \in Peer \ {k.from} : packet = Disconnected(q) /\ Edge(a, b) = Edge(k.from, q)
        BY <1>4, <4>1, <4>2 DEF HeardEdges
      <4>4. b = k.from /\ a = q
        BY <1>1, <1>8, <4>1, <4>3 DEF Edge
      <4>5. Says(k, b, a, Disconnected(a))
        BY <1>2, <4>1, <4>3, <4>4 DEF Says, n
      <4>6. CASE Open(view[b][a])
        <5>1. Latest(b, a, Connected(a), Disconnected(a))
          BY <1>8, <2>0, <4>5, <4>6 DEF Order, Reopened, Said
        <5>. QED BY <1>5, <4>5, <5>1, LatestBehind
      <4>7. CASE ~Open(view[b][a])
        <5>1. Link(b, a) = Link(a, b) /\ view[b][a] <= Link(b, a)
          BY <1>8, <2>0, EdgeTurns DEF PostInv, Link
        <5>2. view[b][a] \in Nat /\ view[a][b] \in Nat
          BY <2>0 DEF Inv, LinkInv
        <5>. QED BY <1>8, <4>7, <5>1, <5>2
      <4>. QED BY <4>6, <4>7
    <3>. QED BY <3>1, <3>2
  <2>3. CASE view[b][a] < Link(a, b)
    BY <2>3
  <2>. QED BY <1>8, <2>1, <2>2, <2>3 DEF Order, OwnShown
<1>9. ASSUME NEW d \in Informed, NEW o \in Peer, d # o, Open(view[o][d]),
             Said(o, d, Disconnected(d))'
      PROVE  Latest(o, d, Connected(d), Disconnected(d))'
  <2>1. Said(o, d, Disconnected(d))
    BY <1>5, <1>9 DEF Said, Says
  <2>2. Latest(o, d, Connected(d), Disconnected(d))
    BY <1>9, <2>1 DEF Order, Reopened
  <2>. QED BY <1>5, <1>9, <2>2, LatestLeft
<1>10. ASSUME NEW x \in Informed \cap Persistent, NEW a \in Peer, NEW b \in Peer, a # b,
              ~Open(view[a][b]), Said(a, x, Connected(b))'
       PROVE  Latest(a, x, Disconnected(b), Connected(b))'
  <2>1. Said(a, x, Connected(b))
    BY <1>5, <1>10 DEF Said, Says
  <2>2. Latest(a, x, Disconnected(b), Connected(b))
    BY <1>10, <2>1 DEF Order, Reclosed
  <2>. QED BY <1>5, <1>10, <2>2, LatestLeft
<1>11. ASSUME NEW x \in Informed \cap Persistent, NEW a \in Live, NEW b \in Live, a # b,
              Edge(a, b) \in node'[x].edges, Accounted(x, a, b)
       PROVE  Accounted(x, a, b)'
  <2>0. a \in Peer /\ b \in Peer \ {a} /\ x \in Peer
    BY <1>5, <1>11 DEF Live
  <2>1. CASE Open(view[a][b])
    BY <1>5, <2>1 DEF Accounted
  <2>2. CASE \E j \in mail : Says(j, a, x, Disconnected(b)) /\ j # k
    BY <1>5, <2>2 DEF Accounted, Said, Says
  <2>3. CASE Says(k, a, x, Disconnected(b))
    <3>1. x = n
      BY <2>3 DEF Says, n
    <3>. QED BY <1>5, <1>7, <1>11, <2>0, <2>3, <3>1
  <2>. QED BY <1>11, <2>1, <2>2, <2>3 DEF Accounted, Said
<1>12. ASSUME NEW x \in Informed \cap Persistent, NEW a \in Peer, NEW b \in Peer \ {a},
              Says(k, a, x, Connected(b))
       PROVE  Accounted(x, a, b)'
  <2>1. CASE Open(view[a][b])
    BY <1>5, <2>1 DEF Accounted
  <2>2. CASE ~Open(view[a][b])
    <3>1. Latest(a, x, Disconnected(b), Connected(b))
      BY <1>12, <2>2 DEF Order, Reclosed, Said
    <3>2. Said(a, x, Disconnected(b))'
      BY <1>5, <1>12, <3>1, LatestBehind
    <3>. QED BY <3>2 DEF Accounted
  <2>. QED BY <2>1, <2>2
<1>13. ASSUME NEW x \in Informed \cap Persistent, NEW a \in Live, NEW b \in Live, a # b,
              Edge(a, b) \in node'[x].edges
       PROVE  Accounted(x, a, b)' \/ Accounted(x, b, a)'
  <2>0. a \in Peer /\ b \in Peer \ {a} /\ a \in Peer \ {b} /\ x \in Peer
    BY <1>5, <1>13 DEF Live
  <2>1. CASE Edge(a, b) \in node[x].edges
    <3>1. Accounted(x, a, b) \/ Accounted(x, b, a)
      BY <1>13, <2>1 DEF Order, ShownAccounted
    <3>2. Edge(b, a) \in node'[x].edges
      BY <1>13, EdgeTurns
    <3>. QED BY <1>11, <1>13, <3>1, <3>2
  <2>2. CASE Edge(a, b) \notin node[x].edges
    <3>1. x = n /\ Edge(a, b) \in r.edges \ s.edges
      BY <1>5, <1>13, <2>0, <2>2 DEF s
    <3>2. PICK q \in Peer \ {k.from} : packet = Connected(q) /\ Edge(a, b) = Edge(k.from, q)
      BY <1>4, <3>1 DEF HeardEdges
    <3>3. (a = k.from /\ b = q) \/ (b = k.from /\ a = q)
      BY <1>13, <3>2 DEF Edge
    <3>4. Says(k, a, x, Connected(b)) \/ Says(k, b, x, Connected(a))
      BY <1>2, <3>1, <3>2, <3>3 DEF Says, n
    <3>. QED BY <1>12, <1>13, <2>0, <3>4
  <2>. QED BY <2>1, <2>2
<1>14. OwnShown' /\ Reopened'
  BY <1>5, <1>8, <1>9 DEF OwnShown, Reopened
<1>15. Reclosed' /\ ShownAccounted'
  BY <1>5, <1>10, <1>13 DEF Reclosed, ShownAccounted
<1>. QED BY <1>14, <1>15 DEF Order

------------------------------------------------------------------------------
(* The turns there are. *)

\* The type of link.
LEMMA LinkNat ==
  ASSUME LinkInv, NEW n \in Peer, NEW m \in Peer
  PROVE  Link(n, m) \in Nat
<1>1. n # m => Edge(n, m) \in Edges
  BY DEF Edges, Edge
<1>. QED BY <1>1 DEF Link, LinkInv

\* onstate changes no edge.
LEMMA StateEdges ==
  ASSUME NEW s, Settled(s), NEW eph \in BOOLEAN
  PROVE  OnState(s, eph).edges = s.edges
<1>. DEFINE a  == [s.attr[s.me] EXCEPT !.ephemeral = eph]
            s1 == SetAttr(s, s.me, a)
<1>1. /\ s.me \in s.nodes /\ a \in Attr /\ a.connection = s.attr[s.me].connection
      /\ (s.attr[s.me].connection => s.me \in s.conns)
  BY OwnAttr DEF Attr, Settled, Sound, State
<1>2. OnState(s, eph) = Broadcast(s1)
  BY DEF OnState
<1>. HIDE DEF a
<1>3. Settled(s1)
  BY <1>1, SetAttrSettled
<1>4. s1.edges = s.edges
  BY DEF SetAttr, Settled, Sound, State
<1>. HIDE DEF s1
<1>. QED BY <1>2, <1>3, <1>4, LookupEdges

\* Only a node of the DHT says that it is one, and nothing else says so.
LEMMA AllHonest ==
  ASSUME NEW n
  PROVE  /\ \A q : Honest(n, Connected(q)) /\ Honest(n, Disconnected(q))
         /\ \A d : Honest(n, Advertise(d))
         /\ \A b \in BOOLEAN : b \/ n \in Persistent => Honest(n, Persistence(b))
<1>1. /\ \A q : Connected(q).type = 4 /\ Disconnected(q).type = 5
      /\ \A d : Advertise(d).type = 8
      /\ \A b : Persistence(b).ephemeral = b
  BY PacketNumbers DEF Connected, Disconnected, Advertise, Persistence, Blank
<1>. QED BY <1>1, PacketNumbers DEF Honest

\* Nobody comes further than the connection.
LEMMA NoticedWithin ==
  ASSUME LinkInv, NEW n \in Peer, NEW m \in Peer, view[n][m] < Link(n, m),
         \A a, b \in Peer : view[a][b] <= Link(a, b),
         view' = [view EXCEPT ![n][m] = view[n][m] + 1]
  PROVE  \A a, b \in Peer : view'[a][b] <= Link(a, b)
<1>1. view \in [Peer -> [Peer -> Nat]]
  BY DEF LinkInv
<1>2. \A a, b \in Peer : view'[a][b] = IF a = n /\ b = m THEN view[n][m] + 1 ELSE view[a][b]
  BY <1>1
<1>3. view[n][m] \in Nat /\ Link(n, m) \in Nat
  BY <1>1, LinkNat
<1>. QED BY <1>2, <1>3

\* The end of a connection is told that it opened.
LEMMA NoticeOpenOrder ==
  ASSUME Inv, PostInv, NEW n \in Peer, NEW m \in Peer, NoticeOpen(n, m)
  PROVE  PostInv' /\ (Inv' /\ Order => Order')
<1>. DEFINE s == node[n]
            r == OnPeerAdd(s, m)
            packets == Announcements(s, m)
            eph == s.attr[n].ephemeral
            d == s.attr[n].data
<1>1. /\ view[n][m] < Link(n, m) /\ ~Open(view[n][m])
      /\ view' = [view EXCEPT ![n][m] = view[n][m] + 1]
      /\ Turn(n, r, packets) /\ link' = link /\ stopped' = stopped
  BY DEF NoticeOpen
<1>2. /\ n # m /\ Edge(n, m) \in Linked
      /\ \A o \in Peer \ {n} : view'[o] = view[o]
      /\ \A p \in Peer \ {m} : view'[n][p] = view[n][p]
      /\ Open(view'[n][m])
  BY <1>1, Noticed DEF Inv
<1>3. \A a, b \in Peer : view'[a][b] <= Link(a, b)
  BY <1>1, NoticedWithin DEF Inv, PostInv
<1>4. Settled(s) /\ s.me = n /\ Idle(s) /\ Truthful(s) /\ s.edges \subseteq Linked
  BY DEF Inv, NodeInv, PostInv
<1>5. /\ r.edges \subseteq s.edges \cup {Edge(n, m)} /\ r.conns = s.conns \cup {m}
      /\ \A e \in s.edges \cup {Edge(n, m)} : n \in e => e \in r.edges
  BY <1>2, <1>4, PeerAddGoes, OnPeerAddOwn DEF Goes
<1>6. Truthful(r)
  BY <1>2, <1>4, OwnTruthful
<1>7. eph \in BOOLEAN /\ d \in Data /\ (eph \/ n \in Persistent)
  BY <1>4, OwnAttr DEF Attr, Truthful
<1>8. packets = <<Connected(m), Persistence(eph), Advertise(d)>>
  BY <1>4, IdleAnnouncements
<1>9. \A i \in DOMAIN packets : packets[i] \in Sayable(n, Linked)
  BY <1>2, <1>4, AnnouncementsSayable
<1>. HIDE DEF s, r, eph, d, packets
<1>10. /\ Len(packets) = 3 /\ DOMAIN packets = 1 .. 3
       /\ packets[1] = Connected(m) /\ packets[2] = Persistence(eph)
       /\ packets[3] = Advertise(d)
  BY <1>8
<1>11. Honest(n, Connected(m)) /\ Honest(n, Persistence(eph)) /\ Honest(n, Advertise(d))
  BY <1>7, AllHonest
<1>12. \A i \in DOMAIN packets : i = 1 \/ i = 2 \/ i = 3
  BY <1>10
<1>13. \A i \in DOMAIN packets : Honest(n, packets[i])
  BY <1>10, <1>11, <1>12
<1>14. PostInv'
  <2>1. Len(packets) \in Nat /\ DOMAIN packets = 1 .. Len(packets)
    BY <1>10
  <2>. QED BY <1>1, <1>3, <1>6, <1>9, <1>13, <2>1, PostTurn
<1>15. ASSUME NEW q \in Peer
       PROVE  /\ Mute(packets, Disconnected(q))
              /\ q # m => Mute(packets, Connected(q))
  BY <1>7, <1>10, <1>12, EncodeTells DEF Mute
<1>16. Opens(n, r, packets, m)
  <2>1. Connected(m).type \in Carried
    BY CarriedAssumption DEF Connected, Blank
  <2>2. 1 \in DOMAIN packets
    BY <1>10
  <2>3. Voiced(packets, Connected(m))
    BY <1>10, <2>1, <2>2 DEF Voiced
  <2>4. n \in Edge(n, m)
    BY DEF Edge
  <2>. QED BY <1>2, <1>5, <1>15, <2>3, <2>4 DEF Opens
<1>17. ASSUME NEW q \in Peer \ {n}, q # m
       PROVE  Quiet(n, r, packets, q)
  <2>1. n \in Edge(n, q) /\ Edge(n, q) # Edge(n, m)
    BY <1>17 DEF Edge
  <2>. QED BY <1>2, <1>5, <1>15, <1>17, <2>1 DEF Quiet, s
<1>18. DOMAIN packets \subseteq Nat \ {0}
  BY <1>10
<1>19. \A e \in r.edges : e \in node[n].edges \/ n \in e
  BY <1>5 DEF Edge, s
<1>. QED BY <1>1, <1>2, <1>14, <1>16, <1>17, <1>18, <1>19, OrderTurn

\* ... or that it closed.
LEMMA NoticeCloseOrder ==
  ASSUME Inv, PostInv, NEW n \in Peer, NEW m \in Peer, NoticeClose(n, m)
  PROVE  PostInv' /\ (Inv' /\ Order => Order')
<1>. DEFINE s == node[n]
            r == OnPeerDrop(s, m)
            packets == <<Disconnected(m)>>
<1>1. /\ view[n][m] < Link(n, m) /\ Open(view[n][m])
      /\ view' = [view EXCEPT ![n][m] = view[n][m] + 1]
      /\ Turn(n, r, packets) /\ link' = link /\ stopped' = stopped
  BY DEF NoticeClose
<1>2. /\ n # m
      /\ \A o \in Peer \ {n} : view'[o] = view[o]
      /\ \A p \in Peer \ {m} : view'[n][p] = view[n][p]
      /\ ~Open(view'[n][m])
  BY <1>1, Noticed DEF Inv
<1>3. \A a, b \in Peer : view'[a][b] <= Link(a, b)
  BY <1>1, NoticedWithin DEF Inv, PostInv
<1>4. Settled(s) /\ s.me = n /\ Truthful(s)
  BY DEF Inv, NodeInv, PostInv
<1>5. /\ r.edges \subseteq s.edges /\ Edge(n, m) \notin r.edges
      /\ \A e \in s.edges \ {Edge(n, m)} : n \in e => e \in r.edges
  BY <1>4, OnPeerDropKeeps
<1>6. Truthful(r)
  BY <1>4, OwnTruthful
<1>. HIDE DEF s, r
<1>7. /\ Len(packets) = 1 /\ DOMAIN packets = 1 .. 1
      /\ \A i \in DOMAIN packets : packets[i] = Disconnected(m)
  OBVIOUS
<1>. HIDE DEF packets
<1>8. Disconnected(m) \in Sayable(n, Linked)
  BY <1>2 DEF Sayable
<1>9. Honest(n, Disconnected(m))
  BY AllHonest
<1>10. PostInv'
  <2>1. Len(packets) \in Nat /\ DOMAIN packets = 1 .. Len(packets)
    BY <1>7
  <2>2. \A i \in DOMAIN packets : packets[i] \in Sayable(n, Linked) /\ Honest(n, packets[i])
    BY <1>7, <1>8, <1>9
  <2>. QED BY <1>1, <1>3, <1>6, <2>1, <2>2, PostTurn
<1>11. ASSUME NEW q \in Peer
       PROVE  /\ Mute(packets, Connected(q))
              /\ q # m => Mute(packets, Disconnected(q))
  BY <1>7, EncodeTells DEF Mute
<1>12. Closes(n, r, packets, m)
  <2>1. Disconnected(m).type \in Carried
    BY CarriedAssumption DEF Disconnected, Blank
  <2>2. 1 \in DOMAIN packets
    BY <1>7
  <2>3. Voiced(packets, Disconnected(m))
    BY <1>7, <2>1, <2>2 DEF Voiced
  <2>. QED BY <1>2, <1>5, <1>11, <2>3 DEF Closes
<1>13. ASSUME NEW q \in Peer \ {n}, q # m
       PROVE  Quiet(n, r, packets, q)
  <2>1. n \in Edge(n, q) /\ Edge(n, q) # Edge(n, m)
    BY <1>13 DEF Edge
  <2>. QED BY <1>2, <1>5, <1>11, <1>13, <2>1 DEF Quiet, s
<1>14. DOMAIN packets \subseteq Nat \ {0}
  BY <1>7
<1>15. \A e \in r.edges : e \in node[n].edges \/ n \in e
  BY <1>5 DEF s
<1>. QED BY <1>1, <1>2, <1>10, <1>12, <1>13, <1>14, <1>15, OrderTurn

\* The DHT of a node says what it is.
LEMMA StateOrder ==
  ASSUME Inv, PostInv, NEW n \in Peer, NEW eph \in BOOLEAN, eph \/ n \in Persistent,
         Turn(n, OnState(node[n], eph), <<Persistence(eph)>>),
         UNCHANGED <<link, stopped, view>>
  PROVE  PostInv' /\ (Inv' /\ Order => Order')
<1>. DEFINE s == node[n]
            r == OnState(s, eph)
            packets == <<Persistence(eph)>>
<1>1. Turn(n, r, packets) /\ link' = link /\ stopped' = stopped /\ view' = view
  OBVIOUS
<1>2. \A a, b \in Peer : view'[a][b] <= Link(a, b)
  BY <1>1 DEF PostInv
<1>3. Settled(s) /\ s.me = n /\ Truthful(s)
  BY DEF Inv, NodeInv, PostInv
<1>4. r.edges = s.edges
  BY <1>3, StateEdges
<1>5. Truthful(r)
  BY <1>3, OwnTruthful
<1>. HIDE DEF s, r
<1>6. /\ Len(packets) = 1 /\ DOMAIN packets = 1 .. 1
      /\ \A i \in DOMAIN packets : packets[i] = Persistence(eph)
  <2>. DEFINE one == Persistence(eph)
  <2>. HIDE DEF one
  <2>1. /\ Len(<<one>>) = 1 /\ DOMAIN <<one>> = 1 .. 1
        /\ \A i \in DOMAIN <<one>> : <<one>>[i] = one
    OBVIOUS
  <2>. QED BY <2>1 DEF one
<1>. HIDE DEF packets
<1>7. Persistence(eph) \in Sayable(n, Linked) /\ Honest(n, Persistence(eph))
  BY AllHonest DEF Sayable
<1>8. PostInv'
  <2>1. Len(packets) \in Nat /\ DOMAIN packets = 1 .. Len(packets)
    BY <1>6
  <2>2. \A i \in DOMAIN packets : packets[i] \in Sayable(n, Linked) /\ Honest(n, packets[i])
    BY <1>6, <1>7
  <2>. QED BY <1>1, <1>2, <1>5, <2>1, <2>2, PostTurn
<1>9. ASSUME NEW q \in Peer \ {n}
      PROVE  Quiet(n, r, packets, q)
  <2>1. Mute(packets, Connected(q)) /\ Mute(packets, Disconnected(q))
    BY <1>6, EncodeTells DEF Mute
  <2>. QED BY <1>1, <1>4, <2>1 DEF Quiet, s
<1>10. DOMAIN packets \subseteq Nat \ {0}
  BY <1>6
<1>11. \A e \in r.edges : e \in node[n].edges \/ n \in e
  BY <1>4 DEF s
<1>. QED BY <1>1, <1>8, <1>9, <1>10, <1>11, OrderTurn

\* It turns persistent, or its computer wakes up.
LEMMA PersistentOrder ==
  ASSUME Inv, PostInv, NEW n \in Peer, TurnPersistent(n) \/ WakeUp(n)
  PROVE  PostInv' /\ (Inv' /\ Order => Order')
<1>1. PICK eph \in BOOLEAN :
        (eph \/ n \in Persistent) /\ Turn(n, OnState(node[n], eph), <<Persistence(eph)>>)
  BY DEF TurnPersistent, WakeUp
<1>2. UNCHANGED <<link, stopped, view>>
  BY DEF TurnPersistent, WakeUp
<1>. QED BY <1>1, <1>2, StateOrder

------------------------------------------------------------------------------
(* The specification. *)

\* The constructors establish it.
LEMMA InitOrder == Init => PostInv /\ Order
<1>. SUFFICES ASSUME Init PROVE PostInv /\ Order
  OBVIOUS
<1>1. /\ mail = {} /\ link = [e \in Edges |-> 0]
      /\ sent = [n \in Peer |-> 0]
      /\ \A n, m \in Peer : view[n][m] = 0
  BY DEF Init
<1>2. ASSUME NEW n \in Peer
      PROVE  Truthful(node[n]) /\ node[n].edges = {}
  <2>1. node[n] = NewState(n, EmptyData)
    BY DEF Init
  <2>2. /\ NewState(n, EmptyData).edges = {}
        /\ \A p \in Peer : NewState(n, EmptyData).attr[p].ephemeral = TRUE
    BY DEF NewState, Fresh
  <2>. QED BY <2>1, <2>2 DEF Truthful
<1>3. \A n, m \in Peer : Link(n, m) = 0
  BY <1>1 DEF Link, Edges, Edge
<1>4. ~Open(0)
  BY Z3 DEF Open
<1>5. PostInv
  BY <1>1, <1>2, <1>3 DEF PostInv
<1>6. OwnShown
  BY <1>3, <1>4 DEF OwnShown, Informed, Live
<1>7. Reopened /\ Reclosed
  BY <1>1 DEF Reopened, Reclosed, Said
<1>8. ShownAccounted
  BY <1>2 DEF ShownAccounted, Informed, Live
<1>. QED BY <1>5, <1>6, <1>7, <1>8 DEF Order

\* Connections that open and close, and crashes, keep it.
LEMMA ConnectionsOrder ==
  ASSUME Inv, PostInv, (\E e \in Pairs : Connect(e) \/ Disconnect(e)) \/ \E n \in Peer : Stop(n)
  PROVE  PostInv' /\ (Order => Order')
<1>0. link \in [Edges -> Nat] /\ stopped \subseteq Peer
  BY DEF Inv, LinkInv
<1>1. CASE \E e \in Pairs : Connect(e) \/ Disconnect(e)
  <2>1. PICK e \in Edges : link' = [link EXCEPT ![e] = link[e] + 1]
    BY <1>1, PairsAssumption DEF Connect, Disconnect
  <2>2. link' \in [Edges -> Nat] /\ \A f \in Edges : link'[f] >= link[f]
    BY <1>0, <2>1
  <2>3. /\ mail' = mail /\ node' = node /\ view' = view /\ sent' = sent
        /\ stopped' = stopped /\ misled' = misled
    BY <1>1 DEF Connect, Disconnect
  <2>4. \A k \in mail' : k.to \notin stopped'
    BY <2>3 DEF PostInv, Posted
  <2>5. PostInv'
    BY <1>0, <2>2, <2>3, <2>4, PostWorld
  <2>6. Live' \subseteq Live
    BY <2>3 DEF Live
  <2>. QED BY <2>2, <2>3, <2>5, <2>6, OrderWorld
<1>2. CASE \E n \in Peer : Stop(n)
  <2>1. PICK n \in Peer : Stop(n)
    BY <1>2
  <2>2. link' = [e \in Edges |-> IF n \in e /\ Open(link[e]) THEN link[e] + 1 ELSE link[e]]
    BY <2>1 DEF Stop
  <2>3. link' \in [Edges -> Nat] /\ \A f \in Edges : link'[f] >= link[f]
    BY <1>0, <2>2
  <2>4. /\ mail' = {k \in mail : k.to # n} /\ stopped' = stopped \cup {n}
        /\ node' = node /\ view' = view /\ sent' = sent /\ misled' = misled
    BY <2>1 DEF Stop
  <2>5. \A k \in mail' : k.to \notin stopped'
    BY <2>4 DEF PostInv, Posted
  <2>6. PostInv'
    BY <1>0, <2>3, <2>4, <2>5, PostWorld
  <2>7. /\ Live' \subseteq Live /\ mail' \subseteq mail
        /\ \A k \in mail : k.to \in Informed' => k \in mail'
    BY <2>4 DEF Live, Informed
  <2>. QED BY <2>3, <2>4, <2>6, <2>7, OrderWorld
<1>. QED BY <1>1, <1>2

\* What arrives or is lost keeps it.
LEMMA MailOrder ==
  ASSUME Inv, PostInv, Order, NEW k \in mail, Deliver(k) \/ Overtake(k) \/ Lose(k)
  PROVE  PostInv' /\ Order'
<1>0. link \in [Edges -> Nat] /\ node \in [Peer -> State] /\ k.to \in Peer
  BY DEF Inv, LinkInv, NodeInv, MailInv
<1>1. CASE Lose(k)
  <2>1. /\ mail' = mail \ {k} /\ node' = node /\ view' = view /\ sent' = sent /\ link' = link
        /\ stopped' = stopped /\ misled' = misled \cup {k.to}
    BY <1>1 DEF Lose
  <2>2. \A j \in mail' : j.to \notin stopped'
    BY <2>1 DEF PostInv, Posted
  <2>3. \A e \in Edges : link'[e] >= link[e]
    BY <1>0, <2>1
  <2>4. PostInv'
    BY <1>0, <2>1, <2>2, <2>3, PostWorld
  <2>5. /\ Live' \subseteq Live /\ k.to \notin Informed'
        /\ \A j \in mail : j.to \in Informed' => j \in mail'
    BY <2>1 DEF Live, Informed
  <2>. QED BY <1>0, <2>1, <2>3, <2>4, <2>5, OrderWorld
<1>2. CASE Overtake(k)
  <2>1. Receive(k) /\ misled' = misled \cup {k.to}
    BY <1>2 DEF Overtake
  <2>2. PostInv'
    BY <2>1, PostDeliver
  <2>3. /\ mail' = mail \ {k} /\ view' = view /\ link' = link /\ Live' = Live
        /\ \A n \in Peer \ {k.to} : node'[n] = node[n]
    BY <1>0, <2>1 DEF Receive, Live
  <2>4. /\ k.to \notin Informed' /\ Informed' \subseteq Peer
        /\ \A j \in mail : j.to \in Informed' => j \in mail'
    BY <2>1, <2>3 DEF Live, Informed
  <2>5. \A e \in Edges : link'[e] >= link[e]
    BY <1>0, <2>3
  <2>6. \A n \in Informed' : node'[n] = node[n]
    BY <2>3, <2>4
  <2>. QED BY <1>0, <2>1, <2>2, <2>3, <2>4, <2>5, <2>6, OrderWorld
<1>3. CASE Deliver(k)
  BY <1>3, PostDeliver, OrderDeliver DEF Deliver
<1>. QED BY <1>1, <1>2, <1>3

\* Every step keeps it.
LEMMA NextOrder == Inv /\ PostInv /\ Order /\ [Next]_vars => PostInv' /\ Order'
<1>. SUFFICES ASSUME Inv, PostInv, Order, [Next]_vars PROVE PostInv' /\ Order'
  OBVIOUS
<1>0. Inv'
  BY NextInv
<1>1. CASE (\E e \in Pairs : Connect(e) \/ Disconnect(e)) \/ \E n \in Peer : Stop(n)
  BY <1>1, ConnectionsOrder
<1>2. CASE \E n \in Peer : TurnPersistent(n) \/ WakeUp(n)
  BY <1>0, <1>2, PersistentOrder
<1>3. CASE \E n \in Peer, m \in Peer : Notice(n, m)
  BY <1>0, <1>3, NoticeOpenOrder, NoticeCloseOrder DEF Notice
<1>4. CASE \E k \in mail : Deliver(k) \/ Overtake(k) \/ Lose(k)
  BY <1>4, MailOrder
<1>5. CASE UNCHANGED vars
  BY <1>5 DEF vars, PostInv, Posted, Order, OwnShown, Reopened, Reclosed,
              ShownAccounted, Accounted, Said, Says, Latest, Informed, Live, Link, Linked
<1>. QED BY <1>1, <1>2, <1>3, <1>4, <1>5 DEF Next

\* A node that hears every packet, each sender's in order: when it hides its own
\* open connection it has a CONNECTED to come, and one of the DHT that shows a
\* closed one a DISCONNECTED (presence.ts:394-432 and 496-501).
THEOREM SpecOrder == Spec => [](Inv /\ PostInv /\ Order)
<1>1. Init => Inv /\ PostInv /\ Order
  BY InitInv, InitOrder
<1>2. (Inv /\ PostInv /\ Order) /\ [Next]_vars => (Inv /\ PostInv /\ Order)'
  BY NextInv, NextOrder
<1>. QED BY <1>1, <1>2, PTL DEF Spec

\* What such a node shows when nothing is left to happen is how the nodes are
\* connected, whatever the others missed (onpeeradd and onpeerdrop at both ends,
\* CONNECTED and DISCONNECTED, presence.ts).
THEOREM SpecSettledInOrder == Spec => []SettledInOrder
<1>1. Inv /\ PostInv /\ Order => SettledInOrder
  <2>. SUFFICES ASSUME Inv, PostInv, Order, AtRest PROVE Accurate(Informed)
    BY DEF SettledInOrder, Informed
  <2>0. Live \subseteq Peer /\ Informed \subseteq Live /\ ~Open(0)
    BY Z3 DEF Live, Informed, Open
  <2>1. ASSUME NEW n \in Informed, NEW m \in Live, Open(Link(n, m))
        PROVE  Edge(n, m) \in node[n].edges
    <3>1. n # m
      BY <2>0, <2>1 DEF Link
    <3>2. Link(m, n) = Link(n, m)
      BY EdgeTurns DEF Link
    <3>3. view[n][m] = Link(n, m) /\ view[m][n] = Link(n, m) /\ mail = {}
      BY <2>0, <3>2 DEF AtRest
    <3>4. Link(n, m) \in Nat
      BY <2>0, LinkNat DEF Inv
    <3>. QED BY <2>1, <3>1, <3>3, <3>4 DEF Order, OwnShown, Latest
  <2>2. ASSUME NEW n \in Informed \cap Persistent, NEW e \in Edges, e \subseteq Live,
               ~Open(link[e]), e \in node[n].edges
        PROVE  FALSE
    <3>1. PICK a \in Peer, b \in Peer : a # b /\ e = Edge(a, b)
      BY DEF Edges
    <3>2. a \in Live /\ b \in Live
      BY <2>2, <3>1 DEF Edge
    <3>3. view[a][b] = link[e] /\ view[b][a] = link[e] /\ mail = {}
      BY <2>0, <3>1, <3>2, EdgeTurns DEF AtRest, Link
    <3>. QED BY <2>2, <3>1, <3>2, <3>3 DEF Order, ShownAccounted, Accounted, Said
  <2>. QED BY <2>1, <2>2 DEF Accurate
<1>. QED BY <1>1, SpecOrder, PTL
=============================================================================
