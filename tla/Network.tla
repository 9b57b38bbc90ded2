------------------------------- MODULE Network -------------------------------
(***************************************************************************)
(* Several VoidPresences that hear what the others really send: the        *)
(* handlers of PresenceOps, the packets of Wire, connections that open and *)
(* close, and gossip that is late or lost.                                 *)
(*                                                                         *)
(* link[e] counts how often the connection of a pair has opened and closed *)
(* (it is open when odd).  Each end is told of every change in turn, by    *)
(* Hyperswarm, when it gets to it: view[n][m] is how far n has come.       *)
(* A broadcast reaches the nodes of the DHT by gossip and the connected    *)
(* peers believed ephemeral as a fallback; a node that is both handles one *)
(* copy, as a second one changes nothing.  A packet of a type that is not  *)
(* in Carried is taken as lost.  Bootstrap requests and responses are not  *)
(* followed: a response carries no edges (Presence.tla has both).          *)
(* A computer that wakes up leaves the DHT (dht-rpc), and the gossip may   *)
(* pass by it from then on.  misled has the nodes that missed a packet, or *)
(* heard one before an older one of the same sender.                       *)
(***************************************************************************)
EXTENDS Wire

CONSTANTS
    Persistent,  \* the nodes that are in the routing tables of the DHT
    Carried,     \* the types of the packets that are followed
    Pairs,       \* the pairs of nodes that look for each other
    MaxFlips,    \* bound on how often connections open and close (not in the code)
    Faults,      \* what may go wrong: "late", "lost", "stop", "wake"
    MaxFaults    \* bound on how often it does (not in the code)

ASSUME PersistentAssumption == Persistent \subseteq Peer
ASSUME PairsAssumption == Pairs \subseteq Edges
ASSUME CarriedAssumption == {PacketType.CONNECTED, PacketType.DISCONNECTED} \subseteq Carried
ASSUME MaxFlipsAssumption == MaxFlips \in Nat
ASSUME FaultsAssumption == Faults \subseteq {"late", "lost", "stop", "wake"} /\ MaxFaults \in Nat

VARIABLES
    node,     \* node[n]: the fields of n's VoidPresence
    link,     \* link[e]: how often the connection of e opened and closed
    view,     \* view[n][m]: how much of that n has been told
    sent,     \* sent[n]: how many packets n broadcast (_seq of its DHT)
    mail,     \* the packets on their way
    stopped,  \* the nodes that crashed
    woken,    \* the nodes whose computer woke up
    misled,   \* the nodes that missed a packet, or heard one too early
    faults    \* how often something went wrong

vars == <<node, link, view, sent, mail, stopped, woken, misled, faults>>

Open(k)    == k % 2 = 1
Link(n, m) == IF n = m THEN 0 ELSE link[Edge(n, m)]
Flips      == MapThenSumSet(LAMBDA e : link[e], Edges)
Live       == Peer \ stopped
May(fault) == fault \in Faults /\ faults < MaxFaults

Init ==
  /\ node = [n \in Peer |-> NewState(n, EmptyData)]
  /\ link = [e \in Edges |-> 0]
  /\ view = [n \in Peer |-> [m \in Peer |-> 0]]
  /\ sent = [n \in Peer |-> 0]
  /\ mail = {}
  /\ stopped = {}
  /\ woken = {}
  /\ misled = {}
  /\ faults = 0

------------------------------------------------------------------------------
\* The peers that broadcast(message) of a node in the state s sends to itself.
Fallback(s) == {p \in s.conns : s.attr[p].ephemeral}

\* A faulty variant of Audience: no gossip.
AudienceConnected(s) == Fallback(s) \ {s.me}

\* The peers that broadcast(message) reaches.
Audience(s) == (Persistent \cup Fallback(s)) \ {s.me}

\* ... unless the gossip passes by them.
Astray(s) == (Audience(s) \cap woken) \ Fallback(s)

\* The node n goes to the state s and broadcasts the packets.  Nobody reads
\* what is sent to a node that crashed.
Turn(n, s, packets) ==
  \E missed \in SUBSET Astray(s) :
    /\ node' = [node EXCEPT ![n] = s]
    /\ sent' = [sent EXCEPT ![n] = @ + Len(packets)]
    /\ mail' = mail \cup
         {[from |-> n, to |-> d, seq |-> sent[n] + i, buf |-> Encode(packets[i])] :
            d \in Audience(s) \ (stopped \cup missed),
            i \in {j \in DOMAIN packets : packets[j].type \in Carried}}
    /\ misled' = misled \cup missed

\* k is the oldest packet on its way between its two nodes.
Oldest(k) == \A j \in mail : j.from = k.from /\ j.to = k.to => k.seq <= j.seq

------------------------------------------------------------------------------
(* Connections, as they are. *)
Connect(e) ==
  /\ e \cap stopped = {}
  /\ ~Open(link[e]) /\ Flips < MaxFlips
  /\ link' = [link EXCEPT ![e] = @ + 1]
  /\ UNCHANGED <<node, view, sent, mail, stopped, woken, misled, faults>>

Disconnect(e) ==
  /\ Open(link[e]) /\ Flips < MaxFlips
  /\ link' = [link EXCEPT ![e] = @ + 1]
  /\ UNCHANGED <<node, view, sent, mail, stopped, woken, misled, faults>>

\* A node crashes: its connections close, and it hears and says nothing more.
Stop(n) ==
  /\ n \in Live /\ May("stop")
  /\ stopped' = stopped \cup {n}
  /\ link' = [e \in Edges |-> IF n \in e /\ Open(link[e]) THEN link[e] + 1 ELSE link[e]]
  /\ mail' = {k \in mail : k.to # n}
  /\ faults' = faults + 1
  /\ UNCHANGED <<node, view, sent, woken, misled>>

(* ... and as the nodes are told of them: the "connection" event, and the  *)
(* socket's close.                                                         *)
NoticeOpen(n, m) ==
  /\ n \in Live /\ view[n][m] < Link(n, m) /\ ~Open(view[n][m])
  /\ view' = [view EXCEPT ![n][m] = @ + 1]
  /\ Turn(n, OnPeerAdd(node[n], m), Announcements(node[n], m))
  /\ UNCHANGED <<link, stopped, woken, faults>>

\* A faulty variant of NoticeClose: the graph keeps the connection.
NoticeCloseHalf(n, m) ==
  /\ n \in Live /\ view[n][m] < Link(n, m) /\ Open(view[n][m])
  /\ view' = [view EXCEPT ![n][m] = @ + 1]
  /\ Turn(n, [node[n] EXCEPT !.conns = @ \ {m}], <<Disconnected(m)>>)
  /\ UNCHANGED <<link, stopped, woken, faults>>

NoticeClose(n, m) ==
  /\ n \in Live /\ view[n][m] < Link(n, m) /\ Open(view[n][m])
  /\ view' = [view EXCEPT ![n][m] = @ + 1]
  /\ Turn(n, OnPeerDrop(node[n], m), <<Disconnected(m)>>)
  /\ UNCHANGED <<link, stopped, woken, faults>>

Notice(n, m) == NoticeOpen(n, m) \/ NoticeClose(n, m)

\* The DHT of a node finds that it can be reached from everywhere.
TurnPersistent(n) ==
  /\ n \in Live \cap Persistent /\ node[n].attr[n].ephemeral
  /\ Turn(n, OnState(node[n], FALSE), <<Persistence(FALSE)>>)
  /\ UNCHANGED <<link, view, stopped, woken, faults>>

\* Its computer wakes up: the DHT is ephemeral from then on, unless it was
\* told not to be.
WakeUp(n) ==
  /\ n \in Live /\ May("wake")
  /\ \E ephemeral \in BOOLEAN :
       /\ ephemeral \/ n \in Persistent
       /\ Turn(n, OnState(node[n], ephemeral), <<Persistence(ephemeral)>>)
  /\ woken' = woken \cup {n}
  /\ faults' = faults + 1
  /\ UNCHANGED <<link, view, stopped>>

\* The oldest packet arrives, or one that overtakes it.
Receive(k) ==
  /\ node' = [node EXCEPT ![k.to] = OnBroadcast(@, k.from, k.buf)]
  /\ mail' = mail \ {k}
  /\ UNCHANGED <<link, view, sent, stopped, woken>>

Deliver(k) ==
  /\ k \in mail /\ Oldest(k)
  /\ Receive(k)
  /\ UNCHANGED <<misled, faults>>

Overtake(k) ==
  /\ k \in mail /\ ~Oldest(k) /\ May("late")
  /\ Receive(k)
  /\ misled' = misled \cup {k.to}
  /\ faults' = faults + 1

Lose(k) ==
  /\ k \in mail /\ May("lost")
  /\ mail' = mail \ {k}
  /\ misled' = misled \cup {k.to}
  /\ faults' = faults + 1
  /\ UNCHANGED <<node, link, view, sent, stopped, woken>>

Next ==
  \/ \E e \in Pairs : Connect(e) \/ Disconnect(e)
  \/ \E n \in Peer : Stop(n) \/ TurnPersistent(n) \/ WakeUp(n)
  \/ \E n \in Peer, m \in Peer : Notice(n, m)
  \/ \E k \in mail : Deliver(k) \/ Overtake(k) \/ Lose(k)

Spec == Init /\ [][Next]_vars

\* The oldest packet between two nodes arrives.
DeliverOldest(o, d) ==
  \E k \in mail : k.from = o /\ k.to = d /\ Deliver(k)

\* Weak fairness of Notice and DeliverOldest, with their ENABLED written
\* out: every node is told of its connections in the end, and what is on the
\* way arrives.  Nothing is assumed of the connections themselves.
Fairness ==
  \A n, m \in Peer :
    /\ \/ []<>(n \in stopped \/ view[n][m] = Link(n, m))
       \/ []<><<Notice(n, m)>>_vars
    /\ \/ []<>(\A k \in mail : k.from # n \/ k.to # m)
       \/ []<><<DeliverOldest(n, m)>>_vars

FairSpec == Spec /\ Fairness

------------------------------------------------------------------------------
(* Every step of every node is one that Presence allows: what holds of one *)
(* node among arbitrary peers holds of each node here.                     *)
P(n) == INSTANCE Presence WITH Me <- n, st <- node[n], Snapshots <- {}, MaxCount <- 0
EachIsPresence ==
  /\ \A n \in Peer : P(n)!Init
  /\ [][\A n \in Peer : UNCHANGED node[n] \/ P(n)!Next]_node

(* However packets are lost, late or of a node that crashed: a node shows  *)
(* two peers connected only if they have been.                             *)
NoInvention == \A n \in Peer : node[n].edges \subseteq {e \in Edges : link[e] > 0}

\* What these nodes show of the connections among nodes that did not crash:
\* each its own open ones, and a node of the DHT none that is closed.
Accurate(nodes) ==
  /\ \A n \in nodes, m \in Live : Open(Link(n, m)) => Edge(n, m) \in node[n].edges
  /\ \A n \in nodes \cap Persistent, e \in Edges :
       e \subseteq Live /\ ~Open(link[e]) => e \notin node[n].edges

(* A node that hears the packets of each sender in order, and all of them, *)
(* ends so, whatever the others missed: a late DISCONNECTED of an earlier  *)
(* connection hides an open one only until the CONNECTED behind it arrives.*)
Converges == <>[]Accurate(Live \ misled)

\* Nothing is on the way and everybody was told of everything.
AtRest ==
  /\ mail = {}
  /\ \A n \in Live, m \in Peer : view[n][m] = Link(n, m)

(* ... and already when there is nothing left to hear: whatever the order  *)
(* in which the ends of a connection were told of it, and the others by    *)
(* both of them.                                                           *)
SettledInOrder == AtRest => Accurate(Live \ misled)

------------------------------------------------------------------------------
(* What the documentation says and the code does not do. *)

(* "See who's connected to who" (README.md:13): what the nodes show when   *)
(* nothing is left to happen is how they are connected.                    *)
SettledIsAccurate == AtRest => Accurate(Live)
==============================================================================
