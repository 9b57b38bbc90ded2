-------------------------------- MODULE Gossip --------------------------------
(***************************************************************************)
(* The flood gossip of VoidDHT (src/dht.ts): broadcast() and send() hand a *)
(* packet to the nodes closest to the sender, and every node that sees it  *)
(* for the first time hands it on.  A node remembers what it has seen by   *)
(* origin and sequence number in an LRU set of LruSize entries, which is   *)
(* shared by both kinds of packets.                                        *)
(*                                                                         *)
(* Between the call of _broadcast() or _send() and the requests lies an    *)
(* await (findNode); a request may be repeated by dht-rpc, answered, or    *)
(* given up; a node may restart with the key pair it had.  findNode also   *)
(* returns nodes of the DHT that do not run VoidDHT: they answer requests  *)
(* with an error and do nothing else.                                      *)
(* Packets carry the epoch of their origin so that the properties can tell *)
(* messages apart; the code neither sends nor compares it.                 *)
(***************************************************************************)
EXTENDS Integers, Sequences, FiniteSets

CONSTANTS
    Node,       \* nodes of the DHT, named by their public keys
    Foreign,    \* those of them that run another DHT than VoidDHT
    All,        \* the target of a broadcast
    Routing,    \* Routing[n]: the results findNode may have at node n
    Workload,   \* the calls <<node, target>> the applications may make
    Ttl,        \* options.ttl
    LruSize,    \* options.lruSize
    Restarting, \* the nodes that may restart
    Faulty,     \* whether requests are repeated or given up
    MaxSeq,     \* bound on the calls of one node in one epoch
    MaxEpoch,   \* bound on the restarts of one node
    MaxLog      \* bound on the packets a node accepts

ASSUME AllAssumption     == All \notin Node
ASSUME ForeignAssumption == Foreign \subseteq Node
ASSUME RoutingAssumption == Routing \in [Node -> SUBSET SUBSET Node]
ASSUME WorkloadAssumption ==
  Workload \subseteq (Node \ Foreign) \X (Node \cup {All})
ASSUME RestartingAssumption == Restarting \subseteq Node \ Foreign
ASSUME LimitsAssumption  == Ttl \in Nat /\ LruSize \in Nat \ {0}
ASSUME FaultyAssumption  == Faulty \in BOOLEAN
ASSUME BoundsAssumption  == MaxSeq \in Nat /\ MaxEpoch \in Nat /\ MaxLog \in Nat

VARIABLES
    epoch,      \* how often the node was restarted
    seq,        \* _seq
    lru,        \* _lru, oldest entry first
    finding,    \* calls of _broadcast and _send waiting for findNode
    wire,       \* requests neither answered nor given up
    resolved,   \* ids whose promise at the origin is true
    failed,     \* ids whose promise at the origin is false
    published,  \* history: the ids of all calls of broadcast and send
    log,        \* history: what the node accepted, and in which epoch of its own
    heard,      \* history: ids handed to the application, ever
    asked       \* the requests that the promise of an id is about

vars == <<epoch, seq, lru, finding, wire, resolved, failed,
          published, log, heard, asked>>

------------------------------------------------------------------------------
Id     == [origin : Node, epoch : 0..MaxEpoch, seq : 1..MaxSeq,
           target : Node \cup {All}]
Key(id) == <<id.origin, id.seq>>
Entry  == [id : Id, life : 0..MaxEpoch]

\* Faulty variants of Remember: one entry too many, and the newest one dropped.
RememberMore(l, k)  == LET l2 == Append(l, k)
                       IN  IF Len(l2) > LruSize + 1 THEN Tail(l2) ELSE l2
RememberOldest(l, k) == IF Len(l) < LruSize THEN Append(l, k) ELSE l

\* LruSet.add of a new value: over capacity, the oldest entry goes.
Remember(l, k) == LET l2 == Append(l, k)
                  IN  IF Len(l2) > LruSize THEN Tail(l2) ELSE l2

Occurs(x, s) == \E i \in 1..Len(s) : s[i] = x
Seen(n, id) == Occurs(Key(id), lru[n])

Init ==
  /\ epoch = [n \in Node |-> 0]  /\ seq = [n \in Node |-> 0]
  /\ lru = [n \in Node |-> <<>>] /\ log = [n \in Node |-> <<>>]
  /\ heard = [n \in Node |-> {}]
  /\ finding = {} /\ wire = {} /\ resolved = {} /\ failed = {}
  /\ published = {} /\ asked = {}

------------------------------------------------------------------------------
\* broadcast(message) for target All, send(target, message) for a node.
Publish(n, target) ==
  LET id == [origin |-> n, epoch |-> epoch[n], seq |-> seq[n] + 1,
             target |-> target]
  IN  /\ seq[n] < MaxSeq
      /\ seq' = [seq EXCEPT ![n] = @ + 1]
      /\ finding' = finding \cup {[at |-> n, id |-> id, ttl |-> Ttl]}
      /\ published' = published \cup {id}
      /\ UNCHANGED <<epoch, lru, wire, resolved, failed, log, heard, asked>>

\* The rest of _broadcast and _send, after the await: with no closest nodes
\* "some" of no errors is false.
FindNodeFinished(f) ==
  \E closest \in Routing[f.at] :
    /\ finding' = finding \ {f}
    /\ wire' = wire \cup {[from |-> f.at, to |-> c, id |-> f.id, ttl |-> f.ttl] :
                            c \in closest}
    /\ IF f.at = f.id.origin
       THEN /\ asked' = asked \cup {<<f.id, c>> : c \in closest}
            /\ failed' = IF closest = {} THEN failed \cup {f.id} ELSE failed
       ELSE UNCHANGED <<asked, failed>>
    /\ UNCHANGED <<epoch, seq, lru, resolved, published, log, heard>>

------------------------------------------------------------------------------
\* The request is one of a promise at its origin; those of an earlier epoch are gone.
Awaited(r) == r.from = r.id.origin /\ r.id.epoch = epoch[r.from]

\* No other request of the promise is open.
LastOf(r) == \A w \in wire \ {r} : ~ (w.from = r.from /\ w.id = r.id)

\* Some answer carries no error: a VoidDHT was asked.
SomeServed(id) == \E c \in Node \ Foreign : <<id, c>> \in asked

\* A faulty variant of Settle: it goes on although a request was given up.
SettleAnyway(r) ==
  IF Awaited(r) /\ LastOf(r)
  THEN IF SomeServed(r.id)
       THEN resolved' = resolved \cup {r.id} /\ UNCHANGED failed
       ELSE failed' = failed \cup {r.id} /\ UNCHANGED resolved
  ELSE UNCHANGED <<resolved, failed>>

\* Promise.all at the origin, with the last answer: if no request was given
\* up, the promise is whether some answer carries no error.
Settle(r) ==
  IF Awaited(r) /\ LastOf(r) /\ r.id \notin failed
  THEN IF SomeServed(r.id)
       THEN resolved' = resolved \cup {r.id} /\ UNCHANGED failed
       ELSE failed' = failed \cup {r.id} /\ UNCHANGED resolved
  ELSE UNCHANGED <<resolved, failed>>

\* The reply arrives; or it is lost and dht-rpc will send the request again.
Answer(r) ==
  \/ wire' = wire \ {r} /\ Settle(r)
  \/ Faulty /\ UNCHANGED <<wire, resolved, failed>>

\* A packet of the node's own, or one it remembers.
Ignored(r) ==
  /\ r.to = r.id.origin \/ Seen(r.to, r.id)
  /\ UNCHANGED <<lru, log>>

\* A packet the node has not seen, or has forgotten.
Accepted(r) ==
  /\ r.to # r.id.origin /\ ~ Seen(r.to, r.id)
  /\ Len(log[r.to]) < MaxLog
  /\ lru' = [lru EXCEPT ![r.to] = Remember(@, Key(r.id))]
  /\ log' = [log EXCEPT ![r.to] = Append(@, [id |-> r.id, life |-> epoch[r.to]])]

\* Faulty variants of Relay: without and with too early an end.
RelayForever(r) == finding' = finding \cup {[at |-> r.to, id |-> r.id, ttl |-> r.ttl]}
RelayShort(r)   == finding' = IF r.ttl <= 1 THEN finding
                              ELSE finding \cup {[at |-> r.to, id |-> r.id, ttl |-> r.ttl - 1]}

Emit(r)  == heard' = [heard EXCEPT ![r.to] = @ \cup {r.id}]
Relay(r) == finding' = IF r.ttl = 0 THEN finding
                       ELSE finding \cup {[at |-> r.to, id |-> r.id, ttl |-> r.ttl - 1]}

\* onbroadcast(req) for a packet that decodes and verifies.
OnBroadcast(r) ==
  /\ r.id.target = All /\ r.to \notin Foreign
  /\ \/ Ignored(r) /\ UNCHANGED <<heard, finding>>
     \/ Accepted(r) /\ Emit(r) /\ Relay(r)
  /\ Answer(r)
  /\ UNCHANGED <<epoch, seq, published, asked>>

\* onsend(req) for a packet that decodes and decrypts: the target keeps it.
OnSend(r) ==
  /\ r.id.target # All /\ r.to \notin Foreign
  /\ \/ Ignored(r) /\ UNCHANGED <<heard, finding>>
     \/ Accepted(r) /\ r.to = r.id.target /\ Emit(r) /\ UNCHANGED finding
     \/ Accepted(r) /\ r.to # r.id.target /\ Relay(r) /\ UNCHANGED heard
  /\ Answer(r)
  /\ UNCHANGED <<epoch, seq, published, asked>>

\* Another DHT's node does not know the command: an error, and nothing else.
Refuse(r) ==
  /\ r.to \in Foreign
  /\ wire' = wire \ {r} /\ Settle(r)
  /\ UNCHANGED <<epoch, seq, lru, finding, published, log, heard, asked>>

\* dht-rpc runs out of retries: the request rejects, and Promise.all with it.
GiveUp(r) ==
  /\ Faulty
  /\ wire' = wire \ {r}
  /\ failed' = IF Awaited(r) THEN failed \cup {r.id} ELSE failed
  /\ UNCHANGED <<epoch, seq, lru, finding, resolved, published, log, heard, asked>>

\* The process ends and starts again with the same key pair: _seq and _lru
\* start afresh, pending calls are forgotten, requests on the wire are not.
Restart(n) ==
  /\ n \in Restarting /\ epoch[n] < MaxEpoch
  /\ epoch' = [epoch EXCEPT ![n] = @ + 1]
  /\ seq' = [seq EXCEPT ![n] = 0]
  /\ lru' = [lru EXCEPT ![n] = <<>>]
  /\ finding' = {f \in finding : f.at # n}
  /\ UNCHANGED <<wire, resolved, failed, published, log, heard, asked>>

Receive(n) == \E r \in wire : r.to = n /\ (OnBroadcast(r) \/ OnSend(r) \/ Refuse(r))
Forward(n) == \E f \in finding : f.at = n /\ FindNodeFinished(f)

Next ==
  \/ \E n \in Node, target \in Node \cup {All} :
       <<n, target>> \in Workload /\ Publish(n, target)
  \/ \E n \in Node : Forward(n) \/ Receive(n) \/ Restart(n)
  \/ \E r \in wire : GiveUp(r)

Spec == Init /\ [][Next]_vars

\* findNode ends and the socket is read: at every node, something waiting
\* is eventually taken up.  The application need not publish anything.
Fairness == \A n \in Node : WF_vars(Forward(n)) /\ WF_vars(Receive(n))
FairSpec == Spec /\ Fairness

------------------------------------------------------------------------------
TypeOK ==
  /\ epoch \in [Node -> 0..MaxEpoch] /\ seq \in [Node -> 0..MaxSeq]
  /\ lru \in [Node -> Seq(Node \X (1..MaxSeq))]
  /\ log \in [Node -> Seq(Entry)]
  /\ \A n \in Node : Len(lru[n]) <= LruSize
  /\ finding \subseteq [at : Node, id : Id, ttl : 0..Ttl]
  /\ wire \subseteq [from : Node, to : Node, id : Id, ttl : 0..Ttl]
  /\ published \subseteq Id /\ resolved \subseteq Id /\ failed \subseteq Id
  /\ heard \in [Node -> SUBSET Id]
  /\ asked \subseteq Id \X Node

(* Within one life, a node takes the same packet for new again only after  *)
(* it has accepted at least LruSize others in between, however the copies  *)
(* were delayed, repeated or reordered.  After a restart it takes what it  *)
(* had before for new at once.                                             *)
DedupWindow ==
  \A n \in Node : \A i, j \in 1..Len(log[n]) :
    /\ i < j /\ log[n][i].life = log[n][j].life
    /\ Key(log[n][i].id) = Key(log[n][j].id)
    => j - i > LruSize

\* The origin had not used the number of this message in an earlier life.
FirstUse(id) == \A x \in published : Key(x) = Key(id) => x.epoch >= id.epoch

\* A VoidDHT was asked, and every one that was asked has emitted what is for it.
Heard(id) ==
  /\ SomeServed(id)
  /\ \A c \in Node \ (Foreign \cup {id.origin}) :
       <<id, c>> \in asked /\ id.target \in {All, c} => id \in heard[c]

(* A promise that is true means what the caller takes it for, whatever is  *)
(* lost, repeated, given up or restarted, as long as the origin does not   *)
(* use a number a second time: the VoidDHTs asked have emitted the message. *)
TrueMeansHeard == \A id \in resolved : FirstUse(id) => Heard(id)

(* The same of every message: broadcast(message) will "Broadcast `message` *)
(* to the entire network" (README.md:110-113).                             *)
AlwaysHeard == \A id \in resolved : Heard(id)

(* A flood ends.  The LRU set alone does not see to that: when it is too   *)
(* small for the packets under way, they are accepted again and again, and *)
(* only the TTL stops them.                                                *)
FloodDies == <>[](finding = {} /\ wire = {})

(* With enough TTL, an LRU set that holds what is under way, no failures   *)
(* and no restarts, the gossip implements the abstract dissemination: each *)
(* message reaches its audience, and nobody is handed it twice.            *)
Audience  == [id \in Id |-> (IF id.target = All THEN Node ELSE {id.target})
                              \ (Foreign \cup {id.origin})]
Entries(n, id) == {i \in 1..Len(log[n]) : log[n][i].id = id}
Delivered == [n \in Node |-> [id \in Id |->
                IF id.target \in {All, n} THEN Cardinality(Entries(n, id)) ELSE 0]]
Promise   == INSTANCE Dissemination WITH delivered <- Delivered
Disseminates == Promise!Spec
==============================================================================
