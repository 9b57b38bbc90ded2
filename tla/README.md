# A TLA+ model of @screamingvoid/network

This directory models the network stack in `../src/src` (paths below are
relative to the repository): what its state is, what each handler does to it,
and what holds of it whatever its peers, its DHT and its application do within
the assumptions each module declares (sections 2 and 6). TLC
checks the properties on small instances; TLAPS proves the most important ones
for every instance.

## 1. The system

A process runs one `VoidSwarm` (`src/index.ts`): Hyperswarm plus a gossip layer.

| part | state | operations | talks to |
|---|---|---|---|
| `VoidDHT` (`src/dht.ts`) | `_seq`, `_ttl`, the LRU set of `origin + seq` | `broadcast`, `send`, `sendFallback`; requests `onbroadcast`, `onsend`, `onsendFallback` | other DHT nodes through dht-rpc requests; emits `broadcast`, `message`, `message-fallback` |
| `VoidPresence` (`src/presence.ts`) | graph of peers with attributes (`State`), `online`, `_connections`, `bootstrapped`, `topics` | `onpeeradd`, `onpeerdrop`, `onbroadcast` (7 packets), `onmessage` (3), `onfallback`, `onstate`, `onjoin`, `onleave`, `userData`, `broadcast`, `send`, `getPeerState` | sends packets through `VoidDHT`; is called by `VoidSwarm` |
| `Topics` (`src/topics.ts`) | `store` (topic to hashtag or null) and `counter` | `set`, `delete`, `count`, `trending` | used by `VoidPresence` |
| `VoidSwarm` (`src/index.ts`) | none of its own | wiring of events, `join`, `leave`, `_shouldRequeue`, getters | Hyperswarm, DHT, presence |
| codec (`src/messages.ts`, `src/schema.js` generated from `schema.proto`) | none | `encode`, `decode` | presence |

How a change travels: a Hyperswarm connection calls `onpeeradd`, which updates
the graph and broadcasts CONNECTED, PERSISTENT, TOPIC_JOIN and USER_DATA
packets; `VoidDHT.broadcast` hands each to the closest nodes, which hand it on
until the TTL ends; each node that sees it first passes it to its own
`VoidPresence.onbroadcast`. Ephemeral nodes are not asked by others, so a
connected origin sends them the same packet once more as a fallback request.
Private messages and bootstrap requests and responses go by `send`.

What is hard about it:

* a graph that is edited by one's own connections and by everybody's gossip, and
  a lookup (`getPeerState`) that creates what it looks for;
* data kept twice: `online` and the graph, `_connections` and
  `state.connection`, `store` and `counter`, `state.connected` and the edges;
* gossip that is lost, repeated and reordered, deduplicated by a set of bounded
  size, by numbers that start again with the process;
* promises of `broadcast` and `send` over several requests, retries and timers.

What makes each part correct, and where it is stated: section 4. The hazards
with their lines are in `PROJECT.json`.

## 2. The modules

| module | models |
|---|---|
| `TopicsOps` | `Topics.set` and `delete` as functions on a record of the two maps |
| `PresenceOps` | the fields of `VoidPresence` as a record, every handler as a function from a record to the record it leaves (`OnPeerAdd(s, p)`, `Recalculate(s)`, ...) |
| `Wire` | the packets presence sends, `encode` and `decode`, and `onbroadcast` on an encoded packet |
| `Presence` | one node `Me` that runs those handlers, one action each, in an arbitrary environment |
| `Swarm` | `VoidSwarm`: a `Presence` whose `join` and `leave` go through Hyperswarm, and a peer that hears it |
| `Network` | several presences, connections that open and close, and what they tell each other of them |
| `Dissemination` | abstract: a published message reaches its audience, each node at most once |
| `Gossip` | all `VoidDHT`s of a network: calls, the await on `findNode`, requests, answers, retries, rejections, restarts |
| `Send` | `VoidPresence.send` to one target over time, with the target's `onsendFallback` |
| `PresenceLemmas` | what each handler of `PresenceOps` preserves |
| `WireProofs` | what `decode` makes of what `encode` wrote, and what a list of announcements tells |
| `PresenceProofs`, `SwarmProofs`, `NetworkProofs`, `GossipProofs`, `SendProofs` | the theorems |
| `NetworkOrderProofs` | the theorem about a network whose packets arrive in order |
| `MCPresence`, `MCSwarm`, `MCNetwork`, `MCGossip`, `MCSend` | constants and symmetry for TLC |

```
TopicsOps <- PresenceOps <- Presence <----------- Swarm
                  ^             ^ (refined by        ^
                  |             |  every node)       |
                  +--- Wire <---+---- Network        |
                         ^---------------------------+
Dissemination <(refined by)- Gossip          Send
```

**Presence.** The handlers are `async` functions, but none awaits anything before
its last change of state: each runs to the end in one turn of the event loop
and is one action. Its internal calls (`_addConnection`, `_recalculate`,
`broadcast` with its lookups) are part of that action. What the node sends is
not modelled here, because the environment is already free to send every
packet that this code sends in every order, however often: this is what loss, repetition and
reordering by the gossip, and other nodes that are behind, look like from one
node. Public keys, topics, hashtags and user data are model values.
`attr[p]` of a peer that is no node of the graph is the default state, so that
creating the node again is visible. Hyperswarm is taken to report at most one
connection per peer at a time; no peer is connected to itself. Bootstrap responses that
make `_bootstrap` throw midway (an edge of a peer to itself, user data that does not
decode, `presence.ts:272-278`) are left out: `Bootstraps` has none of them.

**Wire.** A buffer is the sequence of its fields, a nested message a buffer in
a buffer. What is kept of `schema.js` is what can go wrong between two nodes: the tags,
which fields are left out, which are required, the defaults of those
that are missing, and the three spellings of "no name" (null in a
state, `""` in a packet, the default of a missing field). `OnBroadcast(s, p, buf)` decodes
and calls the handlers of `PresenceOps`; `Announcements(s, p)` are the packets of
`onpeeradd`, in order.

**Swarm.** `join` calls `onjoin` at once, `leave` calls `onleave` when the promise of
Hyperswarm resolves: `SwarmLeave` and `LeaveDone` are two actions, with anything in
between. `listener` is what another peer keeps of this node that was connected from the
start and hears every packet once, in order and encoded: the best case for "what others
know of me". All other handlers are those of `Presence`; which of them broadcast
something about this node is told apart by `Unannounced`. `_shouldRequeue` only looks a
peer up (`QueryPeer`); its answer is used by Hyperswarm.

**Network.** Here the environment of a presence is other presences. A connection
is an object of its own (`link`), each end is told of it when Hyperswarm gets to it
(`view`), so one end may know of an open or a close long before the other.
Packets go where `broadcast` sends them: to the nodes of the DHT (`Persistent`, which are in the routing
tables from the start, whether or not they have said so yet) and, as a fallback, to
connected peers believed ephemeral (`Audience`). They arrive in the order of their sender
(`Deliver`) unless one overtakes another (`Overtake`); they may be lost (`Lose`); a node may
crash (`Stop`), and a computer may wake up (`WakeUp`, `index.ts:45`): its DHT is ephemeral from
then on, or goes on as it was where it is told to be persistent, the presence announces which, and the
gossip may pass by it, while those that believe it persistent send it no
fallback (`Astray`). `misled` collects the nodes that missed a packet, or heard one too early,
in one of these ways: the properties that need every packet in order speak of all the others. The
packets are real (`Encode` on one side, `OnBroadcast` on the other); `Carried` restricts
those that are followed to CONNECTED and DISCONNECTED in the runs, since
the properties are about the graph; the proofs do not restrict it. What the
gossip itself does with a packet (duplicates, relays, TTL) is `Gossip`.
A node whose connections are many and whose neighbours are free to say anything
is `Presence`; that every node of `Network` is one is `EachIsPresence`, so what is
proved of the former holds of the latter.

**Gossip.** A request is a record on the `wire`; handling it and its answer are
one action, after which the request is gone (answered) or still there (the
answer was lost and dht-rpc will repeat it). `GiveUp` is a request that runs out of
retries. `findNode` also returns nodes of the DHT that are no `VoidDHT` (`Foreign`): they answer with an
error (`Refuse`), so the promise is true when every request was answered and
*some* answer carries no error (`Settle`, `dht.ts:209-222`), and false when one was given up.
`FindNodeFinished` is the part of `_broadcast`/`_send` after the await.
`Restart` keeps the key pair and the requests already sent, and empties `_lru`; the history
`log` of what a node accepted runs on, each entry with the life it was accepted in. Only packets that
verify and decrypt are modelled. The epoch in an id is there for the properties alone:
the code's key is `Key(id)`, origin and seq.

**Send.** The connection and the sender's belief about the target change at any
time (`BeliefChanges`); a request is handled, repeated, answered late, or given up
in any order. The target's LRU set is shared by all packets of all origins and empty after a
restart, so it may `Forget` any packet at any time, and then takes a repetition for new; how far
apart a repetition has to be within one life is `DedupWindow` of `Gossip`.

Definitions introduced as a *faulty variant* are not part of the system. Each
is a plausible mistake in one definition, and putting it in the place of that
definition makes TLC find the property violated that is listed with it in
`PROJECT.json`: every property below can be broken by code.

## 3. The runs

| run | bounds | shows |
|---|---|---|
| `node` | 3 peers, 1 topic, counters in -2..2, snapshots with any edges | `TypeOK`, `OnlineExact`, `SocketIsLive`, `CountedIsListed`, `FirstHand` |
| `newcomer` | 3 peers | `NewcomerSees` is **violated** |
| `swarm` | 2 peers, 1 topic with and without a hashtag, 2 user data, 1 pending leave | `CalmlyAdvertised`, `ListenerCovers`, `Introduces`, `AnswerSurvives`, `NameKept` |
| `rejoin` | 2 peers, 1 topic | `HeardAsAsked` is **violated** |
| `network` | 3 nodes, 2 connections, 3 openings and closings, 1 packet late or lost, or 1 crash or wake-up | `NoInvention`, `SettledInOrder`, `EachIsPresence`, `Converges` |
| `ghosts` | the same, 1 packet late | `SettledIsAccurate` is **violated** |
| `faults` | 3 `VoidDHT`s and a foreign node, a broadcast of each of two and a message, LRU 1, faults, 1 restart of an origin and of a receiver | `TypeOK`, `DedupWindow`, `TrueMeansHeard` |
| `flood` | 4 nodes, 2 broadcasts, LRU 1, TTL 4 | `FloodDies` |
| `reach` | 4 nodes with paths of different lengths, LRU 4, TTL 2 | `Disseminates`: `Gossip` implements `Dissemination` |
| `restart` | 3 nodes, 1 broadcast per epoch, 1 restart | `AlwaysHeard` is **violated** |
| `outcome` | 2 calls, 2 polls, 1 packet of each call forgotten | `TypeOK`, `TrueMeansHanded`, `AtMostTwice`, `Settles` |
| `hangs` | 1 call, 4 polls | `AlwaysSettles` is **violated** |

Why the bounds are enough. With three peers the graph has components that are not
connected to `Me`, paths of length two and a cycle. Properties of topics
concern one topic and one peer at a time; with one topic every `onleave` finds
nothing in common, and which connections it chooses does not matter to `SocketIsLive`.
A counter bound of two goes past 1,
the value the code compares with, on both sides of it and of zero. In `swarm` the one other peer may itself connect, gossip, bootstrap
and be forgotten; two hashtags of one topic do not occur among nodes that
run this code, because the topic is the hash of its hashtag. One pending leave is what a join overtakes; a second one only repeats it.
In `network` three openings and closings are the least in which a stale
DISCONNECTED meets an open connection (open, close, open), and the chain is the least in which
somebody sees a connection that is not its own; one of the three nodes is
persistent, so that both ways a packet travels occur. PERSISTENT is not carried in this run, so
that a connected peer goes over from fallback to gossip does not occur in it: with it TLC
takes too long (with two openings and closings instead of three, TLC finishes, and finds no
error). The theorems hold for every `Carried`. An LRU set of
one entry forgets at once, so every eviction case of a larger one occurs; two
packets are what evicts. In `faults` `a` asks nobody, both of `b` and `c`, one of them and the
foreign node, or only the foreign node, so that a promise covers two requests of which one may be
given up or refused while the other is answered; `c` is both relay and receiver and may restart between two
copies. In `outcome` two polls are one that is not the last and one that is; `hangs` has the code's four. In `flood` they are relayed by two nodes that
neither sent, so each makes both forget the other again and again (an origin never takes its
own packet, so between two origins alone nothing would be accepted twice). TTL 2 with a shortcut lets the same packet arrive
first over the short or the long path. `MaxSeq`, `MaxEpoch`, `MaxLog`, `MaxCount`, `MaxLeaves`,
`MaxFlips` and `MaxFaults` bound what the code leaves unbounded and stand in the guards; in `flood` and
`reach`, `MaxLog` is above what the TTL allows, so the liveness checked there is
not cut off by it. `MaxForgets` of `Send` bounds what is forgotten in the same way. `MaxTicks` is 4 in the code.

The runs of `Gossip`, `Send` and `Network` do not report deadlock: the application need not
publish anything and the connections may stay as they are, so the system may stop.

**Fairness.** `Gossip`: at every node, `findNode` ends and waiting requests are
read (weak fairness per node of `Forward` and `Receive`); nothing is assumed of
the application, of `GiveUp` or `Restart`. In `flood` and `reach` requests are not
repeated for ever (`Faulty = FALSE`). `Send`: timers fire, a request does not stay open
for ever, and `VoidDHT.send` ends. `Network`: every node is told of its connections in the end
(Hyperswarm emits `connection`, a socket emits `close`), and the oldest packet between two
nodes arrives; nothing is assumed of the connections themselves. Both are weak fairness, written with
their enabling conditions spelled out. `Presence` and `Swarm` need none: they have safety only.

## 4. The properties

`Presence`
* `OnlineExact`: after every handler `online` is exactly what the graph connects
  to this node, and no edge reaches outside it.
* `SocketIsLive`: a `Connection` in a peer's state is one Hyperswarm still
  reports, although the node may be dropped and recreated independently of `_connections`.
* `CountedIsListed`, `NameKept`: the two maps of `topics.ts` stay in step.
* `FirstHand`: once bootstrapped, no second bootstrap response changes what peers said. (The first one
  replaces what peers said while it was on its way; nothing is claimed of that.)

`Swarm`
* `CalmlyAdvertised`: unless a join overtakes a leave, this node is subscribed exactly as
  the last call asked, roles given up included.
* `ListenerCovers`: what it advertises has arrived at a peer that missed nothing, and of roles
  that were given up the peer keeps only those claimed since the last leave (`claimed`).
* `Introduces`: what `onpeeradd` announces tells a peer that knows nothing all there is to know.
* `AnswerSurvives`: a bootstrap response means the same on both ends of the wire.

`Network`
* `NoInvention`: with every loss, delay and crash, two peers are shown connected only if
  they have been.
* `Converges`: every live node that missed no packet, and heard each sender's in order, ends up showing its own open
  connections, and a node of the DHT none that is closed.
* `SettledInOrder`: its safety half. Whenever every end was told of its connections and no
  packet is on its way, that is already what such a node shows, whatever others missed.
* `EachIsPresence`: refinement, every node is a `Presence`.

`Gossip`
* `DedupWindow`: within one life of a node, at least `LruSize` other packets are accepted between duplicates.
  After a restart it accepts what it had before at once; the log shows both.
* `TrueMeansHeard`: a true promise means some `VoidDHT` was asked, and every one asked has emitted the packet, restarts
  included, as long as the origin does not use its number a second time.
* `FloodDies`, `Disseminates`: floods end, and with room in the LRU set, enough
  TTL, no faults and no restarts everybody gets every message once. `Dissemination` counts how
  often each node is handed a message, so a duplicate is no stutter of it.

`Send`
* `TrueMeansHanded`, `Settles`: what the result means, and how a call ends.
* `AtMostTwice`: the target hands the message of a call on at most twice, and twice only through both
  attempts, except once more for every time its LRU set forgot a packet of the call.

## 5. What the checks found

* `newcomer`: a bootstrap response has no edges in it, because nothing fills
  `state.connected`; the newcomer's `_recalculate` forgets everybody it is not
  connected to (README.md:124-125).
* `restart`: numbers start again with the process, the others' LRU sets do not; a
  broadcast after a restart can be answered as a duplicate by everybody while its
  promise is true (README.md:110-113).
* `hangs`: a polled second attempt that fails leaves the promise of `send` pending
  (`presence.ts:353`, `379-381`).
* `rejoin`: `leave(t)` and then `join(t)` before the promise of the leave has resolved: the
  presence leaves last, and tells everybody so, while Hyperswarm has joined (README.md:16).
* `ghosts`: a DISCONNECTED that overtakes its CONNECTED finds no edge to drop, and the edge
  is added after it: a closed connection that everybody, both ends included, goes on showing
  (README.md:13).

Seen while translating, without a run:

* `getPeerConnectedTo` (README.md:96-99) is
  always empty for the same reason as `newcomer`; `topics.count` (README.md:76-78) counts
  packets, not peers, and can be negative; `online` (README.md:181-183) is
  emitted by every `_recalculate`, and `peer-online` by a mere lookup;
* `getPeerState` records a connection only for a peer that is new to the graph
  (`presence.ts:52-55`), so `send` does not find the connection of a peer that was
  gossiped about before; and a peer counts as ephemeral until heard otherwise, so `send` to
  it never uses the gossip (README.md:11);
* a join that gives up a role removes it here (`presence.ts:608`, `610`) and nowhere else
  (`presence.ts:504-509`), which is why the roles of `ListenerCovers` are no equality with this node's own;
* a computer that wakes up leaves the DHT before its neighbours hear that it is ephemeral. Those that
  believe it persistent send it no fallback, so it misses what they broadcast until its PERSISTENT arrives, and
  nothing repeats it: `SettledIsAccurate` fails for it too, in order and without loss. `SettledInOrder`
  and `Converges` count it among the misled;
* ghosts without reordering: the CONNECTED of a node that crashed may arrive after the
  DISCONNECTED of its neighbour, and an ephemeral node hears the DISCONNECTED only of those it
  is connected to. `Accurate` speaks of live nodes and of nodes of the DHT for these reasons.

## 6. The proofs

All theorems hold for every value of the constants that satisfies the named
assumptions: finitely many peers, distinct special values, `Me` a peer, snapshots of their
type, counters within a bound (`Presence`); finitely many topics, no hashtag that is the empty string, and payloads that
can be told from an absent field (`Wire`); at least one other peer, options of `join` of
their type (`Swarm`); pairs, persistent nodes and faults of their
types, and CONNECTED and DISCONNECTED among the packets that are followed (`Network`); a network,
foreign nodes, workload, TTL, LRU size and bounds of their types (`Gossip`); at least one poll (`Send`).

`PresenceLemmas` and `PresenceProofs`: `IInv` is `Settled` (types; `online` is what is reachable; edges
stay inside it; attributes outside the nodes are fresh), live sockets, and listed
topics. `OnlineExact` alone is not inductive: that a lookup does not disturb
reachability needs that the new node has no edge, and that `_recalculate` may
skip nothing needs the typing of edges. Lemmas about the helpers come first (`Reach` is
closed under edges and does not change when unreachable edges go), then one lemma
per handler, then one step per action. `TypeOK`, `OnlineExact`, `SocketIsLive`
and `CountedIsListed` follow. The action properties `NameKept` and
`FirstHand` use a second family of lemmas, what a handler leaves alone (`Hearsay`: of every
peer but the sender, a handler changes nothing or forgets it).

`SwarmProofs`: every step of `Swarm` is a step of `Presence` or leaves it alone
(`SwarmImplementsPresence`), so the theorems above hold of `VoidSwarm`. `CalmlyAdvertised`
needs `CalmInv`: a topic with a pending leave that no join has overtaken was asked for in no role.
`AnswerSurvives` is about the codec alone (below) and the shape of what `BOOTSTRAP` answers.
`Introduces` and `ListenerCovers` rest on `AnnouncementsHeard`: whoever hears the packets of `onpeeradd`
in order ends with the sender's user data and flag and with every role and hashtag of it, on top
of what it knew before. For `Introduces` a second invariant is needed, `OneName`: a topic looked up and announced
has one hashtag, else the two packets would contradict each other. `ListenerCovers` follows from
`ListenInv`, which says the same of all attributes (`Covers`) and of the roles claimed (`Matches`), and is kept because every handler that changes this
node's attributes is one whose packets say so.

`WireProofs`: `Holds(buf, tag, S)`, the values a buffer has under a tag, is computed for each
constructor of buffers, and the `...Survives` lemmas compose from the
fields to the bootstrap response: `Decode(Encode(x))` is `x` up to the spelling of "no name" and
of empty maps. A list of packets is heard by `Hearing`, a recursive function.
The library's induction theorems take a predicate as a parameter and cannot be used, but
the least counterexample of a set can (`WFMin`): the set of lengths up to which hearing
did not go as it should is empty or has a least element, which the step of `Hearing` refutes
(`Counting`, `HearingSteps`).

`NetworkProofs`: `Inv` has three parts. `NodeInv`: each node is settled, knows itself, is connected to exactly those
it was told of, and shows only pairs that have been connected. `LinkInv`: types. `MailInv`:
every packet on its way is one of those its sender may have said, and a CONNECTED
names a pair that has been connected. `NoInvention` alone is not inductive: it needs `MailInv`, and
`MailInv` that the packets of `onpeeradd` and `onpeerdrop` decode to what was encoded. `EachIsPresence`
follows because a delivered packet, decoded, is one of the packets `Presence` allows, and because
`view` alternates with `_connections`.

`NetworkOrderProofs`: `SettledInOrder` says nothing while a packet is on its way, so it is far
from inductive; what leads to it is which packets are still to come. `PostInv`: packets are posted to live nodes
in the order of `sent`, nobody knows of more openings than there were, and who is taken for a node of the DHT is one,
or was before its computer woke up, so that
every connected peer is in the audience or is misled (`Astray`). `Order`, of the nodes that are not `misled`: one that
knows of its open connection shows it, or the other end does not know yet, or the CONNECTED of
the other end is behind every DISCONNECTED it sent (`OwnShown`); a DISCONNECTED
of an earlier connection has the CONNECTED of the open one behind it (`Reopened`); to a node of the
DHT, a CONNECTED out of date has the DISCONNECTED behind it (`Reclosed`); and what such a
node shows is open at an end, or the DISCONNECTED of an end is on its way (`ShownAccounted`). With
nothing on its way and every end told, `OwnShown` and `ShownAccounted` are `Accurate`. TLC
has checked that the four are invariant, with every fault, before they were proved. Crashes, wake-ups and
what others miss are allowed; what is shown of crashed nodes is not claimed (section 5).

`GossipProofs` has two invariants. `WindowInv`: the LRU set of a node is the tail of
the log of what it accepted, within the node's current life, and what is before it is of an earlier life
unless the set is full (`LruIsTail`); so what is not in it is not among the last
`LruSize` accepted in this life, which gives `DedupWindow`, with every fault and restart allowed.
`PromiseInv`: whoever the origin asked either still has the request on the wire, or
has emitted the packet, or the call has failed (`AskedIsServed`); it speaks of messages whose key
has not been used before (`Sole`): `restart` is the counterexample without that.
`SpecDisseminates` is the safety half of `Disseminates`, with faults: as long as no node has
restarted and no more messages have been published than an LRU set holds (`Remembered`), every
step publishes a new message, delivers one for the first time to somebody it is meant for, or stutters.
By `DedupWindow` repetitions have `LruSize` entries in between, and so many different entries cannot be taken from so few
messages (the pigeonhole principle, `FewDistinct`).

`SendProofs`: `SendInv` ties both ends together. The target remembers only what was sent, an
answer of true belongs to a call whose message was handed on, where a call is tells which of its packets may exist, and
`handed` is how many of them the target remembers plus how often it forgot one. `TrueMeansHanded` and `AtMostTwice` follow.

Every invariant and action property of the runs that pass is a theorem, and so are the two
refinements `EachIsPresence` and `SwarmImplementsPresence`. Only model-checked is what TLAPS cannot do here,
liveness under fairness: `FloodDies`, `Settles`, and the liveness halves of
`Converges` (its safety half is `SettledInOrder`) and `Disseminates` (its safety half is
`SpecDisseminates`).

## 7. Not modelled

* Bytes and cryptography; the `Broadcast` envelope of `VoidDHT` (`schema.js:99-208`),
  whose fields are those of a request in `Gossip`; replies to packets that do not
  decode, verify or decrypt.
* In `Network`: bootstrap requests and responses (a response carries no edges, so it
  adds nothing to the graph that `_recalculate` keeps; `Presence` has both, with any
  contents that do not throw); topics and user data (what one node hears of another is `Swarm`).
* `trending` and the read-only interface of `Topics`; the events presence emits, except
  where a change of state is the event; `setPeerState`, which is never called.
* Hyperswarm, HyperDHT and dht-rpc, which appear as environment, so also the use that
  Hyperswarm makes of `_shouldRequeue`; `src/testnet.ts`, the type declarations and the tests.

## 8. What is left

1. What a flood costs: a bound on how often one message is relayed, from the TTL and the number of
   closest nodes, as an invariant that makes `FloodDies` plain.
2. `Topics` over time: how far the counter of a topic may drift from the number of peers
   that have it, per lost or repeated packet.
3. Malformed packets: the error replies of `onbroadcast`, `onsend` and `onsendFallback`, and
   what `send` makes of them.
