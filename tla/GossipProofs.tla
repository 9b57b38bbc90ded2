----------------------------- MODULE GossipProofs -----------------------------
(***************************************************************************)
(* Proofs about the flood gossip, for any network, workload, TTL and LRU   *)
(* size: duplicates keep the distance of the window, a promise that is     *)
(* true means that the nodes asked have the message, and while the LRU set *)
(* holds what there is, the gossip is a dissemination.                     *)
(***************************************************************************)
EXTENDS Gossip, FiniteSetTheorems, TLAPS

(* A log, an LRU set and a life that go together: the set is the tail of the *)
(* log and of this life, and what is before it is of an earlier life unless  *)
(* the set is full.                                                          *)
Tailed(L, l, e) ==
  /\ Len(l) <= Len(L)
  /\ \A i \in 1..Len(l) : /\ l[i] = Key(L[Len(L) - Len(l) + i].id)
                          /\ L[Len(L) - Len(l) + i].life = e
  /\ \/ Len(l) = LruSize
     \/ \A i \in 1..(Len(L) - Len(l)) : L[i].life < e
  /\ \A i \in 1..Len(L) : L[i].life <= e

LruIsTail == \A n \in Node : Tailed(log[n], lru[n], epoch[n])

WindowInv == TypeOK /\ LruIsTail /\ DedupWindow

------------------------------------------------------------------------------
(* The type invariant. *)

\* What one step of Remember does to a sequence.
LEMMA RememberType ==
  ASSUME NEW S, NEW l \in Seq(S), NEW k \in S, Len(l) <= LruSize
  PROVE  /\ Remember(l, k) \in Seq(S)
         /\ Len(Remember(l, k)) <= LruSize
         /\ Len(Remember(l, k)) = IF Len(l) = LruSize THEN LruSize ELSE Len(l) + 1
         /\ \A i \in 1..Len(Remember(l, k)) :
              Remember(l, k)[i] = IF Len(l) = LruSize
                                  THEN (IF i = LruSize THEN k ELSE l[i + 1])
                                  ELSE (IF i = Len(l) + 1 THEN k ELSE l[i])
<1>. DEFINE a == Append(l, k)
<1>1. /\ a \in Seq(S) /\ Len(a) = Len(l) + 1 /\ Len(l) \in Nat
      /\ \A i \in 1..Len(a) : a[i] = IF i = Len(l) + 1 THEN k ELSE l[i]
  OBVIOUS
<1>. HIDE DEF a
<1>2. CASE Len(l) = LruSize
  <2>1. /\ Tail(a) \in Seq(S) /\ Len(Tail(a)) = Len(a) - 1
        /\ \A i \in 1..Len(Tail(a)) : Tail(a)[i] = a[i + 1]
    BY <1>1
  <2>2. Remember(l, k) = Tail(a)
    BY <1>1, <1>2, LimitsAssumption DEF Remember, a
  <2>. QED BY <1>1, <1>2, <2>1, <2>2, LimitsAssumption
<1>3. CASE Len(l) # LruSize
  <2>1. Remember(l, k) = a
    BY <1>1, <1>3, LimitsAssumption DEF Remember, a
  <2>. QED BY <1>1, <1>3, <2>1, LimitsAssumption
<1>. QED BY <1>2, <1>3

\* A packet of the wire, field by field.
Request == [from : Node, to : Node, id : Id, ttl : 0..Ttl]

\* A key names an origin and a sequence number.
LEMMA KeyType == ASSUME NEW id \in Id PROVE Key(id) \in Node \X (1..MaxSeq)
BY DEF Id, Key

\* Accepting a packet keeps the LRU set the tail of the log, and the distance.
LEMMA AcceptedWindow ==
  ASSUME WindowInv, NEW r \in wire, Accepted(r), epoch' = epoch
  PROVE  /\ lru' \in [Node -> Seq(Node \X (1..MaxSeq))]
         /\ \A n \in Node : Len(lru'[n]) <= LruSize
         /\ log' \in [Node -> Seq(Entry)]
         /\ LruIsTail' /\ DedupWindow'
<1>. DEFINE m == r.to
            L == log[m]
            e == epoch[m]
            x == [id |-> r.id, life |-> e]
            M == Append(L, x)
            l == lru[m]
            k == Key(r.id)
            K == Node \X (1..MaxSeq)
<1>1. m \in Node /\ r.id \in Id /\ k \in K /\ e \in 0..MaxEpoch
  BY KeyType DEF WindowInv, TypeOK
<1>x. x \in Entry /\ x.id = r.id /\ x.life = e
  BY <1>1 DEF Entry
<1>. HIDE DEF x
<1>2. /\ l \in Seq(K) /\ L \in Seq(Entry) /\ Len(l) <= LruSize /\ Len(L) \in Nat /\ Len(l) \in Nat
      /\ lru \in [Node -> Seq(K)] /\ log \in [Node -> Seq(Entry)] /\ e \in Int
  <2>1. /\ lru \in [Node -> Seq(K)] /\ log \in [Node -> Seq(Entry)]
        /\ Len(lru[m]) <= LruSize
    BY <1>1 DEF WindowInv, TypeOK
  <2>2. l \in Seq(K) /\ L \in Seq(Entry)
    BY <1>1, <2>1
  <2>3. Len(l) \in Nat /\ Len(L) \in Nat
    BY <2>2
  <2>4. e \in Int
    BY <1>1
  <2>. QED BY <2>1, <2>2, <2>3, <2>4
<1>3. /\ Len(l) <= Len(L)
      /\ \A i \in 1..Len(l) : /\ l[i] = Key(L[Len(L) - Len(l) + i].id)
                              /\ L[Len(L) - Len(l) + i].life = e
      /\ Len(l) = LruSize \/ \A i \in 1..(Len(L) - Len(l)) : L[i].life < e
      /\ \A i \in 1..Len(L) : L[i].life <= e
  BY <1>1 DEF WindowInv, LruIsTail, Tailed
<1>4. /\ lru' = [lru EXCEPT ![m] = Remember(l, k)] /\ log' = [log EXCEPT ![m] = M]
      /\ \A i \in 1..Len(l) : l[i] # k
  BY DEF Accepted, Seen, Occurs, x
<1>5. /\ M \in Seq(Entry) /\ Len(M) = Len(L) + 1
      /\ \A i \in 1..Len(L) : M[i] = L[i]
      /\ M[Len(L) + 1] = x
  BY <1>x, <1>2
<1>. DEFINE q == Remember(l, k)
<1>6. /\ q \in Seq(K) /\ Len(q) <= LruSize
      /\ Len(q) = IF Len(l) = LruSize THEN LruSize ELSE Len(l) + 1
      /\ \A i \in 1..Len(q) : q[i] = IF Len(l) = LruSize
                                     THEN (IF i = LruSize THEN k ELSE l[i + 1])
                                     ELSE (IF i = Len(l) + 1 THEN k ELSE l[i])
  <2>. HIDE DEF l, k, K
  <2>. QED BY <1>1, <1>2, RememberType
<1>7. /\ lru'[m] = q /\ log'[m] = M /\ epoch'[m] = e
      /\ \A n \in Node \ {m} : lru'[n] = lru[n] /\ log'[n] = log[n]
      /\ lru' \in [Node -> Seq(K)] /\ log' \in [Node -> Seq(Entry)]
  BY <1>1, <1>2, <1>4, <1>5, <1>6
<1>. HIDE DEF m, L, M, l, k, q, e
<1>sizes. /\ Len(l) \in Nat /\ Len(L) \in Nat /\ Len(q) \in Nat /\ Len(M) \in Nat
          /\ LruSize \in Nat \ {0}
          /\ Len(M) = Len(L) + 1 /\ Len(l) <= LruSize /\ Len(l) <= Len(L)
          /\ Len(q) = IF Len(l) = LruSize THEN LruSize ELSE Len(l) + 1
  <2>1. Len(q) \in Nat /\ Len(M) \in Nat
    BY <1>5, <1>6
  <2>. QED BY <1>2, <1>3, <1>5, <1>6, <2>1, LimitsAssumption
<1>8. Tailed(M, q, e)
  <2>1. Len(q) <= Len(M)
    BY <1>sizes
  <2>2. ASSUME NEW i \in 1..Len(q)
        PROVE  /\ q[i] = Key(M[Len(M) - Len(q) + i].id)
               /\ M[Len(M) - Len(q) + i].life = e
    <3>1. CASE i = Len(q)
      <4>1. q[i] = k
        BY <1>6, <1>sizes, <3>1
      <4>2. Len(M) - Len(q) + i = Len(L) + 1
        BY <1>sizes, <3>1
      <4>. QED BY <1>x, <1>5, <4>1, <4>2 DEF k
    <3>2. CASE i # Len(q) /\ Len(l) = LruSize
      <4>1. i + 1 \in 1..Len(l) /\ q[i] = l[i + 1]
        BY <1>6, <1>sizes, <3>2
      <4>2. Len(M) - Len(q) + i = Len(L) - Len(l) + (i + 1)
        BY <1>sizes, <3>2
      <4>3. Len(L) - Len(l) + (i + 1) \in 1..Len(L)
        BY <1>sizes, <4>1
      <4>. QED BY <1>3, <1>5, <4>1, <4>2, <4>3
    <3>3. CASE i # Len(q) /\ Len(l) # LruSize
      <4>1. i \in 1..Len(l) /\ q[i] = l[i]
        BY <1>6, <1>sizes, <3>3
      <4>2. Len(M) - Len(q) = Len(L) - Len(l)
        BY <1>sizes, <3>3
      <4>3. Len(L) - Len(l) + i \in 1..Len(L)
        BY <1>sizes, <4>1
      <4>. QED BY <1>3, <1>5, <4>1, <4>2, <4>3
    <3>. QED BY <3>1, <3>2, <3>3
  <2>3. Len(q) = LruSize \/ \A i \in 1..(Len(M) - Len(q)) : M[i].life < e
    <3>. SUFFICES ASSUME Len(q) # LruSize, NEW i \in 1..(Len(M) - Len(q)) PROVE M[i].life < e
      OBVIOUS
    <3>1. Len(l) # LruSize /\ Len(M) - Len(q) = Len(L) - Len(l)
      BY <1>sizes
    <3>2. i \in 1..(Len(L) - Len(l)) /\ i \in 1..Len(L)
      BY <1>sizes, <3>1
    <3>. QED BY <1>3, <1>5, <3>1, <3>2
  <2>4. ASSUME NEW i \in 1..Len(M) PROVE M[i].life <= e
    <3>1. CASE i = Len(L) + 1
      BY <1>x, <1>2, <1>5, <3>1
    <3>2. CASE i # Len(L) + 1
      <4>1. i \in 1..Len(L)
        BY <1>sizes, <3>2
      <4>. QED BY <1>3, <1>5, <4>1
    <3>. QED BY <3>1, <3>2
  <2>. QED BY <2>1, <2>2, <2>3, <2>4 DEF Tailed
<1>9. LruIsTail'
  <2>. SUFFICES ASSUME NEW n \in Node PROVE Tailed(log'[n], lru'[n], epoch'[n])
    BY DEF LruIsTail
  <2>1. CASE n = m
    BY <1>7, <1>8, <2>1
  <2>2. CASE n # m
    <3>1. lru'[n] = lru[n] /\ log'[n] = log[n] /\ epoch'[n] = epoch[n]
      BY <1>7, <2>2
    <3>. QED BY <3>1 DEF WindowInv, LruIsTail
  <2>. QED BY <2>1, <2>2
<1>10. DedupWindow'
  <2>. SUFFICES ASSUME NEW n \in Node, NEW i \in 1..Len(log'[n]), NEW j \in 1..Len(log'[n]),
                       i < j, log'[n][i].life = log'[n][j].life,
                       Key(log'[n][i].id) = Key(log'[n][j].id)
                PROVE  j - i > LruSize
    BY DEF DedupWindow
  <2>1. CASE n # m
    BY <1>7, <2>1 DEF WindowInv, DedupWindow
  <2>2. CASE n = m /\ j # Len(M)
    <3>. i \in 1..Len(M) /\ j \in 1..Len(M)
      BY <1>7, <2>2
    <3>1. i \in 1..Len(L) /\ j \in 1..Len(L)
      BY <1>sizes, <2>2
    <3>2. Key(L[i].id) = Key(L[j].id) /\ L[i].life = L[j].life
      BY <1>5, <1>7, <2>2, <3>1
    <3>. QED BY <1>1, <3>1, <3>2 DEF WindowInv, DedupWindow, L
  <2>3. CASE n = m /\ j = Len(M)
    <3>1. i \in 1..Len(L) /\ j = Len(L) + 1
      BY <1>sizes, <1>7, <2>3
    <3>2. Key(L[i].id) = k /\ L[i].life = e
      BY <1>x, <1>5, <1>7, <2>3, <3>1 DEF k
    <3>3. ~ (i > Len(L) - Len(l))
      <4>. SUFFICES ASSUME i > Len(L) - Len(l) PROVE FALSE
        OBVIOUS
      <4>. DEFINE y == i - (Len(L) - Len(l))
      <4>1. y \in 1..Len(l) /\ Len(L) - Len(l) + y = i
        BY <1>sizes, <3>1
      <4>2. l[y] = Key(L[i].id)
        BY <1>3, <4>1
      <4>. QED BY <1>4, <3>2, <4>1, <4>2 DEF l, k
    <3>4. Len(l) = LruSize
      <4>. SUFFICES ASSUME Len(l) # LruSize PROVE FALSE
        OBVIOUS
      <4>1. i \in 1..(Len(L) - Len(l))
        BY <1>sizes, <3>1, <3>3
      <4>2. L[i].life < e
        BY <1>3, <4>1
      <4>. QED BY <1>2, <3>2, <4>2
    <3>. QED BY <1>sizes, <3>1, <3>3, <3>4
  <2>. QED BY <2>1, <2>2, <2>3
<1>11. \A n \in Node : Len(lru'[n]) <= LruSize
  BY <1>6, <1>7 DEF WindowInv, TypeOK
<1>. QED BY <1>7, <1>9, <1>10, <1>11

------------------------------------------------------------------------------
(* One lemma per action. *)

FindType == [at : Node, id : Id, ttl : 0..Ttl]

\* A packet that is ignored leaves the LRU sets and the logs alone.
LEMMA IgnoredWindow ==
  ASSUME WindowInv, UNCHANGED <<epoch, lru, log>>
  PROVE  /\ lru' \in [Node -> Seq(Node \X (1..MaxSeq))]
         /\ \A n \in Node : Len(lru'[n]) <= LruSize
         /\ log' \in [Node -> Seq(Entry)]
         /\ LruIsTail' /\ DedupWindow'
BY DEF WindowInv, TypeOK, LruIsTail, DedupWindow

\* broadcast() and send() keep the window invariant.
LEMMA PublishWindow ==
  ASSUME WindowInv, NEW n \in Node, NEW target \in Node \cup {All}, Publish(n, target)
  PROVE  WindowInv'
<1>. DEFINE id == [origin |-> n, epoch |-> epoch[n], seq |-> seq[n] + 1,
                   target |-> target]
<1>1. id \in Id /\ seq[n] + 1 \in 0..MaxSeq /\ seq \in [Node -> 0..MaxSeq]
  BY BoundsAssumption DEF WindowInv, TypeOK, Publish, Id
<1>. HIDE DEF id
<1>2. /\ seq' \in [Node -> 0..MaxSeq]
      /\ finding' \subseteq [at : Node, id : Id, ttl : 0..Ttl]
      /\ published' \subseteq Id
  BY <1>1, LimitsAssumption DEF WindowInv, TypeOK, Publish, id
<1>3. UNCHANGED <<epoch, lru, wire, resolved, failed, log, heard, asked>>
  BY DEF Publish
<1>. QED BY <1>2, <1>3, IgnoredWindow DEF WindowInv, TypeOK

\* So does the rest of _broadcast and _send after findNode.
LEMMA FindNodeWindow ==
  ASSUME WindowInv, NEW f \in finding, FindNodeFinished(f)
  PROVE  WindowInv'
<1>1. f.at \in Node /\ f.id \in Id /\ f.ttl \in 0..Ttl
  BY DEF WindowInv, TypeOK
<1>. PICK closest \in Routing[f.at] :
       /\ finding' = finding \ {f}
       /\ wire' = wire \cup {[from |-> f.at, to |-> c, id |-> f.id, ttl |-> f.ttl] :
                               c \in closest}
       /\ IF f.at = f.id.origin
          THEN /\ asked' = asked \cup {<<f.id, c>> : c \in closest}
               /\ failed' = IF closest = {} THEN failed \cup {f.id} ELSE failed
          ELSE UNCHANGED <<asked, failed>>
       /\ UNCHANGED <<epoch, seq, lru, resolved, published, log, heard>>
  BY DEF FindNodeFinished
<1>2. closest \subseteq Node
  BY <1>1, RoutingAssumption
<1>3. /\ finding' \subseteq finding
      /\ wire' \subseteq [from : Node, to : Node, id : Id, ttl : 0..Ttl]
      /\ asked' \subseteq Id \X Node /\ failed' \subseteq Id
  <2>1. /\ wire \subseteq [from : Node, to : Node, id : Id, ttl : 0..Ttl]
        /\ asked \subseteq Id \X Node /\ failed \subseteq Id
    BY DEF WindowInv, TypeOK
  <2>2. {<<f.id, c>> : c \in closest} \subseteq Id \X Node
    BY <1>1, <1>2
  <2>3. {[from |-> f.at, to |-> c, id |-> f.id, ttl |-> f.ttl] : c \in closest}
          \subseteq [from : Node, to : Node, id : Id, ttl : 0..Ttl]
    BY <1>1, <1>2
  <2>. QED BY <1>1, <2>1, <2>2, <2>3
<1>4. UNCHANGED <<epoch, lru, log>>
  OBVIOUS
<1>5. LruIsTail' /\ DedupWindow'
  BY <1>4, IgnoredWindow
<1>. QED BY <1>3, <1>5 DEF WindowInv, TypeOK

\* What the promise at the origin becomes with an answer.
LEMMA SettleCases ==
  ASSUME NEW r \in wire, Settle(r)
  PROVE  \/ UNCHANGED <<resolved, failed>>
         \/ /\ Awaited(r) /\ LastOf(r) /\ r.id \notin failed /\ SomeServed(r.id)
            /\ resolved' = resolved \cup {r.id} /\ failed' = failed
         \/ Awaited(r) /\ failed' = failed \cup {r.id} /\ resolved' = resolved
BY DEF Settle

\* The reply and what it settles.
LEMMA AnswerType ==
  ASSUME TypeOK, NEW r \in wire, Answer(r) \/ (wire' = wire \ {r} /\ Settle(r))
  PROVE  wire' \subseteq wire /\ resolved' \subseteq Id /\ failed' \subseteq Id
<1>1. r.id \in Id /\ resolved \subseteq Id /\ failed \subseteq Id
  BY DEF TypeOK
<1>2. UNCHANGED <<wire, resolved, failed>> \/ (wire' = wire \ {r} /\ Settle(r))
  BY DEF Answer
<1>. QED BY <1>1, <1>2, SettleCases

\* A packet that is handed on keeps its type: its ttl does not pass 0.
LEMMA RelayType ==
  ASSUME TypeOK, NEW r \in wire, Relay(r) \/ UNCHANGED finding
  PROVE  finding' \subseteq FindType
<1>1. r.to \in Node /\ r.id \in Id /\ r.ttl \in 0..Ttl /\ finding \subseteq FindType
  BY DEF TypeOK, FindType
<1>2. r.ttl # 0 => r.ttl - 1 \in 0..Ttl
  BY <1>1, LimitsAssumption
<1>. QED BY <1>1, <1>2 DEF Relay, FindType

\* A packet handed to the application is an id.
LEMMA EmitType ==
  ASSUME TypeOK, NEW r \in wire, Emit(r) \/ UNCHANGED heard
  PROVE  heard' \in [Node -> SUBSET Id]
<1>1. heard \in [Node -> SUBSET Id] /\ r.to \in Node /\ r.id \in Id
  BY DEF TypeOK
<1>2. heard[r.to] \cup {r.id} \in SUBSET Id
  BY <1>1
<1>. QED BY <1>1, <1>2 DEF Emit

\* onbroadcast and onsend keep the window invariant.
LEMMA ReceiveWindow ==
  ASSUME WindowInv, NEW r \in wire, OnBroadcast(r) \/ OnSend(r)
  PROVE  WindowInv'
<1>1. Ignored(r) \/ Accepted(r)
  BY DEF OnBroadcast, OnSend
<1>2. /\ Relay(r) \/ UNCHANGED finding
      /\ Emit(r) \/ UNCHANGED heard
  BY DEF OnBroadcast, OnSend
<1>3. Answer(r) /\ UNCHANGED <<epoch, seq, published, asked>>
  BY DEF OnBroadcast, OnSend
<1>4. /\ lru' \in [Node -> Seq(Node \X (1..MaxSeq))]
      /\ \A n \in Node : Len(lru'[n]) <= LruSize
      /\ log' \in [Node -> Seq(Entry)]
      /\ LruIsTail' /\ DedupWindow'
  BY <1>1, <1>3, AcceptedWindow, IgnoredWindow DEF Ignored
<1>5. TypeOK /\ r.id \in Id
  BY DEF WindowInv, TypeOK
<1>6. /\ finding' \subseteq FindType /\ heard' \in [Node -> SUBSET Id]
      /\ wire' \subseteq wire /\ resolved' \subseteq Id /\ failed' \subseteq Id
  BY <1>2, <1>3, <1>5, RelayType, EmitType, AnswerType
<1>. QED BY <1>3, <1>4, <1>5, <1>6 DEF WindowInv, TypeOK, FindType

\* A request that another DHT's node refuses keeps it.
LEMMA RefuseWindow ==
  ASSUME WindowInv, NEW r \in wire, Refuse(r)
  PROVE  WindowInv'
<1>1. /\ UNCHANGED <<epoch, seq, lru, finding, published, log, heard, asked>>
      /\ wire' = wire \ {r} /\ Settle(r) /\ TypeOK
  BY DEF Refuse, WindowInv
<1>2. wire' \subseteq wire /\ resolved' \subseteq Id /\ failed' \subseteq Id
  BY <1>1, AnswerType
<1>. QED BY <1>1, <1>2, IgnoredWindow DEF WindowInv, TypeOK

\* A request that is given up keeps it.
LEMMA GiveUpWindow ==
  ASSUME WindowInv, NEW r \in wire, GiveUp(r)
  PROVE  WindowInv'
<1>1. /\ UNCHANGED <<epoch, seq, lru, finding, resolved, published, log, heard, asked>>
      /\ wire' \subseteq wire /\ failed' \subseteq failed \cup {r.id} /\ r.id \in Id
  BY DEF GiveUp, WindowInv, TypeOK
<1>. QED BY <1>1, IgnoredWindow DEF WindowInv, TypeOK

\* A restart keeps it: everything in the log is of an earlier life.
LEMMA RestartWindow ==
  ASSUME WindowInv, NEW n \in Node, Restart(n)
  PROVE  WindowInv'
<1>1. /\ epoch' = [epoch EXCEPT ![n] = epoch[n] + 1] /\ epoch[n] < MaxEpoch
      /\ seq' = [seq EXCEPT ![n] = 0]
      /\ lru' = [lru EXCEPT ![n] = <<>>] /\ finding' \subseteq finding
      /\ UNCHANGED <<wire, resolved, failed, published, log, heard, asked>>
  BY DEF Restart
<1>2. /\ lru \in [Node -> Seq(Node \X (1..MaxSeq))] /\ log \in [Node -> Seq(Entry)]
      /\ epoch \in [Node -> 0..MaxEpoch] /\ seq \in [Node -> 0..MaxSeq]
  BY DEF WindowInv, TypeOK
<1>3. /\ lru'[n] = <<>> /\ epoch'[n] = epoch[n] + 1
      /\ \A k \in Node \ {n} : lru'[k] = lru[k] /\ epoch'[k] = epoch[k]
      /\ lru' \in [Node -> Seq(Node \X (1..MaxSeq))]
  BY <1>1, <1>2
<1>4. epoch' \in [Node -> 0..MaxEpoch] /\ seq' \in [Node -> 0..MaxSeq]
  BY <1>1, <1>2, BoundsAssumption
<1>5. LruIsTail'
  <2>. SUFFICES ASSUME NEW k \in Node PROVE Tailed(log[k], lru'[k], epoch'[k])
    BY <1>1 DEF LruIsTail
  <2>1. CASE k = n
    <3>. DEFINE L == log[n]
                e == epoch[n]
    <3>1. Len(L) \in Nat /\ e \in Int /\ \A i \in 1..Len(L) : L[i] \in Entry
      BY <1>2, BoundsAssumption
    <3>2. \A i \in 1..Len(L) : L[i].life <= e /\ L[i].life \in Int
      <4>1. \A i \in 1..Len(L) : L[i].life <= e
        BY DEF WindowInv, LruIsTail, Tailed
      <4>2. \A i \in 1..Len(L) : L[i].life \in 0..MaxEpoch
        BY <3>1 DEF Entry
      <4>. QED BY <4>1, <4>2
    <3>. HIDE DEF L, e
    <3>3. \A i \in 1..Len(L) : L[i].life < e + 1 /\ L[i].life <= e + 1
      BY <3>1, <3>2
    <3>4. Len(<<>>) = 0 /\ 1..0 = {} /\ Len(L) - 0 = Len(L)
      BY <3>1
    <3>5. Tailed(L, <<>>, e + 1)
      BY <3>1, <3>3, <3>4 DEF Tailed
    <3>. QED BY <1>3, <2>1, <3>5 DEF L, e
  <2>2. CASE k # n
    BY <1>3, <2>2 DEF WindowInv, LruIsTail
  <2>. QED BY <2>1, <2>2
<1>6. \A k \in Node : Len(lru'[k]) <= LruSize
  <2>. TAKE k \in Node
  <2>1. CASE k = n
    BY <1>3, <2>1, LimitsAssumption
  <2>2. CASE k # n
    BY <1>3, <2>2 DEF WindowInv, TypeOK
  <2>. QED BY <2>1, <2>2
<1>7. DedupWindow'
  BY <1>1 DEF WindowInv, DedupWindow
<1>. QED BY <1>1, <1>3, <1>4, <1>5, <1>6, <1>7 DEF WindowInv, TypeOK

\* The constructor establishes the window invariant.
LEMMA InitWindow == Init => WindowInv
<1>. SUFFICES ASSUME Init PROVE WindowInv
  OBVIOUS
<1>1. TypeOK
  BY BoundsAssumption, LimitsAssumption DEF Init, TypeOK
<1>2. \A n \in Node : lru[n] = <<>> /\ log[n] = <<>>
  BY DEF Init
<1>3. \A n \in Node : Len(lru[n]) = 0 /\ Len(log[n]) = 0
  BY <1>2
<1>4. \A n \in Node : 1..Len(lru[n]) = {} /\ 1..Len(log[n]) = {}
  BY <1>3
<1>5. LruIsTail
  <2>. SUFFICES ASSUME NEW n \in Node PROVE Tailed(log[n], lru[n], epoch[n])
    BY DEF LruIsTail
  <2>1. Len(lru[n]) = 0 /\ Len(log[n]) = 0
    BY <1>3
  <2>2. 1..Len(lru[n]) = {} /\ 1..Len(log[n]) = {} /\ 1..(Len(log[n]) - Len(lru[n])) = {}
    BY <2>1
  <2>. QED BY <2>1, <2>2 DEF Tailed
<1>6. DedupWindow
  BY <1>4 DEF DedupWindow
<1>. QED BY <1>1, <1>5, <1>6 DEF WindowInv

\* The inductive step of the window invariant.
LEMMA NextWindow == WindowInv /\ [Next]_vars => WindowInv'
<1>. SUFFICES ASSUME WindowInv, [Next]_vars PROVE WindowInv'
  OBVIOUS
<1>1. CASE \E n \in Node, target \in Node \cup {All} : Publish(n, target)
  BY <1>1, PublishWindow
<1>2. CASE \E n \in Node : Forward(n)
  BY <1>2, FindNodeWindow DEF Forward
<1>3. CASE \E n \in Node : Receive(n)
  BY <1>3, ReceiveWindow, RefuseWindow DEF Receive
<1>4. CASE \E n \in Node : Restart(n)
  BY <1>4, RestartWindow
<1>5. CASE \E r \in wire : GiveUp(r)
  BY <1>5, GiveUpWindow
<1>6. CASE UNCHANGED vars
  BY <1>6 DEF vars, WindowInv, TypeOK, LruIsTail, DedupWindow
<1>. QED BY <1>1, <1>2, <1>3, <1>4, <1>5, <1>6 DEF Next

\* The window invariant: the LRU set is the end of the log of accepted packets
\* (dht.ts:161-166 and 246-251).
THEOREM SpecWindow == Spec => []WindowInv
BY InitWindow, NextWindow, PTL DEF Spec

\* The fields of a VoidDHT keep their types (dht.ts:50-76).
THEOREM SpecTypeOK == Spec => []TypeOK
<1>1. WindowInv => TypeOK
  BY DEF WindowInv
<1>. QED BY <1>1, SpecWindow, PTL

\* Within one life of a node, at least as many packets as the LRU set holds are
\* accepted between duplicates, for every network, loss, repetition, reordering
\* and restart, of the origins as of the node (dht.ts:51-73, 161-166 and 246-251).
THEOREM SpecDedupWindow == Spec => []DedupWindow
<1>1. WindowInv => DedupWindow
  BY DEF WindowInv
<1>. QED BY <1>1, SpecWindow, PTL

------------------------------------------------------------------------------
(* The promises.  As long as nothing else has had the key of a packet, one  *)
(* that is ignored as seen was seen.                                        *)

\* The number of a message is one the origin has counted, in this life or before.
Counted(x) ==
  /\ x.epoch <= epoch[x.origin]
  /\ x.epoch = epoch[x.origin] => x.seq <= seq[x.origin]

\* Everything in the network was published, in one life under a key of its own.
Known ==
  /\ \A f \in finding : f.id \in published
  /\ \A w \in wire : w.id \in published
  /\ \A n \in Node : \A i \in 1..Len(log[n]) : log[n][i].id \in published
  /\ \A x \in resolved : x \in published
  /\ \A x \in asked : x[1] \in published
  /\ \A x \in published : Counted(x)
  /\ \A x, y \in published : Key(x) = Key(y) /\ x.epoch = y.epoch => x = y

\* No other message has had the key of this one so far.
Sole(id) == FirstUse(id) /\ id.epoch = epoch[id.origin]

\* What a node accepted and was meant for, it emitted.
LoggedIsHeard ==
  \A n \in Node : \A i \in 1..Len(log[n]) :
    log[n][i].id.target \in {All, n} => log[n][i].id \in heard[n]

\* A call that waits for findNode has asked nobody yet.
CallIsFresh ==
  \A f \in finding : f.at = f.id.origin =>
    /\ f.ttl = Ttl
    /\ f.id \notin resolved
    /\ \A c \in Node : <<f.id, c>> \notin asked
    /\ \A w \in wire : ~ (w.from = f.at /\ w.id = f.id)

\* Whichever VoidDHT was asked has emitted the message, or its request is still
\* open, or the promise is lost.
AskedIsServed ==
  \A id \in published : \A c \in Node \ (Foreign \cup {id.origin}) :
    Sole(id) /\ <<id, c>> \in asked /\ id.target \in {All, c} =>
      \/ id \in heard[c]
      \/ id \in failed
      \/ \E w \in wire : w.from = id.origin /\ w.to = c /\ w.id = id

WireIsAsked == \A w \in wire : w.from = w.id.origin => <<w.id, w.to>> \in asked

PromiseInv == /\ Known /\ LoggedIsHeard /\ CallIsFresh /\ AskedIsServed
              /\ WireIsAsked /\ TrueMeansHeard

\* The id of a new call is in its fields, and nothing has had its number in this life.
LEMMA PublishFresh ==
  ASSUME TypeOK, PromiseInv, NEW n \in Node, NEW target \in Node \cup {All},
         NEW id, id = [origin |-> n, epoch |-> epoch[n], seq |-> seq[n] + 1,
                       target |-> target]
  PROVE  /\ \A x \in published : ~ (Key(x) = Key(id) /\ x.epoch = id.epoch)
         /\ id \notin published
<1>1. id.origin = n /\ id.epoch = epoch[n] /\ id.seq = seq[n] + 1
  OBVIOUS
<1>2. seq \in [Node -> Nat] /\ epoch \in [Node -> Nat] /\ published \subseteq Id
  BY BoundsAssumption DEF TypeOK
<1>3. \A x \in published : x.seq \in Nat /\ x.epoch \in Nat /\ Counted(x)
  BY <1>2, BoundsAssumption DEF Id, PromiseInv, Known
<1>4. \A x \in published : ~ (Key(x) = Key(id) /\ x.epoch = id.epoch)
  <2>. SUFFICES ASSUME NEW x \in published, Key(x) = Key(id), x.epoch = id.epoch PROVE FALSE
    OBVIOUS
  <2>1. x.origin = n /\ x.seq = seq[n] + 1 /\ x.epoch = epoch[n]
    BY <1>1 DEF Key
  <2>2. x.epoch = epoch[x.origin] /\ seq[n] \in Nat
    BY <1>2, <2>1
  <2>3. x.seq <= seq[x.origin]
    BY <1>3, <2>2 DEF Counted
  <2>. QED BY <2>1, <2>2, <2>3
<1>. QED BY <1>4

\* A new call keeps the promise invariant: its id is fresh.
LEMMA PublishPromise ==
  ASSUME TypeOK, PromiseInv, NEW n \in Node, NEW target \in Node \cup {All},
         Publish(n, target)
  PROVE  PromiseInv'
<1>. DEFINE id == [origin |-> n, epoch |-> epoch[n], seq |-> seq[n] + 1,
                   target |-> target]
            f  == [at |-> n, id |-> id, ttl |-> Ttl]
<1>1. /\ seq' = [seq EXCEPT ![n] = seq[n] + 1] /\ finding' = finding \cup {f}
      /\ published' = published \cup {id}
      /\ UNCHANGED <<epoch, lru, wire, resolved, failed, log, heard, asked>>
  BY DEF Publish
<1>2. /\ seq \in [Node -> Nat] /\ epoch \in [Node -> Nat] /\ published \subseteq Id
  BY BoundsAssumption DEF TypeOK
<1>3. /\ id.origin = n /\ id.epoch = epoch[n] /\ id.seq = seq[n] + 1 /\ f.id = id /\ f.at = n /\ f.ttl = Ttl
  OBVIOUS
<1>4. \A x \in published : x.origin \in Node /\ x.seq \in Nat /\ x.epoch \in Nat /\ Counted(x)
  BY <1>2, BoundsAssumption DEF Id, PromiseInv, Known
<1>5. \A x \in published : ~ (Key(x) = Key(id) /\ x.epoch = id.epoch)
  BY PublishFresh
<1>6. id \notin published
  BY <1>5
<1>. HIDE DEF id, f
<1>7. Known'
  <2>1. \A x \in published' : Counted(x)'
    <3>. TAKE x \in published'
    <3>1. CASE x \in published
      <4>1. x.origin \in Node /\ x.seq \in Nat /\ Counted(x)
        BY <1>4, <3>1
      <4>2. seq[x.origin] \in Nat /\ seq[x.origin] <= seq'[x.origin] /\ seq'[x.origin] \in Nat
        BY <1>1, <1>2, <4>1
      <4>. QED BY <1>1, <4>1, <4>2 DEF Counted
    <3>2. CASE x = id
      <4>1. epoch[n] \in Int /\ seq'[n] = seq[n] + 1 /\ seq[n] \in Nat
        BY <1>1, <1>2
      <4>. QED BY <1>1, <1>3, <3>2, <4>1 DEF Counted
    <3>. QED BY <1>1, <3>1, <3>2
  <2>2. \A x, y \in published' : Key(x) = Key(y) /\ x.epoch = y.epoch => x = y
    BY <1>1, <1>5 DEF PromiseInv, Known
  <2>. QED BY <1>1, <1>3, <2>1, <2>2 DEF PromiseInv, Known
<1>8. LoggedIsHeard' /\ WireIsAsked' /\ TrueMeansHeard'
  <2>1. \A x : FirstUse(x)' => FirstUse(x)
    BY <1>1 DEF FirstUse
  <2>. QED BY <1>1, <2>1 DEF PromiseInv, LoggedIsHeard, WireIsAsked, TrueMeansHeard, Heard, SomeServed
<1>9. CallIsFresh'
  <2>1. id \notin resolved /\ (\A c \in Node : <<id, c>> \notin asked)
        /\ \A w \in wire : w.id # id
    BY <1>6 DEF PromiseInv, Known
  <2>. QED BY <1>1, <1>3, <2>1 DEF PromiseInv, CallIsFresh
<1>10. AskedIsServed'
  <2>1. \A c \in Node : <<id, c>> \notin asked
    BY <1>6 DEF PromiseInv, Known
  <2>2. \A x : Sole(x)' => Sole(x)
    BY <1>1 DEF Sole, FirstUse
  <2>. QED BY <1>1, <2>1, <2>2 DEF PromiseInv, AskedIsServed
<1>. QED BY <1>7, <1>8, <1>9, <1>10 DEF PromiseInv

\* So do the requests of a call: they go to the nodes it asks.
LEMMA FindNodePromise ==
  ASSUME TypeOK, PromiseInv, NEW f \in finding, FindNodeFinished(f)
  PROVE  PromiseInv'
<1>. PICK closest \in Routing[f.at] :
       /\ finding' = finding \ {f}
       /\ wire' = wire \cup {[from |-> f.at, to |-> c, id |-> f.id, ttl |-> f.ttl] :
                               c \in closest}
       /\ IF f.at = f.id.origin
          THEN /\ asked' = asked \cup {<<f.id, c>> : c \in closest}
               /\ failed' = IF closest = {} THEN failed \cup {f.id} ELSE failed
          ELSE UNCHANGED <<asked, failed>>
       /\ UNCHANGED <<epoch, seq, lru, resolved, published, log, heard>>
  BY DEF FindNodeFinished
<1>1. /\ f \in [at : Node, id : Id, ttl : 0..Ttl] /\ closest \subseteq Node
      /\ \A g \in finding : g \in [at : Node, id : Id, ttl : 0..Ttl]
      /\ f.id \in published
  <2>1. f.at \in Node /\ f \in [at : Node, id : Id, ttl : 0..Ttl]
    BY DEF TypeOK
  <2>. QED BY <2>1, RoutingAssumption DEF TypeOK, PromiseInv, Known
<1>2. Known'
  <2>1. \A x \in asked' : x[1] \in published
    BY <1>1 DEF PromiseInv, Known
  <2>2. \A w \in wire' : w.id \in published
    BY <1>1 DEF PromiseInv, Known
  <2>. QED BY <2>1, <2>2 DEF PromiseInv, Known, Counted
<1>3. LoggedIsHeard'
  BY DEF PromiseInv, LoggedIsHeard
<1>4. WireIsAsked'
  BY DEF PromiseInv, WireIsAsked
<1>5. CallIsFresh'
  <2>. SUFFICES ASSUME NEW g \in finding', g.at = g.id.origin
                PROVE  /\ g.ttl = Ttl /\ g.id \notin resolved'
                       /\ \A c \in Node : <<g.id, c>> \notin asked'
                       /\ \A w \in wire' : ~ (w.from = g.at /\ w.id = g.id)
    BY DEF CallIsFresh
  <2>1. g \in finding /\ g # f
    OBVIOUS
  <2>2. /\ g.ttl = Ttl /\ g.id \notin resolved
        /\ \A c \in Node : <<g.id, c>> \notin asked
        /\ \A w \in wire : ~ (w.from = g.at /\ w.id = g.id)
    BY <2>1 DEF PromiseInv, CallIsFresh
  <2>3. ~ (f.at = g.at /\ f.id = g.id)
    <3>. SUFFICES ASSUME f.at = g.at, f.id = g.id PROVE FALSE
      OBVIOUS
    <3>1. f.ttl = Ttl
      BY DEF PromiseInv, CallIsFresh
    <3>. QED BY <1>1, <2>1, <2>2, <3>1
  <2>4. f.at = f.id.origin => f.id # g.id
    BY <2>3
  <2>. QED BY <2>2, <2>3, <2>4
<1>6. AskedIsServed'
  <2>. SUFFICES ASSUME NEW id \in published, NEW c \in Node \ (Foreign \cup {id.origin}),
                       Sole(id), <<id, c>> \in asked', id.target \in {All, c}
                PROVE  \/ id \in heard[c]
                       \/ id \in failed'
                       \/ \E w \in wire' : w.from = id.origin /\ w.to = c /\ w.id = id
    BY DEF AskedIsServed, Sole, FirstUse
  <2>1. failed \subseteq failed' /\ wire \subseteq wire'
    OBVIOUS
  <2>2. CASE <<id, c>> \in asked
    BY <2>1, <2>2 DEF PromiseInv, AskedIsServed
  <2>3. CASE <<id, c>> \notin asked
    <3>1. f.at = f.id.origin /\ id = f.id /\ c \in closest
      BY <2>3
    <3>. DEFINE w == [from |-> f.at, to |-> c, id |-> f.id, ttl |-> f.ttl]
    <3>2. w \in wire' /\ w.from = id.origin /\ w.to = c /\ w.id = id
      BY <3>1
    <3>. QED BY <3>2
  <2>. QED BY <2>2, <2>3
<1>7. TrueMeansHeard'
  <2>1. f.at = f.id.origin => f.id \notin resolved
    BY DEF PromiseInv, CallIsFresh
  <2>2. \A id \in resolved, c \in Node : <<id, c>> \in asked' <=> <<id, c>> \in asked
    BY <2>1
  <2>. QED BY <2>2 DEF PromiseInv, TrueMeansHeard, Heard, SomeServed, FirstUse
<1>. QED BY <1>2, <1>3, <1>4, <1>5, <1>6, <1>7 DEF PromiseInv

\* A request that is given up keeps it: the call has failed.
LEMMA GiveUpPromise ==
  ASSUME TypeOK, PromiseInv, NEW r \in wire, GiveUp(r)
  PROVE  PromiseInv'
<1>1. /\ wire' = wire \ {r}
      /\ failed' = IF Awaited(r) THEN failed \cup {r.id} ELSE failed
      /\ UNCHANGED <<epoch, seq, lru, finding, resolved, published, log, heard, asked>>
  BY DEF GiveUp
<1>2. Known' /\ LoggedIsHeard' /\ CallIsFresh' /\ WireIsAsked' /\ TrueMeansHeard'
  BY <1>1 DEF PromiseInv, Known, Counted, LoggedIsHeard, CallIsFresh, WireIsAsked, TrueMeansHeard,
              Heard, SomeServed, FirstUse
<1>3. AskedIsServed'
  <2>. SUFFICES ASSUME NEW id \in published, NEW c \in Node \ (Foreign \cup {id.origin}),
                       Sole(id), <<id, c>> \in asked, id.target \in {All, c}
                PROVE  \/ id \in heard[c]
                       \/ id \in failed'
                       \/ \E w \in wire' : w.from = id.origin /\ w.to = c /\ w.id = id
    BY <1>1 DEF AskedIsServed, Sole, FirstUse
  <2>1. \/ id \in heard[c]
        \/ id \in failed
        \/ \E w \in wire : w.from = id.origin /\ w.to = c /\ w.id = id
    BY DEF PromiseInv, AskedIsServed
  <2>2. r.from = id.origin /\ r.id = id => Awaited(r)
    BY DEF Awaited, Sole
  <2>. QED BY <1>1, <2>1, <2>2
<1>. QED BY <1>2, <1>3 DEF PromiseInv

\* What a handler does to the log, and to whom it emits.
LEMMA ReceiveServes ==
  ASSUME WindowInv, PromiseInv, NEW r \in wire, OnBroadcast(r) \/ OnSend(r)
  PROVE  /\ \A n \in Node : heard[n] \subseteq heard'[n]
         /\ r.to # r.id.origin /\ r.id.target \in {All, r.to} /\ (Sole(r.id) \/ log' # log)
              => r.id \in heard'[r.to]
         /\ \/ log' = log
            \/ log' = [log EXCEPT ![r.to] = Append(log[r.to],
                                               [id |-> r.id, life |-> epoch[r.to]])]
<1>1. /\ heard \in [Node -> SUBSET Id] /\ r.to \in Node /\ r.id \in Id /\ r.id \in published
      /\ lru \in [Node -> Seq(Node \X (1..MaxSeq))] /\ log \in [Node -> Seq(Entry)]
  BY DEF WindowInv, TypeOK, PromiseInv, Known
<1>2. CASE Ignored(r)
  <2>1. log' = log
    BY <1>2 DEF Ignored
  <2>2. heard' = heard
    BY <1>2 DEF OnBroadcast, OnSend, Accepted, Ignored
  <2>3. ASSUME r.to # r.id.origin, r.id.target \in {All, r.to}, Sole(r.id)
        PROVE  r.id \in heard[r.to]
    <3>. DEFINE n == r.to
    <3>1. PICK i \in 1..Len(lru[n]) : lru[n][i] = Key(r.id)
      BY <1>2, <2>3 DEF Ignored, Seen, Occurs
    <3>. DEFINE k == Len(log[n]) - Len(lru[n]) + i
    <3>2. Len(lru[n]) \in Nat /\ Len(log[n]) \in Nat
      BY <1>1
    <3>3. Len(lru[n]) <= Len(log[n]) /\ lru[n][i] = Key(log[n][k].id)
      BY <1>1, <3>1 DEF WindowInv, LruIsTail, Tailed
    <3>4. k \in 1..Len(log[n])
      <4>. DEFINE a == Len(lru[n])
                  b == Len(log[n])
      <4>1. a \in Nat /\ b \in Nat /\ a <= b /\ i \in 1..a
        BY <3>1, <3>2, <3>3
      <4>. HIDE DEF a, b
      <4>2. b - a + i \in 1..b
        BY <4>1
      <4>. QED BY <4>2 DEF a, b
    <3>5. log[n][k].id \in published
      BY <1>1, <3>4 DEF PromiseInv, Known
    <3>6. Key(log[n][k].id) = Key(r.id)
      BY <3>1, <3>3
    <3>7. log[n][k].id.epoch = r.id.epoch
      <4>. DEFINE x == log[n][k].id
      <4>0. x \in published /\ Key(x) = Key(r.id)
        BY <3>5, <3>6
      <4>. HIDE DEF x
      <4>1. x.epoch \in Int /\ r.id.epoch \in Int
        <5>1. x \in Id
          BY <4>0 DEF WindowInv, TypeOK
        <5>. QED BY <5>1, <1>1, BoundsAssumption DEF Id
      <4>2. x.origin = r.id.origin
        BY <4>0 DEF Key
      <4>3. x.epoch >= r.id.epoch
        BY <2>3, <4>0 DEF Sole, FirstUse
      <4>4. x.epoch <= r.id.epoch
        <5>1. Counted(x)
          BY <4>0 DEF PromiseInv, Known
        <5>. QED BY <2>3, <4>2, <5>1 DEF Counted, Sole
      <4>5. x.epoch = r.id.epoch
        BY <4>1, <4>3, <4>4
      <4>. QED BY <4>5 DEF x
    <3>8. log[n][k].id = r.id
      BY <1>1, <3>5, <3>6, <3>7 DEF PromiseInv, Known
    <3>. QED BY <1>1, <2>3, <3>4, <3>8 DEF PromiseInv, LoggedIsHeard
  <2>. QED BY <2>1, <2>2, <2>3
<1>3. CASE Accepted(r)
  <2>1. log' = [log EXCEPT ![r.to] = Append(log[r.to],
                                            [id |-> r.id, life |-> epoch[r.to]])]
    BY <1>3 DEF Accepted
  <2>2. ~ Ignored(r)
    BY <1>3 DEF Accepted, Ignored
  <2>3. CASE Emit(r)
    BY <1>1, <2>1, <2>3 DEF Emit
  <2>4. CASE heard' = heard /\ r.id.target \notin {All, r.to}
    BY <2>1, <2>4
  <2>. QED BY <2>2, <2>3, <2>4 DEF OnBroadcast, OnSend
<1>. QED BY <1>2, <1>3 DEF OnBroadcast, OnSend

\* A request that is handled keeps it if a VoidDHT that is asked has emitted the packet.
LEMMA HandledPromise ==
  ASSUME WindowInv, PromiseInv, NEW r \in wire,
         UNCHANGED <<epoch, seq, published, asked>>,
         Answer(r) \/ (wire' = wire \ {r} /\ Settle(r)),
         (Relay(r) /\ r.to # r.id.origin) \/ UNCHANGED finding,
         heard' \in [Node -> SUBSET Id],
         \A n \in Node : heard[n] \subseteq heard'[n],
         r.to \notin Foreign /\ r.to # r.id.origin /\ r.id.target \in {All, r.to}
           /\ (Sole(r.id) \/ log' # log) => r.id \in heard'[r.to],
         \/ log' = log
         \/ /\ r.to \notin Foreign /\ r.to # r.id.origin
            /\ log' = [log EXCEPT ![r.to] = Append(log[r.to],
                                               [id |-> r.id, life |-> epoch[r.to]])]
  PROVE  PromiseInv'
<1>1. /\ UNCHANGED <<epoch, seq, published, asked>>
      /\ (Relay(r) /\ r.to # r.id.origin) \/ UNCHANGED finding
  OBVIOUS
<1>2. /\ \A n \in Node : heard[n] \subseteq heard'[n]
      /\ r.to \notin Foreign /\ r.to # r.id.origin /\ r.id.target \in {All, r.to}
           /\ (Sole(r.id) \/ log' # log) => r.id \in heard'[r.to]
      /\ \/ log' = log
         \/ log' = [log EXCEPT ![r.to] = Append(log[r.to],
                                            [id |-> r.id, life |-> epoch[r.to]])]
  OBVIOUS
<1>3. /\ r.to \in Node /\ r.id \in Id /\ r.id \in published /\ log \in [Node -> Seq(Entry)]
      /\ heard \in [Node -> SUBSET Id] /\ epoch[r.to] \in 0..MaxEpoch
  BY DEF WindowInv, TypeOK, PromiseInv, Known
<1>4. /\ wire' \subseteq wire /\ wire \subseteq wire' \cup {r} /\ failed \subseteq failed'
      /\ \/ resolved' = resolved
         \/ /\ resolved' = resolved \cup {r.id} /\ failed' = failed
            /\ r.from = r.id.origin /\ r.id.epoch = epoch[r.from] /\ r.id \notin failed
            /\ SomeServed(r.id)
            /\ \A w \in wire' : ~ (w.from = r.from /\ w.id = r.id)
  <2>1. UNCHANGED <<wire, resolved, failed>> \/ (wire' = wire \ {r} /\ Settle(r))
    BY DEF Answer
  <2>. QED BY <2>1, SettleCases DEF Awaited, LastOf
<1>5. \A g \in finding' : g \in finding \/ (g.id = r.id /\ g.at = r.to /\ r.to # r.id.origin)
  BY <1>1 DEF Relay
<1>6. \A n \in Node : \A i \in 1..Len(log'[n]) :
        \/ i \in 1..Len(log[n]) /\ log'[n][i] = log[n][i]
        \/ n = r.to /\ log'[n][i].id = r.id
  <2>1. CASE log' = log
    BY <2>1
  <2>2. CASE log' = [log EXCEPT ![r.to] = Append(log[r.to],
                                                 [id |-> r.id, life |-> epoch[r.to]])]
    <3>. TAKE n \in Node
    <3>1. CASE n # r.to
      BY <1>3, <2>2, <3>1
    <3>2. CASE n = r.to
      <4>. DEFINE L == log[n]
                  x == [id |-> r.id, life |-> epoch[r.to]]
                  M == Append(L, x)
      <4>0. x \in Entry /\ x.id = r.id
        BY <1>3 DEF Entry
      <4>. HIDE DEF x
      <4>1. /\ Len(M) = Len(L) + 1 /\ Len(L) \in Nat
            /\ \A i \in 1..Len(L) : M[i] = L[i]
            /\ M[Len(L) + 1] = x
        BY <1>3, <4>0
      <4>2. log'[n] = M
        BY <1>3, <2>2, <3>2 DEF x
      <4>. HIDE DEF M, L
      <4>3. \A i \in 1..Len(M) : (i \in 1..Len(L) /\ M[i] = L[i]) \/ M[i].id = r.id
        BY <4>0, <4>1
      <4>. QED BY <3>2, <4>2, <4>3 DEF L
    <3>. QED BY <3>1, <3>2
  <2>. QED BY <1>2, <2>1, <2>2
<1>7. Known'
  <2>1. \A n \in Node : \A i \in 1..Len(log'[n]) : log'[n][i].id \in published
    BY <1>3, <1>6 DEF PromiseInv, Known
  <2>2. \A g \in finding' : g.id \in published
    BY <1>3, <1>5 DEF PromiseInv, Known
  <2>3. \A w \in wire' : w.id \in published
    BY <1>4 DEF PromiseInv, Known
  <2>4. \A x \in resolved' : x \in published
    BY <1>3, <1>4 DEF PromiseInv, Known
  <2>. QED BY <1>1, <2>1, <2>2, <2>3, <2>4 DEF PromiseInv, Known, Counted
<1>8. LoggedIsHeard'
  <2>. SUFFICES ASSUME NEW n \in Node, NEW i \in 1..Len(log'[n]),
                       log'[n][i].id.target \in {All, n}
                PROVE  log'[n][i].id \in heard'[n]
    BY DEF LoggedIsHeard
  <2>1. CASE i \in 1..Len(log[n]) /\ log'[n][i] = log[n][i]
    BY <1>2, <2>1 DEF PromiseInv, LoggedIsHeard
  <2>2. CASE n = r.to /\ log'[n][i].id = r.id /\ log' # log
    BY <1>2, <2>2
  <2>3. log' = log => i \in 1..Len(log[n]) /\ log'[n][i] = log[n][i]
    OBVIOUS
  <2>. QED BY <1>6, <2>1, <2>2, <2>3
<1>9. WireIsAsked'
  BY <1>1, <1>4 DEF PromiseInv, WireIsAsked
<1>10. CallIsFresh'
  <2>. SUFFICES ASSUME NEW g \in finding', g.at = g.id.origin
                PROVE  /\ g.ttl = Ttl /\ g.id \notin resolved'
                       /\ \A c \in Node : <<g.id, c>> \notin asked
                       /\ \A w \in wire' : ~ (w.from = g.at /\ w.id = g.id)
    BY <1>1 DEF CallIsFresh
  <2>1. g \in finding
    BY <1>5
  <2>2. /\ g.ttl = Ttl /\ g.id \notin resolved
        /\ \A c \in Node : <<g.id, c>> \notin asked
        /\ \A w \in wire : ~ (w.from = g.at /\ w.id = g.id)
    BY <2>1 DEF PromiseInv, CallIsFresh
  <2>. QED BY <1>4, <2>2
<1>11. AskedIsServed'
  <2>. SUFFICES ASSUME NEW id \in published, NEW c \in Node \ (Foreign \cup {id.origin}),
                       Sole(id), <<id, c>> \in asked, id.target \in {All, c}
                PROVE  \/ id \in heard'[c]
                       \/ id \in failed'
                       \/ \E w \in wire' : w.from = id.origin /\ w.to = c /\ w.id = id
    BY <1>1 DEF AskedIsServed, Sole, FirstUse
  <2>1. \/ id \in heard[c]
        \/ id \in failed
        \/ \E w \in wire : w.from = id.origin /\ w.to = c /\ w.id = id
    BY DEF PromiseInv, AskedIsServed
  <2>. QED BY <1>2, <1>4, <2>1
<1>12. TrueMeansHeard'
  <2>. SUFFICES ASSUME NEW id \in resolved', FirstUse(id)
                PROVE  /\ SomeServed(id)
                       /\ \A c \in Node \ (Foreign \cup {id.origin}) :
                            <<id, c>> \in asked /\ id.target \in {All, c}
                              => id \in heard'[c]
    BY <1>1 DEF TrueMeansHeard, Heard, SomeServed, FirstUse
  <2>1. CASE id \in resolved
    BY <1>2, <2>1 DEF PromiseInv, TrueMeansHeard, Heard
  <2>2. CASE id \notin resolved
    <3>1. /\ id = r.id /\ r.from = r.id.origin /\ Sole(id) /\ r.id \notin failed
          /\ SomeServed(id) /\ failed' = failed
          /\ \A w \in wire' : ~ (w.from = r.from /\ w.id = r.id)
      BY <1>4, <2>2 DEF Sole
    <3>3. \A c \in Node \ (Foreign \cup {id.origin}) :
            <<id, c>> \in asked /\ id.target \in {All, c} => id \in heard'[c]
      <4>. SUFFICES ASSUME NEW c \in Node \ (Foreign \cup {id.origin}),
                           <<id, c>> \in asked', id.target \in {All, c}
                    PROVE  id \in heard'[c]
        BY <1>1
      <4>1. id \in published' /\ id \notin failed' /\ Sole(id)'
        BY <1>1, <1>3, <3>1 DEF Sole, FirstUse
      <4>2. ~ \E w \in wire' : w.from = id.origin /\ w.to = c /\ w.id = id
        BY <3>1
      <4>. QED BY <1>11, <4>1, <4>2 DEF AskedIsServed
    <3>. QED BY <3>1, <3>3
  <2>. QED BY <2>1, <2>2
<1>. QED BY <1>7, <1>8, <1>9, <1>10, <1>11, <1>12 DEF PromiseInv

\* onbroadcast and onsend keep it: the receiver has emitted the packet.
LEMMA ReceivePromise ==
  ASSUME WindowInv, PromiseInv, NEW r \in wire, OnBroadcast(r) \/ OnSend(r)
  PROVE  PromiseInv'
<1>1. /\ UNCHANGED <<epoch, seq, published, asked>> /\ Answer(r) /\ r.to \notin Foreign
      /\ (Relay(r) /\ r.to # r.id.origin) \/ UNCHANGED finding
      /\ Emit(r) \/ UNCHANGED heard
      /\ log' # log => r.to # r.id.origin
  BY DEF OnBroadcast, OnSend, Ignored, Accepted
<1>2. heard' \in [Node -> SUBSET Id]
  BY <1>1, EmitType DEF WindowInv
<1>. QED BY <1>1, <1>2, ReceiveServes, HandledPromise

\* So does a request that is refused: the promise does not count on it.
LEMMA RefusePromise ==
  ASSUME WindowInv, PromiseInv, NEW r \in wire, Refuse(r)
  PROVE  PromiseInv'
<1>1. /\ UNCHANGED <<epoch, seq, lru, finding, published, log, heard, asked>>
      /\ wire' = wire \ {r} /\ Settle(r) /\ r.to \in Foreign
      /\ heard' \in [Node -> SUBSET Id]
  BY DEF Refuse, WindowInv, TypeOK
<1>. QED BY <1>1, HandledPromise

\* A restart keeps it: no message of the new life has been published yet.
LEMMA RestartPromise ==
  ASSUME TypeOK, PromiseInv, NEW n \in Node, Restart(n)
  PROVE  PromiseInv'
<1>1. /\ epoch' = [epoch EXCEPT ![n] = epoch[n] + 1]
      /\ finding' \subseteq finding
      /\ UNCHANGED <<wire, resolved, failed, published, log, heard, asked>>
      /\ \A k \in Node \ {n} : seq'[k] = seq[k]
  BY DEF Restart, TypeOK
<1>2. /\ epoch \in [Node -> Int] /\ published \subseteq Id
  BY DEF TypeOK
<1>4. \A x \in published :
        /\ x.origin = n => x.epoch < epoch'[x.origin] /\ x.epoch \in Int
        /\ x.origin # n => epoch'[x.origin] = epoch[x.origin] /\ seq'[x.origin] = seq[x.origin]
  <2>. TAKE x \in published
  <2>1. x.origin \in Node /\ x.epoch \in Int /\ Counted(x)
    BY <1>2, BoundsAssumption DEF Id, PromiseInv, Known
  <2>. QED BY <1>1, <1>2, <2>1 DEF Counted
<1>5. Known'
  <2>2. \A x \in published : Counted(x)'
    <3>. TAKE x \in published
    <3>1. CASE x.origin = n
      <4>1. epoch'[x.origin] \in Int
        BY <1>1, <1>2, <3>1
      <4>. QED BY <1>4, <3>1, <4>1 DEF Counted
    <3>2. CASE x.origin # n
      BY <1>4, <3>2 DEF PromiseInv, Known, Counted
    <3>. QED BY <3>1, <3>2
  <2>. QED BY <1>1, <2>2 DEF PromiseInv, Known
<1>6. LoggedIsHeard'
  BY <1>1 DEF PromiseInv, LoggedIsHeard
<1>7. CallIsFresh' /\ WireIsAsked' /\ TrueMeansHeard'
  BY <1>1 DEF PromiseInv, CallIsFresh, WireIsAsked, TrueMeansHeard, Heard, SomeServed, FirstUse
<1>8. AskedIsServed'
  <2>1. \A x \in published : Sole(x)' => Sole(x)
    <3>. SUFFICES ASSUME NEW x \in published, Sole(x)' PROVE Sole(x)
      OBVIOUS
    <3>1. x.origin # n
      BY <1>4 DEF Sole
    <3>. QED BY <1>1, <1>4, <3>1 DEF Sole, FirstUse
  <2>. QED BY <1>1, <2>1 DEF PromiseInv, AskedIsServed
<1>. QED BY <1>5, <1>6, <1>7, <1>8 DEF PromiseInv

\* The constructor establishes the promise invariant.
LEMMA InitPromise == Init => PromiseInv
<1>. SUFFICES ASSUME Init PROVE PromiseInv
  OBVIOUS
<1>1. /\ finding = {} /\ wire = {} /\ resolved = {} /\ published = {} /\ asked = {}
      /\ \A n \in Node : log[n] = <<>>
  BY DEF Init
<1>2. \A n \in Node : Len(log[n]) = 0
  BY <1>1
<1>3. \A n \in Node : 1..Len(log[n]) = {}
  BY <1>2
<1>. QED BY <1>1, <1>3 DEF PromiseInv, Known, LoggedIsHeard, CallIsFresh, AskedIsServed,
                           WireIsAsked, TrueMeansHeard

\* The inductive step of the promise invariant.
LEMMA NextPromise == WindowInv /\ PromiseInv /\ [Next]_vars => PromiseInv'
<1>. SUFFICES ASSUME WindowInv, PromiseInv, [Next]_vars PROVE PromiseInv'
  OBVIOUS
<1>. TypeOK
  BY DEF WindowInv
<1>1. CASE \E n \in Node, target \in Node \cup {All} : Publish(n, target)
  BY <1>1, PublishPromise
<1>2. CASE \E n \in Node : Forward(n)
  BY <1>2, FindNodePromise DEF Forward
<1>3. CASE \E n \in Node : Receive(n)
  BY <1>3, ReceivePromise, RefusePromise DEF Receive
<1>4. CASE \E n \in Node : Restart(n)
  BY <1>4, RestartPromise
<1>5. CASE \E r \in wire : GiveUp(r)
  BY <1>5, GiveUpPromise
<1>6. CASE UNCHANGED vars
  BY <1>6 DEF vars, PromiseInv, Known, Counted, LoggedIsHeard, CallIsFresh, AskedIsServed,
              WireIsAsked, TrueMeansHeard, Heard, SomeServed, FirstUse, Sole
<1>. QED BY <1>1, <1>2, <1>3, <1>4, <1>5, <1>6 DEF Next

\* A promise of broadcast() or send() that is true means that it was sent to a
\* VoidDHT, and that every one it was sent to has emitted the message
\* (dht.ts:203-227 and 333-369), unless the origin had used its number in an
\* earlier life.
THEOREM SpecTrueMeansHeard == Spec => []TrueMeansHeard
<1>1. WindowInv /\ PromiseInv /\ [Next]_vars => PromiseInv'
  BY NextPromise
<1>2. PromiseInv => TrueMeansHeard
  BY DEF PromiseInv
<1>. QED BY <1>1, <1>2, InitPromise, SpecWindow, PTL DEF Spec

------------------------------------------------------------------------------
(* The dissemination, its safety half: also when requests are repeated,     *)
(* given up or reordered, as long as the LRU set forgets nothing.           *)

\* No node has restarted, and there are no more messages than an LRU set holds.
Remembered == (\A n \in Node : epoch[n] = 0) /\ Cardinality(published) <= LruSize

\* What is taken from few messages and repeats only at a distance does not repeat.
LEMMA FewDistinct ==
  ASSUME NEW T, IsFiniteSet(T), NEW w \in Nat, Cardinality(T) <= w,
         NEW S, NEW L \in Seq(S), \A i \in 1..Len(L) : L[i] \in T,
         \A i, j \in 1..Len(L) : i < j /\ L[i] = L[j] => j - i > w
  PROVE  \A i, j \in 1..Len(L) : L[i] = L[j] => i = j
<1>. DEFINE n == Len(L)
            P == 1..(w + 1)
            f == [i \in P |-> L[i]]
<1>1. n \in Nat
  OBVIOUS
<1>2. n <= w
  <2>. SUFFICES ASSUME n > w PROVE FALSE
    BY <1>1
  <2>1. P \subseteq 1..n
    BY <1>1
  <2>2. f \in [P -> T]
    BY <2>1
  <2>3. IsFiniteSet(P) /\ Cardinality(P) = w + 1
    BY FS_Interval
  <2>4. Cardinality(T) \in Nat
    BY FS_CardinalityType
  <2>5. Cardinality(T) < Cardinality(P)
    BY <2>3, <2>4
  <2>. HIDE DEF P, f
  <2>6. PICK i, j \in P : i # j /\ f[i] = f[j]
    BY <2>2, <2>3, <2>5, FS_PigeonHole
  <2>7. L[i] = L[j] /\ i \in 1..n /\ j \in 1..n
    BY <2>1, <2>6 DEF f
  <2>8. i - j <= w /\ j - i <= w /\ i \in Int /\ j \in Int
    BY DEF P
  <2>9. i < j \/ j < i
    BY <2>6, <2>8
  <2>. QED BY <2>7, <2>8, <2>9
<1>3. \A i, j \in 1..n : j - i <= w
  BY <1>1, <1>2
<1>. QED BY <1>1, <1>3

\* The entries of a log are counted.
LEMMA EntriesCounted ==
  ASSUME NEW n \in Nat, NEW E, E \subseteq 1..n
  PROVE  Cardinality(E) \in Nat
<1>1. IsFiniteSet(1..n)
  BY FS_Interval
<1>. QED BY <1>1, FS_Subset, FS_CardinalityType

\* There are finitely many messages: each is published by a call of its own.
LEMMA SpecFinite == Spec => []IsFiniteSet(published)
<1>1. Init => IsFiniteSet(published)
  BY FS_EmptySet DEF Init
<1>2. IsFiniteSet(published) /\ [Next]_vars => IsFiniteSet(published)'
  <2>. SUFFICES ASSUME IsFiniteSet(published), [Next]_vars PROVE IsFiniteSet(published')
    OBVIOUS
  <2>1. published' = published \/ \E id : published' = published \cup {id}
    <3>1. CASE \E n \in Node, target \in Node \cup {All} : Publish(n, target)
      BY <3>1 DEF Publish
    <3>2. CASE \E n \in Node : Forward(n)
      BY <3>2 DEF Forward, FindNodeFinished
    <3>3. CASE \E n \in Node : Receive(n)
      BY <3>3 DEF Receive, OnBroadcast, OnSend, Refuse
    <3>4. CASE (\E n \in Node : Restart(n)) \/ \E r \in wire : GiveUp(r)
      BY <3>4 DEF Restart, GiveUp
    <3>5. CASE UNCHANGED vars
      BY <3>5 DEF vars
    <3>. QED BY <3>1, <3>2, <3>3, <3>4, <3>5 DEF Next
  <2>. QED BY <2>1, FS_AddElement
<1>. QED BY <1>1, <1>2, PTL DEF Spec

\* A step that leaves the logs alone delivers nothing.
LEMMA DeliveredSame == ASSUME log' = log PROVE Delivered' = Delivered
BY DEF Delivered, Entries

\* A call of broadcast() or send() publishes a new message.
LEMMA PublishDisseminates ==
  ASSUME WindowInv, PromiseInv, NEW n \in Node, NEW target \in Node \cup {All},
         Publish(n, target), WindowInv'
  PROVE  Promise!Next
<1>. DEFINE id == [origin |-> n, epoch |-> epoch[n], seq |-> seq[n] + 1,
                   target |-> target]
<1>1. published' = published \cup {id} /\ log' = log
  BY DEF Publish
<1>2. id \notin published
  BY PublishFresh DEF WindowInv
<1>3. id \in Id
  BY <1>1 DEF WindowInv, TypeOK
<1>4. Delivered' = Delivered
  BY <1>1, DeliveredSame
<1>. HIDE DEF id
<1>5. Promise!Publish(id)
  BY <1>1, <1>2, <1>4 DEF Promise!Publish
<1>. QED BY <1>3, <1>5 DEF Promise!Next

\* A packet that is accepted is delivered if it is meant for the node, for the
\* first time if no other entry of the log is equal.
LEMMA AcceptedDisseminates ==
  ASSUME WindowInv, PromiseInv, NEW r \in wire, Accepted(r), r.to \notin Foreign,
         published' = published,
         \A i, j \in 1..Len(log'[r.to]) : log'[r.to][i].id = log'[r.to][j].id => i = j
  PROVE  [Promise!Next]_(Promise!vars)
<1>. DEFINE m == r.to
            x == r.id
            y == [id |-> x, life |-> epoch[m]]
            L == log[m]
            M == Append(L, y)
            E(n, id)  == {i \in 1..Len(log[n]) : log[n][i].id = id}
            F(n, id)  == {i \in 1..Len(log'[n]) : log'[n][i].id = id}
<1>1. /\ m \in Node /\ x \in Id /\ x \in published /\ m # x.origin
      /\ log \in [Node -> Seq(Entry)] /\ log' = [log EXCEPT ![m] = M]
      /\ x.target \in Node \cup {All} /\ epoch[m] \in 0..MaxEpoch /\ m \notin Foreign
  BY DEF WindowInv, TypeOK, PromiseInv, Known, Accepted, Id
<1>y. y \in Entry /\ y.id = x
  BY <1>1 DEF Entry
<1>. HIDE DEF y
<1>2. /\ L \in Seq(Entry) /\ Len(M) = Len(L) + 1 /\ Len(L) \in Nat
      /\ \A i \in 1..Len(L) : M[i] = L[i]
      /\ M[Len(L) + 1] = y
  BY <1>1, <1>y
<1>3. log'[m] = M /\ \A n \in Node \ {m} : log'[n] = log[n]
  BY <1>1, <1>y
<1>. HIDE DEF M
<1>4. \A n \in Node \ {m} : \A id \in Id : F(n, id) = E(n, id)
  BY <1>3
<1>5. \A id \in Id \ {x} : F(m, id) = E(m, id)
  <2>. SUFFICES ASSUME NEW id \in Id \ {x}
                PROVE  {i \in 1..Len(M) : M[i].id = id} = {i \in 1..Len(L) : L[i].id = id}
    BY <1>3
  <2>. QED BY <1>2, <1>y
<1>6. E(m, x) = {} /\ F(m, x) = {Len(L) + 1}
  <2>1. Len(L) + 1 \in 1..Len(M) /\ 1..Len(L) \subseteq 1..Len(M)
        /\ \A i \in 1..Len(L) : i # Len(L) + 1
    BY <1>2
  <2>2. M[Len(L) + 1].id = x
    BY <1>2, <1>y
  <2>3. \A i \in 1..Len(M) : M[i].id = x => i = Len(L) + 1
    BY <1>3, <2>1, <2>2
  <2>4. \A i \in 1..Len(L) : L[i].id # x
    BY <1>2, <2>1, <2>3
  <2>. QED BY <1>3, <2>1, <2>2, <2>3, <2>4
<1>7. Cardinality(E(m, x)) = 0 /\ Cardinality(F(m, x)) = 1
  <2>. HIDE DEF E, F
  <2>. QED BY <1>6, FS_EmptySet, FS_Singleton
<1>. DEFINE D == Delivered
            G == Delivered'
<1>8. /\ D = [n \in Node |-> [id \in Id |->
                IF id.target \in {All, n} THEN Cardinality(E(n, id)) ELSE 0]]
      /\ G = [n \in Node |-> [id \in Id |->
                IF id.target \in {All, n} THEN Cardinality(F(n, id)) ELSE 0]]
  BY DEF Delivered, Entries
<1>. HIDE DEF E, F, D, G
<1>9. \A n \in Node, id \in Id : n # m \/ id # x => G[n][id] = D[n][id]
  BY <1>4, <1>5, <1>8
<1>10. D \in [Node -> [Id -> Nat]] /\ G \in [Node -> [Id -> Nat]]
  <2>1. log' \in [Node -> Seq(Entry)]
    BY <1>1, <1>2, <1>3, <1>y DEF M
  <2>2. \A n \in Node, id \in Id : Cardinality(E(n, id)) \in Nat /\ Cardinality(F(n, id)) \in Nat
    <3>. TAKE n \in Node, id \in Id
    <3>1. Len(log[n]) \in Nat /\ Len(log'[n]) \in Nat
      BY <1>1, <2>1
    <3>2. E(n, id) \subseteq 1..Len(log[n]) /\ F(n, id) \subseteq 1..Len(log'[n])
      BY DEF E, F
    <3>. QED BY <3>1, <3>2, EntriesCounted
  <2>. QED BY <1>8, <2>2
<1>11. CASE x.target \in {All, m}
  <2>1. D[m][x] = 0 /\ G[m][x] = 1
    BY <1>1, <1>7, <1>8, <1>11
  <2>2. G = [D EXCEPT ![m][x] = 1]
    <3>. DEFINE H == [D EXCEPT ![m][x] = 1]
    <3>1. H \in [Node -> [Id -> Nat]]
      BY <1>10
    <3>2. \A n \in Node, id \in Id : H[n][id] = G[n][id]
      <4>. TAKE n \in Node, id \in Id
      <4>1. CASE n = m /\ id = x
        BY <1>1, <1>10, <2>1, <4>1
      <4>2. CASE n # m \/ id # x
        <5>1. H[n][id] = D[n][id]
          BY <1>1, <1>10, <4>2
        <5>. QED BY <1>9, <4>2, <5>1
      <4>. QED BY <4>1, <4>2
    <3>. HIDE DEF H
    <3>3. \A n \in Node : H[n] = G[n]
      BY <1>10, <3>1, <3>2
    <3>4. H = G
      BY <1>10, <3>1, <3>3
    <3>. QED BY <3>4 DEF H
  <2>3. m \in Audience[x]
    BY <1>1, <1>11 DEF Audience
  <2>4. Promise!Deliver(m, x)
    BY <1>1, <2>1, <2>2, <2>3 DEF Promise!Deliver, D, G
  <2>. QED BY <1>1, <2>4 DEF Promise!Next
<1>12. CASE x.target \notin {All, m}
  <2>1. G[m][x] = D[m][x]
    BY <1>1, <1>8, <1>12
  <2>2. G = D
    BY <1>8, <1>9, <2>1
  <2>. QED BY <2>2 DEF Promise!vars, D, G
<1>. QED BY <1>11, <1>12

\* While nothing is forgotten, every step of the gossip is one of the
\* dissemination, or none: dht.ts:161-180 and 246-266 emit a message once.
LEMMA NextDisseminates ==
  ASSUME WindowInv, PromiseInv, [Next]_vars,
         WindowInv', PromiseInv', IsFiniteSet(published'), Remembered'
  PROVE  [Promise!Next]_(Promise!vars)
<1>1. CASE \E n \in Node, target \in Node \cup {All} : Publish(n, target)
  BY <1>1, PublishDisseminates
<1>2. ASSUME UNCHANGED <<published, log>> PROVE Promise!Next \/ UNCHANGED Promise!vars
  BY <1>2, DeliveredSame DEF Promise!vars
<1>3. CASE \E n \in Node : Forward(n)
  BY <1>2, <1>3 DEF Forward, FindNodeFinished
<1>4. CASE \E n \in Node : Receive(n)
  <2>. PICK r \in wire : OnBroadcast(r) \/ OnSend(r) \/ Refuse(r)
    BY <1>4 DEF Receive
  <2>r. CASE Refuse(r)
    BY <1>2, <2>r DEF Refuse
  <2>s. CASE OnBroadcast(r) \/ OnSend(r)
    <3>1. /\ published' = published /\ (Ignored(r) \/ Accepted(r))
          /\ r.to \in Node /\ r.to \notin Foreign
      BY <2>s DEF OnBroadcast, OnSend, WindowInv, TypeOK
    <3>2. CASE Ignored(r)
      BY <1>2, <3>1, <3>2 DEF Ignored
    <3>3. CASE Accepted(r)
      <4>. DEFINE L == log'[r.to]
                  K == [i \in 1..Len(L) |-> L[i].id]
      <4>1. /\ L \in Seq(Entry) /\ Len(L) \in Nat
            /\ \A i \in 1..Len(L) : L[i].id \in published' /\ L[i].id \in Id
            /\ \A i \in 1..Len(L) : L[i].life = 0
            /\ \A i, j \in 1..Len(L) : i < j /\ L[i].life = L[j].life /\ L[i].id = L[j].id
                                        => j - i > LruSize
        <5>1. /\ L \in Seq(Entry) /\ Len(L) \in Nat
              /\ \A i \in 1..Len(L) : L[i].id \in published'
              /\ \A i, j \in 1..Len(L) : i < j /\ L[i].life = L[j].life /\ L[i].id = L[j].id
                                          => j - i > LruSize
          BY <3>1 DEF WindowInv, TypeOK, PromiseInv, Known, DedupWindow
        <5>2. \A i \in 1..Len(L) : L[i].life <= 0
          BY <3>1 DEF WindowInv, LruIsTail, Tailed, Remembered
        <5>3. \A i \in 1..Len(L) : L[i] \in Entry
          BY <5>1
        <5>4. \A i \in 1..Len(L) : L[i].life = 0 /\ L[i].id \in Id
          BY <5>2, <5>3, BoundsAssumption DEF Entry
        <5>. QED BY <5>1, <5>4
      <4>. HIDE DEF L
      <4>2. /\ K \in Seq(Id) /\ Len(K) = Len(L)
            /\ \A i \in 1..Len(K) : K[i] = L[i].id
        BY <4>1
      <4>. HIDE DEF K
      <4>3. /\ \A i \in 1..Len(K) : K[i] \in published'
            /\ \A i, j \in 1..Len(K) : i < j /\ K[i] = K[j] => j - i > LruSize
        BY <4>1, <4>2
      <4>4. LruSize \in Nat /\ Cardinality(published') <= LruSize
        BY LimitsAssumption DEF Remembered
      <4>5. \A i, j \in 1..Len(K) : K[i] = K[j] => i = j
        BY <4>2, <4>3, <4>4, FewDistinct
      <4>6. \A i, j \in 1..Len(L) : L[i].id = L[j].id => i = j
        BY <4>2, <4>5
      <4>. QED BY <3>1, <3>3, <4>6, AcceptedDisseminates DEF L
    <3>. QED BY <3>1, <3>2, <3>3
  <2>. QED BY <2>r, <2>s
<1>5. CASE \E n \in Node : Restart(n)
  <2>. PICK n \in Node : Restart(n)
    BY <1>5
  <2>1. epoch' = [epoch EXCEPT ![n] = epoch[n] + 1] /\ epoch[n] \in 0..MaxEpoch
    BY DEF Restart, WindowInv, TypeOK
  <2>2. epoch'[n] = epoch[n] + 1
    BY <2>1 DEF WindowInv, TypeOK
  <2>. QED BY <2>1, <2>2, BoundsAssumption DEF Remembered
<1>6. CASE \E r \in wire : GiveUp(r)
  BY <1>2, <1>6 DEF GiveUp
<1>7. CASE UNCHANGED vars
  BY <1>2, <1>7 DEF vars
<1>. QED BY <1>1, <1>3, <1>4, <1>5, <1>6, <1>7 DEF Next

\* The constructor has delivered nothing.
LEMMA InitDisseminates == Init => Promise!Init
<1>. SUFFICES ASSUME Init PROVE Promise!Init
  OBVIOUS
<1>1. \A n \in Node : Len(log[n]) = 0
  BY DEF Init
<1>2. \A n \in Node : 1..Len(log[n]) = {}
  BY <1>1
<1>3. \A n \in Node, id \in Id : Entries(n, id) = {}
  BY <1>2 DEF Entries
<1>4. \A n \in Node, id \in Id : Cardinality(Entries(n, id)) = 0
  BY <1>3, FS_EmptySet
<1>5. Delivered = [n \in Node |-> [id \in Id |-> 0]]
  BY <1>4 DEF Delivered
<1>. QED BY <1>5 DEF Init, Promise!Init

\* As long as no node has restarted and the LRU set has room for the messages
\* there are, the gossip hands a message only to nodes it is meant for, after it
\* was published, and at most once to each (dht.ts:153-180 and 238-266), for
\* every network and TTL and whatever is lost, repeated or reordered.
THEOREM SpecDisseminates == Spec /\ []Remembered => Promise!Safety
<1>1. Init => Promise!Init
  BY InitDisseminates
<1>2. /\ WindowInv /\ PromiseInv /\ [Next]_vars
      /\ WindowInv' /\ PromiseInv' /\ IsFiniteSet(published)' /\ Remembered'
      => [Promise!Next]_(Promise!vars)
  BY NextDisseminates
<1>3. Spec => []WindowInv /\ []PromiseInv
  BY NextPromise, InitPromise, SpecWindow, PTL DEF Spec
<1>. QED BY <1>1, <1>2, <1>3, SpecFinite, PTL DEF Spec, Promise!Safety
==============================================================================
