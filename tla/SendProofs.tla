------------------------------ MODULE SendProofs ------------------------------
(***************************************************************************)
(* Proofs about VoidPresence.send, for any number of calls and polls: what *)
(* the fallback reports as sent was handed on, and how often it was,       *)
(* whatever the target forgets.                                            *)
(***************************************************************************)
EXTENDS Send, TLAPS

\* How many of a call's packets and requests the target remembers.
Times(c) == (IF Packet(c) \in seen THEN 1 ELSE 0)
            + (IF First(c) \in seen THEN 1 ELSE 0) + (IF Second(c) \in seen THEN 1 ELSE 0)

(* What ties the two ends together: an answer of true is one to a request   *)
(* of a call whose message was handed on.                                   *)
Answers == \A a \in replies : a.ok => handed[a.to[1]] > 0

(* Where a call is tells which of its requests may have gone out, and the   *)
(* target remembers no others.                                              *)
Attempts(c) ==
  /\ Packet(c) \in seen => phase[c] = "gossip"
  /\ First(c) \in seen => First(c) \in sent
  /\ Second(c) \in seen => Second(c) \in sent
  /\ phase[c] \in {"idle", "gossip"} => First(c) \notin sent
  /\ phase[c] # "polled" => Second(c) \notin sent
  /\ First(c) \in open => phase[c] = "first"
  /\ Second(c) \in sent => ticks[c] > 0
  /\ phase[c] = "polling" => ticks[c] < MaxTicks
  /\ phase[c] \in {"idle", "gossip", "first"} => ticks[c] = 0

(* What the target handed on, and what the caller was told.                 *)
Outcome(c) ==
  /\ handed[c] = Times(c) + forgot[c]
  /\ verdict[c] = "true" /\ phase[c] # "gossip" => handed[c] > 0
  /\ phase[c] = "idle" => verdict[c] = "pending"

SendInv == TypeOK /\ Answers /\ \A c \in Call : Attempts(c) /\ Outcome(c)

------------------------------------------------------------------------------
\* The constructor's state.
LEMMA InitSend == Init => SendInv
BY MaxTicksAssumption, MaxForgetsAssumption
   DEF Init, SendInv, TypeOK, Answers, Attempts, Outcome, Times, Packet, First, Second, Request

\* A request names its call and its attempt.
LEMMA Requests ==
  /\ \A c \in Call : First(c) \in Request /\ Second(c) \in Request
  /\ \A c, d \in Call : /\ First(c) # Second(d)
                        /\ Packet(c) # First(d) /\ Packet(c) # Second(d)
                        /\ First(c) = First(d) => c = d
                        /\ Second(c) = Second(d) => c = d
                        /\ Packet(c) = Packet(d) => c = d
                        /\ Packet(c)[1] = c
  /\ \A q \in Request : q[1] \in Call /\ q \in {First(q[1]), Second(q[1])}
  /\ \A q \in Call \X {0, 1, 2} :
       q[1] \in Call /\ q \in {Packet(q[1]), First(q[1]), Second(q[1])}
BY DEF Request, Packet, First, Second

\* Starting a call keeps the invariant.
LEMMA StartSend == ASSUME SendInv, NEW c \in Call, Start(c) PROVE SendInv'
<1>1. /\ phase[c] = "idle"
      /\ \/ phase' = [phase EXCEPT ![c] = "gossip"] /\ sent' = sent /\ open' = open
         \/ /\ phase' = [phase EXCEPT ![c] = "first"]
            /\ sent' = sent \cup {First(c)} /\ open' = open \cup {First(c)}
         \/ phase' = [phase EXCEPT ![c] = "polling"] /\ sent' = sent /\ open' = open
      /\ UNCHANGED <<ephemeral, connected, ticks, verdict, replies, seen, forgot, handed>>
  BY DEF Start, Fallback
<1>2. TypeOK'
  BY <1>1, Requests DEF SendInv, TypeOK
<1>3. Answers'
  BY <1>1 DEF SendInv, Answers
<1>4. ASSUME NEW d \in Call PROVE Attempts(d)' /\ Outcome(d)'
  <2>1. /\ phase \in [Call -> {"idle", "gossip", "first", "polling", "polled"}]
        /\ Attempts(d) /\ Outcome(d) /\ Attempts(c) /\ Outcome(c) /\ Answers
    BY <1>4 DEF SendInv, TypeOK
  <2>2. CASE d # c
    <3>1. phase'[d] = phase[d] /\ First(d) # First(c) /\ First(c) # Second(d)
      BY <1>1, <2>1, <2>2, Requests
    <3>. QED BY <1>1, <2>1, <3>1 DEF Attempts, Outcome, Times
  <2>3. CASE d = c
    <3>1. /\ First(c) \notin sent /\ Second(c) \notin sent /\ First(c) # Second(c)
          /\ Packet(c) \notin seen /\ First(c) \notin seen /\ Second(c) \notin seen
          /\ ticks[c] = 0 /\ verdict[c] = "pending"
      BY <1>1, <2>1, Requests DEF Attempts, Outcome
    <3>2. phase'[c] \in {"gossip", "first", "polling"} /\ Times(c)' = Times(c)
          /\ (phase'[c] # "first" => sent' = sent /\ open' = open)
      BY <1>1, <2>1, <3>1 DEF Times
    <3>3. open \subseteq sent
      BY DEF SendInv, TypeOK
    <3>4. /\ UNCHANGED <<ticks, verdict, seen, forgot, handed>>
          /\ First(c) \notin open /\ Second(c) \notin open' /\ Second(c) \notin sent'
          /\ phase'[c] # "first" => First(c) \notin sent' /\ First(c) \notin open'
      BY <1>1, <3>1, <3>2, <3>3
    <3>5. Attempts(c)'
      BY <3>1, <3>2, <3>3, <3>4, MaxTicksAssumption DEF Attempts
    <3>6. Outcome(c)'
      BY <2>1, <2>3, <3>1, <3>2, <3>4 DEF Outcome
    <3>. QED BY <2>3, <3>5, <3>6
  <2>. QED BY <2>2, <2>3
<1>. QED BY <1>2, <1>3, <1>4 DEF SendInv

\* So does a poll: a second attempt is made once, after which no more are.
LEMMA TickSend == ASSUME SendInv, NEW c \in Call, Tick(c) PROVE SendInv'
<1>. DEFINE last == ticks[c] + 1 = MaxTicks
<1>1. /\ phase[c] = "polling"
      /\ ticks' = [ticks EXCEPT ![c] = ticks[c] + 1]
      /\ sent' = sent \cup (IF connected THEN {Second(c)} ELSE {})
      /\ open' = open \cup (IF connected THEN {Second(c)} ELSE {})
      /\ phase' = IF connected \/ last THEN [phase EXCEPT ![c] = "polled"] ELSE phase
      /\ verdict' \in {verdict, [verdict EXCEPT ![c] = "false"]}
      /\ UNCHANGED <<ephemeral, connected, replies, seen, forgot, handed>>
  BY DEF Tick, Fallback, Resolve
<1>2. /\ ticks \in [Call -> 0..MaxTicks] /\ ticks[c] < MaxTicks /\ MaxTicks \in Nat
      /\ phase \in [Call -> {"idle", "gossip", "first", "polling", "polled"}]
      /\ verdict \in [Call -> {"pending", "true", "false"}]
  BY <1>1, MaxTicksAssumption DEF SendInv, TypeOK, Attempts
<1>3. TypeOK'
  <2>1. ticks' \in [Call -> 0..MaxTicks] /\ phase' \in [Call -> {"idle", "gossip", "first", "polling", "polled"}]
        /\ verdict' \in [Call -> {"pending", "true", "false"}]
    BY <1>1, <1>2
  <2>. QED BY <1>1, <2>1, Requests DEF SendInv, TypeOK
<1>4. Answers'
  BY <1>1 DEF SendInv, Answers
<1>5. ASSUME NEW d \in Call PROVE Attempts(d)' /\ Outcome(d)'
  <2>1. /\ Attempts(d) /\ Outcome(d) /\ Attempts(c) /\ Times(d)' = Times(d)
        /\ handed'[d] = handed[d] /\ forgot'[d] = forgot[d]
    BY <1>1, <1>5 DEF SendInv, Times
  <2>2. CASE d # c
    <3>1. /\ phase'[d] = phase[d] /\ ticks'[d] = ticks[d] /\ verdict'[d] = verdict[d]
          /\ Second(c) # Second(d) /\ First(d) # Second(c)
      BY <1>1, <1>2, <2>2, Requests
    <3>. QED BY <1>1, <2>1, <3>1 DEF Attempts, Outcome
  <2>3. CASE d = c
    <3>1. /\ ticks'[c] = ticks[c] + 1 /\ ticks[c] \in Nat
          /\ verdict'[c] \in {verdict[c], "false"}
          /\ First(c) # Second(c) /\ First(c) \notin open'
          /\ phase'[c] \in {"polling", "polled"}
          /\ phase'[c] = "polling" => ticks[c] + 1 # MaxTicks /\ sent' = sent
      BY <1>1, <1>2, <2>1, Requests DEF Attempts
    <3>2. phase'[c] = "polling" => Second(c) \notin sent' /\ ticks'[c] < MaxTicks
      BY <1>1, <1>2, <2>1, <3>1 DEF Attempts
    <3>. QED BY <1>1, <2>1, <2>3, <3>1, <3>2 DEF Attempts, Outcome
  <2>. QED BY <2>2, <2>3
<1>. QED BY <1>3, <1>4, <1>5 DEF SendInv

\* The end of a request keeps the invariant, if true is only said of a call the
\* target has handed on.
LEMMA DoneSend ==
  ASSUME SendInv, NEW q \in open, NEW ok \in BOOLEAN, Done(q, ok), ok => handed[q[1]] > 0,
         replies' \subseteq replies,
         UNCHANGED <<ephemeral, connected, ticks, sent, seen, forgot, handed>>
  PROVE  SendInv'
<1>. DEFINE c == q[1]
<1>1. /\ q \in Request /\ c \in Call /\ q \in {First(c), Second(c)}
      /\ phase \in [Call -> {"idle", "gossip", "first", "polling", "polled"}]
      /\ verdict \in [Call -> {"pending", "true", "false"}]
  BY Requests DEF SendInv, TypeOK
<1>2. /\ open' = open \ {q}
      /\ q = First(c) => phase' = [phase EXCEPT ![c] = IF ok THEN "polled" ELSE "polling"]
      /\ q # First(c) => phase' = phase
      /\ verdict' = verdict \/ (ok /\ verdict' = [verdict EXCEPT ![c] = "true"])
  BY DEF Done, Resolve
<1>. HIDE DEF c
<1>3. TypeOK'
  <2>1. /\ phase' \in [Call -> {"idle", "gossip", "first", "polling", "polled"}]
        /\ verdict' \in [Call -> {"pending", "true", "false"}]
    BY <1>1, <1>2
  <2>. QED BY <1>2, <2>1 DEF SendInv, TypeOK
<1>4. Answers'
  BY DEF SendInv, Answers
<1>5. ASSUME NEW d \in Call PROVE Attempts(d)' /\ Outcome(d)'
  <2>1. Attempts(d) /\ Outcome(d) /\ Attempts(c) /\ Times(d)' = Times(d)
    BY <1>1, <1>5 DEF SendInv, Times
  <2>2. CASE d # c
    <3>1. phase'[d] = phase[d] /\ verdict'[d] = verdict[d]
      BY <1>1, <1>2, <2>2
    <3>. QED BY <1>2, <2>1, <3>1 DEF Attempts, Outcome
  <2>3. CASE d = c
    <3>2. verdict'[c] = "true" => verdict[c] = "true" \/ handed[c] > 0
      BY <1>1, <1>2 DEF c
    <3>0. phase[c] \notin {"idle", "gossip"} /\ handed'[c] = handed[c] /\ q \in sent
      BY <1>1, <2>1, Requests DEF Attempts, SendInv, TypeOK
    <3>3. CASE q = First(c)
      <4>1. phase[c] = "first" /\ phase'[c] \in {"polled", "polling"} /\ First(c) \notin open'
        BY <1>1, <1>2, <2>1, <3>3 DEF Attempts
      <4>2. ticks[c] = 0 /\ Second(c) \notin sent
        BY <2>1, <4>1 DEF Attempts
      <4>. QED BY <1>2, <2>1, <2>3, <3>0, <3>2, <4>1, <4>2, MaxTicksAssumption DEF Attempts, Outcome
    <3>4. CASE q # First(c)
      BY <1>2, <2>1, <2>3, <3>0, <3>2, <3>4 DEF Attempts, Outcome
    <3>. QED BY <3>3, <3>4
  <2>. QED BY <2>2, <2>3
<1>. QED BY <1>3, <1>4, <1>5 DEF SendInv

\* An answer that arrives keeps it.
LEMMA ReplySend == ASSUME SendInv, NEW a \in replies, ReplyArrives(a) PROVE SendInv'
<1>1. /\ replies' = replies \ {a}
      /\ UNCHANGED <<ephemeral, connected, ticks, sent, seen, forgot, handed>>
      /\ a.ok \in BOOLEAN /\ (a.ok => handed[a.to[1]] > 0)
  BY DEF ReplyArrives, SendInv, TypeOK, Answers
<1>2. CASE a.to \in open
  <2>1. Done(a.to, a.ok)
    BY <1>2 DEF ReplyArrives
  <2>. QED BY <1>1, <1>2, <2>1, DoneSend
<1>3. CASE a.to \notin open
  <2>1. UNCHANGED <<open, phase, verdict>>
    BY <1>3 DEF ReplyArrives
  <2>. QED BY <1>1, <2>1 DEF SendInv, TypeOK, Answers, Attempts, Outcome, Times
<1>. QED BY <1>2, <1>3

\* A request that is given up keeps it.
LEMMA TimeOutSend == ASSUME SendInv, NEW q \in open, TimeOut(q) PROVE SendInv'
<1>1. /\ Done(q, FALSE) /\ replies' = replies
      /\ UNCHANGED <<ephemeral, connected, ticks, sent, seen, forgot, handed>>
  BY DEF TimeOut
<1>. QED BY <1>1, DoneSend

\* What the target takes for new is one more that it remembers and hands on.
LEMMA HandOnSend ==
  ASSUME SendInv, NEW q \in Call \X {0, 1, 2}, q \notin seen, HandOn(q),
         q \in sent \/ (q = Packet(q[1]) /\ phase[q[1]] = "gossip"),
         UNCHANGED <<phase, ticks, verdict, sent, open, forgot>>
  PROVE  /\ seen' \subseteq Call \X {0, 1, 2} /\ handed' \in [Call -> Nat]
         /\ \A d \in Call : handed'[d] >= handed[d]
         /\ handed'[q[1]] > 0
         /\ \A d \in Call : Attempts(d)' /\ Outcome(d)'
<1>1. /\ q[1] \in Call /\ q \in {Packet(q[1]), First(q[1]), Second(q[1])}
      /\ handed \in [Call -> Nat] /\ seen \subseteq Call \X {0, 1, 2}
      /\ forgot \in [Call -> 0..MaxForgets] /\ sent \subseteq Request
  BY Requests DEF SendInv, TypeOK
<1>2. seen' = seen \cup {q} /\ handed' = [handed EXCEPT ![q[1]] = handed[q[1]] + 1]
  BY DEF HandOn
<1>3. \A d \in Call : handed'[d] = IF d = q[1] THEN handed[d] + 1 ELSE handed[d]
  BY <1>1, <1>2
<1>4. ASSUME NEW d \in Call PROVE Attempts(d)' /\ Outcome(d)'
  <2>1. Attempts(d) /\ Outcome(d) /\ handed[d] \in Nat /\ forgot[d] \in Nat
    BY <1>1, <1>4, MaxForgetsAssumption DEF SendInv
  <2>2. CASE d # q[1]
    <3>1. Packet(d) # q /\ First(d) # q /\ Second(d) # q
      BY <1>1, <2>2, Requests
    <3>2. Times(d)' = Times(d) /\ handed'[d] = handed[d]
      BY <1>2, <1>3, <2>2, <3>1 DEF Times
    <3>. QED BY <1>2, <2>1, <3>1, <3>2 DEF Attempts, Outcome
  <2>3. CASE d = q[1]
    <3>1. Times(d)' = Times(d) + 1 /\ Times(d) \in Nat /\ handed'[d] = handed[d] + 1
      BY <1>1, <1>2, <1>3, <2>3, Requests DEF Times
    <3>2. Attempts(d)'
      BY <1>1, <1>2, <2>1, <2>3, Requests DEF Attempts
    <3>3. Outcome(d)'
      BY <2>1, <3>1 DEF Outcome
    <3>. QED BY <3>2, <3>3
  <2>. QED BY <2>2, <2>3
<1>5. \A d \in Call : handed[d] \in Nat
  BY <1>1
<1>. QED BY <1>1, <1>2, <1>3, <1>4, <1>5

\* The target answers true to what it takes for new.
LEMMA OnSendFallbackSend == ASSUME SendInv, NEW q \in open, OnSendFallback(q) PROVE SendInv'
<1>1. /\ q \in Request /\ q \in sent /\ q[1] \in Call /\ q \in Call \X {0, 1, 2}
      /\ handed \in [Call -> Nat] /\ \A a \in replies : a.to[1] \in Call
  BY Requests DEF SendInv, TypeOK, Request
<1>2. UNCHANGED <<ephemeral, connected, phase, ticks, verdict, sent, open, forgot>>
  BY DEF OnSendFallback
<1>3. CASE q \in seen
  <2>1. replies' = replies \cup {[to |-> q, ok |-> FALSE]} /\ UNCHANGED <<seen, handed>>
    BY <1>3 DEF OnSendFallback
  <2>2. TypeOK' /\ Answers'
    <3>. DEFINE m == [to |-> q, ok |-> FALSE]
    <3>1. m \in [to : Request, ok : BOOLEAN] /\ m.to = q /\ m.ok = FALSE
      BY <1>1
    <3>2. replies' = replies \cup {m}
      BY <2>1
    <3>. HIDE DEF m
    <3>3. TypeOK'
      BY <1>1, <1>2, <2>1, <3>1, <3>2 DEF SendInv, TypeOK
    <3>. QED BY <1>1, <2>1, <1>2, <3>1, <3>2, <3>3 DEF SendInv, Answers
  <2>. QED BY <1>2, <2>1, <2>2 DEF SendInv, Attempts, Outcome, Times
<1>4. CASE q \notin seen
  <2>1. replies' = replies \cup {[to |-> q, ok |-> TRUE]} /\ HandOn(q)
    BY <1>4 DEF OnSendFallback
  <2>2. /\ seen' \subseteq Call \X {0, 1, 2} /\ handed' \in [Call -> Nat]
        /\ \A d \in Call : handed'[d] >= handed[d]
        /\ handed'[q[1]] > 0
        /\ \A d \in Call : Attempts(d)' /\ Outcome(d)'
    BY <1>1, <1>2, <1>4, <2>1, HandOnSend
  <2>3. TypeOK' /\ Answers'
    <3>. DEFINE m == [to |-> q, ok |-> TRUE]
    <3>1. m \in [to : Request, ok : BOOLEAN] /\ m.to = q /\ m.ok = TRUE
      BY <1>1
    <3>2. replies' = replies \cup {m}
      BY <2>1
    <3>. HIDE DEF m
    <3>3. TypeOK'
      BY <1>1, <1>2, <2>2, <3>1, <3>2 DEF SendInv, TypeOK
    <3>4. \A a \in replies : a.ok => handed'[a.to[1]] > 0
      BY <1>1, <2>2 DEF SendInv, Answers
    <3>5. m.ok => handed'[m.to[1]] > 0
      BY <2>2, <3>1
    <3>. QED BY <3>2, <3>3, <3>4, <3>5 DEF Answers
  <2>. QED BY <2>2, <2>3 DEF SendInv
<1>. QED BY <1>3, <1>4

\* A packet of the flood that the target does not remember keeps it.
LEMMA OnSendSend == ASSUME SendInv, NEW c \in Call, OnSend(c) PROVE SendInv'
<1>1. /\ phase[c] = "gossip" /\ Packet(c) \notin seen /\ HandOn(Packet(c))
      /\ UNCHANGED <<ephemeral, connected, phase, ticks, verdict, sent, open, replies, forgot>>
  BY DEF OnSend
<1>2. Packet(c) \in Call \X {0, 1, 2} /\ Packet(c)[1] = c
  BY DEF Packet
<1>3. /\ seen' \subseteq Call \X {0, 1, 2} /\ handed' \in [Call -> Nat]
      /\ \A d \in Call : handed'[d] >= handed[d]
      /\ \A d \in Call : Attempts(d)' /\ Outcome(d)'
  BY <1>1, <1>2, HandOnSend
<1>4. TypeOK'
  BY <1>1, <1>3 DEF SendInv, TypeOK
<1>5. Answers'
  <2>1. /\ handed \in [Call -> Nat] /\ \A a \in replies : a.to[1] \in Call
    BY Requests DEF SendInv, TypeOK
  <2>. QED BY <1>1, <1>3, <2>1 DEF SendInv, Answers
<1>. QED BY <1>3, <1>4, <1>5 DEF SendInv

\* What is forgotten was remembered once.
LEMMA ForgetSend == ASSUME SendInv, NEW q \in seen, Forget(q) PROVE SendInv'
<1>1. /\ q[1] \in Call /\ q \in {Packet(q[1]), First(q[1]), Second(q[1])}
      /\ handed \in [Call -> Nat] /\ forgot \in [Call -> 0..MaxForgets]
  BY Requests DEF SendInv, TypeOK
<1>2. /\ seen' = seen \ {q} /\ forgot[q[1]] < MaxForgets
      /\ forgot' = [forgot EXCEPT ![q[1]] = forgot[q[1]] + 1]
      /\ UNCHANGED <<ephemeral, connected, phase, ticks, verdict, sent, open, replies, handed>>
  BY DEF Forget
<1>3. \A d \in Call : forgot'[d] = IF d = q[1] THEN forgot[d] + 1 ELSE forgot[d]
  BY <1>1, <1>2
<1>4. TypeOK'
  <2>1. forgot[q[1]] + 1 \in 0..MaxForgets
    BY <1>1, <1>2, MaxForgetsAssumption
  <2>2. forgot' \in [Call -> 0..MaxForgets]
    BY <1>1, <1>2, <2>1
  <2>. QED BY <1>2, <2>2 DEF SendInv, TypeOK
<1>5. Answers'
  BY <1>2 DEF SendInv, Answers
<1>6. ASSUME NEW d \in Call PROVE Attempts(d)' /\ Outcome(d)'
  <2>1. Attempts(d) /\ Outcome(d) /\ handed[d] \in Nat /\ forgot[d] \in Nat
    BY <1>1, <1>6, MaxForgetsAssumption DEF SendInv
  <2>2. Attempts(d)'
    BY <1>2, <2>1 DEF Attempts
  <2>3. Times(d)' + forgot'[d] = Times(d) + forgot[d]
    <3>1. CASE d # q[1]
      <4>1. Packet(d) # q /\ First(d) # q /\ Second(d) # q
        BY <1>1, <3>1, Requests
      <4>. QED BY <1>2, <1>3, <3>1, <4>1 DEF Times
    <3>2. CASE d = q[1]
      <4>1. Times(d)' = Times(d) - 1 /\ Times(d) \in Nat
        BY <1>1, <1>2, <3>2, Requests DEF Times
      <4>2. forgot'[d] = forgot[d] + 1
        BY <1>3, <3>2
      <4>. QED BY <2>1, <4>1, <4>2
    <3>. QED BY <3>1, <3>2
  <2>4. Outcome(d)'
    BY <1>2, <2>1, <2>3 DEF Outcome
  <2>. QED BY <2>2, <2>4
<1>. QED BY <1>4, <1>5, <1>6 DEF SendInv

\* The inductive step.
LEMMA NextSend == SendInv /\ [Next]_vars => SendInv'
<1>. SUFFICES ASSUME SendInv, [Next]_vars PROVE SendInv'
  OBVIOUS
<1>1. ASSUME NEW c \in Call, Start(c) PROVE SendInv'
  BY <1>1, StartSend
<1>2. ASSUME NEW c \in Call, OnSend(c) PROVE SendInv'
  BY <1>2, OnSendSend
<1>3. CASE Poll
  BY <1>3, TickSend DEF Poll
<1>4. CASE Expire
  BY <1>4, TimeOutSend DEF Expire
<1>5. CASE Settle
  <2>1. PICK c \in Call : GossipSettles(c)
    BY <1>5 DEF Settle
  <2>2. PICK v \in {"true", "false"} : Resolve(c, v)
    BY <2>1 DEF GossipSettles
  <2>3. /\ verdict' = [verdict EXCEPT ![c] = v] /\ phase[c] = "gossip"
        /\ UNCHANGED <<ephemeral, connected, phase, ticks, sent, open, replies, seen, forgot, handed>>
    BY <2>1, <2>2 DEF GossipSettles, Resolve
  <2>4. TypeOK' /\ Answers'
    BY <2>3 DEF SendInv, TypeOK, Answers
  <2>5. ASSUME NEW d \in Call PROVE Attempts(d)' /\ Outcome(d)'
    <3>1. d # c => verdict'[d] = verdict[d]
      BY <2>3 DEF SendInv, TypeOK
    <3>. QED BY <2>3, <2>5, <3>1 DEF SendInv, Attempts, Outcome, Times
  <2>. QED BY <2>4, <2>5 DEF SendInv
<1>6. CASE BeliefChanges
  BY <1>6 DEF BeliefChanges, SendInv, TypeOK, Answers, Attempts, Outcome, Times
<1>7. ASSUME NEW q \in open, OnSendFallback(q) PROVE SendInv'
  BY <1>7, OnSendFallbackSend
<1>8. ASSUME NEW a \in replies, ReplyArrives(a) PROVE SendInv'
  BY <1>8, ReplySend
<1>9. ASSUME NEW a \in replies, ReplyLost(a) PROVE SendInv'
  BY <1>9 DEF ReplyLost, SendInv, TypeOK, Answers, Attempts, Outcome, Times
<1>11. ASSUME NEW q \in seen, Forget(q) PROVE SendInv'
  BY <1>11, ForgetSend
<1>10. CASE UNCHANGED vars
  BY <1>10 DEF vars, SendInv, TypeOK, Answers, Attempts, Outcome, Times
<1>. QED BY <1>1, <1>2, <1>3, <1>4, <1>5, <1>6, <1>7, <1>8, <1>9, <1>10, <1>11 DEF Next

------------------------------------------------------------------------------
\* The inductive invariant of a send: its phase tells which requests went out,
\* and how often its message was handed on is how many of its packets the target
\* remembers and how often it forgot one (presence.ts:353-392, dht.ts:73).
THEOREM SpecSend == Spec => []SendInv
BY InitSend, NextSend, PTL DEF Spec

\* The variables of a send keep their types, and polling ends with MaxTicks
\* (presence.ts:374-390).
THEOREM SpecTypeOK == Spec => []TypeOK
<1>1. SendInv => TypeOK
  BY DEF SendInv
<1>. QED BY <1>1, SpecSend, PTL

\* A fallback that reports true was handed to the target's application
\* (presence.ts:353-392, dht.ts:371-438).
THEOREM SpecTrueMeansHanded == Spec => []TrueMeansHanded
<1>1. SendInv => TrueMeansHanded
  BY DEF SendInv, Outcome, TrueMeansHanded
<1>. QED BY <1>1, SpecSend, PTL

\* Not counting what the target does again because its LRU set forgot, it hands
\* the message of one call on at most twice, and twice only after both attempts
\* (presence.ts:370-382, dht.ts:73 and 393-398).
THEOREM SpecAtMostTwice == Spec => []AtMostTwice
<1>1. ASSUME SendInv, NEW c \in Call
      PROVE  /\ handed[c] <= 2 + forgot[c]
             /\ handed[c] > 1 + forgot[c] => {First(c), Second(c)} \subseteq sent /\ ticks[c] > 0
  <2>1. Attempts(c) /\ Outcome(c) /\ forgot[c] \in Nat
    BY <1>1, MaxForgetsAssumption DEF SendInv, TypeOK
  <2>2. CASE Packet(c) \in seen
    <3>1. Times(c) = 1
      BY <2>1, <2>2 DEF Attempts, Times
    <3>. QED BY <2>1, <3>1 DEF Outcome
  <2>3. CASE Packet(c) \notin seen
    <3>1. Times(c) <= 2 /\ Times(c) \in Nat
          /\ (Times(c) > 1 => First(c) \in seen /\ Second(c) \in seen)
      BY <2>3 DEF Times
    <3>. QED BY <2>1, <3>1 DEF Attempts, Outcome
  <2>. QED BY <2>2, <2>3
<1>2. SendInv => AtMostTwice
  BY <1>1 DEF AtMostTwice
<1>. QED BY <1>2, SpecSend, PTL
==============================================================================
