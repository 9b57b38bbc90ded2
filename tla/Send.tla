--------------------------------- MODULE Send ---------------------------------
(***************************************************************************)
(* VoidPresence.send (src/presence.ts:353-392) to one target, down to the  *)
(* handler at that target (VoidDHT.onsendFallback, src/dht.ts:371-438).    *)
(*                                                                         *)
(* A target believed persistent is sent the message by gossip.  One        *)
(* believed ephemeral is sent a fallback request over its connection, at   *)
(* once if there is one; when that fails the sender looks for a connection *)
(* every 100 ms, four times, and sends once more.  Meanwhile connections   *)
(* come and go, and a request may be repeated by dht-rpc, answered twice   *)
(* or not at all.  Each attempt has a sequence number of its own: <<c, 1>> *)
(* and <<c, 2>> are the two requests that a call c may make, <<c, 0>> is   *)
(* the packet it may gossip.                                               *)
(*                                                                         *)
(* The target keeps the numbers in an LRU set that all packets of all      *)
(* origins share and that a restart empties, so it may forget any of them  *)
(* at any time (the order in which it does is kept in Gossip, not here).   *)
(***************************************************************************)
EXTENDS Integers, FiniteSets

CONSTANTS
    Call,       \* calls of send() that the application makes
    MaxTicks,   \* 4 in the code: the poll that gives up
    MaxForgets  \* bound on how often the target forgets a packet of one call

ASSUME MaxTicksAssumption   == MaxTicks \in Nat \ {0}
ASSUME MaxForgetsAssumption == MaxForgets \in Nat

VARIABLES
    ephemeral,  \* what the sender believes of the target: state.ephemeral
    connected,  \* whether state.connection is set
    phase,      \* where the call is
    ticks,      \* the local "retry" of the call
    verdict,    \* how its promise was resolved
    sent,       \* history: the fallback requests made
    open,       \* those waiting for an answer
    replies,    \* answers under way: a request and whether it was accepted
    seen,       \* packets and requests the target has in its LRU set
    forgot,     \* history: how often it forgot one of a call
    handed      \* history: how often the target handed the message on

vars == <<ephemeral, connected, phase, ticks, verdict,
          sent, open, replies, seen, forgot, handed>>

Request == Call \X {1, 2}
Packet(c) == <<c, 0>>
First(c)  == <<c, 1>>
Second(c) == <<c, 2>>

Init ==
  /\ ephemeral \in BOOLEAN /\ connected \in BOOLEAN
  /\ phase = [c \in Call |-> "idle"] /\ ticks = [c \in Call |-> 0]
  /\ verdict = [c \in Call |-> "pending"]
  /\ sent = {} /\ open = {} /\ replies = {} /\ seen = {}
  /\ forgot = [c \in Call |-> 0] /\ handed = [c \in Call |-> 0]

------------------------------------------------------------------------------
(* The sender. *)

\* The fallback requests of R go out.
Fallback(R) == sent' = sent \cup R /\ open' = open \cup R

\* send(target, message), up to its first await.
Start(c) ==
  /\ phase[c] = "idle"
  /\ \/ ~ ephemeral /\ phase' = [phase EXCEPT ![c] = "gossip"] /\ Fallback({})
     \/ /\ ephemeral /\ connected
        /\ phase' = [phase EXCEPT ![c] = "first"] /\ Fallback({First(c)})
     \/ /\ ephemeral /\ ~ connected
        /\ phase' = [phase EXCEPT ![c] = "polling"] /\ Fallback({})
  /\ UNCHANGED <<ephemeral, connected, ticks, verdict, replies, seen, forgot, handed>>

\* resolve(v): only the first one counts.
Resolve(c, v) ==
  verdict' = IF verdict[c] = "pending" THEN [verdict EXCEPT ![c] = v] ELSE verdict

\* Faulty variants of Tick: polling without end, and no verdict at its end.
TickForever(c) ==
  /\ phase[c] = "polling"
  /\ ticks' = [ticks EXCEPT ![c] = @ + 1]
  /\ ticks[c] <= MaxTicks
  /\ UNCHANGED <<ephemeral, connected, phase, verdict, sent, open, replies, seen, forgot, handed>>
TickSilently(c) ==
  /\ phase[c] = "polling"
  /\ ticks' = [ticks EXCEPT ![c] = @ + 1]
  /\ Fallback(IF connected THEN {Second(c)} ELSE {})
  /\ phase' = IF connected \/ ticks[c] + 1 = MaxTicks THEN [phase EXCEPT ![c] = "polled"]
                                                     ELSE phase
  /\ UNCHANGED <<ephemeral, connected, verdict, replies, seen, forgot, handed>>

\* The callback of setInterval: a connection ends the polling with a second
\* attempt, the last poll with false, and both may happen in the same poll.
Tick(c) ==
  /\ phase[c] = "polling"
  /\ LET last == ticks[c] + 1 = MaxTicks
     IN  /\ ticks' = [ticks EXCEPT ![c] = @ + 1]
         /\ Fallback(IF connected THEN {Second(c)} ELSE {})
         /\ phase' = IF connected \/ last THEN [phase EXCEPT ![c] = "polled"] ELSE phase
         /\ IF last THEN Resolve(c, "false") ELSE UNCHANGED verdict
  /\ UNCHANGED <<ephemeral, connected, replies, seen, forgot, handed>>

\* A faulty variant of Done: a failed request counts as sent.
DoneAnyway(q, ok) ==
  /\ open' = open \ {q}
  /\ phase' = [phase EXCEPT ![q[1]] = "polled"]
  /\ Resolve(q[1], "true")

\* sendRetry(...) of request q is done: ok tells how.  A failed first attempt
\* starts the polling; a failed second one is never heard of.
Done(q, ok) ==
  LET c == q[1]
  IN  /\ open' = open \ {q}
      /\ IF q = First(c)
         THEN phase' = [phase EXCEPT ![c] = IF ok THEN "polled" ELSE "polling"]
         ELSE UNCHANGED phase
      /\ IF ok THEN Resolve(c, "true") ELSE UNCHANGED verdict

\* An answer arrives; one to a request that is not open is ignored.
ReplyArrives(a) ==
  /\ replies' = replies \ {a}
  /\ IF a.to \in open THEN Done(a.to, a.ok) ELSE UNCHANGED <<open, phase, verdict>>
  /\ UNCHANGED <<ephemeral, connected, ticks, sent, seen, forgot, handed>>

\* dht-rpc gives the request up; sendRetry turns the rejection into false.
TimeOut(q) ==
  /\ q \in open
  /\ Done(q, FALSE)
  /\ UNCHANGED <<ephemeral, connected, ticks, sent, replies, seen, forgot, handed>>

\* The promise of VoidDHT.send: true says nothing of the target (see Gossip).
GossipSettles(c) ==
  /\ phase[c] = "gossip" /\ verdict[c] = "pending"
  /\ \E v \in {"true", "false"} : Resolve(c, v)
  /\ UNCHANGED <<ephemeral, connected, phase, ticks, sent, open, replies, seen, forgot, handed>>

------------------------------------------------------------------------------
(* The target and the network. *)

\* The target takes q for new and hands its message to the application.
HandOn(q) ==
  /\ seen' = seen \cup {q}
  /\ handed' = [handed EXCEPT ![q[1]] = @ + 1]

\* A faulty variant of OnSendFallback: the LRU set is not looked at.
OnSendFallbackAgain(q) ==
  /\ q \in open
  /\ handed[q[1]] <= 2 + MaxForgets
  /\ replies' = replies \cup {[to |-> q, ok |-> TRUE]} /\ HandOn(q)
  /\ UNCHANGED <<ephemeral, connected, phase, ticks, verdict, sent, open, forgot>>

\* onsendFallback(req), for a request that may be a repetition.  The reply is
\* sent before the message is handed on (src/index.ts:40-43), in the same step.
OnSendFallback(q) ==
  /\ q \in open
  /\ \/ /\ q \in seen
        /\ replies' = replies \cup {[to |-> q, ok |-> FALSE]} /\ UNCHANGED <<seen, handed>>
     \/ /\ q \notin seen
        /\ replies' = replies \cup {[to |-> q, ok |-> TRUE]} /\ HandOn(q)
  /\ UNCHANGED <<ephemeral, connected, phase, ticks, verdict, sent, open, forgot>>

\* onsend(req) at the target: the flood, or a late copy of it, with a packet
\* that the LRU set does not hold.
OnSend(c) ==
  /\ phase[c] = "gossip" /\ Packet(c) \notin seen
  /\ HandOn(Packet(c))
  /\ UNCHANGED <<ephemeral, connected, phase, ticks, verdict, sent, open, replies, forgot>>

\* Other packets push q out of the LRU set, or the target restarts.
Forget(q) ==
  /\ q \in seen /\ forgot[q[1]] < MaxForgets
  /\ seen' = seen \ {q}
  /\ forgot' = [forgot EXCEPT ![q[1]] = @ + 1]
  /\ UNCHANGED <<ephemeral, connected, phase, ticks, verdict, sent, open, replies, handed>>

ReplyLost(a) ==
  /\ replies' = replies \ {a}
  /\ UNCHANGED <<ephemeral, connected, phase, ticks, verdict, sent, open, seen, forgot, handed>>

\* A PERSISTENT packet of the target, onpeeradd or onpeerdrop.
BeliefChanges ==
  /\ \E e, n \in BOOLEAN : ephemeral' = e /\ connected' = n
  /\ UNCHANGED <<phase, ticks, verdict, sent, open, replies, seen, forgot, handed>>

Poll   == \E c \in Call : Tick(c)
Expire == \E q \in open : TimeOut(q)
Settle == \E c \in Call : GossipSettles(c)

Next ==
  \/ \E c \in Call : Start(c) \/ OnSend(c)
  \/ Poll \/ Expire \/ Settle \/ BeliefChanges
  \/ \E q \in open : OnSendFallback(q)
  \/ \E q \in seen : Forget(q)
  \/ \E a \in replies : ReplyArrives(a) \/ ReplyLost(a)

Spec == Init /\ [][Next]_vars

\* Timers fire and a request does not stay open for ever.
Fairness == WF_vars(Poll) /\ WF_vars(Expire) /\ WF_vars(Settle)
FairSpec == Spec /\ Fairness

------------------------------------------------------------------------------
TypeOK ==
  /\ ephemeral \in BOOLEAN /\ connected \in BOOLEAN
  /\ phase \in [Call -> {"idle", "gossip", "first", "polling", "polled"}]
  /\ ticks \in [Call -> 0..MaxTicks]
  /\ verdict \in [Call -> {"pending", "true", "false"}]
  /\ open \subseteq sent /\ sent \subseteq Request
  /\ seen \subseteq Call \X {0, 1, 2} /\ forgot \in [Call -> 0..MaxForgets]
  /\ replies \subseteq [to : Request, ok : BOOLEAN]
  /\ handed \in [Call -> Nat]

(* A fallback that reports true was handed to the application of the       *)
(* target, although answers are lost, late and repeated.                   *)
TrueMeansHanded ==
  \A c \in Call : verdict[c] = "true" /\ phase[c] # "gossip" => handed[c] > 0

(* However often requests are repeated, answers lost and connections       *)
(* found, the target hands the message of one call on at most twice, not   *)
(* counting what it does again because it forgot that it had; and twice    *)
(* only when the first attempt was not known to have succeeded.            *)
AtMostTwice ==
  \A c \in Call :
    /\ handed[c] <= 2 + forgot[c]
    /\ handed[c] > 1 + forgot[c] => {First(c), Second(c)} \subseteq sent /\ ticks[c] > 0

(* The call does not wait for ever, whatever the network does: its promise *)
(* is resolved, or its second attempt was made and is over.                *)
Settles ==
  \A c \in Call :
    phase[c] # "idle" ~> \/ verdict[c] # "pending"
                         \/ Second(c) \in sent \ open

(* The promise of send() is always resolved: the signature of the method   *)
(* says Promise<boolean> (src/presence.ts:353).                            *)
AlwaysSettles == \A c \in Call : phase[c] # "idle" ~> verdict[c] # "pending"
==============================================================================
