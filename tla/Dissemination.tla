---------------------------- MODULE Dissemination ----------------------------
(***************************************************************************)
(* What the gossip of VoidDHT promises an application: a message that was  *)
(* published reaches every node it is meant for except its origin, at most *)
(* once at each.  Nothing is said about the order of different messages.   *)
(***************************************************************************)
EXTENDS Naturals

CONSTANTS
    Node,       \* nodes
    Id,         \* messages
    Audience    \* Audience[id]: the nodes a message is meant for

VARIABLES
    published,  \* the messages published so far
    delivered   \* delivered[n][id]: how often node n was handed id

vars == <<published, delivered>>

Init == published = {} /\ delivered = [n \in Node |-> [id \in Id |-> 0]]

Publish(id) ==
  /\ id \notin published
  /\ published' = published \cup {id}
  /\ UNCHANGED delivered

Deliver(n, id) ==
  /\ id \in published
  /\ n \in Audience[id]
  /\ delivered[n][id] = 0
  /\ delivered' = [delivered EXCEPT ![n][id] = 1]
  /\ UNCHANGED published

Next == \E id \in Id : Publish(id) \/ \E n \in Node : Deliver(n, id)

\* What must not happen, and what must.
Safety == Init /\ [][Next]_vars
Spec   == Safety /\ \A n \in Node, id \in Id : WF_vars(Deliver(n, id))
==============================================================================
