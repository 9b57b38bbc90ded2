------------------------------ MODULE MCSwarm ------------------------------
(* Instances of Swarm for TLC: how join() is called, and what a bootstrap   *)
(* response may say.                                                        *)
EXTENDS Swarm, TLC

\* Nothing but the other peers, subscribed to everything or to nothing.
AllSubs(name) == [t \in Topic |-> [name |-> name, client |-> TRUE, server |-> TRUE]]
Responses ==
  UNION {[D -> [connected : {{}}, data : {EmptyData},
                topics : {[t \in Topic |-> NoMeta]} \cup {AllSubs(name) : name \in TopicName}]] :
           D \in SUBSET Others}

\* All the ways to call join() that ask for a role, and its default.
AnyRole      == [client : BOOLEAN, server : BOOLEAN] \ {[client |-> FALSE, server |-> FALSE]}
DefaultRoles == {[client |-> TRUE, server |-> TRUE]}
=============================================================================
