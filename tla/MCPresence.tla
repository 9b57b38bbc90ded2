----------------------------- MODULE MCPresence -----------------------------
(* Instances of Presence for TLC: what the bootstrap responses may say, and *)
(* the symmetry between the other peers.                                    *)
EXTENDS Presence, TLC

AllSubs(name) == [t \in Topic |-> [name |-> name, client |-> TRUE, server |-> TRUE]]
NoSubsMeta == [t \in Topic |-> NoMeta]

\* Peers without edges (all that a VoidPresence ever sends) and with or
\* without subscriptions, and one peer with any edges.
Responses ==
  UNION {[D -> [connected : {{}}, data : {EmptyData},
                topics : {NoSubsMeta} \cup {AllSubs(name) : name \in TopicName}]] :
           D \in SUBSET Peer}
  \cup UNION {[{p} -> [connected : SUBSET (Peer \ {p}), topics : {NoSubsMeta},
                       data : {EmptyData}]] : p \in Others}

\* Nobody answers.
NoResponses == {}

OthersSymmetry == Permutations(Others)
==============================================================================
