------------------------------ MODULE MCGossip ------------------------------
(* Instances of Gossip for TLC: small networks and what is sent in them. *)
EXTENDS Gossip, TLC

CONSTANTS a, b, c, d

\* findNode returns all other nodes.
Mesh     == [n \in Node |-> {Node \ {n}}]

\* From a: nobody, both other VoidDHTs, one of them with a node of another
\* DHT, or only that one.  b and c hand everything to each other.
Patchy   == [n \in Node |-> IF n = a THEN {{}, {b, c}, {c, d}, {d}}
                                     ELSE {{b, c} \ {n}}]

\* A line a - b - c - d with the shortcut a - c: from a, the packet may reach
\* c directly or by way of b.
Shortcut == (a :> {{b, c}}) @@ (b :> {{a, c}}) @@ (c :> {{a, b, d}}) @@ (d :> {{c}})

\* a and b reach c, d or both, which hand everything to each other.
Bounce   == LET some == {{c}, {d}, {c, d}}
            IN  (a :> some) @@ (b :> some) @@ (c :> {{d}}) @@ (d :> {{c}})

OneBroadcast  == {<<a, All>>}
TwoBroadcasts == {<<a, All>>, <<b, All>>}
Both          == {<<a, All>>, <<a, c>>, <<b, All>>}
Across        == {<<a, All>>, <<b, d>>}
=============================================================================
