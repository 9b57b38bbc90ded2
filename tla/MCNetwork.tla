----------------------------- MODULE MCNetwork -----------------------------
(* Instances of Network for TLC: who connects to whom, and what they say.   *)
EXTENDS Network, TLC

CONSTANTS n1, n2, n3

\* n2 sees n3, and n3 sees n2, only through n1.
Chain == {{n1, n2}, {n1, n3}}

\* The packets about connections.
ConnectionTypes == {PacketType.CONNECTED, PacketType.DISCONNECTED}
=============================================================================
