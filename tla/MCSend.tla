------------------------------- MODULE MCSend -------------------------------
(* Instances of Send for TLC: how many calls share the connection.          *)
EXTENDS Send

CONSTANTS c1, c2

OneCall  == {c1}
TwoCalls == {c1, c2}
=============================================================================
