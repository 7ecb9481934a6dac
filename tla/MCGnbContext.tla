---------------------------- MODULE MCGnbContext ----------------------------
(* Instances of GnbContext for TLC: two gNodeBs that hand over to each other. *)
EXTENDS GnbContext
CONSTANTS g1, g2, u1, u2
Ring    == [g \in Gnb |-> IF g = g1 THEN g2 ELSE g1]
OneHome == [u \in UE |-> g1]
TwoHomes == [u \in UE |-> IF u = u1 THEN g1 ELSE g2]
XnOnly   == {"xn", "stop"}
XnIdle   == {"xn", "idle"}
N2Only   == {"n2", "stop"}
N2Idle   == {"n2", "idle"}
=============================================================================
