----------------------------- MODULE MCAmfPool -----------------------------
(* Instances of AmfPool for TLC: two AMFs, the first with two endpoints. *)
EXTENDS AmfPool
CONSTANTS a1, a2, i1, i2, i3, u1
Endpoints == [i \in Ip |-> IF i = i3 THEN a2 ELSE a1]
BothConfigured == <<i1, i3>>
=============================================================================
