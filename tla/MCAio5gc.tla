------------------------------ MODULE MCAio5gc ------------------------------
(* Values of the constants of Aio5gc for TLC. *)
EXTENDS Aio5gc

NoRace == {}
One    == {1}
Two    == {1, 2}

=============================================================================
