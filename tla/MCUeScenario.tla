---------------------------- MODULE MCUeScenario ----------------------------
(* Values of the constants of UeScenario for TLC. *)
EXTENDS UeScenario

NoTimer == {}
Dereg   == {"dereg"}
All     == {"dereg", "idle", "reconnect"}

GutiAlways == {TRUE}
GutiAny    == BOOLEAN

=============================================================================
