---------------------------- MODULE MCNasSecurity ----------------------------
(* Values of the constants of NasSecurity for TLC. *)
EXTENDS NasSecurity

NoRetry  == {}
OneRetry == {1}
SqnZero  == {0}
SqnSome  == {0, 1, 2}

=============================================================================
