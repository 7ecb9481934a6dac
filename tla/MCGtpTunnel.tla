---------------------------- MODULE MCGtpTunnel ----------------------------
EXTENDS GtpTunnel

UesDef   == 1..2
GnbsDef  == 1..2
HomeDef  == [u \in UesDef |-> u]
=============================================================================
