------------------------------ MODULE NasChannel ------------------------------
(***************************************************************************)
(* What NAS protection promises of the downlink: the protected messages of *)
(* an AMF are numbered, and the UE acts on them in the order in which they *)
(* were protected, on none twice and, unless the transport under it may    *)
(* reorder messages, on every one of them.                                 *)
(***************************************************************************)
EXTENDS Naturals

CONSTANT Lossy      \* TRUE: a message that was overtaken may be given up

VARIABLES
    sent,           \* messages the AMF has protected
    accepted        \* the last one the UE has acted on

chan == <<sent, accepted>>

Init == sent = 0 /\ accepted = 0

Send == sent' = sent + 1 /\ UNCHANGED accepted

Accept ==
    /\ accepted < sent
    /\ accepted' \in IF Lossy THEN accepted + 1..sent ELSE {accepted + 1}
    /\ UNCHANGED sent

Next == Send \/ Accept

Spec == Init /\ [][Next]_chan

FairSpec == Spec /\ WF_chan(Accept)

=============================================================================
