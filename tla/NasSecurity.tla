----------------------------- MODULE NasSecurity -----------------------------
(***************************************************************************)
(* NAS security between a simulated UE and an AMF: 5G-AKA, the security    *)
(* mode procedure, and the counts that protect every message after it.     *)
(*                                                                         *)
(* Source, UE: internal/control_test_engine/ue (nas/dispatcher.go,         *)
(* nas/message/nas_control, nas/handler, context).  Source, AMF:           *)
(* test/aio5gc (msg/nas/codec, msg/nas/handler, context/security.go).      *)
(*                                                                         *)
(* A message carries 8 bits of its 24-bit count; the receiver estimates    *)
(* the other 16 from the last count it saw, and the message verifies when  *)
(* key and estimate are those of the sender.  A key is the number of the   *)
(* authentication vector it is derived from.  Ciphering uses the count and *)
(* the key of the MAC and is not told apart from it.                       *)
(***************************************************************************)
EXTENDS Integers, Sequences, FiniteSets

CONSTANTS
    SqnMod, OvfMod, \* values of the sequence number (256) and of the overflow (65536)
    Core,           \* "aio5gc", or "external": a core network that keeps both counts
    Reorder,        \* TRUE: two downlink messages may overtake each other
    Retries,        \* T3580 goroutines that may encode beside the UE's own
    UeSqns,         \* sequence numbers the UE may be configured with
    MaxAuth,        \* bound: authentication requests
    MaxDl, MaxUl    \* bounds: protected messages in either direction

ASSUME NasAssumption ==
    /\ SqnMod \in Nat \ {0, 1} /\ OvfMod \in Nat \ {0}
    /\ Core \in {"aio5gc", "external"} /\ Reorder \in BOOLEAN
    /\ Retries \subseteq Nat \ {0} /\ UeSqns \subseteq Nat
    /\ MaxAuth \in Nat /\ MaxDl \in Nat /\ MaxUl \in Nat

VARIABLES
    \* the UE
    kamf, knas,         \* Kamf and KnasInt: number of their vector, 0 when unset
    sqnUe,              \* AuthenticationSubs.SequenceNumber
    ulCount, dlCount,   \* UeSecurity.ULCount, DLCount
    registered,
    enc,                \* the goroutines in NASEncode: 0 is the UE's own
    \* the AMF
    amfState, vec, sqnHn, amfKey, amfUl, amfDl,
    \* messages under way
    dl, ul,
    \* history
    lost,               \* directions in which a message failed verification
    ndl, last,          \* protected downlink messages sent, and the last one accepted
    nul, used           \* protected uplink messages sent, and their keys and counts

ue   == <<kamf, knas, sqnUe, ulCount, dlCount, registered>>
amf  == <<amfState, vec, sqnHn, amfKey, amfUl, amfDl>>
vars == <<ue, enc, amf, dl, ul, lost, ndl, last, nul, used>>

Count == [ovf : 0..OvfMod - 1, sqn : 0..SqnMod - 1]
Zero  == [ovf |-> 0, sqn |-> 0]
Enc   == {0} \cup Retries

-----------------------------------------------------------------------------
(* The library's security.Count.                                           *)
NextOvf(o) == IF o + 1 = OvfMod THEN 0 ELSE o + 1

(* Mutant: the sequence number is not masked to its width. *)
AddOne_NoWrap(c) == [ovf |-> c.ovf, sqn |-> c.sqn + 1]

AddOne(c) == IF c.sqn + 1 = SqnMod THEN [ovf |-> NextOvf(c.ovf), sqn |-> 0]
                                   ELSE [ovf |-> c.ovf, sqn |-> c.sqn + 1]

(* Mutant: a wrap of the sequence number is not counted. *)
Estimate_NoOverflow(c, sqn) == [ovf |-> c.ovf, sqn |-> sqn]

(* A receiver that last saw c takes a smaller sequence number for a wrap.  *)
Estimate(c, sqn) == [ovf |-> IF c.sqn > sqn THEN NextOvf(c.ovf) ELSE c.ovf, sqn |-> sqn]

-----------------------------------------------------------------------------
Rec(pc, type, sqn, mac, key, tmp) ==
    [pc |-> pc, type |-> type, sqn |-> sqn, mac |-> mac, key |-> key, tmp |-> tmp]

Idle == Rec("idle", "nas", 0, Zero, 0, Zero)

(* Every UE starts without keys; the core has a vector with number 1 next. *)
Init ==
    /\ kamf = 0 /\ knas = 0 /\ sqnUe \in UeSqns
    /\ ulCount = Zero /\ dlCount = Zero /\ registered = FALSE
    /\ enc = [e \in Enc |-> Idle]
    /\ amfState = "Deregistered" /\ vec = 0 /\ sqnHn = 0 /\ amfKey = 0
    /\ amfUl = Zero /\ amfDl = Zero
    /\ dl = << >> /\ ul = << >>
    /\ lost = {} /\ ndl = 0 /\ last = 0 /\ nul = 0 /\ used = {}

-----------------------------------------------------------------------------
(* AMF, downlink.                                                          *)

(* SecurityContext.SetDLCount; u is the uplink count so far.  The mocked   *)
(* core assigns ulCount; an external core is taken to keep both.           *)
SetDLCount(c, u) ==
    /\ amfUl' = IF Core = "aio5gc" THEN c ELSE u
    /\ amfDl' = IF Core = "aio5gc" THEN amfDl ELSE c

(* The count codec.Encode protects with: the header of a Security Mode     *)
(* Command resets both counts through the setters.                         *)
EncodeCount(type) == IF type = "smc" /\ Core = "external" THEN Zero ELSE amfDl

Encode(type, key, u) ==
    LET c == EncodeCount(type)
    IN  /\ ndl < MaxDl
        /\ ndl' = ndl + 1
        /\ dl' = Append(dl, [type |-> type, key |-> key, sqn |-> c.sqn, mac |-> c, n |-> ndl + 1])
        /\ SetDLCount(AddOne(c), u)

(* A vector of the mocked core always has the same sequence number, a      *)
(* vector of an external core a new one.                                   *)
NextSqn == IF Core = "aio5gc" THEN 1 ELSE sqnHn + 1

(* SendAuthenticationRequest, plain.  An external core that gets no answer *)
(* may start over with a new vector.                                       *)
AuthenticationRequest ==
    /\ \/ amfState = "Deregistered"
       \/ amfState = "AuthenticationInitiated" /\ Core = "external"
    /\ vec < MaxAuth
    /\ amfState' = "AuthenticationInitiated"
    /\ vec' = vec + 1 /\ sqnHn' = NextSqn
    /\ dl' = Append(dl, [type |-> "auth", key |-> vec + 1, sqn |-> NextSqn, mac |-> Zero, n |-> 0])
    /\ UNCHANGED <<ue, enc, amfKey, amfUl, amfDl, ul, lost, ndl, last, nul, used>>

(* Commands an external core sends on its own initiative.                  *)
Command ==
    /\ amfState = "Registered" /\ Core = "external"
    /\ Encode("cmd", amfKey, amfUl)
    /\ UNCHANGED <<ue, enc, amfState, vec, sqnHn, amfKey, ul, lost, last, nul, used>>

-----------------------------------------------------------------------------
(* AMF, uplink: nas.Dispatch with codec.Decode.                            *)

Plain == {"authResponse", "authFailure"}

(* DefaultAuthenticationResponse: the answer to the last vector gives the  *)
(* key, and the Security Mode Command is sent.                             *)
AuthenticationResponse(m) ==
    IF amfState = "AuthenticationInitiated" /\ m.key = vec
    THEN /\ amfState' = "Authenticated" /\ amfKey' = vec
         /\ Encode("smc", vec, Zero)
         /\ UNCHANGED <<vec, sqnHn>>
    ELSE UNCHANGED <<amf, dl, ndl>>

(* An external core resynchronises; the mocked one does not know the type. *)
AuthenticationFailure(m) ==
    /\ sqnHn' = IF Core = "external" /\ amfState = "AuthenticationInitiated" /\ sqnHn < m.sqn
                THEN m.sqn ELSE sqnHn
    /\ UNCHANGED <<amfState, vec, amfKey, amfUl, amfDl, dl, ndl>>

Secured == amfState \in {"Authenticated", "Registered"}

(* Decode works on a copy of the count; the header of a Security Mode      *)
(* Complete resets the copy.                                               *)
Decoded(m) == Estimate(IF m.type = "smcComplete" THEN Zero ELSE amfUl, m.sqn)
Verified(m) == m.key = amfKey /\ m.mac = Decoded(m)

SecurityModeComplete(c) ==
    /\ amfState = "Authenticated"
    /\ Encode("regAccept", amfKey, c)
    /\ UNCHANGED amfState

RegistrationComplete(c) ==
    /\ amfState = "Authenticated"
    /\ amfState' = "Registered"
    /\ Encode("cmd", amfKey, c)

(* A PDU session request is accepted, or refused by an external core, and  *)
(* a release request is answered with a command; completions get no        *)
(* answer, nor does a message in the wrong state.                          *)
UlNasTransport(c) ==
    /\ amfState = "Registered"
    /\ \E answer \in {"accept", "cmd"} \cup (IF Core = "external" THEN {"reject"} ELSE {}) :
           Encode(answer, amfKey, c)
    /\ UNCHANGED amfState

NoAnswer(m, c) ==
    /\ m.type = "nas" \/ ~(amfState = "Authenticated" /\ m.type \in {"smcComplete", "regComplete"})
    /\ amfUl' = c
    /\ UNCHANGED <<amfState, amfDl, dl, ndl>>

Accepted(m) ==
    /\ UNCHANGED <<vec, sqnHn, amfKey>>
    /\ \/ m.type = "smcComplete" /\ SecurityModeComplete(Decoded(m))
       \/ m.type = "regComplete" /\ RegistrationComplete(Decoded(m))
       \/ m.type = "nas" /\ UlNasTransport(Decoded(m))
       \/ NoAnswer(m, Decoded(m))

AmfDispatch ==
    /\ ul # << >>
    /\ ul' = Tail(ul)
    /\ LET m == Head(ul)
       IN  \/ m.type = "authResponse" /\ AuthenticationResponse(m) /\ UNCHANGED lost
           \/ m.type = "authFailure" /\ AuthenticationFailure(m) /\ UNCHANGED lost
           \/ /\ m.type \notin Plain /\ Secured /\ Verified(m)
              /\ Accepted(m) /\ UNCHANGED lost
           \/ /\ m.type \notin Plain /\ ~(Secured /\ Verified(m))
              /\ lost' = lost \cup {"ul"}
              /\ UNCHANGED <<amf, dl, ndl>>
    /\ UNCHANGED <<ue, enc, last, nul, used>>

-----------------------------------------------------------------------------
(* UE, uplink: NASEncode, which the UE's goroutine and the T3580           *)
(* goroutines run without a lock.                                          *)

Start(e, type) == [enc EXCEPT ![e] = Rec("sqn", type, 0, Zero, 0, Zero)]

ReadSqn(e) ==
    /\ enc[e].pc = "sqn"
    /\ enc' = [enc EXCEPT ![e] = Rec("mac", @.type, ulCount.sqn, @.mac, @.key, @.tmp)]
    /\ UNCHANGED <<ue, ul, nul, used>>

CalculateMac(e) ==
    /\ enc[e].pc = "mac"
    /\ enc' = [enc EXCEPT ![e] = Rec("load", @.type, @.sqn, ulCount, knas, @.tmp)]
    /\ UNCHANGED <<ue, ul, nul, used>>

(* ULCount.AddOne loads, increments and stores.                            *)
LoadCount(e) ==
    /\ enc[e].pc = "load"
    /\ enc' = [enc EXCEPT ![e] = Rec("store", @.type, @.sqn, @.mac, @.key, ulCount)]
    /\ UNCHANGED <<ue, ul, nul, used>>

StoreCount(e) ==
    /\ enc[e].pc = "store"
    /\ enc' = [enc EXCEPT ![e] = Rec("send", @.type, @.sqn, @.mac, @.key, @.tmp)]
    /\ ulCount' = AddOne(enc[e].tmp)
    /\ UNCHANGED <<kamf, knas, sqnUe, dlCount, registered, ul, nul, used>>

SendToGnb(e) ==
    /\ enc[e].pc = "send"
    /\ enc' = [enc EXCEPT ![e] = Idle]
    /\ ul' = Append(ul, [type |-> enc[e].type, key |-> enc[e].key, sqn |-> enc[e].sqn, mac |-> enc[e].mac])
    /\ nul' = nul + 1 /\ used' = used \cup {<<enc[e].key, enc[e].mac>>}
    /\ UNCHANGED ue

NASEncode(e) ==
    /\ ReadSqn(e) \/ CalculateMac(e) \/ LoadCount(e) \/ StoreCount(e) \/ SendToGnb(e)
    /\ UNCHANGED <<amf, dl, lost, ndl, last>>

(* The scenario asks for a PDU session.                                    *)
InitPduSessionRequest ==
    /\ registered /\ enc[0].pc = "idle" /\ nul < MaxUl
    /\ enc' = Start(0, "nas")
    /\ UNCHANGED <<ue, amf, dl, ul, lost, ndl, last, nul, used>>

-----------------------------------------------------------------------------
(* UE, downlink: DispatchNas.                                              *)

(* Mutant: an equal sequence number counts as stale. *)
HandlerAuthenticationRequest_Strict(m) ==
    LET fresh == sqnUe < m.sqn
    IN  /\ kamf' = IF fresh THEN m.key ELSE kamf
        /\ ul' = Append(ul, [type |-> IF fresh THEN "authResponse" ELSE "authFailure",
                             key |-> m.key, sqn |-> sqnUe, mac |-> Zero])
        /\ UNCHANGED <<knas, sqnUe, ulCount, dlCount, registered, enc, last, lost>>

(* DeriveRESstarAndSetKey: the subscription is passed by value, so the     *)
(* sequence number of the UE stays what it was.                            *)
HandlerAuthenticationRequest(m) ==
    LET fresh == ~(sqnUe > m.sqn)
    IN  /\ kamf' = IF fresh THEN m.key ELSE kamf
        /\ ul' = Append(ul, [type |-> IF fresh THEN "authResponse" ELSE "authFailure",
                             key |-> m.key, sqn |-> sqnUe, mac |-> Zero])
        /\ UNCHANGED <<knas, sqnUe, ulCount, dlCount, registered, enc, last, lost>>

(* The counts of a Security Mode Command are set to 0 and the keys derived *)
(* before the MAC is checked; NASEncode resets both counts once more.      *)
HandlerSecurityModeCommand(m) ==
    /\ knas' = kamf /\ dlCount' = Zero
    /\ IF kamf = m.key /\ m.mac = Zero
       THEN /\ ulCount' = Zero /\ enc' = Start(0, "smcComplete")
            /\ last' = m.n /\ UNCHANGED lost
       ELSE lost' = lost \cup {"dl"} /\ UNCHANGED <<ulCount, enc, last>>
    /\ UNCHANGED <<kamf, sqnUe, registered, ul>>

(* What an accepted message starts: an answer, a T3580 goroutine, nothing. *)
Handle(m) ==
    \/ m.type = "regAccept" /\ registered' = TRUE /\ enc' = Start(0, "regComplete")
    \/ m.type = "cmd" /\ enc' = Start(0, "nas") /\ UNCHANGED registered
    \/ m.type = "accept" /\ UNCHANGED <<enc, registered>>
    \/ /\ m.type = "reject"
       /\ \/ \E r \in Retries : enc[r].pc = "idle" /\ enc' = Start(r, "nas")
          \/ (\A r \in Retries : enc[r].pc # "idle") /\ UNCHANGED enc
       /\ UNCHANGED registered

(* Any other protected message: the count is replaced before the check.    *)
HandlerProtected(m) ==
    /\ dlCount' = Estimate(dlCount, m.sqn)
    /\ IF knas = m.key /\ m.mac = Estimate(dlCount, m.sqn)
       THEN Handle(m) /\ last' = m.n /\ UNCHANGED lost
       ELSE lost' = lost \cup {"dl"} /\ UNCHANGED <<enc, registered, last>>
    /\ UNCHANGED <<kamf, knas, sqnUe, ulCount, ul>>

DispatchNas(m) ==
    /\ \/ m.type = "auth" /\ HandlerAuthenticationRequest(m)
       \/ m.type = "smc" /\ HandlerSecurityModeCommand(m)
       \/ m.type \notin {"auth", "smc"} /\ HandlerProtected(m)
    /\ UNCHANGED <<amf, ndl, nul, used>>

(* Mutant: a message is dropped when the UE is busy encoding. *)
Receive_Drop ==
    /\ dl # << >>
    /\ dl' = Tail(dl)
    /\ IF enc[0].pc = "idle"
       THEN DispatchNas(Head(dl))
       ELSE UNCHANGED <<ue, enc, amf, ul, lost, ndl, last, nul, used>>

(* The gNodeB handles each NGAP message in a goroutine of its own.         *)
Receive ==
    /\ enc[0].pc = "idle" /\ dl # << >>
    /\ \/ dl' = Tail(dl) /\ DispatchNas(Head(dl))
       \/ /\ Reorder
          /\ \E i \in 2..Len(dl) :
                 /\ dl' = SubSeq(dl, 1, i - 1) \o SubSeq(dl, i + 1, Len(dl))
                 /\ DispatchNas(dl[i])

-----------------------------------------------------------------------------
AmfNext == AuthenticationRequest \/ Command \/ AmfDispatch
UeNext  == Receive \/ InitPduSessionRequest \/ \E e \in Enc : NASEncode(e)

Next == AmfNext \/ UeNext

Spec == Init /\ [][Next]_vars

(* Goroutines run, and a core answers what it receives.                    *)
Fairness ==
    /\ WF_vars(Receive) /\ WF_vars(AmfDispatch) /\ WF_vars(AuthenticationRequest)
    /\ \A e \in Enc : WF_vars(NASEncode(e))

LiveSpec == Spec /\ Fairness

-----------------------------------------------------------------------------
Sqn == 0..SqnMod - 1

DlMsg == [type : {"auth"}, key : Nat, sqn : Nat, mac : Count, n : Nat]
         \cup [type : {"smc", "regAccept", "cmd", "accept", "reject"},
               key : Nat, sqn : Sqn, mac : Count, n : Nat]
UlMsg == [type : Plain, key : Nat, sqn : Nat, mac : Count]
         \cup [type : {"smcComplete", "regComplete", "nas"}, key : Nat, sqn : Sqn, mac : Count]
EncRec == [pc : {"idle", "sqn", "mac", "load", "store", "send"},
           type : {"smcComplete", "regComplete", "nas"},
           sqn : Sqn, mac : Count, key : Nat, tmp : Count]

(* Type invariant of the two security contexts, the encoders and the       *)
(* messages between them.                                                  *)
TypeOK ==
    /\ kamf \in Nat /\ knas \in Nat /\ sqnUe \in Nat
    /\ ulCount \in Count /\ dlCount \in Count /\ registered \in BOOLEAN
    /\ enc \in [Enc -> EncRec]
    /\ amfState \in {"Deregistered", "AuthenticationInitiated", "Authenticated", "Registered"}
    /\ vec \in Nat /\ sqnHn \in Nat /\ amfKey \in Nat /\ amfUl \in Count /\ amfDl \in Count
    /\ dl \in Seq(DlMsg) /\ ul \in Seq(UlMsg)
    /\ lost \subseteq {"dl", "ul"} /\ ndl \in Nat /\ last \in Nat
    /\ nul \in Nat /\ used \subseteq (Nat \X Count)

(* No message is lost to the security layer: whatever the UE's DispatchNas *)
(* or the AMF's Decode receives verifies, also across a wrap of the        *)
(* sequence number, a repeated authentication and a new security context.  *)
NothingLost == lost = {}

(* The channel NAS protection makes of the downlink; messages that are     *)
(* overtaken are given up.                                                 *)
Channel == INSTANCE NasChannel WITH sent <- ndl, accepted <- last, Lossy <- Reorder

(* Downlink protection is an order: the UE acts on no message twice and on *)
(* none that the AMF protected before one the UE has already acted on,     *)
(* however the gNodeB's goroutines deliver them; in order, it skips none.  *)
DownlinkChannel == Channel!Spec

(* Delivery in order is delivery: the UE acts on every protected message   *)
(* in turn, and the next one under way is always acted on eventually.      *)
DownlinkDelivered == Channel!FairSpec

(* A count protects one uplink message: until all counts are used up, no   *)
(* two messages of the UE carry the same count under the same key          *)
(* ("Increase UL Count" in NASEncode).                                     *)
UlCountsUnique == nul <= SqnMod * OvfMod => Cardinality(used) = nul

(* A count protects one downlink message: two protected messages on their  *)
(* way to the UE never carry the same count ("Increase DL Count" in the    *)
(* AMF's Encode).                                                          *)
DlCountsUnique ==
    \A i, j \in 1..Len(dl) :
        i < j /\ dl[i].n # 0 /\ dl[i].key = dl[j].key => dl[i].mac # dl[j].mac

(* Freshness in 5G-AKA: once the UE holds the key of a vector, it never    *)
(* goes back to the key of an older one ("updated sqn value" in            *)
(* DeriveRESstarAndSetKey).  Not so when Reorder delays a challenge.        *)
KeysFresh == [][kamf' >= kamf]_vars

(* Every UE ends up registered at the AMF and with the AMF's key, whatever *)
(* sequence number it is configured with and whichever challenges the AMF  *)
(* repeats.                                                                *)
Registers == <>(amfState = "Registered" /\ knas = amfKey)

=============================================================================
