-------------------------- MODULE NasSecurityProofs --------------------------
(***************************************************************************)
(* Proofs about NasSecurity: the type invariant for every value of the     *)
(* constants, and that nothing is lost to the security layer when messages *)
(* arrive in order and one goroutine encodes.                              *)
(***************************************************************************)
EXTENDS NasSecurity, TLAPS

(* Before the Security Mode Command: only challenges and their plain       *)
(* answers are under way, and the answer to the last challenge comes last. *)
Authenticating == amfState \in {"Deregistered", "AuthenticationInitiated"}

BeforeInv == Authenticating =>
    /\ enc[0].pc = "idle" /\ registered = FALSE
    /\ \A i \in 1..Len(dl) : /\ dl[i].type = "auth" /\ dl[i].key <= vec
                             /\ dl[i].key = vec => i = Len(dl)
    /\ \A i \in 1..Len(ul) : /\ ul[i].type \in Plain /\ ul[i].key <= vec
                             /\ ul[i].key = vec => i = Len(ul) /\ dl = << >>
                             /\ ul[i].key = vec /\ ul[i].type = "authResponse" => kamf = vec

(* The Security Mode Command is still on its way.                          *)
SmcPending == dl # << >> /\ dl[1].type = "smc"

(* Downlink: the counts of the messages under way are consecutive, from    *)
(* the last one the UE saw to the next one of the AMF.                     *)
DlInv == Secured =>
    /\ kamf = amfKey
    /\ \A i \in 1..Len(dl) : dl[i].type # "auth" /\ dl[i].key = amfKey /\ dl[i].sqn = dl[i].mac.sqn
    /\ \A i \in 2..Len(dl) : dl[i].type # "smc" /\ dl[i].mac = AddOne(dl[i - 1].mac)
    /\ dl # << >> => amfDl = AddOne(dl[Len(dl)].mac)
    /\ SmcPending => dl[1].mac = Zero
    /\ ~SmcPending => knas = amfKey
    /\ ~SmcPending /\ dl # << >> => dl[1].mac = AddOne(dlCount)
    /\ ~SmcPending /\ dl = << >> => amfDl = AddOne(dlCount)

(* The count of the message being encoded, or of the next one.             *)
NextMac == IF enc[0].pc = "send" THEN enc[0].mac ELSE ulCount

Completing == enc[0].pc # "idle" /\ enc[0].type = "smcComplete"

(* The UE's encoder works on the count it read first.                      *)
EncInv == Secured =>
    /\ SmcPending => ul = << >> /\ enc[0].pc = "idle" /\ registered = FALSE
    /\ enc[0].pc \in {"mac", "load", "store", "send"} => enc[0].sqn = NextMac.sqn
    /\ enc[0].pc \in {"load", "store", "send"} => enc[0].mac = NextMac /\ enc[0].key = amfKey
    /\ enc[0].pc = "store" => enc[0].tmp = ulCount
    /\ enc[0].pc = "send" => ulCount = AddOne(enc[0].mac)

(* Uplink: the counts under way are consecutive, from the last one the AMF *)
(* saw to the next one of the UE; a Security Mode Complete starts at zero. *)
UlInv == Secured =>
    /\ \A i \in 1..Len(ul) : /\ ul[i].type \notin Plain /\ ul[i].key = amfKey
                             /\ ul[i].sqn = ul[i].mac.sqn
    /\ \A i \in 2..Len(ul) : ul[i].type # "smcComplete" /\ ul[i].mac = AddOne(ul[i - 1].mac)
    /\ ul # << >> => ul[1].mac = IF ul[1].type = "smcComplete" THEN Zero ELSE AddOne(amfUl)
    /\ Completing => ul = << >> /\ NextMac = Zero
    /\ ~SmcPending /\ ~Completing /\ ul # << >> => NextMac = AddOne(ul[Len(ul)].mac)
    /\ ~SmcPending /\ ~Completing /\ ul = << >> => NextMac = AddOne(amfUl)

IInv == TypeOK /\ BeforeInv /\ DlInv /\ EncInv /\ UlInv /\ NothingLost

-----------------------------------------------------------------------------
(* Counts stay within their widths (AddOne, and the estimate of            *)
(* DispatchNas and Decode), and the estimate of a receiver that is one     *)
(* message behind is the count of the sender.                              *)
LEMMA CountFacts ==
    /\ Zero \in Count
    /\ \A c \in Count : AddOne(c) \in Count /\ AddOne(c).sqn \in Sqn
    /\ \A c \in Count, s \in Sqn : Estimate(c, s) \in Count
    /\ \A c \in Count : Estimate(c, AddOne(c).sqn) = AddOne(c)
    /\ Estimate(Zero, Zero.sqn) = Zero
<1>1. Zero \in Count
  BY NasAssumption DEF Zero, Count
<1>2. ASSUME NEW c \in Count
      PROVE  /\ AddOne(c) \in Count /\ AddOne(c).sqn \in Sqn
             /\ Estimate(c, AddOne(c).sqn) = AddOne(c)
  <2>1. c.ovf \in 0..OvfMod - 1 /\ c.sqn \in 0..SqnMod - 1
    BY DEF Count
  <2>2. NextOvf(c.ovf) \in 0..OvfMod - 1
    BY <2>1, NasAssumption DEF NextOvf
  <2>3. CASE c.sqn + 1 = SqnMod
    BY <2>1, <2>2, <2>3, NasAssumption DEF AddOne, Estimate, Count, Sqn
  <2>4. CASE c.sqn + 1 # SqnMod
    BY <2>1, <2>2, <2>4, NasAssumption DEF AddOne, Estimate, Count, Sqn
  <2>5. QED BY <2>3, <2>4
<1>3. ASSUME NEW c \in Count, NEW s \in Sqn PROVE Estimate(c, s) \in Count
  <2>1. c.ovf \in 0..OvfMod - 1 /\ c.sqn \in 0..SqnMod - 1
    BY DEF Count
  <2>2. NextOvf(c.ovf) \in 0..OvfMod - 1
    BY <2>1, NasAssumption DEF NextOvf
  <2>3. QED BY <2>1, <2>2, NasAssumption DEF Estimate, Count, Sqn
<1>4. Estimate(Zero, Zero.sqn) = Zero
  BY NasAssumption DEF Estimate, Zero
<1>5. QED BY <1>1, <1>2, <1>3, <1>4

(* Encode sends a well-typed message and leaves both counts of the AMF     *)
(* within their widths.                                                    *)
LEMMA EncodeType ==
    ASSUME TypeOK, NEW type \in {"smc", "regAccept", "cmd", "accept", "reject"},
           NEW key \in Nat, NEW u \in Count, Encode(type, key, u)
    PROVE  dl' \in Seq(DlMsg) /\ amfUl' \in Count /\ amfDl' \in Count /\ ndl' \in Nat
<1> DEFINE c == EncodeCount(type)
<1>1. c \in Count /\ c.sqn \in Sqn
  BY CountFacts DEF EncodeCount, TypeOK, Count, Sqn
<1>2. AddOne(c) \in Count
  BY <1>1, CountFacts
<1>3. [type |-> type, key |-> key, sqn |-> c.sqn, mac |-> c, n |-> ndl + 1] \in DlMsg
  BY <1>1 DEF TypeOK, DlMsg
<1>4. dl' \in Seq(DlMsg) /\ ndl' \in Nat
  BY <1>3 DEF Encode, TypeOK
<1>5. amfUl' \in Count /\ amfDl' \in Count
  BY <1>2 DEF Encode, SetDLCount, TypeOK
<1>6. QED BY <1>4, <1>5

(* A started encoder has a well-typed record.                              *)
LEMMA StartType ==
    ASSUME TypeOK, NEW e \in Enc, NEW t \in {"smcComplete", "regComplete", "nas"}
    PROVE  Start(e, t) \in [Enc -> EncRec]
<1>1. Rec("sqn", t, 0, Zero, 0, Zero) \in EncRec
  BY CountFacts, NasAssumption DEF Rec, EncRec, Sqn
<1>2. QED BY <1>1 DEF Start, TypeOK

(* The two security contexts, the encoders and the messages under way have *)
(* their types at the start.                                               *)
LEMMA TypeInit == Init => TypeOK
<1> SUFFICES ASSUME Init PROVE TypeOK
  OBVIOUS
<1>1. Idle \in EncRec
  BY CountFacts, NasAssumption DEF Idle, Rec, EncRec, Sqn
<1>2. sqnUe \in Nat
  BY NasAssumption DEF Init
<1>3. enc \in [Enc -> EncRec]
  BY <1>1 DEF Init
<1>4. dl \in Seq(DlMsg) /\ ul \in Seq(UlMsg) /\ used \subseteq (Nat \X Count) /\ lost \subseteq {"dl", "ul"}
  BY DEF Init
<1>5. ulCount \in Count /\ dlCount \in Count /\ amfUl \in Count /\ amfDl \in Count
  BY CountFacts DEF Init
<1>6. QED BY <1>2, <1>3, <1>4, <1>5 DEF Init, TypeOK

(* Every step of the AMF keeps the types.                                  *)
LEMMA TypeAmf == TypeOK /\ AmfNext => TypeOK'
<1> SUFFICES ASSUME TypeOK, AmfNext PROVE TypeOK'
  OBVIOUS
<1>1. CASE AuthenticationRequest
  <2>1. NextSqn \in Nat /\ vec + 1 \in Nat
    BY DEF NextSqn, TypeOK
  <2>2. [type |-> "auth", key |-> vec + 1, sqn |-> NextSqn, mac |-> Zero, n |-> 0] \in DlMsg
    BY <2>1, CountFacts DEF DlMsg
  <2>3. dl' \in Seq(DlMsg)
    BY <1>1, <2>2 DEF AuthenticationRequest, TypeOK
  <2>4. QED BY <1>1, <2>1, <2>3 DEF AuthenticationRequest, TypeOK, ue
<1>2. CASE Command
  <2>1. dl' \in Seq(DlMsg) /\ amfUl' \in Count /\ amfDl' \in Count /\ ndl' \in Nat
    BY <1>2, EncodeType DEF Command, TypeOK
  <2>2. QED BY <1>2, <2>1 DEF Command, TypeOK, ue
<1>3. CASE AmfDispatch
  <2> DEFINE m == Head(ul)
  <2>1. m \in UlMsg /\ ul' \in Seq(UlMsg)
    BY <1>3 DEF AmfDispatch, TypeOK
  <2>2. kamf' \in Nat /\ knas' \in Nat /\ sqnUe' \in Nat /\ ulCount' \in Count /\ dlCount' \in Count
        /\ registered' \in BOOLEAN /\ enc' \in [Enc -> EncRec] /\ last' \in Nat /\ nul' \in Nat
        /\ used' \subseteq (Nat \X Count)
    BY <1>3 DEF AmfDispatch, TypeOK, ue
  <2>3. lost' \subseteq {"dl", "ul"}
    BY <1>3 DEF AmfDispatch, TypeOK
  <2> DEFINE AmfTypes == /\ amfState' \in {"Deregistered", "AuthenticationInitiated", "Authenticated", "Registered"}
                         /\ vec' \in Nat /\ sqnHn' \in Nat /\ amfKey' \in Nat
                         /\ amfUl' \in Count /\ amfDl' \in Count /\ dl' \in Seq(DlMsg) /\ ndl' \in Nat
  <2>4. ASSUME AuthenticationResponse(m) PROVE AmfTypes
    <3>1. CASE amfState = "AuthenticationInitiated" /\ m.key = vec
      <4>1. Encode("smc", vec, Zero) /\ amfState' = "Authenticated" /\ amfKey' = vec
            /\ vec' = vec /\ sqnHn' = sqnHn
        BY <2>4, <3>1 DEF AuthenticationResponse
      <4>2. dl' \in Seq(DlMsg) /\ amfUl' \in Count /\ amfDl' \in Count /\ ndl' \in Nat
        BY <4>1, EncodeType, CountFacts DEF TypeOK
      <4>3. QED BY <4>1, <4>2 DEF TypeOK
    <3>2. CASE ~(amfState = "AuthenticationInitiated" /\ m.key = vec)
      BY <2>4, <3>2 DEF AuthenticationResponse, amf, TypeOK
    <3>3. QED BY <3>1, <3>2
  <2>5. ASSUME AuthenticationFailure(m) PROVE AmfTypes
    <3>1. m.sqn \in Nat
      BY <2>1, NasAssumption DEF UlMsg, Sqn
    <3>2. QED BY <2>5, <3>1 DEF AuthenticationFailure, TypeOK
  <2>6. ASSUME m.type \notin Plain, Accepted(m) PROVE AmfTypes
    <3>1. m.sqn \in Sqn
      BY <2>1, <2>6 DEF UlMsg
    <3>2. Decoded(m) \in Count
      BY <3>1, CountFacts DEF Decoded, TypeOK
    <3> DEFINE c == Decoded(m)
    <3> HIDE DEF c
    <3>3. vec' = vec /\ sqnHn' = sqnHn /\ amfKey' = amfKey
      BY <2>6 DEF Accepted
    <3>4. CASE SecurityModeComplete(c)
      BY <3>2, <3>3, <3>4, EncodeType DEF SecurityModeComplete, TypeOK, c
    <3>5. CASE RegistrationComplete(c)
      BY <3>2, <3>3, <3>5, EncodeType DEF RegistrationComplete, TypeOK, c
    <3>6. CASE UlNasTransport(c)
      <4>1. PICK answer \in {"accept", "cmd", "reject"} : Encode(answer, amfKey, c) /\ amfState' = amfState
        BY <3>6 DEF UlNasTransport
      <4>2. QED BY <3>2, <3>3, <4>1, EncodeType DEF TypeOK, c
    <3>7. CASE NoAnswer(m, c)
      BY <3>2, <3>3, <3>7 DEF NoAnswer, TypeOK, c
    <3>8. QED BY <2>6, <3>4, <3>5, <3>6, <3>7 DEF Accepted, c
  <2>7. ASSUME UNCHANGED <<amf, dl, ndl>> PROVE AmfTypes
    BY <2>7 DEF amf, TypeOK
  <2>8. AmfTypes
    BY <1>3, <2>4, <2>5, <2>6, <2>7 DEF AmfDispatch
  <2>9. QED BY <2>1, <2>2, <2>3, <2>8 DEF TypeOK
<1>4. QED BY <1>1, <1>2, <1>3 DEF AmfNext

(* Every step of the UE keeps the types: the dispatch of a message.        *)
LEMMA TypeDispatch ==
    ASSUME TypeOK, NEW m \in DlMsg, DispatchNas(m), dl' \in Seq(DlMsg)
    PROVE  TypeOK'
<1>1. /\ amfState' = amfState /\ vec' = vec /\ sqnHn' = sqnHn /\ amfKey' = amfKey /\ amfUl' = amfUl
      /\ amfDl' = amfDl /\ ndl' = ndl /\ nul' = nul /\ used' = used
  BY DEF DispatchNas, amf
<1>2. m.key \in Nat /\ m.n \in Nat /\ m.sqn \in Nat
  BY NasAssumption DEF DlMsg, Sqn
<1>3. CASE HandlerAuthenticationRequest(m)
  <2> DEFINE r == [type |-> IF ~(sqnUe > m.sqn) THEN "authResponse" ELSE "authFailure",
                   key |-> m.key, sqn |-> sqnUe, mac |-> Zero]
  <2>1. r \in UlMsg
    BY <1>2, CountFacts DEF UlMsg, Plain, TypeOK
  <2>2. ul' = Append(ul, r)
    BY <1>3 DEF HandlerAuthenticationRequest
  <2>3. ul' \in Seq(UlMsg)
    BY <2>1, <2>2 DEF TypeOK
  <2>4. QED BY <1>1, <1>2, <1>3, <2>3 DEF HandlerAuthenticationRequest, TypeOK
<1>4. CASE HandlerSecurityModeCommand(m)
  <2>1. Start(0, "smcComplete") \in [Enc -> EncRec]
    BY StartType DEF Enc
  <2>2. enc' \in [Enc -> EncRec] /\ ulCount' \in Count /\ last' \in Nat /\ lost' \subseteq {"dl", "ul"}
    BY <1>2, <1>4, <2>1, CountFacts DEF HandlerSecurityModeCommand, TypeOK
  <2>3. QED BY <1>1, <1>4, <2>2, CountFacts DEF HandlerSecurityModeCommand, TypeOK
<1>5. CASE m.type \notin {"auth", "smc"} /\ HandlerProtected(m)
  <2>1. m.sqn \in Sqn
    BY <1>5 DEF DlMsg
  <2>2. dlCount' \in Count
    BY <1>5, <2>1, CountFacts DEF HandlerProtected, TypeOK
  <2>3. \A e \in Enc, t \in {"smcComplete", "regComplete", "nas"} : Start(e, t) \in [Enc -> EncRec]
    BY StartType
  <2>4. 0 \in Enc /\ Retries \subseteq Enc
    BY DEF Enc
  <2>5. ASSUME Handle(m) PROVE enc' \in [Enc -> EncRec] /\ registered' \in BOOLEAN
    BY <2>3, <2>4, <2>5 DEF Handle, TypeOK
  <2>6. enc' \in [Enc -> EncRec] /\ registered' \in BOOLEAN
    BY <1>5, <2>5 DEF HandlerProtected, TypeOK
  <2>7. last' \in Nat /\ lost' \subseteq {"dl", "ul"}
    BY <1>2, <1>5 DEF HandlerProtected, TypeOK
  <2>8. QED BY <1>1, <1>5, <2>2, <2>6, <2>7 DEF HandlerProtected, TypeOK
<1>6. QED BY <1>3, <1>4, <1>5 DEF DispatchNas

(* The same for a step of NASEncode.                                       *)
LEMMA TypeEncode == \A e \in Enc : TypeOK /\ NASEncode(e) => TypeOK'
<1> SUFFICES ASSUME NEW e \in Enc, TypeOK, NASEncode(e) PROVE TypeOK'
  OBVIOUS
<1> DEFINE r == enc[e]
<1>1. r \in EncRec
  BY DEF TypeOK
<1>2. r.type \in {"smcComplete", "regComplete", "nas"} /\ r.sqn \in Sqn /\ r.mac \in Count
      /\ r.key \in Nat /\ r.tmp \in Count
  BY <1>1 DEF EncRec
<1>3. ulCount.sqn \in Sqn
  BY DEF TypeOK, Count, Sqn
<1> HIDE DEF r
<1>4. /\ amfState' = amfState /\ vec' = vec /\ sqnHn' = sqnHn /\ amfKey' = amfKey /\ amfUl' = amfUl
      /\ amfDl' = amfDl /\ ndl' = ndl /\ dl' = dl /\ lost' = lost /\ last' = last
  BY DEF NASEncode, amf
<1>5. CASE ReadSqn(e)
  <2>1. Rec("mac", r.type, ulCount.sqn, r.mac, r.key, r.tmp) \in EncRec
    BY <1>2, <1>3 DEF Rec, EncRec
  <2>2. enc' \in [Enc -> EncRec]
    BY <1>5, <2>1 DEF ReadSqn, TypeOK, r
  <2>3. QED BY <1>4, <1>5, <2>2 DEF ReadSqn, TypeOK, ue
<1>6. CASE CalculateMac(e)
  <2>1. Rec("load", r.type, r.sqn, ulCount, knas, r.tmp) \in EncRec
    BY <1>2 DEF Rec, EncRec, TypeOK
  <2>2. enc' \in [Enc -> EncRec]
    BY <1>6, <2>1 DEF CalculateMac, TypeOK, r
  <2>3. QED BY <1>4, <1>6, <2>2 DEF CalculateMac, TypeOK, ue
<1>7. CASE LoadCount(e)
  <2>1. Rec("store", r.type, r.sqn, r.mac, r.key, ulCount) \in EncRec
    BY <1>2 DEF Rec, EncRec, TypeOK
  <2>2. enc' \in [Enc -> EncRec]
    BY <1>7, <2>1 DEF LoadCount, TypeOK, r
  <2>3. QED BY <1>4, <1>7, <2>2 DEF LoadCount, TypeOK, ue
<1>8. CASE StoreCount(e)
  <2>1. Rec("send", r.type, r.sqn, r.mac, r.key, r.tmp) \in EncRec
    BY <1>2 DEF Rec, EncRec
  <2>2. enc' \in [Enc -> EncRec]
    BY <1>8, <2>1 DEF StoreCount, TypeOK, r
  <2>3. ulCount' \in Count
    BY <1>2, <1>8, CountFacts DEF StoreCount, r
  <2>4. QED BY <1>4, <1>8, <2>2, <2>3 DEF StoreCount, TypeOK
<1>9. CASE SendToGnb(e)
  <2>1. Idle \in EncRec
    BY CountFacts, NasAssumption DEF Idle, Rec, EncRec, Sqn
  <2>2. enc' \in [Enc -> EncRec]
    BY <1>9, <2>1 DEF SendToGnb, TypeOK
  <2>3. [type |-> r.type, key |-> r.key, sqn |-> r.sqn, mac |-> r.mac] \in UlMsg
    BY <1>2 DEF UlMsg
  <2>4. ul' \in Seq(UlMsg)
    BY <1>9, <2>3 DEF SendToGnb, TypeOK, r
  <2>5. used' \subseteq (Nat \X Count) /\ nul' \in Nat
    BY <1>2, <1>9 DEF SendToGnb, TypeOK, r
  <2>6. QED BY <1>4, <1>9, <2>2, <2>4, <2>5 DEF SendToGnb, TypeOK, ue
<1>10. QED BY <1>5, <1>6, <1>7, <1>8, <1>9 DEF NASEncode

(* Every step keeps the types.                                             *)
LEMMA TypeStep == TypeOK /\ [Next]_vars => TypeOK'
<1> SUFFICES ASSUME TypeOK, [Next]_vars PROVE TypeOK'
  OBVIOUS
<1>1. CASE AmfNext
  BY <1>1, TypeAmf
<1>2. CASE Receive
  <2>1. CASE dl # << >> /\ dl' = Tail(dl) /\ DispatchNas(Head(dl))
    BY <2>1, TypeDispatch DEF TypeOK
  <2>2. ASSUME NEW i \in 2..Len(dl), dl' = SubSeq(dl, 1, i - 1) \o SubSeq(dl, i + 1, Len(dl)),
               DispatchNas(dl[i])
        PROVE  TypeOK'
    <3>1. dl[i] \in DlMsg
      BY DEF TypeOK
    <3>2. SubSeq(dl, 1, i - 1) \in Seq(DlMsg) /\ SubSeq(dl, i + 1, Len(dl)) \in Seq(DlMsg)
      BY DEF TypeOK
    <3>3. dl' \in Seq(DlMsg)
      BY <2>2, <3>2
    <3>4. QED BY <2>2, <3>1, <3>3, TypeDispatch
  <2>3. QED BY <1>2, <2>1, <2>2 DEF Receive
<1>3. CASE InitPduSessionRequest
  <2>1. enc' \in [Enc -> EncRec]
    BY <1>3, StartType DEF InitPduSessionRequest, Enc
  <2>2. QED BY <1>3, <2>1 DEF InitPduSessionRequest, TypeOK, ue, amf
<1>4. ASSUME NEW e \in Enc, NASEncode(e) PROVE TypeOK'
  BY <1>4, TypeEncode
<1>5. CASE UNCHANGED vars
  BY <1>5 DEF vars, ue, amf, TypeOK
<1>6. QED BY <1>1, <1>2, <1>3, <1>4, <1>5 DEF Next, UeNext

(* The security contexts of the UE and of the AMF, the encoders and every  *)
(* message under way have their types, whatever the core, the order of     *)
(* delivery and the number of retry goroutines; in particular both counts  *)
(* stay within their widths.                                               *)
THEOREM NasTypeCorrect == Spec => []TypeOK
<1>1. QED BY TypeInit, TypeStep, PTL DEF Spec

-----------------------------------------------------------------------------
(* The setting of the second theorem: a core that keeps both counts,       *)
(* delivery in order, and no retry goroutine.                              *)
InOrder == Core = "external" /\ Reorder = FALSE /\ Retries = {}

(* What taking the first message and adding a last one do to a channel.    *)
LEMMA TailFacts ==
    ASSUME NEW S, NEW s \in Seq(S), s # << >>
    PROVE  /\ Head(s) = s[1] /\ Tail(s) \in Seq(S) /\ Len(Tail(s)) = Len(s) - 1
           /\ Len(s) \in Nat /\ Len(s) >= 1
           /\ \A i \in 1..Len(s) - 1 : Tail(s)[i] = s[i + 1]
           /\ Tail(s) = << >> <=> Len(s) = 1
<1>1. /\ Head(s) = s[1] /\ Tail(s) \in Seq(S) /\ Len(Tail(s)) = Len(s) - 1
      /\ Len(s) \in Nat /\ Len(s) >= 1
      /\ \A i \in 1..Len(s) - 1 : Tail(s)[i] = s[i + 1]
  OBVIOUS
<1>2. \A t \in Seq(S) : t = << >> <=> Len(t) = 0
  OBVIOUS
<1>3. QED BY <1>1, <1>2

LEMMA AppendFacts ==
    ASSUME NEW S, NEW s \in Seq(S), NEW x \in S
    PROVE  /\ Append(s, x) \in Seq(S) /\ Append(s, x) # << >> /\ Len(Append(s, x)) = Len(s) + 1
           /\ Len(s) \in Nat /\ (s = << >> => Len(s) = 0) /\ (Len(s) = 0 => s = << >>)
           /\ \A i \in 1..Len(s) : Append(s, x)[i] = s[i]
           /\ Append(s, x)[Len(s) + 1] = x
  OBVIOUS

(* The messages under way have the fields their readers use.               *)
LEMMA ElementTypes ==
    ASSUME TypeOK
    PROVE  /\ \A i \in 1..Len(dl) : dl[i] \in DlMsg /\ dl[i].key \in Nat
           /\ \A i \in 1..Len(ul) : ul[i] \in UlMsg /\ ul[i].key \in Nat
<1>1. \A i \in 1..Len(dl) : dl[i] \in DlMsg
  BY DEF TypeOK
<1>2. \A i \in 1..Len(ul) : ul[i] \in UlMsg
  BY DEF TypeOK
<1>3. \A x \in DlMsg : x.key \in Nat
  BY DEF DlMsg
<1>4. \A x \in UlMsg : x.key \in Nat
  BY DEF UlMsg
<1>5. QED BY <1>1, <1>2, <1>3, <1>4

(* The AMF is either authenticating the UE or has a secured context.       *)
LEMMA TwoPhases == TypeOK => (Secured <=> ~Authenticating)
  BY DEF TypeOK, Secured, Authenticating

(* The inductive invariant holds at the start.                             *)
LEMMA IInit == Init => IInv
<1> SUFFICES ASSUME Init PROVE IInv
  OBVIOUS
<1>1. TypeOK
  BY TypeInit
<1>2. ~Secured
  BY DEF Init, Secured
<1>3. BeforeInv
  BY <1>1 DEF Init, BeforeInv, Idle, Rec, Enc
<1>4. QED BY <1>1, <1>2, <1>3 DEF IInv, DlInv, EncInv, UlInv, NothingLost, Init

(* A protected message of the AMF other than the Security Mode Command     *)
(* continues the downlink counts.                                          *)
LEMMA EncodeDl ==
    ASSUME IInv, InOrder, Secured, Secured', TypeOK', NEW u,
           NEW type \in {"regAccept", "cmd", "accept", "reject"}, Encode(type, amfKey, u),
           UNCHANGED <<kamf, knas, dlCount, amfKey>>
    PROVE  DlInv' /\ (SmcPending' <=> SmcPending) /\ amfUl' = u
<1> DEFINE x == [type |-> type, key |-> amfKey, sqn |-> amfDl.sqn, mac |-> amfDl, n |-> ndl + 1]
<1>1. dl' = Append(dl, x) /\ amfDl' = AddOne(amfDl) /\ amfUl' = u
  BY DEF Encode, EncodeCount, SetDLCount, InOrder
<1>2. x \in DlMsg
  BY DEF DlMsg, TypeOK, Count, Sqn, IInv
<1>3. x.type = type /\ x.key = amfKey /\ x.sqn = x.mac.sqn /\ x.mac = amfDl
  OBVIOUS
<1> HIDE DEF x
<1>4. /\ dl' # << >> /\ Len(dl') = Len(dl) + 1 /\ Len(dl) \in Nat
      /\ (dl = << >> => Len(dl) = 0) /\ (Len(dl) = 0 => dl = << >>)
      /\ \A i \in 1..Len(dl) : dl'[i] = dl[i]
      /\ dl'[Len(dl) + 1] = x
  BY <1>1, <1>2, AppendFacts DEF TypeOK, IInv
<1>5. SmcPending' <=> SmcPending
  BY <1>3, <1>4 DEF SmcPending
<1>6. dl'[Len(dl')].mac = amfDl
  BY <1>3, <1>4
<1>7. \A i \in 1..Len(dl') : dl'[i].type # "auth" /\ dl'[i].key = amfKey /\ dl'[i].sqn = dl'[i].mac.sqn
  BY <1>3, <1>4 DEF IInv, DlInv
<1>8. \A i \in 2..Len(dl') : dl'[i].type # "smc" /\ dl'[i].mac = AddOne(dl'[i - 1].mac)
  <2> SUFFICES ASSUME NEW i \in 2..Len(dl')
               PROVE  dl'[i].type # "smc" /\ dl'[i].mac = AddOne(dl'[i - 1].mac)
    OBVIOUS
  <2>1. CASE i \in 2..Len(dl)
    BY <1>4, <2>1 DEF IInv, DlInv
  <2>2. CASE i = Len(dl) + 1
    BY <1>3, <1>4, <2>2 DEF IInv, DlInv
  <2>3. QED BY <1>4, <2>1, <2>2
<1>9. SmcPending' => dl'[1].mac = Zero
  BY <1>4, <1>5 DEF IInv, DlInv, SmcPending
<1>10. ~SmcPending' => knas' = amfKey' /\ dl'[1].mac = AddOne(dlCount')
  <2>1. CASE dl = << >>
    BY <1>3, <1>4, <1>5, <2>1 DEF IInv, DlInv
  <2>2. CASE dl # << >>
    BY <1>4, <1>5, <2>2 DEF IInv, DlInv
  <2>3. QED BY <2>1, <2>2
<1>11. kamf' = amfKey'
  BY DEF IInv, DlInv
<1>12. QED BY <1>1, <1>4, <1>5, <1>6, <1>7, <1>8, <1>9, <1>10, <1>11 DEF DlInv

(* A new challenge: the answers under way are answers to older ones.       *)
LEMMA IChallenge == IInv /\ InOrder /\ TypeOK' /\ AuthenticationRequest => IInv'
<1> SUFFICES ASSUME IInv, InOrder, TypeOK', AuthenticationRequest PROVE IInv'
  OBVIOUS
<1>1. Authenticating /\ ~Secured'
  BY DEF AuthenticationRequest, Authenticating, Secured
<1> DEFINE x == [type |-> "auth", key |-> vec + 1, sqn |-> NextSqn, mac |-> Zero, n |-> 0]
<1>2. dl' = Append(dl, x) /\ vec' = vec + 1 /\ ul' = ul /\ enc' = enc /\ registered' = registered
      /\ lost' = lost /\ kamf' = kamf /\ vec \in Nat
  BY DEF AuthenticationRequest, ue, IInv, TypeOK
<1>3. x \in DlMsg /\ x.type = "auth" /\ x.key = vec + 1
  BY CountFacts, <1>2 DEF DlMsg, NextSqn, IInv, TypeOK
<1> HIDE DEF x
<1>4. /\ dl' # << >> /\ Len(dl') = Len(dl) + 1 /\ Len(dl) \in Nat
      /\ \A i \in 1..Len(dl) : dl'[i] = dl[i]
      /\ dl'[Len(dl) + 1] = x
  BY SMTT(20), <1>2, <1>3, AppendFacts DEF TypeOK, IInv
<1>5. \A i \in 1..Len(dl) : dl[i].key \in Nat
  BY ElementTypes DEF IInv
<1>6. \A i \in 1..Len(ul) : ul[i].key \in Nat
  BY ElementTypes DEF IInv
<1>7. \A i \in 1..Len(dl') : /\ dl'[i].type = "auth" /\ dl'[i].key <= vec'
                             /\ dl'[i].key = vec' => i = Len(dl')
  BY <1>1, <1>2, <1>3, <1>4, <1>5 DEF IInv, BeforeInv
<1>8. \A i \in 1..Len(ul') : ul'[i].type \in Plain /\ ul'[i].key <= vec' /\ ul'[i].key # vec'
  BY <1>1, <1>2, <1>6 DEF IInv, BeforeInv
<1>9. BeforeInv'
  BY <1>1, <1>2, <1>7, <1>8 DEF IInv, BeforeInv
<1>10. QED BY <1>1, <1>2, <1>9 DEF IInv, DlInv, EncInv, UlInv, NothingLost

(* A command of the AMF on its own initiative.                             *)
LEMMA ICommand == IInv /\ InOrder /\ TypeOK' /\ Command => IInv'
<1> SUFFICES ASSUME IInv, InOrder, TypeOK', Command PROVE IInv'
  OBVIOUS
<1>1. Secured /\ Secured' /\ ~Authenticating'
  BY DEF Command, Secured, Authenticating
<1>2. UNCHANGED <<kamf, knas, dlCount, amfKey, ulCount, registered, enc, ul, lost>>
  BY DEF Command, ue
<1>3. DlInv' /\ (SmcPending' <=> SmcPending) /\ amfUl' = amfUl
  BY <1>1, <1>2, EncodeDl DEF Command
<1>4. NextMac' = NextMac /\ (Completing' <=> Completing)
  BY <1>2 DEF NextMac, Completing
<1>5. EncInv'
  BY <1>1, <1>2, <1>3, <1>4 DEF IInv, EncInv
<1>6. UlInv'
  BY <1>1, <1>2, <1>3, <1>4 DEF IInv, UlInv
<1>7. QED BY <1>1, <1>2, <1>3, <1>5, <1>6 DEF IInv, BeforeInv, NothingLost

(* An uplink message the AMF receives in a secured context verifies: it is *)
(* the Security Mode Complete with count zero, or one ahead of the AMF.    *)
LEMMA UlVerifies ==
    ASSUME IInv, Secured, ul # << >>
    PROVE  /\ Head(ul) = ul[1] /\ ul[1].type \notin Plain
           /\ Verified(Head(ul)) /\ Decoded(Head(ul)) = ul[1].mac
<1>1. Head(ul) = ul[1] /\ 1 \in 1..Len(ul)
  BY TailFacts DEF IInv, TypeOK
<1>2. ul[1].type \notin Plain /\ ul[1].key = amfKey /\ ul[1].sqn = ul[1].mac.sqn
  BY <1>1 DEF IInv, UlInv
<1>3. CASE ul[1].type = "smcComplete"
  <2>1. ul[1].mac = Zero
    BY <1>3 DEF IInv, UlInv
  <2>2. Decoded(ul[1]) = Zero
    BY <1>2, <1>3, <2>1, CountFacts DEF Decoded
  <2>3. QED BY <1>1, <1>2, <2>1, <2>2 DEF Verified
<1>4. CASE ul[1].type # "smcComplete"
  <2>1. ul[1].mac = AddOne(amfUl) /\ amfUl \in Count
    BY <1>4 DEF IInv, UlInv, TypeOK
  <2>2. Decoded(ul[1]) = AddOne(amfUl)
    BY <1>2, <1>4, <2>1, CountFacts DEF Decoded
  <2>3. QED BY <1>1, <1>2, <2>1, <2>2 DEF Verified
<1>5. QED BY <1>3, <1>4

(* The AMF takes the first uplink message and remembers its count.         *)
LEMMA UlTaken ==
    ASSUME IInv, TypeOK', Secured, Secured', ul # << >>, ul' = Tail(ul), amfUl' = ul[1].mac,
           ~SmcPending, ~SmcPending', UNCHANGED <<enc, ulCount, amfKey>>
    PROVE  EncInv' /\ UlInv'
<1>1. /\ Len(ul') = Len(ul) - 1 /\ Len(ul) \in Nat /\ Len(ul) >= 1
      /\ \A i \in 1..Len(ul) - 1 : ul'[i] = ul[i + 1]
      /\ ul' = << >> <=> Len(ul) = 1
  BY TailFacts DEF IInv, TypeOK
<1>2. Len(ul') \in Nat
  BY <1>1
<1>3. NextMac' = NextMac /\ (Completing' <=> Completing)
  BY DEF NextMac, Completing
<1>4. ~Completing
  BY DEF IInv, UlInv
<1>5. EncInv'
  BY <1>3 DEF IInv, EncInv
<1>6. \A i \in 1..Len(ul') : /\ ul'[i].type \notin Plain /\ ul'[i].key = amfKey
                             /\ ul'[i].sqn = ul'[i].mac.sqn
  BY <1>1 DEF IInv, UlInv
<1>7. \A i \in 2..Len(ul') : ul'[i].type # "smcComplete" /\ ul'[i].mac = AddOne(ul'[i - 1].mac)
  <2> SUFFICES ASSUME NEW i \in 2..Len(ul')
               PROVE  ul'[i].type # "smcComplete" /\ ul'[i].mac = AddOne(ul'[i - 1].mac)
    OBVIOUS
  <2>1. ul'[i] = ul[i + 1] /\ ul'[i - 1] = ul[i] /\ i + 1 \in 2..Len(ul)
    BY <1>1
  <2>2. ul[i + 1].type # "smcComplete" /\ ul[i + 1].mac = AddOne(ul[(i + 1) - 1].mac)
    BY <2>1 DEF IInv, UlInv
  <2>3. QED BY <2>1, <2>2
<1>8. ul' # << >> => ul'[1].type # "smcComplete" /\ ul'[1].mac = AddOne(amfUl')
  <2> SUFFICES ASSUME ul' # << >>
               PROVE  ul'[1].type # "smcComplete" /\ ul'[1].mac = AddOne(amfUl')
    OBVIOUS
  <2>1. ul'[1] = ul[2] /\ 2 \in 2..Len(ul)
    BY <1>1, <1>2
  <2>2. ul[2].type # "smcComplete" /\ ul[2].mac = AddOne(ul[2 - 1].mac)
    BY <2>1 DEF IInv, UlInv
  <2>3. QED BY <2>1, <2>2
<1>9. NextMac = AddOne(ul[Len(ul)].mac)
  BY <1>4 DEF IInv, UlInv
<1>10. ul' # << >> => ul'[Len(ul')] = ul[Len(ul)]
  BY <1>1, <1>2
<1>11. UlInv'
  BY <1>1, <1>2, <1>3, <1>4, <1>6, <1>7, <1>8, <1>9, <1>10 DEF UlInv
<1>12. QED BY <1>5, <1>11

(* The AMF handles a message in a secured context: whatever it answers, no *)
(* count is skipped in either direction.                                   *)
LEMMA ISecuredDispatch == IInv /\ InOrder /\ TypeOK' /\ Secured /\ AmfDispatch => IInv'
<1> SUFFICES ASSUME IInv, InOrder, TypeOK', Secured, AmfDispatch PROVE IInv'
  OBVIOUS
<1> DEFINE m == Head(ul)
<1>1. /\ ul # << >> /\ ul' = Tail(ul)
      /\ UNCHANGED <<kamf, knas, sqnUe, ulCount, dlCount, registered, enc>>
  BY DEF AmfDispatch, ue
<1>2. m = ul[1] /\ m.type \notin Plain /\ Verified(m) /\ Decoded(m) = ul[1].mac
  BY <1>1, UlVerifies
<1>3. Accepted(m) /\ lost' = lost
  BY <1>2 DEF AmfDispatch, Plain
<1> DEFINE c == Decoded(m)
<1> HIDE DEF m
<1>4. ~SmcPending
  BY <1>1 DEF IInv, EncInv
<1>5. amfKey' = amfKey /\ vec' = vec
  BY <1>3 DEF Accepted
<1> HIDE DEF c
<1>6. ASSUME NEW type \in {"regAccept", "cmd", "accept", "reject"}, Encode(type, amfKey, c), Secured'
      PROVE  DlInv' /\ ~SmcPending' /\ amfUl' = c
  BY <1>1, <1>4, <1>5, <1>6, EncodeDl
<1>7. Secured' /\ DlInv' /\ ~SmcPending' /\ amfUl' = c
  <2>1. CASE SecurityModeComplete(c)
    BY <1>6, <2>1 DEF SecurityModeComplete, Secured
  <2>2. CASE RegistrationComplete(c)
    BY <1>6, <2>2 DEF RegistrationComplete, Secured
  <2>3. CASE UlNasTransport(c)
    <3>1. PICK answer \in {"accept", "cmd", "reject"} : Encode(answer, amfKey, c) /\ amfState' = amfState
      BY <2>3 DEF UlNasTransport
    <3>2. QED BY <1>6, <3>1 DEF Secured
  <2>4. CASE NoAnswer(m, c)
    <3>1. UNCHANGED <<amfState, amfDl, dl>> /\ amfUl' = c
      BY <2>4 DEF NoAnswer
    <3>2. SmcPending' <=> SmcPending
      BY <3>1 DEF SmcPending
    <3>3. DlInv'
      BY <1>1, <1>5, <3>1, <3>2 DEF IInv, DlInv, Secured
    <3>4. QED BY <1>4, <3>1, <3>2, <3>3 DEF Secured
  <2>5. QED BY <1>3, <2>1, <2>2, <2>3, <2>4 DEF Accepted, c
<1>8. EncInv' /\ UlInv'
  BY <1>1, <1>2, <1>4, <1>5, <1>7, UlTaken DEF c
<1>9. ~Authenticating'
  BY <1>7 DEF Secured, Authenticating
<1>10. QED BY <1>3, <1>7, <1>8, <1>9 DEF IInv, BeforeInv, NothingLost

(* The AMF handles an answer to a challenge: the answer to the last one    *)
(* starts the secured context, with nothing else under way.                *)
LEMMA IPlainDispatch == IInv /\ InOrder /\ TypeOK' /\ Authenticating /\ AmfDispatch => IInv'
<1> SUFFICES ASSUME IInv, InOrder, TypeOK', Authenticating, AmfDispatch PROVE IInv'
  OBVIOUS
<1> DEFINE m == Head(ul)
<1>1. /\ ul # << >> /\ ul' = Tail(ul)
      /\ UNCHANGED <<kamf, knas, sqnUe, ulCount, dlCount, registered, enc>>
  BY DEF AmfDispatch, ue
<1>2. /\ m = ul[1] /\ Len(ul') = Len(ul) - 1 /\ Len(ul) \in Nat /\ Len(ul) >= 1
      /\ \A i \in 1..Len(ul) - 1 : ul'[i] = ul[i + 1]
      /\ ul' = << >> <=> Len(ul) = 1
  BY <1>1, TailFacts DEF IInv, TypeOK
<1>3. m.type \in Plain
  BY <1>2 DEF IInv, BeforeInv
<1>4. lost' = lost /\ (\/ m.type = "authResponse" /\ AuthenticationResponse(m)
                       \/ m.type = "authFailure" /\ AuthenticationFailure(m))
  BY <1>3 DEF AmfDispatch
<1> HIDE DEF m
<1>5. CASE UNCHANGED <<amfState, vec, dl>>
  <2>1. Authenticating' /\ ~Secured'
    BY <1>5 DEF Authenticating, Secured
  <2>2. \A i \in 1..Len(dl') : /\ dl'[i].type = "auth" /\ dl'[i].key <= vec'
                               /\ dl'[i].key = vec' => i = Len(dl')
    BY <1>5 DEF IInv, BeforeInv
  <2>3. \A i \in 1..Len(ul') : /\ ul'[i].type \in Plain /\ ul'[i].key <= vec'
                               /\ ul'[i].key = vec' => i = Len(ul') /\ dl' = << >>
                               /\ ul'[i].key = vec' /\ ul'[i].type = "authResponse" => kamf' = vec'
    <3> SUFFICES ASSUME NEW i \in 1..Len(ul')
                 PROVE  /\ ul'[i].type \in Plain /\ ul'[i].key <= vec'
                        /\ ul'[i].key = vec' => i = Len(ul') /\ dl' = << >>
                        /\ ul'[i].key = vec' /\ ul'[i].type = "authResponse" => kamf' = vec'
      OBVIOUS
    <3>1. ul'[i] = ul[i + 1] /\ i + 1 \in 1..Len(ul)
      BY <1>2
    <3>2. /\ ul[i + 1].type \in Plain /\ ul[i + 1].key <= vec
          /\ ul[i + 1].key = vec => i + 1 = Len(ul) /\ dl = << >>
          /\ ul[i + 1].key = vec /\ ul[i + 1].type = "authResponse" => kamf = vec
      BY <3>1 DEF IInv, BeforeInv
    <3>3. kamf' = kamf /\ vec' = vec /\ dl' = dl
      BY <1>1, <1>5
    <3>4. i + 1 = Len(ul) => i = Len(ul')
      BY <1>2
    <3>5. QED BY <3>1, <3>2, <3>3, <3>4
  <2>4. BeforeInv'
    BY <1>1, <2>2, <2>3 DEF IInv, BeforeInv
  <2>5. QED BY <1>4, <2>1, <2>4 DEF IInv, DlInv, EncInv, UlInv, NothingLost
<1>6. CASE m.type = "authResponse" /\ amfState = "AuthenticationInitiated" /\ m.key = vec
  <2>1. amfState' = "Authenticated" /\ amfKey' = vec /\ vec' = vec /\ Encode("smc", vec, Zero)
    BY <1>4, <1>6 DEF AuthenticationResponse
  <2>2. Secured' /\ ~Authenticating'
    BY <2>1 DEF Secured, Authenticating
  <2>3. Len(ul) = 1 /\ dl = << >> /\ kamf = vec
    BY <1>2, <1>6 DEF IInv, BeforeInv
  <2> DEFINE x == [type |-> "smc", key |-> vec, sqn |-> Zero.sqn, mac |-> Zero, n |-> ndl + 1]
  <2>4. dl' = Append(dl, x) /\ amfDl' = AddOne(Zero) /\ amfUl' = Zero
    BY <2>1 DEF Encode, EncodeCount, SetDLCount, InOrder
  <2>5. x.type = "smc" /\ x.key = vec /\ x.sqn = x.mac.sqn /\ x.mac = Zero
    OBVIOUS
  <2> HIDE DEF x
  <2>6. Len(dl') = 1 /\ dl'[1] = x /\ dl' # << >> /\ ul' = << >>
    BY <1>2, <2>3, <2>4
  <2>7. SmcPending'
    BY <2>5, <2>6 DEF SmcPending
  <2>8. DlInv'
    BY <1>1, <2>1, <2>3, <2>4, <2>5, <2>6, <2>7 DEF DlInv
  <2>9. enc'[0].pc = "idle" /\ registered' = FALSE
    BY <1>1 DEF IInv, BeforeInv
  <2>10. EncInv'
    BY <2>6, <2>9 DEF EncInv
  <2>11. Len(ul') = 0
    BY <1>2, <2>3
  <2>12. UlInv'
    BY <2>6, <2>7, <2>9, <2>11 DEF UlInv, Completing
  <2>13. QED BY <1>4, <2>2, <2>8, <2>10, <2>12 DEF IInv, BeforeInv, NothingLost
<1>7. QED BY <1>4, <1>5, <1>6 DEF AuthenticationResponse, AuthenticationFailure, amf

(* The UE answers a challenge.                                             *)
LEMMA IChallenged == IInv /\ InOrder /\ TypeOK' /\ Authenticating /\ Receive => IInv'
<1> SUFFICES ASSUME IInv, InOrder, TypeOK', Authenticating, Receive PROVE IInv'
  OBVIOUS
<1> DEFINE m == Head(dl)
<1>1. dl # << >> /\ dl' = Tail(dl) /\ DispatchNas(m)
  BY DEF Receive, InOrder
<1>2. /\ m = dl[1] /\ Len(dl') = Len(dl) - 1 /\ Len(dl) \in Nat /\ Len(dl) >= 1
      /\ \A i \in 1..Len(dl) - 1 : dl'[i] = dl[i + 1]
      /\ dl' = << >> <=> Len(dl) = 1
  BY <1>1, TailFacts DEF IInv, TypeOK
<1>3. m.type = "auth" /\ m.key <= vec /\ m.key \in Nat /\ (m.key = vec => dl' = << >>)
  BY <1>2, ElementTypes DEF IInv, BeforeInv
<1>4. HandlerAuthenticationRequest(m) /\ UNCHANGED <<amfState, vec>>
  BY <1>1, <1>3 DEF DispatchNas, amf
<1> HIDE DEF m
<1>5. Authenticating' /\ ~Secured'
  BY <1>4 DEF Authenticating, Secured
<1> DEFINE fresh == ~(sqnUe > m.sqn)
           x == [type |-> IF fresh THEN "authResponse" ELSE "authFailure",
                 key |-> m.key, sqn |-> sqnUe, mac |-> Zero]
<1>6. ul' = Append(ul, x) /\ UNCHANGED <<registered, enc, lost>> /\ kamf' = IF fresh THEN m.key ELSE kamf
  BY <1>4 DEF HandlerAuthenticationRequest
<1>7. x.type = (IF fresh THEN "authResponse" ELSE "authFailure") /\ x.key = m.key /\ x.type \in Plain
  BY DEF Plain
<1>8. x.type = "authResponse" => kamf' = m.key
  BY <1>6, <1>7
<1>9. x \in UlMsg
  BY <1>3, CountFacts DEF UlMsg, IInv, TypeOK, Plain
<1> HIDE DEF x, fresh
<1>10. /\ Len(ul') = Len(ul) + 1 /\ Len(ul) \in Nat
       /\ \A i \in 1..Len(ul) : ul'[i] = ul[i]
       /\ ul'[Len(ul) + 1] = x
  BY <1>6, <1>9, AppendFacts DEF IInv, TypeOK
<1>11. \A i \in 1..Len(ul) : ul[i].type \in Plain /\ ul[i].key <= vec /\ ul[i].key # vec
  BY <1>1 DEF IInv, BeforeInv
<1>12. \A i \in 1..Len(ul') : /\ ul'[i].type \in Plain /\ ul'[i].key <= vec'
                              /\ ul'[i].key = vec' => i = Len(ul') /\ dl' = << >>
                              /\ ul'[i].key = vec' /\ ul'[i].type = "authResponse" => kamf' = vec'
  <2> SUFFICES ASSUME NEW i \in 1..Len(ul')
               PROVE  /\ ul'[i].type \in Plain /\ ul'[i].key <= vec'
                      /\ ul'[i].key = vec' => i = Len(ul') /\ dl' = << >>
                      /\ ul'[i].key = vec' /\ ul'[i].type = "authResponse" => kamf' = vec'
    OBVIOUS
  <2>1. CASE i \in 1..Len(ul)
    BY <1>4, <1>10, <1>11, <2>1
  <2>2. CASE i = Len(ul) + 1
    BY <1>3, <1>4, <1>7, <1>8, <1>10, <2>2
  <2>3. QED BY <1>10, <2>1, <2>2
<1>13. \A i \in 1..Len(dl') : /\ dl'[i].type = "auth" /\ dl'[i].key <= vec'
                              /\ dl'[i].key = vec' => i = Len(dl')
  <2> SUFFICES ASSUME NEW i \in 1..Len(dl')
               PROVE  /\ dl'[i].type = "auth" /\ dl'[i].key <= vec'
                      /\ dl'[i].key = vec' => i = Len(dl')
    OBVIOUS
  <2>1. dl'[i] = dl[i + 1] /\ i + 1 \in 1..Len(dl)
    BY <1>2
  <2>2. QED BY <1>2, <1>4, <2>1 DEF IInv, BeforeInv
<1>14. BeforeInv'
  BY <1>6, <1>12, <1>13 DEF IInv, BeforeInv
<1>15. QED BY <1>5, <1>6, <1>14 DEF IInv, DlInv, EncInv, UlInv, NothingLost

(* Taking the first protected message moves the downlink counts on by one. *)
LEMMA DlTaken ==
    ASSUME IInv, TypeOK', Secured, Secured', dl # << >>, dl' = Tail(dl), dlCount' = dl[1].mac,
           knas' = amfKey, UNCHANGED <<kamf, amfKey, amfDl>>
    PROVE  DlInv' /\ ~SmcPending'
<1>1. /\ Len(dl') = Len(dl) - 1 /\ Len(dl) \in Nat /\ Len(dl) >= 1
      /\ \A i \in 1..Len(dl) - 1 : dl'[i] = dl[i + 1]
      /\ dl' = << >> <=> Len(dl) = 1
  BY TailFacts DEF IInv, TypeOK
<1>2. \A i \in 1..Len(dl') : dl'[i].type # "auth" /\ dl'[i].key = amfKey' /\ dl'[i].sqn = dl'[i].mac.sqn
  BY <1>1 DEF IInv, DlInv
<1>3. \A i \in 2..Len(dl') : dl'[i].type # "smc" /\ dl'[i].mac = AddOne(dl'[i - 1].mac)
  <2> SUFFICES ASSUME NEW i \in 2..Len(dl')
               PROVE  dl'[i].type # "smc" /\ dl'[i].mac = AddOne(dl'[i - 1].mac)
    OBVIOUS
  <2>1. dl'[i] = dl[i + 1] /\ dl'[i - 1] = dl[i] /\ i + 1 \in 2..Len(dl)
    BY <1>1
  <2>2. dl[i + 1].type # "smc" /\ dl[i + 1].mac = AddOne(dl[(i + 1) - 1].mac)
    BY <2>1 DEF IInv, DlInv
  <2>3. QED BY <2>1, <2>2
<1>4. dl' # << >> => dl'[1].type # "smc" /\ dl'[1].mac = AddOne(dlCount')
  <2> SUFFICES ASSUME dl' # << >> PROVE dl'[1].type # "smc" /\ dl'[1].mac = AddOne(dlCount')
    OBVIOUS
  <2>1. dl'[1] = dl[2] /\ 2 \in 2..Len(dl)
    BY <1>1
  <2>2. dl[2].type # "smc" /\ dl[2].mac = AddOne(dl[2 - 1].mac)
    BY <2>1 DEF IInv, DlInv
  <2>3. QED BY <2>1, <2>2
<1>5. amfDl = AddOne(dl[Len(dl)].mac) /\ kamf = amfKey
  BY DEF IInv, DlInv
<1>6. dl' # << >> => dl'[Len(dl')] = dl[Len(dl)]
  BY <1>1
<1>7. ~SmcPending'
  BY <1>4 DEF SmcPending
<1>8. dl' = << >> => amfDl' = AddOne(dlCount')
  BY <1>1, <1>5
<1>9. QED BY <1>2, <1>3, <1>4, <1>5, <1>6, <1>7, <1>8 DEF DlInv

(* The encoder of the UE when it is started for a message.                 *)
LEMMA Started ==
    ASSUME TypeOK, NEW t, enc' = Start(0, t)
    PROVE  enc'[0].pc = "sqn" /\ enc'[0].type = t
  BY DEF TypeOK, Start, Enc, Rec

(* The UE handles a message in a secured context: it verifies, and its     *)
(* answer continues the uplink counts.                                     *)
LEMMA ISecuredReceive == IInv /\ InOrder /\ TypeOK' /\ Secured /\ Receive => IInv'
<1> SUFFICES ASSUME IInv, InOrder, TypeOK', Secured, Receive PROVE IInv'
  OBVIOUS
<1> DEFINE m == Head(dl)
<1>1. dl # << >> /\ dl' = Tail(dl) /\ DispatchNas(m) /\ enc[0].pc = "idle"
  BY DEF Receive, InOrder
<1>2. m = dl[1] /\ 1 \in 1..Len(dl)
  BY <1>1, TailFacts DEF IInv, TypeOK
<1>3. m.type # "auth" /\ m.key = amfKey /\ m.sqn = m.mac.sqn
  BY <1>2 DEF IInv, DlInv
<1>4. UNCHANGED <<amfState, amfKey, amfUl, amfDl>>
  BY <1>1 DEF DispatchNas, amf
<1>5. Secured' /\ ~Authenticating'
  BY <1>4 DEF Secured, Authenticating
<1>6. CASE SmcPending
  <2>1. m.type = "smc" /\ m.mac = Zero /\ kamf = amfKey /\ ul = << >> /\ registered = FALSE
    BY <1>2, <1>6 DEF IInv, DlInv, EncInv, SmcPending
  <2>2. HandlerSecurityModeCommand(m)
    BY <1>1, <2>1 DEF DispatchNas
  <2>3. /\ knas' = kamf /\ dlCount' = Zero /\ ulCount' = Zero /\ enc' = Start(0, "smcComplete")
        /\ lost' = lost /\ UNCHANGED <<kamf, registered, ul>>
    BY <1>3, <2>1, <2>2 DEF HandlerSecurityModeCommand
  <2>4. DlInv' /\ ~SmcPending'
    BY <1>1, <1>2, <1>4, <1>5, <2>1, <2>3, DlTaken
  <2>5. enc'[0].pc = "sqn" /\ enc'[0].type = "smcComplete"
    BY <2>3, Started DEF IInv
  <2>6. EncInv'
    BY <2>4, <2>5 DEF EncInv
  <2>7. NextMac' = Zero /\ Completing' /\ ul' = << >> /\ Len(ul') = 0
    BY <2>1, <2>3, <2>5 DEF NextMac, Completing
  <2>8. UlInv'
    BY <2>4, <2>7 DEF UlInv
  <2>9. QED BY <1>5, <2>3, <2>4, <2>6, <2>8 DEF IInv, BeforeInv, NothingLost
<1>7. CASE ~SmcPending
  <2>1. m.type # "smc" /\ m.mac = AddOne(dlCount) /\ knas = amfKey /\ dlCount \in Count
    BY <1>1, <1>2, <1>7 DEF IInv, DlInv, SmcPending, TypeOK
  <2>2. HandlerProtected(m)
    BY <1>1, <1>3, <2>1 DEF DispatchNas
  <2>3. Estimate(dlCount, m.sqn) = m.mac
    BY <1>3, <2>1, CountFacts
  <2>4. dlCount' = m.mac /\ Handle(m) /\ lost' = lost /\ UNCHANGED <<kamf, knas, ulCount, ul>>
    BY <1>3, <2>1, <2>2, <2>3 DEF HandlerProtected
  <2>5. DlInv' /\ ~SmcPending'
    BY <1>1, <1>2, <1>4, <1>5, <2>1, <2>4, DlTaken
  <2>6. enc' = enc \/ enc' = Start(0, "regComplete") \/ enc' = Start(0, "nas")
    BY <2>4 DEF Handle, InOrder
  <2>7. enc'[0].pc \in {"idle", "sqn"} /\ ~Completing' /\ ~Completing
    <3>1. CASE enc' = enc
      BY <1>1, <3>1 DEF Completing
    <3>2. CASE enc' = Start(0, "regComplete")
      BY <1>1, <3>2, Started DEF IInv, Completing
    <3>3. CASE enc' = Start(0, "nas")
      BY <1>1, <3>3, Started DEF IInv, Completing
    <3>4. QED BY <2>6, <3>1, <3>2, <3>3
  <2>8. NextMac' = NextMac
    BY <1>1, <2>4, <2>7 DEF NextMac
  <2>9. EncInv'
    BY <2>5, <2>7 DEF EncInv
  <2>10. UlInv'
    BY <1>4, <1>7, <2>4, <2>5, <2>7, <2>8 DEF IInv, UlInv
  <2>11. QED BY <1>5, <2>4, <2>5, <2>9, <2>10 DEF IInv, BeforeInv, NothingLost
<1>8. QED BY <1>6, <1>7

(* The scenario asks for a session: the encoder starts.                    *)
LEMMA IRequest == IInv /\ InOrder /\ TypeOK' /\ InitPduSessionRequest => IInv'
<1> SUFFICES ASSUME IInv, InOrder, TypeOK', InitPduSessionRequest PROVE IInv'
  OBVIOUS
<1>1. /\ registered /\ enc[0].pc = "idle" /\ enc' = Start(0, "nas")
      /\ UNCHANGED <<kamf, knas, ulCount, dlCount, registered, amfState, amfKey, amfUl, amfDl, dl, ul, lost>>
  BY DEF InitPduSessionRequest, ue, amf
<1>2. Secured /\ ~Authenticating /\ ~SmcPending
  BY <1>1, TwoPhases DEF IInv, BeforeInv, EncInv
<1>3. Secured' /\ ~Authenticating' /\ ~SmcPending'
  BY <1>1, <1>2 DEF Secured, Authenticating, SmcPending
<1>4. enc'[0].pc = "sqn" /\ enc'[0].type = "nas"
  BY <1>1, Started DEF IInv
<1>5. NextMac' = NextMac /\ ~Completing' /\ ~Completing
  BY <1>1, <1>4 DEF NextMac, Completing
<1>6. DlInv'
  BY <1>1, <1>2, <1>3 DEF IInv, DlInv
<1>7. EncInv'
  BY <1>3, <1>4 DEF EncInv
<1>8. UlInv'
  BY <1>1, <1>2, <1>3, <1>5 DEF IInv, UlInv
<1>9. QED BY <1>1, <1>3, <1>6, <1>7, <1>8 DEF IInv, BeforeInv, NothingLost

(* A step of NASEncode: the UE's goroutine is the only one that encodes.   *)
LEMMA IEncode == \A e \in Enc : IInv /\ InOrder /\ TypeOK' /\ NASEncode(e) => IInv'
<1> SUFFICES ASSUME NEW e \in Enc, IInv, InOrder, TypeOK', NASEncode(e) PROVE IInv'
  OBVIOUS
<1>1. e = 0 /\ 0 \in Enc /\ enc \in [Enc -> EncRec]
  BY DEF Enc, InOrder, IInv, TypeOK
<1>2. enc[0].pc \in {"sqn", "mac", "load", "store", "send"}
  BY <1>1 DEF NASEncode, ReadSqn, CalculateMac, LoadCount, StoreCount, SendToGnb
<1>3. Secured /\ ~SmcPending
  BY <1>2, TwoPhases DEF IInv, BeforeInv, EncInv
<1>4. UNCHANGED <<amfState, amfKey, amfUl, amfDl, dl, lost, kamf, knas, dlCount, registered>>
  BY DEF NASEncode, ReadSqn, CalculateMac, LoadCount, StoreCount, SendToGnb, ue, amf
<1>5. Secured' /\ ~Authenticating' /\ ~SmcPending'
  BY <1>3, <1>4 DEF Secured, Authenticating, SmcPending
<1>6. DlInv'
  BY <1>3, <1>4, <1>5 DEF IInv, DlInv
<1>7. knas = amfKey /\ NextMac = (IF enc[0].pc = "send" THEN enc[0].mac ELSE ulCount)
  BY <1>3 DEF IInv, DlInv, NextMac
<1>8. SUFFICES EncInv' /\ UlInv'
  BY <1>4, <1>5, <1>6 DEF IInv, BeforeInv, NothingLost
<1>9. ASSUME ul' = ul, NextMac' = NextMac, Completing' <=> Completing PROVE UlInv'
  BY <1>3, <1>4, <1>5, <1>9 DEF IInv, UlInv
<1>10. CASE ReadSqn(e)
  <2>1. enc[0].pc = "sqn" /\ enc'[0] = Rec("mac", enc[0].type, ulCount.sqn, enc[0].mac, enc[0].key, enc[0].tmp)
        /\ ul' = ul /\ ulCount' = ulCount
    BY <1>1, <1>10 DEF ReadSqn, ue
  <2>2. enc'[0].pc = "mac" /\ enc'[0].type = enc[0].type /\ enc'[0].sqn = ulCount.sqn
    BY <2>1 DEF Rec
  <2>3. NextMac' = ulCount /\ NextMac = ulCount /\ (Completing' <=> Completing)
    BY <2>1, <2>2 DEF NextMac, Completing
  <2>4. QED BY <1>5, <1>9, <2>1, <2>2, <2>3 DEF EncInv
<1>11. CASE CalculateMac(e)
  <2>1. enc[0].pc = "mac" /\ enc'[0] = Rec("load", enc[0].type, enc[0].sqn, ulCount, knas, enc[0].tmp)
        /\ ul' = ul /\ ulCount' = ulCount
    BY <1>1, <1>11 DEF CalculateMac, ue
  <2>2. enc'[0].pc = "load" /\ enc'[0].type = enc[0].type /\ enc'[0].sqn = enc[0].sqn
        /\ enc'[0].mac = ulCount /\ enc'[0].key = knas
    BY <2>1 DEF Rec
  <2>3. NextMac' = ulCount /\ NextMac = ulCount /\ (Completing' <=> Completing)
    BY <2>1, <2>2 DEF NextMac, Completing
  <2>4. enc[0].sqn = ulCount.sqn
    BY <1>3, <2>1, <2>3 DEF IInv, EncInv
  <2>5. EncInv'
    BY <1>4, <1>5, <1>7, <2>2, <2>3, <2>4 DEF EncInv
  <2>6. QED BY <1>9, <2>1, <2>3, <2>5
<1>12. CASE LoadCount(e)
  <2>1. enc[0].pc = "load" /\ enc'[0] = Rec("store", enc[0].type, enc[0].sqn, enc[0].mac, enc[0].key, ulCount)
        /\ ul' = ul /\ ulCount' = ulCount
    BY <1>1, <1>12 DEF LoadCount, ue
  <2>2. enc'[0].pc = "store" /\ enc'[0].type = enc[0].type /\ enc'[0].sqn = enc[0].sqn
        /\ enc'[0].mac = enc[0].mac /\ enc'[0].key = enc[0].key /\ enc'[0].tmp = ulCount
    BY <2>1 DEF Rec
  <2>3. NextMac' = ulCount /\ NextMac = ulCount /\ (Completing' <=> Completing)
    BY <2>1, <2>2 DEF NextMac, Completing
  <2>4. enc[0].sqn = ulCount.sqn /\ enc[0].mac = ulCount /\ enc[0].key = amfKey
    BY <1>3, <2>1, <2>3 DEF IInv, EncInv
  <2>5. EncInv'
    BY <1>4, <1>5, <2>1, <2>2, <2>3, <2>4 DEF EncInv
  <2>6. QED BY <1>9, <2>1, <2>3, <2>5
<1>13. CASE StoreCount(e)
  <2>1. enc[0].pc = "store" /\ enc'[0] = Rec("send", enc[0].type, enc[0].sqn, enc[0].mac, enc[0].key, enc[0].tmp)
        /\ ul' = ul /\ ulCount' = AddOne(enc[0].tmp)
    BY <1>1, <1>13 DEF StoreCount
  <2>2. enc'[0].pc = "send" /\ enc'[0].type = enc[0].type /\ enc'[0].sqn = enc[0].sqn
        /\ enc'[0].mac = enc[0].mac /\ enc'[0].key = enc[0].key
    BY <2>1 DEF Rec
  <2>3. enc[0].sqn = ulCount.sqn /\ enc[0].mac = ulCount /\ enc[0].key = amfKey /\ enc[0].tmp = ulCount
    BY <1>3, <1>7, <2>1 DEF IInv, EncInv
  <2>4. NextMac' = enc[0].mac /\ NextMac = ulCount /\ (Completing' <=> Completing)
    BY <2>1, <2>2 DEF NextMac, Completing
  <2>5. EncInv'
    BY <1>4, <1>5, <2>1, <2>2, <2>3, <2>4 DEF EncInv
  <2>6. QED BY <1>9, <2>1, <2>3, <2>4, <2>5
<1>14. CASE SendToGnb(e)
  <2> DEFINE x == [type |-> enc[0].type, key |-> enc[0].key, sqn |-> enc[0].sqn, mac |-> enc[0].mac]
  <2>1. enc[0].pc = "send" /\ enc'[0] = Idle /\ ul' = Append(ul, x) /\ ulCount' = ulCount
    BY <1>1, <1>14 DEF SendToGnb, ue
  <2>2. enc[0].sqn = enc[0].mac.sqn /\ enc[0].key = amfKey /\ ulCount = AddOne(enc[0].mac) /\ NextMac = enc[0].mac
    BY <1>3, <1>7, <2>1 DEF IInv, EncInv
  <2>3. enc'[0].pc = "idle"
    BY <2>1 DEF Idle, Rec
  <2>4. EncInv'
    BY <1>5, <2>3 DEF EncInv
  <2>5. enc[0].type \in {"smcComplete", "regComplete", "nas"} /\ x \in UlMsg
    <3>1. enc[0] \in EncRec
      BY <1>1
    <3>2. QED BY <3>1 DEF EncRec, UlMsg
  <2>6. x.type = enc[0].type /\ x.key = amfKey /\ x.sqn = x.mac.sqn /\ x.mac = NextMac /\ x.type \notin Plain
    BY <2>2, <2>5 DEF Plain
  <2> HIDE DEF x
  <2>7. /\ ul' # << >> /\ Len(ul') = Len(ul) + 1 /\ Len(ul) \in Nat
        /\ (ul = << >> => Len(ul) = 0) /\ (Len(ul) = 0 => ul = << >>)
        /\ \A i \in 1..Len(ul) : ul'[i] = ul[i]
        /\ ul'[Len(ul) + 1] = x
    <3>1. ul \in Seq(UlMsg) /\ x \in UlMsg /\ ul' = Append(ul, x)
      BY <2>1, <2>5 DEF IInv, TypeOK
    <3>2. QED BY <3>1, AppendFacts
  <2>8. ~Completing' /\ NextMac' = AddOne(x.mac)
    BY <2>1, <2>2, <2>3, <2>6 DEF Completing, NextMac
  <2>9. x.type = "smcComplete" => ul = << >> /\ x.mac = Zero
    BY <1>3, <2>1, <2>6 DEF IInv, UlInv, Completing
  <2>10. x.type # "smcComplete" => /\ ul # << >> => x.mac = AddOne(ul[Len(ul)].mac)
                                   /\ ul = << >> => x.mac = AddOne(amfUl)
    BY <1>3, <2>1, <2>6 DEF IInv, UlInv, Completing
  <2>11. \A i \in 1..Len(ul') : ul'[i].type \notin Plain /\ ul'[i].key = amfKey' /\ ul'[i].sqn = ul'[i].mac.sqn
    BY <1>3, <1>4, <2>6, <2>7 DEF IInv, UlInv
  <2>12. \A i \in 2..Len(ul') : ul'[i].type # "smcComplete" /\ ul'[i].mac = AddOne(ul'[i - 1].mac)
    <3> SUFFICES ASSUME NEW i \in 2..Len(ul')
                 PROVE  ul'[i].type # "smcComplete" /\ ul'[i].mac = AddOne(ul'[i - 1].mac)
      OBVIOUS
    <3>1. CASE i \in 2..Len(ul)
      BY <1>3, <2>7, <3>1 DEF IInv, UlInv
    <3>2. CASE i = Len(ul) + 1
      <4>1. ul # << >> /\ ul'[i] = x /\ ul'[i - 1] = ul[Len(ul)]
        BY <2>7, <3>2
      <4>2. QED BY <2>9, <2>10, <4>1
    <3>3. QED BY <2>7, <3>1, <3>2
  <2>13. ul'[1].mac = IF ul'[1].type = "smcComplete" THEN Zero ELSE AddOne(amfUl')
    <3>1. CASE ul = << >>
      BY <1>4, <2>7, <2>9, <2>10, <3>1
    <3>2. CASE ul # << >>
      BY <1>3, <1>4, <2>7, <3>2 DEF IInv, UlInv
    <3>3. QED BY <3>1, <3>2
  <2>14. UlInv'
    BY <1>5, <2>7, <2>8, <2>11, <2>12, <2>13 DEF UlInv
  <2>15. QED BY <2>4, <2>14
<1>15. QED BY <1>10, <1>11, <1>12, <1>13, <1>14 DEF NASEncode

(* Every step keeps the inductive invariant.                               *)
LEMMA IStep == IInv /\ InOrder /\ [Next]_vars => IInv'
<1> SUFFICES ASSUME IInv, InOrder, [Next]_vars PROVE IInv'
  OBVIOUS
<1>1. TypeOK'
  BY TypeStep DEF IInv
<1>2. Secured \/ Authenticating
  BY TwoPhases DEF IInv
<1>3. CASE AmfNext
  BY <1>1, <1>2, <1>3, IChallenge, ICommand, ISecuredDispatch, IPlainDispatch DEF AmfNext
<1>4. CASE UeNext
  BY <1>1, <1>2, <1>4, IChallenged, ISecuredReceive, IRequest, IEncode DEF UeNext
<1>5. CASE UNCHANGED vars
  <2>1. UNCHANGED <<kamf, knas, ulCount, dlCount, registered, enc, amfState, vec, amfKey, amfUl, amfDl, dl, ul, lost>>
    BY <1>5 DEF vars, ue, amf
  <2>2. NextMac' = NextMac /\ (Completing' <=> Completing) /\ (SmcPending' <=> SmcPending)
        /\ (Secured' <=> Secured) /\ (Authenticating' <=> Authenticating)
    BY <2>1 DEF NextMac, Completing, SmcPending, Secured, Authenticating
  <2>3. BeforeInv'
    BY <2>1, <2>2 DEF IInv, BeforeInv
  <2>4. DlInv'
    BY <2>1, <2>2 DEF IInv, DlInv
  <2>5. EncInv' /\ UlInv'
    BY <2>1, <2>2 DEF IInv, EncInv, UlInv
  <2>6. QED BY <1>1, <2>1, <2>3, <2>4, <2>5 DEF IInv, NothingLost
<1>6. QED BY <1>3, <1>4, <1>5 DEF Next

(* Nothing is lost to the security layer: with a core that keeps both      *)
(* counts, delivery in order and no T3580 goroutine beside the UE's own,   *)
(* DispatchNas and Decode verify every message, for every width of the     *)
(* counts and every number of challenges and messages.                     *)
THEOREM NothingLostProved == InOrder => (Spec => []NothingLost)
<1>1. IInv => NothingLost
  BY DEF IInv
<1>2. ASSUME InOrder PROVE Init => IInv
  BY IInit
<1>3. ASSUME InOrder PROVE IInv /\ [Next]_vars => IInv'
  BY <1>3, IStep
<1>4. ASSUME InOrder PROVE Spec => []NothingLost
  BY <1>1, <1>2, <1>3, <1>4, PTL DEF Spec
<1>5. QED BY <1>4

-----------------------------------------------------------------------------
(* The refinement of the abstract channel.  The protected messages under   *)
(* way are numbered without a gap, from the one after the last the UE      *)
(* acted on to the last the AMF sent.                                      *)
NumberInv ==
    /\ Authenticating => ndl = 0 /\ last = 0
    /\ Secured => /\ Len(dl) = ndl - last
                  /\ \A i \in 1..Len(dl) : dl[i].n = last + i

CInv == IInv /\ NumberInv

(* A step of the abstract channel, or none.                                *)
ChannelStep == [Channel!Next]_<<ndl, last>>

(* Steps that leave the downlink alone are no steps of the channel.        *)
LEMMA NSame == NumberInv /\ UNCHANGED <<amfState, dl, ndl, last>> => NumberInv' /\ ChannelStep
  BY DEF NumberInv, ChannelStep, Authenticating, Secured

(* Encode is the channel's Send.                                           *)
LEMMA NEncode ==
    ASSUME CInv, Secured, Secured', TypeOK', NEW u,
           NEW type \in {"regAccept", "cmd", "accept", "reject"}, Encode(type, amfKey, u),
           UNCHANGED last
    PROVE  NumberInv' /\ ChannelStep
<1> DEFINE c == EncodeCount(type)
           x == [type |-> type, key |-> amfKey, sqn |-> c.sqn, mac |-> c, n |-> ndl + 1]
<1>1. dl' = Append(dl, x) /\ ndl' = ndl + 1
  BY DEF Encode
<1>2. c \in Count /\ c.sqn \in Sqn
  BY CountFacts DEF EncodeCount, CInv, IInv, TypeOK, Count, Sqn
<1>3. x \in DlMsg /\ x.n = ndl + 1
  BY SMTT(20), <1>2 DEF DlMsg, CInv, IInv, TypeOK
<1> HIDE DEF x
<1>4. /\ Len(dl') = Len(dl) + 1 /\ Len(dl) \in Nat
      /\ \A i \in 1..Len(dl) : dl'[i] = dl[i]
      /\ dl'[Len(dl) + 1] = x
  BY <1>1, <1>3, AppendFacts DEF CInv, IInv, TypeOK
<1>5. ndl \in Nat /\ last \in Nat /\ Len(dl) = ndl - last /\ \A i \in 1..Len(dl) : dl[i].n = last + i
  BY DEF CInv, IInv, TypeOK, NumberInv
<1>6. Len(dl') = ndl' - last' /\ \A i \in 1..Len(dl') : dl'[i].n = last' + i
  BY <1>1, <1>3, <1>4, <1>5
<1>7. ~Authenticating'
  BY TwoPhases, <1>1 DEF Secured, Authenticating
<1>8. NumberInv'
  BY <1>6, <1>7 DEF NumberInv
<1>9. ChannelStep
  BY <1>1 DEF ChannelStep, Channel!Next, Channel!Send
<1>10. QED BY <1>8, <1>9

(* A message the UE takes from the channel is the next one in number.      *)
LEMMA NReceive ==
    ASSUME CInv, InOrder, TypeOK', Receive
    PROVE  NumberInv' /\ ChannelStep
<1> DEFINE m == Head(dl)
<1>1. dl # << >> /\ dl' = Tail(dl) /\ DispatchNas(m) /\ UNCHANGED <<amfState, ndl>>
  BY DEF Receive, InOrder, DispatchNas, amf
<1>2. /\ m = dl[1] /\ Len(dl') = Len(dl) - 1 /\ Len(dl) \in Nat /\ Len(dl) >= 1
      /\ \A i \in 1..Len(dl) - 1 : dl'[i] = dl[i + 1]
  BY <1>1, TailFacts DEF CInv, IInv, TypeOK
<1> HIDE DEF m
<1>3. (Secured' <=> Secured) /\ (Authenticating' <=> Authenticating) /\ (Secured <=> ~Authenticating)
  BY <1>1, TwoPhases DEF Secured, Authenticating, CInv, IInv
<1>4. CASE Authenticating
  <2>1. m.type = "auth"
    BY <1>2, <1>4 DEF CInv, IInv, BeforeInv
  <2>2. last' = last
    BY <1>1, <2>1 DEF DispatchNas, HandlerAuthenticationRequest
  <2>3. QED BY <1>1, <1>3, <1>4, <2>2 DEF CInv, NumberInv, ChannelStep
<1>5. CASE Secured
  <2>1. m.type # "auth" /\ m.key = amfKey /\ m.sqn = m.mac.sqn
    BY <1>2, <1>5 DEF CInv, IInv, DlInv
  <2>2. last' = m.n
    <3>1. CASE SmcPending
      <4>1. m.type = "smc" /\ m.mac = Zero /\ kamf = amfKey
        BY <1>2, <1>5, <3>1 DEF CInv, IInv, DlInv, SmcPending
      <4>2. QED BY <1>1, <2>1, <4>1 DEF DispatchNas, HandlerSecurityModeCommand
    <3>2. CASE ~SmcPending
      <4>1. m.type # "smc" /\ m.mac = AddOne(dlCount) /\ knas = amfKey /\ dlCount \in Count
        BY <1>1, <1>2, <1>5, <3>2 DEF CInv, IInv, DlInv, SmcPending, TypeOK
      <4>2. Estimate(dlCount, m.sqn) = m.mac
        BY <2>1, <4>1, CountFacts
      <4>3. HandlerProtected(m)
        BY <1>1, <2>1, <4>1 DEF DispatchNas
      <4>4. QED BY <2>1, <4>1, <4>2, <4>3 DEF HandlerProtected
    <3>3. QED BY <3>1, <3>2
  <2>3. ndl \in Nat /\ last \in Nat /\ Len(dl) = ndl - last /\ \A i \in 1..Len(dl) : dl[i].n = last + i
    BY <1>5 DEF CInv, IInv, TypeOK, NumberInv
  <2>4. last' = last + 1 /\ last < ndl
    BY <1>2, <2>2, <2>3
  <2>5. \A i \in 1..Len(dl') : dl'[i].n = last' + i
    <3> SUFFICES ASSUME NEW i \in 1..Len(dl') PROVE dl'[i].n = last' + i
      OBVIOUS
    <3>1. dl'[i] = dl[i + 1] /\ i + 1 \in 1..Len(dl)
      BY <1>2
    <3>2. QED BY <2>3, <2>4, <3>1
  <2>6. Len(dl') = ndl' - last'
    BY <1>1, <1>2, <2>3, <2>4
  <2>7. NumberInv'
    BY <1>3, <1>5, <2>5, <2>6 DEF NumberInv
  <2>8. ChannelStep
    BY <1>1, <2>4 DEF ChannelStep, Channel!Next, Channel!Accept, InOrder
  <2>9. QED BY <2>7, <2>8
<1>6. QED BY <1>3, <1>4, <1>5

(* The AMF handles an uplink message: its answer, if any, is a Send.       *)
LEMMA NDispatch ==
    ASSUME CInv, InOrder, TypeOK', AmfDispatch
    PROVE  NumberInv' /\ ChannelStep
<1> DEFINE m == Head(ul)
<1>1. ul # << >> /\ last' = last
  BY DEF AmfDispatch
<1>2. Secured \/ Authenticating
  BY TwoPhases DEF CInv, IInv
<1>3. CASE Secured
  <2>1. m.type \notin Plain /\ Verified(m)
    BY <1>1, <1>3, UlVerifies DEF CInv
  <2>2. Accepted(m)
    BY <1>3, <2>1 DEF AmfDispatch, Plain
  <2> DEFINE c == Decoded(m)
  <2> HIDE DEF m, c
  <2>3. ASSUME NEW type \in {"regAccept", "cmd", "accept", "reject"}, Encode(type, amfKey, c), Secured'
        PROVE  NumberInv' /\ ChannelStep
    BY <1>1, <1>3, <2>3, NEncode
  <2>4. CASE SecurityModeComplete(c)
    BY <2>3, <2>4 DEF SecurityModeComplete, Secured
  <2>5. CASE RegistrationComplete(c)
    BY <2>3, <2>5 DEF RegistrationComplete, Secured
  <2>6. CASE UlNasTransport(c)
    <3>1. PICK answer \in {"accept", "cmd", "reject"} : Encode(answer, amfKey, c) /\ amfState' = amfState
      BY <2>6 DEF UlNasTransport
    <3>2. QED BY <1>3, <2>3, <3>1 DEF Secured
  <2>7. CASE NoAnswer(m, c)
    BY <1>1, <2>7, NSame DEF NoAnswer, CInv
  <2>8. QED BY <2>2, <2>4, <2>5, <2>6, <2>7 DEF Accepted, c
<1>4. CASE Authenticating
  <2>1. m = ul[1] /\ 1 \in 1..Len(ul) /\ Len(ul) \in Nat
    BY <1>1, TailFacts DEF CInv, IInv, TypeOK
  <2>2. m.type \in Plain /\ (m.key = vec => dl = << >>)
    BY <1>4, <2>1 DEF CInv, IInv, BeforeInv
  <2>3. AuthenticationResponse(m) \/ AuthenticationFailure(m)
    BY <2>2 DEF AmfDispatch
  <2> HIDE DEF m
  <2>4. CASE UNCHANGED <<amfState, dl, ndl>>
    BY <1>1, <2>4, NSame DEF CInv
  <2>5. CASE amfState' = "Authenticated" /\ Encode("smc", vec, Zero) /\ m.key = vec
    <3> DEFINE x == [type |-> "smc", key |-> vec, sqn |-> Zero.sqn, mac |-> Zero, n |-> ndl + 1]
    <3>1. ndl = 0 /\ last = 0 /\ dl = << >>
      BY <1>4, <2>2, <2>5 DEF CInv, NumberInv
    <3>2. ndl' = ndl + 1 /\ dl' = Append(dl, x)
      BY <2>5 DEF Encode, EncodeCount, InOrder
    <3>3. x.n = ndl + 1
      OBVIOUS
    <3> HIDE DEF x
    <3>4. Len(dl') = 1 /\ dl'[1] = x
      BY <3>1, <3>2
    <3>5. ~Authenticating'
      BY <2>5 DEF Authenticating
    <3>6. NumberInv'
      BY <1>1, <3>1, <3>2, <3>3, <3>4, <3>5 DEF NumberInv
    <3>7. ChannelStep
      BY <1>1, <3>2 DEF ChannelStep, Channel!Next, Channel!Send
    <3>8. QED BY <3>6, <3>7
  <2>6. QED BY <2>3, <2>4, <2>5 DEF AuthenticationResponse, AuthenticationFailure, amf
<1>5. QED BY <1>2, <1>3, <1>4

(* Every step keeps the numbering and is a step of the channel or none.    *)
LEMMA CStep == CInv /\ InOrder /\ [Next]_vars => CInv' /\ ChannelStep
<1> SUFFICES ASSUME CInv, InOrder, [Next]_vars PROVE CInv' /\ ChannelStep
  OBVIOUS
<1>1. IInv'
  BY IStep DEF CInv
<1>2. TypeOK' /\ IInv
  BY <1>1 DEF IInv, CInv
<1>3. SUFFICES NumberInv' /\ ChannelStep
  BY <1>1 DEF CInv
<1>4. CASE AuthenticationRequest
  <2>1. Authenticating /\ Authenticating' /\ ~Secured' /\ UNCHANGED <<ndl, last>>
    BY <1>4 DEF AuthenticationRequest, Authenticating, Secured
  <2>2. QED BY <2>1 DEF CInv, NumberInv, ChannelStep
<1>5. CASE Command
  <2>1. Secured /\ Secured' /\ last' = last
    BY <1>5 DEF Command, Secured
  <2>2. QED BY <1>2, <1>5, <2>1, NEncode DEF Command
<1>6. CASE AmfDispatch
  BY <1>2, <1>6, NDispatch
<1>7. CASE Receive
  BY <1>2, <1>7, NReceive
<1>8. CASE InitPduSessionRequest
  BY <1>8, NSame DEF InitPduSessionRequest, amf, CInv
<1>9. ASSUME NEW e \in Enc, NASEncode(e) PROVE NumberInv' /\ ChannelStep
  BY <1>9, NSame DEF NASEncode, amf, CInv
<1>10. CASE UNCHANGED vars
  BY <1>10, NSame DEF vars, amf, CInv
<1>11. QED BY <1>4, <1>5, <1>6, <1>7, <1>8, <1>9, <1>10 DEF Next, AmfNext, UeNext

(* The security layer implements the abstract channel: with a core that    *)
(* keeps both counts, delivery in order and no T3580 goroutine, DispatchNas *)
(* acts on every protected message of the AMF's Encode exactly once and in *)
(* order, for every width of the counts.                                   *)
THEOREM ImplementsChannel == InOrder => (Spec => DownlinkChannel)
<1>1. ASSUME InOrder PROVE Init => CInv /\ Channel!Init
  <2>1. Init => IInv
    BY IInit
  <2>2. Init => ~Secured /\ ndl = 0 /\ last = 0
    BY DEF Init, Secured
  <2>3. QED BY <2>1, <2>2 DEF CInv, NumberInv, Channel!Init
<1>2. ASSUME InOrder PROVE CInv /\ [Next]_vars => CInv' /\ [Channel!Next]_(Channel!chan)
  BY <1>2, CStep DEF ChannelStep, Channel!chan
<1>3. ASSUME InOrder PROVE Spec => Channel!Spec
  BY <1>1, <1>2, <1>3, PTL DEF Spec, Channel!Spec
<1>4. QED BY <1>3 DEF DownlinkChannel

=============================================================================
