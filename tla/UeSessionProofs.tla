--------------------------- MODULE UeSessionProofs ---------------------------
(* The PDU sessions of UeScenario, for any number of sessions, slots, retries *)
(* and handovers: its types, one request at a time, and agreement with the    *)
(* core.                                                                      *)
EXTENDS UeScenarioProofs

(***************************************************************************)
(* The inductive invariant, in parts.                                      *)
(***************************************************************************)

\* A UE that is not stopping requests one session, or does something that neither
\* requests nor releases one.  A stopping UE releases, deregisters and ends.
PlainTypes == NasTypes \ {"sessReq", "deregReq"}
Plain == [op : {"tell"}, arg : MMStates, id : {0}]
         \cup [op : {"send"}, arg : PlainTypes, id : 0..NSlot]
         \cup [op : {"connect", "drx"}, arg : {""}, id : {0}]
Quit  == {Release(i) : i \in Slot} \cup {Send("deregReq"), Tell("DEREGISTERED"), Terminate}
Asking(i) == todo = <<SendS("sessReq", i)>>
StepInv == IF ueRxNil THEN todo \in Seq(Quit)
           ELSE todo \in Seq(Plain) \/ \E i \in Slot : Asking(i)

BaseInv == /\ mm \in MMStates /\ alive \in BOOLEAN /\ guti \in BOOLEAN
           /\ drx \in {"nil", "on", "stopped"} /\ tick \in BOOLEAN
           /\ gnbTx \in {"open", "closed", "nil"} /\ lock \in 0..nretry

\* The objects and the goroutines that retry them.
ObjInv == /\ nobj \in 0..NumPdu + 1 /\ obj \in [Obj -> ObjRec]
          /\ slot \in [Slot -> 0..nobj] /\ \A i \in Slot : slot[i] # 0 => obj[slot[i]].id = i
          /\ \A r \in retry : r \in RetryRec /\ r.p \in 1..nobj /\ r.ch \in 0..nrx

\* The messages about sessions name one.
SessTypes == {"sessAccept", "sessReject", "sessRelease"}
MsgInv == \A j \in 1..Len(dl) : dl[j].type \in SessTypes => dl[j].id \in Slot

\* The requests the scenario still sends, and the objects made for the others, are
\* at most as many as it was configured with: it sends them once.
Fresh(s) == \A k \in 1..Len(s) : s[k].type = "NewPDUSession"
Other(s) == \A k \in 1..Len(s) :
               s[k].type \notin {"NewPDUSession", "Deregistration", "DestroyPDUSession"}
CountInv == ~Custom =>
    /\ \/ Fresh(out) /\ nobj + Len(out) <= NumPdu
       \/ Other(out) /\ nobj <= NumPdu
    /\ ~registered => nobj = 0 /\ Other(out)

\* A custom scenario gets as far as its first call: the UE announces its state and
\* nobody reads.
CustomInv == Custom =>
    /\ nobj = 0 /\ ~ueRxNil /\ tick = FALSE /\ drx = "nil"
    /\ \/ out = CustomCalls /\ dl = <<>> /\ core = "none" /\ todo \in {<<InitConn>>, <<>>}
       \/ todo \in {InitRegistration, <<Tell("DEREGISTERED")>>}

TInv == IInv /\ StepInv /\ BaseInv /\ ObjInv /\ MsgInv /\ CountInv /\ CustomInv

-----------------------------------------------------------------------------
(* The life of a session.  The parts of the state that matter to slot i.   *)

\* Its messages under way, and the goroutines that are to request it again.
Has(i, t) == \E j \in 1..Len(dl) : dl[j].id = i /\ dl[j].type = t
NoMsg(i)  == \A t \in SessTypes : ~Has(i, t)
Ordered(i) == \A j, k \in 1..Len(dl) :
    j < k /\ dl[j].id = i /\ dl[k].id = i /\ dl[j].type \in SessTypes /\ dl[k].type \in SessTypes
        => dl[j].type = "sessAccept" /\ dl[k].type = "sessRelease"
Waits(i)  == \E r \in retry : r.pc # "count" /\ r.p = slot[i]
Active(i) == slot[i] # 0 /\ obj[slot[i]].sm = "ACTIVE"

\* Requested at most once at a time, and not while it is active.  The last slot is
\* never found, so its session never gets active.
Turn(i) ==
    /\ Waits(i) \/ Asking(i) => slot[i] # 0 /\ ~Active(i) /\ csess[i] # "asked"
    /\ ~(Waits(i) /\ Asking(i))
    /\ \A q, r \in retry : q.pc # "count" /\ q.p = slot[i] /\ r.pc # "count" /\ r.p = slot[i]
                              => q.n = r.n
    /\ csess[i] = "asked" \/ i = NSlot => ~Active(i)

\* Until the UE stops: requested, answered, released, and then requested again.
Life(i) ==
    /\ csess[i] # "releasing"
    /\ slot[i] = 0 => csess[i] = "none" /\ NoMsg(i)
    /\ Waits(i) \/ Asking(i) => csess[i] = "none" /\ NoMsg(i)
    /\ csess[i] = "asked" => NoMsg(i)
    /\ Ordered(i)
    /\ Has(i, "sessReject") => csess[i] = "none" /\ ~Active(i)
    /\ Has(i, "sessRelease") => csess[i] = "none"
    /\ Has(i, "sessAccept") => csess[i] = "active" \/ Has(i, "sessRelease")

\* A session is released before the UE deregisters; and while the first channel
\* lasts no message is lost.
Released(i) == \A k \in 1..Len(todo) : todo[k] = Send("deregReq") =>
                   \E j \in 1..Len(todo) : j < k /\ todo[j] = Release(i)
Agree(i) == Active(i) => /\ Released(i)
                         /\ nrx = 1 => csess[i] = "active" \/ Has(i, "sessRelease")

Sound(i) == Turn(i) /\ (~ueRxNil => Life(i)) /\ Agree(i)

\* A goroutine retries the session it was started for.
HomeInv == \A r \in retry : r.pc # "count" => obj[r.p].id \in Slot /\ slot[obj[r.p].id] = r.p
CoreInv == csess \in [Slot -> {"none", "asked", "active", "releasing"}]
BirthInv == nrx = 0 => todo = <<InitConn>> /\ nobj = 0
SInv == TInv /\ HomeInv /\ CoreInv /\ BirthInv /\ \A i \in Slot : Sound(i)

-----------------------------------------------------------------------------
(* The steps of a handler.                                                 *)

LEMMA PlainStep ==
  /\ \A m \in PlainTypes : Send(m) \in Plain
  /\ \A m \in PlainTypes, i \in 0..NSlot : SendS(m, i) \in Plain
  /\ \A a \in MMStates : Tell(a) \in Plain
  /\ InitConn \in Plain /\ CreateDRX \in Plain
<1>1. 0 \in 0..NSlot
  BY ConstAssumption
<1>2. \A m \in PlainTypes, i \in 0..NSlot : SendS(m, i) \in Plain
  BY DEF Plain, SendS, Step
<1>3. \A m \in PlainTypes : Send(m) \in Plain
  BY <1>1 DEF Plain, Send, Step
<1>4. \A a \in MMStates : Tell(a) \in Plain
  BY DEF Plain, Tell, Step
<1>5. InitConn \in Plain /\ CreateDRX \in Plain
  BY DEF Plain, InitConn, CreateDRX, Step
<1> QED
  BY <1>2, <1>3, <1>4, <1>5

LEMMA ShortPlain ==
  ASSUME NEW a \in Plain, NEW b \in Plain
  PROVE  <<a>> \in Seq(Plain) /\ <<a, b>> \in Seq(Plain)
<1>1. PICK S : S = Plain
  OBVIOUS
<1>2. a \in S /\ b \in S
  BY <1>1
<1>3. <<a>> \in Seq(S) /\ <<a, b>> \in Seq(S)
  BY ONLY <1>2
<1> QED
  BY <1>1, <1>3

LEMMA PlainTriggers ==
  /\ InitRegistration \in Seq(Plain) /\ ServiceSteps \in Seq(Plain)
  /\ <<Tell("IDLE")>> \o SwitchToIdle \o <<CreateDRX>> \in Seq(Plain)
  /\ <<>> \in Seq(Plain)
<1>0. {"regReq", "serviceReq", "idle"} \subseteq PlainTypes /\ {"DEREGISTERED", "IDLE"} \subseteq MMStates
  BY DEF PlainTypes, NasTypes, MMStates
<1>1. InitRegistration \in Seq(Plain)
  BY <1>0, PlainStep, ShortPlain DEF InitRegistration
<1>2. InitServiceRequest \in Seq(Plain)
  BY <1>0, PlainStep, ShortPlain DEF InitServiceRequest
<1>3. SwitchToIdle \in Seq(Plain)
  BY <1>0, PlainStep, ShortPlain DEF SwitchToIdle
<1>4. <<InitConn>> \in Seq(Plain) /\ <<CreateDRX>> \in Seq(Plain) /\ <<Tell("IDLE")>> \in Seq(Plain)
  BY <1>0, PlainStep, ShortPlain
<1>5. \A s, t \in Seq(Plain) : s \o t \in Seq(Plain)
  <2>1. PICK S : S = Plain
    OBVIOUS
  <2>2. \A s, t \in Seq(S) : s \o t \in Seq(S)
    BY ONLY ConcatProperties
  <2> QED
    BY <2>1, <2>2
<1>6. ServiceSteps \in Seq(Plain)
  BY <1>1, <1>2, <1>4, <1>5 DEF ServiceSteps
<1>7. <<Tell("IDLE")>> \o SwitchToIdle \o <<CreateDRX>> \in Seq(Plain)
  BY <1>3, <1>4, <1>5
<1> QED
  BY <1>1, <1>6, <1>7, EmptySeq

LEMMA PlainNas == ASSUME NEW t PROVE DispatchNas(t) \in Seq(Plain)
<1>1. {"authResponse", "authFailure", "identityResponse", "smComplete", "regComplete",
       "configComplete"} \subseteq PlainTypes
      /\ {"DEREGISTERED", "REGISTERED_INITIATED", "REGISTERED"} \subseteq MMStates
  BY DEF PlainTypes, NasTypes, MMStates
<1>2. \A m \in PlainTypes : <<Send(m)>> \in Seq(Plain)
  BY PlainStep, ShortPlain
<1>3. \A a \in MMStates : <<Tell(a)>> \in Seq(Plain)
  BY PlainStep, ShortPlain
<1>4. \A a \in MMStates, m \in PlainTypes : <<Tell(a), Send(m)>> \in Seq(Plain)
  BY PlainStep, ShortPlain
<1> QED
  BY <1>1, <1>2, <1>3, <1>4, EmptySeq
  DEF DispatchNas, HandlerAuthenticationRequest, HandlerAuthenticationReject,
      HandlerIdentityRequest, HandlerSecurityModeCommand, HandlerRegistrationAccept,
      HandlerConfigurationUpdateCommand, HandlerServiceAccept

\* A plain step, and one that asks for a session, are neither of the other kind
\* nor a release, a deregistration or the end.
LEMMA StepKinds ==
  /\ Plain \subseteq StepRec /\ Quit \subseteq StepRec
  /\ \A x \in Plain : /\ x.op \notin {"release", "end"} /\ (x.op = "tell" => x.arg \in MMStates)
                      /\ (x.op = "send" => x.arg \notin {"sessReq", "deregReq"})
                      /\ x # Send("deregReq") /\ \A i : x # SendS("sessReq", i)
  /\ \A i \in Slot : /\ SendS("sessReq", i) \in StepRec /\ SendS("sessReq", i).op = "send"
                     /\ SendS("sessReq", i).arg = "sessReq" /\ SendS("sessReq", i).id = i
                     /\ SendS("sessReq", i) # Send("deregReq")
                     /\ Release(i).op = "release" /\ Release(i).id = i
  /\ \A x \in Quit : /\ x.op \in {"release", "end", "tell", "send"}
                     /\ (x.op = "tell" => x.arg \in MMStates)
                     /\ (x.op = "release" => x.id \in Slot /\ x = Release(x.id))
                     /\ (x.op = "send" => x.arg = "deregReq" /\ x = Send("deregReq"))
                     /\ \A i : x # SendS("sessReq", i)
<1> USE DEF Step
<1>0. NSlot \in Nat /\ 0 \in 0..NSlot /\ \A i \in Slot : i \in 0..NSlot
  BY ConstAssumption DEF Slot
<1>1. Plain \subseteq StepRec
  BY <1>0 DEF Plain, StepRec, Ops, PlainTypes
<1>2. Quit \subseteq StepRec
  <2>1. \A i \in Slot : Release(i) \in StepRec
    BY <1>0 DEF StepRec, Ops, Release
  <2>2. Send("deregReq") \in StepRec
    BY <1>0 DEF StepRec, Ops, Send, NasTypes
  <2>3. Tell("DEREGISTERED") \in StepRec
    BY <1>0 DEF StepRec, Ops, Tell, MMStates
  <2>4. Terminate \in StepRec
    BY <1>0 DEF StepRec, Ops, Terminate
  <2> QED
    BY <2>1, <2>2, <2>3, <2>4 DEF Quit
<1>3. \A x \in Plain : /\ x.op \notin {"release", "end"} /\ (x.op = "tell" => x.arg \in MMStates)
                       /\ (x.op = "send" => x.arg \notin {"sessReq", "deregReq"})
  BY DEF Plain, PlainTypes
<1>4. \A i : SendS("sessReq", i).op = "send" /\ SendS("sessReq", i).arg = "sessReq" /\ SendS("sessReq", i).id = i
             /\ Release(i).op = "release" /\ Release(i).id = i
  BY DEF SendS, Release
<1>5. Send("deregReq").op = "send" /\ Send("deregReq").arg = "deregReq"
  BY DEF Send
<1>6. \A x \in Plain : x # Send("deregReq") /\ \A i : x # SendS("sessReq", i)
  BY <1>3, <1>4, <1>5
<1>7. \A i \in Slot : SendS("sessReq", i) \in StepRec /\ SendS("sessReq", i) # Send("deregReq")
  <2>1. \A i \in Slot : SendS("sessReq", i) \in StepRec
    BY <1>0 DEF StepRec, Ops, NasTypes, SendS
  <2> QED
    BY <1>4, <1>5, <2>1
<1>8. \A x \in Quit : /\ x.op \in {"release", "end", "tell", "send"}
                      /\ (x.op = "tell" => x.arg \in MMStates)
                      /\ (x.op = "release" => x.id \in Slot /\ x = Release(x.id))
                      /\ (x.op = "send" => x.arg = "deregReq" /\ x = Send("deregReq"))
  <2>1. Tell("DEREGISTERED").op = "tell" /\ Tell("DEREGISTERED").arg \in MMStates
    BY DEF Tell, MMStates
  <2>2. Terminate.op = "end"
    BY DEF Terminate
  <2>3. ASSUME NEW x \in Quit
        PROVE  \/ \E i \in Slot : x = Release(i)
               \/ x \in {Send("deregReq"), Tell("DEREGISTERED"), Terminate}
    BY DEF Quit
  <2>4. ASSUME NEW x \in Quit, NEW i \in Slot, x = Release(i)
        PROVE  x.op = "release" /\ x.id \in Slot /\ x = Release(x.id)
    BY <1>4, <2>4, Zenon
  <2> QED
    BY <1>5, <2>1, <2>2, <2>3, <2>4
<1>9. \A x \in Quit : \A i : x # SendS("sessReq", i)
  BY <1>4, <1>8
<1> QED
  BY <1>1, <1>2, <1>3, <1>4, <1>6, <1>7, <1>8, <1>9

\* In a custom scenario the UE handles its first call and no other.
LEMMA FirstCall ==
  ASSUME CustomInv, Custom, todo = <<>>
  PROVE  out = CustomCalls /\ dl = <<>> /\ core = "none" /\ out[1].type = "Registration"
<1>1. InitRegistration # <<>> /\ <<Tell("DEREGISTERED")>> # <<>>
  BY DEF InitRegistration
<1>2. out = CustomCalls /\ dl = <<>> /\ core = "none"
  BY <1>1 DEF CustomInv
<1>3. CustomCalls[1] = Msg("Registration", 0)
  BY DEF CustomCalls
<1> QED
  BY <1>2, <1>3 DEF Msg

LEMMA TailOut ==
  ASSUME OutInv, out # <<>>, out' = Tail(out)
  PROVE  /\ Head(out) = out[1] /\ out[1] \in Requests /\ Len(out) \in Nat /\ Len(out) >= 1
         /\ Len(out') = Len(out) - 1
         /\ \A i \in 1..Len(out') : i + 1 \in 1..Len(out) /\ out'[i] = out[i + 1]
<1>1. PICK S : S = Requests
  OBVIOUS
<1>2. out \in Seq(S)
  BY <1>1 DEF OutInv
<1>3. /\ Head(out) = out[1] /\ out[1] \in S /\ Len(out) \in Nat /\ Len(out) >= 1
      /\ Len(out') = Len(out) - 1
      /\ \A i \in 1..Len(out') : i + 1 \in 1..Len(out) /\ out'[i] = out[i + 1]
  BY ONLY <1>2, out # <<>>, out' = Tail(out)
<1> QED
  BY <1>1, <1>3

\* What the UE does with the next message of the scenario.
MgrStop == Stopping(out[1]) /\ todo' \in {<<Terminate>>, TerminateSteps} /\ UNCHANGED <<slot, obj, nobj>>
MgrPlain == /\ ~Stopping(out[1]) /\ todo' \in Seq(Plain) /\ UNCHANGED <<slot, obj, nobj>>
            /\ Custom => todo' = InitRegistration /\ drx' = drx
MgrNew == /\ ~Stopping(out[1]) /\ out[1].type = "NewPDUSession" /\ ~Custom
          /\ \E i \in FreeSlots : NewSession(i, i)

LEMMA ManagerCases ==
  ASSUME OutInv, CountInv, CustomInv, UeMgrHandler
  PROVE  MgrStop \/ MgrPlain \/ MgrNew
<1>1. todo = <<>> /\ out # <<>> /\ out' = Tail(out) /\ Handler(Head(out))
  BY DEF UeMgrHandler
<1>2. Head(out) = out[1] /\ Len(out) \in Nat /\ Len(out) >= 1
  BY <1>1, TailOut
<1>3. PICK m : m = out[1]
  OBVIOUS
<1>4. Handler(m)
  BY <1>1, <1>2, <1>3
<1>5. Custom => m.type = "Registration"
  BY <1>1, <1>3, FirstCall
<1>6. m.type \notin {"Deregistration", "DestroyPDUSession"}
  <2>1. CASE Custom
    BY <1>5, <2>1
  <2>2. CASE ~Custom
    <3>1. 1 \in 1..Len(out)
      BY <1>2
    <3> QED
      BY <1>3, <2>2, <3>1 DEF CountInv, Fresh, Other
  <2> QED
    BY <2>1, <2>2
<1>7. CASE m.type = "Registration" /\ todo' = InitRegistration /\ UNCHANGED <<slot, obj, nobj, drx, fate>>
  <2>1. MgrPlain
    BY <1>3, <1>7, PlainTriggers DEF MgrPlain, Stopping
  <2> QED
    BY <2>1
<1>8. CASE m.type = "NewPDUSession" /\ InitPduSessionRequest
  <2>1. CASE FreeSlots = {} /\ UNCHANGED <<slot, obj, nobj, todo>>
    <3>1. todo' \in Seq(Plain)
      BY <1>1, <2>1, PlainTriggers
    <3> QED
      BY <1>3, <1>5, <1>8, <2>1, <3>1 DEF MgrPlain, Stopping
  <2>2. CASE \E i \in FreeSlots : NewSession(i, i)
    BY <1>3, <1>5, <1>8, <2>2 DEF MgrNew, Stopping
  <2> QED
    BY <1>8, <2>1, <2>2 DEF InitPduSessionRequest
<1>9. CASE m.type = "Idle" /\ todo' = <<Tell("IDLE")>> \o SwitchToIdle \o <<CreateDRX>>
           /\ UNCHANGED <<slot, obj, nobj, drx, fate>>
  <2>1. todo' \in Seq(Plain)
    BY <1>9, PlainTriggers
  <2> QED
    BY <1>3, <1>5, <1>9, <2>1 DEF MgrPlain, Stopping
<1>10. CASE m.type = "ServiceRequest" /\ ServiceRequest /\ UNCHANGED <<slot, obj, nobj, fate>>
  <2>1. todo' = ServiceSteps \/ todo' = <<>>
    BY <1>1, <1>10 DEF ServiceRequest
  <2>2. todo' \in Seq(Plain)
    BY <2>1, PlainTriggers
  <2> QED
    BY <1>3, <1>5, <1>10, <2>2 DEF MgrPlain, Stopping
<1>11. CASE m.type \in {"Terminate", "Kill"} /\ todo' \in {<<Terminate>>, TerminateSteps}
            /\ UNCHANGED <<slot, obj, nobj, drx, fate>>
  BY <1>3, <1>11 DEF MgrStop, Stopping
<1> QED
  BY <1>4, <1>6, <1>7, <1>8, <1>9, <1>10, <1>11 DEF Handler

LEMMA TailDown ==
  ASSUME DownInv, dl # <<>>
  PROVE  /\ Head(dl) = dl[1] /\ dl[1] \in Messages /\ Len(dl) \in Nat /\ Len(dl) >= 1
         /\ Len(Tail(dl)) = Len(dl) - 1
         /\ \A i \in 1..Len(Tail(dl)) : i + 1 \in 1..Len(dl) /\ Tail(dl)[i] = dl[i + 1]
<1>1. PICK S : S = Messages
  OBVIOUS
<1>2. dl \in Seq(S)
  BY <1>1 DEF DownInv
<1>3. /\ Head(dl) = dl[1] /\ dl[1] \in S /\ Len(dl) \in Nat /\ Len(dl) >= 1
      /\ Len(Tail(dl)) = Len(dl) - 1
      /\ \A i \in 1..Len(Tail(dl)) : i + 1 \in 1..Len(dl) /\ Tail(dl)[i] = dl[i + 1]
  BY ONLY <1>2, dl # <<>>
<1> QED
  BY <1>1, <1>3

\* The object of a session that is found.
LEMMA FoundSession ==
  ASSUME ObjInv, NEW i \in Slot
  PROVE  LET p == GetPduSession(i) IN
         p = 0 \/ (p = slot[i] /\ i # NSlot /\ p \in 1..nobj /\ p \in Obj /\ obj[p].id = i)
<1>1. NSlot \in Nat /\ NumPdu \in Nat /\ i \in 1..NSlot
  BY ConstAssumption DEF Slot
<1>2. nobj \in 0..NumPdu + 1 /\ slot[i] \in 0..nobj
  BY DEF ObjInv
<1>3. slot[i] = 0 \/ (slot[i] \in 1..nobj /\ slot[i] \in Obj)
  BY <1>1, <1>2 DEF Obj
<1>4. slot[i] # 0 => obj[slot[i]].id = i
  BY DEF ObjInv
<1>5. i > NSlot - 1 <=> i = NSlot
  BY <1>1
<1> QED
  BY <1>3, <1>4, <1>5 DEF GetPduSession

\* What the UE does with the next message of the gNodeB.
DownAccept(i) ==
    LET p == GetPduSession(i) IN
    /\ dl[1].type = "sessAccept" /\ dl' = Tail(dl)
    /\ obj' = IF p = 0 THEN obj ELSE [obj EXCEPT ![p].sm = "ACTIVE"]
    /\ UNCHANGED <<slot, todo, retry, nretry, rx, nrx, closed>>
DownRelease(i) ==
    /\ dl[1].type = "sessRelease" /\ DeletePduSession(i) /\ dl' = Tail(dl)
    /\ UNCHANGED <<obj, retry, nretry, rx, nrx, closed>>
DownReject(i) ==
    /\ dl[1].type = "sessReject" /\ HandleSessReject(i) /\ dl' = Tail(dl)
    /\ UNCHANGED <<slot, todo, obj, rx, nrx, closed>>
DownHandover ==
    /\ dl[1].type = "handover" /\ HandleHandover /\ UNCHANGED <<slot, obj, todo, retry, nretry>>
DownNas ==
    /\ dl[1].type \notin SessTypes /\ todo' \in Seq(Plain) /\ dl' = Tail(dl)
    /\ UNCHANGED <<slot, obj, retry, nretry, rx, nrx, closed>>

LEMMA DownCases ==
  ASSUME DownInv, MsgInv, StopInv, GnbMsgHandler
  PROVE  /\ alive /\ todo = <<>> /\ dl # <<>> /\ ~ueRxNil
         /\ UNCHANGED <<alive, nobj, drx, tick, gnbTx, lock, mm>> /\ UNCHANGED scnVars /\ UNCHANGED coreVars
         /\ \/ dl[1].id \in Slot /\ (DownAccept(dl[1].id) \/ DownRelease(dl[1].id) \/ DownReject(dl[1].id))
            \/ DownHandover \/ DownNas
<1>1. /\ alive /\ todo = <<>> /\ dl # <<>>
      /\ UNCHANGED <<alive, nobj, drx, tick, gnbTx, lock, mm>> /\ UNCHANGED scnVars /\ UNCHANGED coreVars
  BY DEF GnbMsgHandler
<1>2. ~ueRxNil
  BY <1>1 DEF StopInv, EndingInv
<1>3. Head(dl) = dl[1] /\ 1 \in 1..Len(dl)
  BY <1>1, TailDown
<1>4. PICK m : m = dl[1]
  OBVIOUS
<1>5. m.type \in SessTypes => m.id \in Slot
  BY <1>3, <1>4 DEF MsgInv
<1>6. \/ /\ m.type = "sessAccept" /\ HandleSessAccept(m.id)
         /\ dl' = Tail(dl) /\ UNCHANGED <<rx, nrx, closed, guti>>
      \/ /\ m.type = "sessRelease" /\ DeletePduSession(m.id)
         /\ dl' = Tail(dl) /\ UNCHANGED <<obj, rx, nrx, closed, guti, retryVars, fate>>
      \/ /\ m.type = "sessReject" /\ HandleSessReject(m.id)
         /\ dl' = Tail(dl) /\ UNCHANGED <<rx, nrx, closed, guti>>
      \/ /\ m.type = "handover" /\ HandleHandover
         /\ UNCHANGED <<slot, obj, todo, guti, retryVars, fate>>
      \/ /\ m.type \notin {"sessAccept", "sessRelease", "sessReject", "handover"}
         /\ todo' = DispatchNas(m.type)
         /\ dl' = Tail(dl) /\ UNCHANGED <<slot, obj, rx, nrx, closed, retryVars, fate>>
  BY <1>3, <1>4 DEF GnbMsgHandler
<1>7. CASE m.type = "sessAccept" /\ HandleSessAccept(m.id) /\ dl' = Tail(dl) /\ UNCHANGED <<rx, nrx, closed, guti>>
  <2>1. DownAccept(m.id)
    BY <1>4, <1>7 DEF DownAccept, HandleSessAccept, retryVars
  <2> QED
    BY <1>1, <1>2, <1>4, <1>5, <1>7, <2>1 DEF SessTypes
<1>8. CASE m.type = "sessRelease" /\ DeletePduSession(m.id) /\ dl' = Tail(dl)
           /\ UNCHANGED <<obj, rx, nrx, closed, guti, retryVars, fate>>
  <2>1. DownRelease(m.id)
    BY <1>4, <1>8 DEF DownRelease, retryVars
  <2> QED
    BY <1>1, <1>2, <1>4, <1>5, <1>8, <2>1 DEF SessTypes
<1>9. CASE m.type = "sessReject" /\ HandleSessReject(m.id) /\ dl' = Tail(dl) /\ UNCHANGED <<rx, nrx, closed, guti>>
  <2>1. DownReject(m.id)
    BY <1>4, <1>9 DEF DownReject, HandleSessReject
  <2> QED
    BY <1>1, <1>2, <1>4, <1>5, <1>9, <2>1 DEF SessTypes
<1>10. CASE m.type = "handover" /\ HandleHandover /\ UNCHANGED <<slot, obj, todo, guti, retryVars, fate>>
  <2>1. DownHandover
    BY <1>4, <1>10 DEF DownHandover, retryVars
  <2> QED
    BY <1>1, <1>2, <2>1
<1>11. CASE /\ m.type \notin {"sessAccept", "sessRelease", "sessReject", "handover"}
            /\ todo' = DispatchNas(m.type)
            /\ dl' = Tail(dl) /\ UNCHANGED <<slot, obj, rx, nrx, closed, retryVars, fate>>
  <2>1. todo' \in Seq(Plain)
    BY <1>11, PlainNas
  <2>2. DownNas
    BY <1>4, <1>11, <2>1 DEF DownNas, SessTypes, retryVars
  <2> QED
    BY <1>1, <1>2, <2>2
<1> QED
  BY <1>6, <1>7, <1>8, <1>9, <1>10, <1>11

LEMMA NotAsking ==
  ASSUME NEW s \in Seq(Plain) \cup Seq(Quit), NEW i PROVE s # <<SendS("sessReq", i)>>
<1> SUFFICES ASSUME s = <<SendS("sessReq", i)>> PROVE FALSE
  OBVIOUS
<1>1. PICK x : x = SendS("sessReq", i)
  OBVIOUS
<1>2. s[1] = x /\ Len(s) = 1
  BY <1>1
<1>3. x \in Plain \/ x \in Quit
  <2>1. PICK S : S \in {Plain, Quit} /\ s \in Seq(S)
    BY Zenon
  <2>2. s[1] \in S
    BY ONLY <1>2, <2>1
  <2> QED
    BY <1>2, <2>1, <2>2
<1> QED
  BY <1>1, <1>3, StepKinds

LEMMA QuitSteps == <<Terminate>> \in Seq(Quit) /\ TerminateSteps \in Seq(Quit)
<1>0. Terminate \in Quit /\ Send("deregReq") \in Quit /\ Tell("DEREGISTERED") \in Quit
      /\ \A i \in Slot : Release(i) \in Quit
  BY DEF Quit
<1>1. PICK S : S = Quit
  OBVIOUS
<1>2. <<Terminate>> \in Seq(S) /\ <<Send("deregReq"), Tell("DEREGISTERED")>> \in Seq(S)
  BY <1>0, <1>1
<1> DEFINE rel == [i \in 1..NSlot |-> Release(i)]
<1>3. rel \in Seq(S)
  <2>1. NSlot \in Nat
    BY ConstAssumption
  <2>2. rel \in [1..NSlot -> S]
    BY <1>0, <1>1 DEF Slot
  <2> QED
    BY <2>1, <2>2, IsASeq
<1> HIDE DEF rel
<1>4. \A s, t \in Seq(S) : s \o t \in Seq(S)
  BY ONLY ConcatProperties
<1>5. rel \o InitDeregistration \o <<Terminate>> \in Seq(S)
  BY <1>2, <1>3, <1>4 DEF InitDeregistration
<1> QED
  BY <1>1, <1>2, <1>5 DEF TerminateSteps, rel

\* The next step of the UE, and those after it.
LEMMA TailTodo ==
  ASSUME StepInv, todo # <<>>, todo' = Tail(todo), ueRxNil' = ueRxNil
  PROVE  /\ StepInv' /\ Head(todo) = todo[1]
         /\ IF ueRxNil THEN todo[1] \in Quit
            ELSE todo[1] \in Plain \/ \E i \in Slot : Asking(i) /\ todo[1] = SendS("sessReq", i)
         /\ \A i : todo' # <<SendS("sessReq", i)>>
         /\ Len(todo) \in Nat /\ Len(todo') = Len(todo) - 1
         /\ \A k \in 1..Len(todo') : k + 1 \in 1..Len(todo) /\ todo'[k] = todo[k + 1]
<1>1. ASSUME NEW S, todo \in Seq(S)
      PROVE  /\ todo' \in Seq(S) /\ Head(todo) = todo[1] /\ todo[1] \in S
             /\ Len(todo) \in Nat /\ Len(todo') = Len(todo) - 1
             /\ \A k \in 1..Len(todo') : k + 1 \in 1..Len(todo) /\ todo'[k] = todo[k + 1]
  BY ONLY <1>1, todo # <<>>, todo' = Tail(todo)
<1>2. CASE ueRxNil
  <2>1. todo \in Seq(Quit)
    BY <1>2 DEF StepInv
  <2>2. todo' \in Seq(Quit) /\ todo[1] \in Quit
    BY <1>1, <2>1
  <2> QED
    BY <1>1, <1>2, <2>1, <2>2, NotAsking DEF StepInv
<1>3. CASE ~ueRxNil /\ todo \in Seq(Plain)
  <2>1. todo' \in Seq(Plain) /\ todo[1] \in Plain
    BY <1>1, <1>3
  <2> QED
    BY <1>1, <1>3, <2>1, NotAsking DEF StepInv
<1>4. CASE ~ueRxNil /\ \E i \in Slot : Asking(i)
  <2>1. PICK i \in Slot : todo = <<SendS("sessReq", i)>>
    BY <1>4 DEF Asking
  <2>2. PICK x : x = SendS("sessReq", i)
    OBVIOUS
  <2>3. todo = <<x>>
    BY <2>1, <2>2
  <2>4. todo \in Seq({x}) /\ Tail(todo) = <<>> /\ todo[1] = x
    BY ONLY <2>3
  <2>5. todo' \in Seq(Plain)
    BY <2>4, PlainTriggers
  <2>6. todo[1] = SendS("sessReq", i) /\ Asking(i)
    BY <2>1, <2>2, <2>4 DEF Asking
  <2>7. StepInv' /\ \A j : todo' # <<SendS("sessReq", j)>>
    BY <1>4, <2>5, NotAsking DEF StepInv
  <2> QED
    BY <1>1, <1>4, <2>4, <2>6, <2>7
<1> QED
  BY <1>2, <1>3, <1>4 DEF StepInv

LEMMA StepStep ==
  ASSUME TInv, [Next]_vars PROVE StepInv'
<1> USE DEF scnVars, ueVars
<1>0. OutInv /\ CountInv /\ CustomInv /\ DownInv /\ MsgInv /\ StopInv /\ StepInv
  BY DEF TInv, IInv, StopInv
<1>1. CASE UeMgrHandler
  <2>1. ~ueRxNil /\ ueRxNil' = Stopping(out[1]) /\ out # <<>>
    <3>1. out # <<>> /\ out' = Tail(out) /\ ~ueRxNil /\ ueRxNil' = (Head(out).type \in {"Terminate", "Kill"})
      BY <1>1 DEF UeMgrHandler
    <3> QED
      BY <1>0, <3>1, TailOut DEF Stopping
  <2>2. CASE MgrStop
    BY <2>1, <2>2, QuitSteps DEF MgrStop, StepInv
  <2>3. CASE MgrPlain
    BY <2>1, <2>3 DEF MgrPlain, StepInv
  <2>4. CASE MgrNew
    <3>1. ~ueRxNil' /\ \E i \in Slot : todo' = <<SendS("sessReq", i)>>
      BY <2>1, <2>4 DEF MgrNew, NewSession, FreeSlots
    <3> QED
      BY <3>1 DEF StepInv, Asking
  <2> QED
    BY <1>0, <1>1, <2>2, <2>3, <2>4, ManagerCases
<1>2. CASE UeStep \/ StateChange
  <2>1. todo # <<>> /\ todo' = Tail(todo) /\ ueRxNil' = ueRxNil
    BY <1>2 DEF UeStep, StateChange
  <2> QED
    BY <1>0, <2>1, TailTodo
<1>3. CASE GnbMsgHandler
  <2>1. todo = <<>> /\ ~ueRxNil /\ ueRxNil' = ueRxNil
    BY <1>0, <1>3, DownCases
  <2>2. todo' \in Seq(Plain)
    <3>1. CASE todo' = todo
      BY <2>1, <3>1, PlainTriggers
    <3>2. CASE dl[1].id \in Slot /\ DownRelease(dl[1].id)
      <4>1. dl[1].id \in 0..NSlot /\ "sessRelComplete" \in PlainTypes
        BY <3>2, ConstAssumption DEF Slot, PlainTypes, NasTypes
      <4>2. <<SendS("sessRelComplete", dl[1].id)>> \in Seq(Plain)
        BY <4>1, PlainStep, ShortPlain
      <4>3. todo' = todo \/ todo' = <<>> \/ todo' = <<SendS("sessRelComplete", dl[1].id)>>
        BY <3>2 DEF DownRelease, DeletePduSession
      <4> QED
        BY <3>1, <4>2, <4>3, PlainTriggers
    <3>3. CASE \E i \in Slot : DownAccept(i) \/ DownReject(i)
      BY <3>1, <3>3 DEF DownAccept, DownReject
    <3>4. CASE DownHandover \/ DownNas
      BY <3>1, <3>4 DEF DownHandover, DownNas
    <3> QED
      BY <1>0, <1>3, <3>2, <3>3, <3>4, DownCases
  <2> QED
    BY <2>1, <2>2 DEF StepInv
<1>4. CASE VerifyPaging
  <2>1. alive /\ todo = <<>> /\ ueRxNil' = ueRxNil /\ (todo' = <<>> \/ todo' = ServiceSteps)
    BY <1>4 DEF VerifyPaging, ServiceRequest
  <2>2. ~ueRxNil
    BY <1>0, <2>1 DEF StopInv, EndingInv
  <2> QED
    BY <2>1, <2>2, PlainTriggers DEF StepInv
<1>5. ASSUME UNCHANGED <<todo, ueRxNil>> PROVE StepInv'
  BY <1>0, <1>5 DEF StepInv, Asking
<1>6. ASSUME NEW t, NEW m, FireTimer(t, m) PROVE StepInv'
  BY <1>5, <1>6 DEF FireTimer, scnFrame
<1>7. CASE FromTemplate \/ TemplateStop \/ UeTxClosed \/ GnbTxClosed \/ DrxTick
  BY <1>5, <1>7 DEF FromTemplate, TemplateStop, UeTxClosed, GnbTxClosed, DrxTick, scnFrame
<1>8. CASE CoreAnswer \/ CoreOther \/ HandlerPaging \/ GnbHandover \/ GnbRelease
  BY <1>5, <1>8 DEF CoreAnswer, CoreOther, HandlerPaging, GnbHandover, GnbRelease
<1>9. ASSUME NEW r \in retry, RetryWake(r) \/ RetrySend(r) \/ RetryCount(r) PROVE StepInv'
  BY <1>5, <1>9 DEF RetryWake, RetrySend, RetryCount
<1>10. CASE UNCHANGED vars
  BY <1>5, <1>10 DEF vars
<1> QED
  BY <1>1, <1>2, <1>3, <1>4, <1>6, <1>7, <1>8, <1>9, <1>10 DEF Next

-----------------------------------------------------------------------------
(* The messages about sessions.                                            *)

\* What the core says, and about which session.
CoreNote       == csess' = csess /\ \E t \in DownTypes \ SessTypes, n \in Nat : ToUe(t, n)
CoreAccepts(i) == csess[i] = "asked" /\ csess' = [csess EXCEPT ![i] = "active"] /\ ToUe("sessAccept", i)
CoreRejects(i) == csess[i] = "asked" /\ csess' = [csess EXCEPT ![i] = "none"] /\ ToUe("sessReject", i)
CoreReleases(i) == /\ csess[i] \in {"active", "releasing"} /\ csess' = [csess EXCEPT ![i] = "none"]
                   /\ ToUe("sessRelease", i)

LEMMA CoreCases ==
  ASSUME DownInv, CoreAnswer \/ CoreOther \/ GnbHandover
  PROVE  /\ UNCHANGED ueVars /\ UNCHANGED linkVars /\ UNCHANGED retryVars /\ UNCHANGED scnVars /\ UNCHANGED fate
         /\ \/ CoreNote
            \/ \E i \in Slot : CoreAccepts(i) \/ CoreRejects(i) \/ CoreReleases(i)
<1>1. UNCHANGED ueVars /\ UNCHANGED linkVars /\ UNCHANGED retryVars /\ UNCHANGED scnVars /\ UNCHANGED fate
  BY DEF CoreAnswer, CoreOther, GnbHandover
<1>2. {"authRequest", "securityModeCommand", "serviceAccept", "registrationAccept", "authReject",
       "registrationReject", "badAuthRequest", "configurationUpdate", "identityRequest"}
         \subseteq DownTypes \ SessTypes
  BY DEF DownTypes, SessTypes
<1>3. 0 \in Nat /\ 1 \in Nat
  OBVIOUS
<1>4. CASE CoreAnswer
  <2>1. CASE core = "secured" /\ csess' = csess /\ \E g \in Gutis : ToUe("registrationAccept", IF g THEN 1 ELSE 0)
    <3>1. PICK g \in Gutis : ToUe("registrationAccept", IF g THEN 1 ELSE 0)
      BY <2>1
    <3>2. PICK n \in Nat : ToUe("registrationAccept", n)
      BY <1>3, <3>1
    <3> QED
      BY <1>1, <1>2, <2>1, <3>2 DEF CoreNote
  <2>2. CASE csess' = csess /\ \E t \in DownTypes \ SessTypes : ToUe(t, 0)
    BY <1>1, <1>3, <2>2 DEF CoreNote
  <2>3. CASE \E i \in Slot : CoreAccepts(i) \/ CoreReleases(i)
    BY <1>1, <2>3
  <2> QED
    BY <1>2, <1>4, <2>1, <2>2, <2>3 DEF CoreAnswer, CoreAccepts, CoreReleases
<1>5. CASE CoreOther
  <2>1. CASE csess' = csess /\ \E t \in DownTypes \ SessTypes : ToUe(t, 0)
    BY <1>1, <1>3, <2>1 DEF CoreNote
  <2>2. CASE \E i \in Slot :
          /\ csess[i] \in {"asked", "active"} /\ csess' = [csess EXCEPT ![i] = "none"]
          /\ ToUe(IF csess[i] = "asked" THEN "sessReject" ELSE "sessRelease", i)
    <3>1. PICK i \in Slot :
          /\ csess[i] \in {"asked", "active"} /\ csess' = [csess EXCEPT ![i] = "none"]
          /\ ToUe(IF csess[i] = "asked" THEN "sessReject" ELSE "sessRelease", i)
      BY <2>2
    <3>2. CASE csess[i] = "asked"
      BY <1>1, <3>1, <3>2 DEF CoreRejects
    <3>3. CASE csess[i] # "asked"
      BY <1>1, <3>1, <3>3 DEF CoreReleases
    <3> QED
      BY <3>2, <3>3
  <2> QED
    BY <1>2, <1>5, <2>1, <2>2 DEF CoreOther
<1>6. CASE GnbHandover
  <2>1. csess' = csess /\ ToUe("handover", 0) /\ nho < MaxHo
    BY <1>6 DEF GnbHandover
  <2>2. MaxHo # 0
    BY <2>1 DEF DownInv
  <2>3. "handover" \in DownTypes \ SessTypes
    BY <2>2 DEF DownTypes, SessTypes
  <2> QED
    BY <1>1, <1>3, <2>1, <2>3 DEF CoreNote
<1> QED
  BY <1>4, <1>5, <1>6

LEMMA AppendDown ==
  ASSUME DownInv, NEW t, NEW n, ToUe(t, n)
  PROVE  /\ Len(dl') = Len(dl) + 1 /\ Len(dl) \in Nat
         /\ dl'[Len(dl) + 1].type = t /\ dl'[Len(dl) + 1].id = n
         /\ \A j \in 1..Len(dl) : dl'[j] = dl[j]
<1>1. PICK m : m = Msg(t, n)
  OBVIOUS
<1>2. m.type = t /\ m.id = n
  BY <1>1 DEF Msg
<1>3. PICK S : S = Messages
  OBVIOUS
<1>4. dl \in Seq(S) /\ dl' = Append(dl, m)
  BY <1>1, <1>3 DEF DownInv, ToUe
<1>5. /\ Len(dl') = Len(dl) + 1 /\ Len(dl) \in Nat /\ dl'[Len(dl) + 1] = m
      /\ \A j \in 1..Len(dl) : dl'[j] = dl[j]
  BY ONLY <1>4
<1> QED
  BY <1>2, <1>5

LEMMA MsgStep ==
  ASSUME TInv, [Next]_vars PROVE MsgInv'
<1> USE DEF scnFrame
<1>0. DownInv /\ MsgInv /\ StopInv
  BY DEF TInv, IInv
<1>1. ASSUME UNCHANGED dl PROVE MsgInv'
  BY <1>0, <1>1 DEF MsgInv
<1>2. ASSUME dl' = <<>> PROVE MsgInv'
  BY <1>2 DEF MsgInv
<1>3. CASE CoreAnswer \/ CoreOther \/ GnbHandover
  <2>1. PICK t, n : ToUe(t, n) /\ (t \in SessTypes => n \in Slot)
    BY <1>0, <1>3, CoreCases DEF CoreNote, CoreAccepts, CoreRejects, CoreReleases
  <2>2. /\ Len(dl') = Len(dl) + 1 /\ Len(dl) \in Nat
        /\ dl'[Len(dl) + 1].type = t /\ dl'[Len(dl) + 1].id = n
        /\ \A j \in 1..Len(dl) : dl'[j] = dl[j]
    BY <1>0, <2>1, AppendDown
  <2>3. \A j \in 1..Len(dl') : j \in 1..Len(dl) \/ j = Len(dl) + 1
    BY <2>2
  <2> QED
    BY <1>0, <2>1, <2>2, <2>3 DEF MsgInv
<1>4. CASE GnbMsgHandler
  <2>1. dl # <<>> /\ (dl' = Tail(dl) \/ dl' = <<>>)
    BY <1>4, DownSplit DEF HandleHandover
  <2>2. CASE dl' = Tail(dl)
    <3>1. \A i \in 1..Len(dl') : i + 1 \in 1..Len(dl) /\ dl'[i] = dl[i + 1]
      BY <1>0, <2>1, <2>2, TailDown
    <3> QED
      BY <1>0, <3>1 DEF MsgInv
  <2> QED
    BY <1>2, <2>1, <2>2
<1>5. CASE UeStep
  <2>1. UNCHANGED dl \/ dl' = <<>>
    BY <1>5 DEF UeStep, SendStep, ConnectStep, ReleaseStep, DrxStep, EndStep
  <2> QED
    BY <1>1, <1>2, <2>1
<1>6. CASE UeMgrHandler \/ GnbTxClosed \/ DrxTick \/ VerifyPaging \/ HandlerPaging \/ GnbRelease
  BY <1>1, <1>6 DEF UeMgrHandler, GnbTxClosed, DrxTick, VerifyPaging, HandlerPaging, GnbRelease
<1>7. CASE TemplateStop \/ FromTemplate \/ StateChange \/ UeTxClosed
  BY <1>1, <1>7 DEF TemplateStop, FromTemplate, StateChange, UeTxClosed
<1>8. ASSUME NEW t, NEW m, FireTimer(t, m) PROVE MsgInv'
  BY <1>1, <1>8 DEF FireTimer
<1>9. ASSUME NEW r \in retry, RetryWake(r) \/ RetrySend(r) \/ RetryCount(r) PROVE MsgInv'
  BY <1>1, <1>9 DEF RetryWake, RetrySend, RetryCount
<1>10. CASE UNCHANGED vars
  BY <1>1, <1>10 DEF vars
<1> QED
  BY <1>3, <1>4, <1>5, <1>6, <1>7, <1>8, <1>9, <1>10 DEF Next

-----------------------------------------------------------------------------
(* The types.                                                              *)

LEMMA BaseStep ==
  ASSUME TInv, [Next]_vars PROVE BaseInv'
<1> USE DEF ueVars, linkVars, retryVars, scnVars, scnFrame
<1>0. StepInv /\ RetryInv /\ BaseInv
  BY DEF TInv, IInv
<1>1. ASSUME UNCHANGED <<mm, alive, guti, drx, tick, gnbTx, lock, nretry>> PROVE BaseInv'
  BY <1>0, <1>1 DEF BaseInv
<1>2. CASE UeMgrHandler
  <2>1. UNCHANGED <<mm, alive, guti, tick, gnbTx, lock, nretry>>
    BY <1>2 DEF UeMgrHandler
  <2>2. drx' \in {drx, "stopped"}
    BY <1>2 DEF UeMgrHandler, Handler, ServiceRequest, StopDRX
  <2> QED
    BY <1>0, <2>1, <2>2 DEF BaseInv
<1>3. CASE UeStep
  <2>1. guti' = guti /\ lock' = lock /\ nretry' = nretry
    BY <1>3 DEF UeStep, SendStep, ConnectStep, ReleaseStep, DrxStep, EndStep
  <2>2. mm' \in {mm, "NULL"} /\ alive' \in {alive, FALSE}
    BY <1>3 DEF UeStep, SendStep, ConnectStep, ReleaseStep, DrxStep, EndStep
  <2>3. drx' \in {drx, "on", "stopped"} /\ tick' \in {tick, FALSE} /\ gnbTx' \in {gnbTx, "open"}
    BY <1>3 DEF UeStep, SendStep, ConnectStep, ReleaseStep, DrxStep, EndStep, StopDRX
  <2> QED
    BY <1>0, <2>1, <2>2, <2>3 DEF BaseInv, MMStates
<1>4. CASE StateChange
  <2>1. /\ todo # <<>> /\ todo' = Tail(todo) /\ ueRxNil' = ueRxNil /\ mm' = Head(todo).arg
        /\ Head(todo).op = "tell" /\ UNCHANGED <<alive, guti, drx, tick, gnbTx, lock, nretry>>
    BY <1>4 DEF StateChange
  <2>2. mm' \in MMStates
    <3>1. todo[1].op = "tell" /\ mm' = todo[1].arg
      BY <1>0, <2>1, TailTodo
    <3> QED
      BY <1>0, <2>1, <3>1, TailTodo, StepKinds
  <2> QED
    BY <1>0, <2>1, <2>2 DEF BaseInv
<1>5. CASE GnbMsgHandler
  <2>1. UNCHANGED <<mm, alive, drx, tick, gnbTx, lock>>
    BY <1>5 DEF GnbMsgHandler
  <2>2. guti' = guti \/ guti' = (guti \/ Head(dl) = Msg("registrationAccept", 1))
    BY <1>5, Zenon DEF GnbMsgHandler
  <2>3. guti' \in BOOLEAN
    BY <1>0, <2>2, Zenon DEF BaseInv
  <2>4. nretry' \in {nretry, nretry + 1}
    BY <1>5, DownSplit DEF HandleSessReject
  <2>5. lock' \in 0..nretry'
    BY <1>0, <2>1, <2>4 DEF BaseInv, RetryInv
  <2> QED
    BY <1>0, <2>1, <2>3, <2>5 DEF BaseInv
<1>6. CASE GnbTxClosed \/ DrxTick \/ GnbRelease
  <2>1. /\ UNCHANGED <<mm, alive, guti, drx, lock, nretry>> /\ tick' \in {tick, TRUE}
        /\ gnbTx' \in {gnbTx, "closed", "nil"}
    BY <1>6 DEF GnbTxClosed, DrxTick, GnbRelease
  <2> QED
    BY <1>0, <2>1 DEF BaseInv
<1>7. CASE VerifyPaging
  <2>1. UNCHANGED <<mm, alive, guti, gnbTx, lock, nretry>> /\ tick' = FALSE /\ drx' \in {drx, "stopped"}
    BY <1>7 DEF VerifyPaging, ServiceRequest, StopDRX
  <2> QED
    BY <1>0, <2>1 DEF BaseInv
<1>8. ASSUME NEW r \in retry, RetryWake(r) \/ RetrySend(r) \/ RetryCount(r) PROVE BaseInv'
  <2>1. UNCHANGED <<mm, alive, guti, drx, tick, gnbTx, nretry>> /\ lock' \in {lock, r.n, 0}
    BY <1>8 DEF RetryWake, RetrySend, RetryCount
  <2>2. r.n \in 1..nretry /\ nretry \in Nat
    BY <1>0 DEF RetryInv
  <2>3. lock' \in 0..nretry'
    BY <1>0, <2>1, <2>2 DEF BaseInv
  <2> QED
    BY <1>0, <2>1, <2>3 DEF BaseInv
<1>9. ASSUME NEW t, NEW m, FireTimer(t, m) PROVE BaseInv'
  BY <1>1, <1>9 DEF FireTimer
<1>10. CASE FromTemplate \/ TemplateStop \/ UeTxClosed
  BY <1>1, <1>10 DEF FromTemplate, TemplateStop, UeTxClosed
<1>11. CASE CoreAnswer \/ CoreOther \/ HandlerPaging \/ GnbHandover
  BY <1>1, <1>11 DEF CoreAnswer, CoreOther, HandlerPaging, GnbHandover
<1>12. CASE UNCHANGED vars
  BY <1>1, <1>12 DEF vars
<1> QED
  BY <1>2, <1>3, <1>4, <1>5, <1>6, <1>7, <1>8, <1>9, <1>10, <1>11, <1>12 DEF Next

\* A scenario that has nothing to send has room for what it may still request.
LEMMA CountRoom ==
  ASSUME CountInv, ~Custom, out = <<>>, nobj \in Nat PROVE nobj <= NumPdu
<1>1. Len(out) = 0
  OBVIOUS
<1> QED
  BY <1>1, ConstAssumption DEF CountInv

LEMMA CountOne ==
  ASSUME CountInv, out = <<>>, NEW t, t \notin {"NewPDUSession", "Deregistration", "DestroyPDUSession"},
         out' = <<>> \/ out' = <<Msg(t, 0)>>, UNCHANGED <<nobj, registered>>, nobj \in Nat
  PROVE  CountInv'
<1>1. Other(<<>>)
  BY DEF Other
<1>2. Other(<<Msg(t, 0)>>)
  <2>1. PICK m : m = Msg(t, 0)
    OBVIOUS
  <2>2. m.type = t
    BY <2>1 DEF Msg
  <2>3. Len(<<m>>) = 1 /\ <<m>>[1] = m /\ \A k \in 1..1 : k = 1
    OBVIOUS
  <2> QED
    BY <2>1, <2>2, <2>3 DEF Other
<1>3. Other(out')
  BY <1>1, <1>2
<1>4. Other(out)'
  BY <1>3 DEF Other
<1> QED
  BY <1>4, CountRoom DEF CountInv

LEMMA CountStep ==
  ASSUME TInv, [Next]_vars PROVE CountInv'
<1> USE DEF ueVars, scnVars, scnFrame
<1>0. CountInv /\ CustomInv /\ OutInv /\ nobj \in Nat /\ NumPdu \in Nat
  BY ConstAssumption DEF TInv, IInv, StopInv, ObjInv
<1>1. ASSUME UNCHANGED <<out, nobj, registered>> PROVE CountInv'
  BY <1>0, <1>1 DEF CountInv, Fresh, Other
<1>2. CASE UeMgrHandler
  <2> SUFFICES ASSUME ~Custom PROVE CountInv'
    BY DEF CountInv
  <2>1. out # <<>> /\ out' = Tail(out) /\ registered' = registered
    BY <1>2 DEF UeMgrHandler
  <2>2. /\ Len(out) \in Nat /\ Len(out) >= 1 /\ Len(out') = Len(out) - 1
        /\ \A i \in 1..Len(out') : i + 1 \in 1..Len(out) /\ out'[i] = out[i + 1]
    BY <1>0, <2>1, TailOut
  <2>3. (Fresh(out) => Fresh(out)') /\ (Other(out) => Other(out)')
    BY <2>2 DEF Fresh, Other
  <2>4. CASE nobj' = nobj
    <3>1. Fresh(out) /\ nobj + Len(out) <= NumPdu => nobj' + Len(out') <= NumPdu
      BY <1>0, <2>2, <2>4
    <3> QED
      BY <1>0, <2>1, <2>3, <2>4, <3>1 DEF CountInv
  <2>5. CASE MgrNew
    <3>1. out[1].type = "NewPDUSession" /\ nobj' = nobj + 1
      BY <2>5 DEF MgrNew, NewSession
    <3>2. 1 \in 1..Len(out)
      BY <2>2
    <3>3. ~Other(out)
      BY <3>1, <3>2 DEF Other
    <3>4. Fresh(out) /\ nobj + Len(out) <= NumPdu /\ registered
      BY <1>0, <3>3 DEF CountInv
    <3>5. nobj' + Len(out') <= NumPdu
      BY <1>0, <2>2, <3>1, <3>4
    <3> QED
      BY <2>1, <2>3, <3>4, <3>5 DEF CountInv
  <2> QED
    BY <1>0, <1>2, <2>4, <2>5, ManagerCases DEF MgrStop, MgrPlain
<1>3. CASE StateChange
  <2> DEFINE news == [i \in 1..NumPdu |-> Msg("NewPDUSession", 0)]
  <2>1. ~Custom /\ out = <<>> /\ nobj' = nobj
    BY <1>3 DEF StateChange, InSelect
  <2>2. /\ registered' = (registered \/ Head(todo).arg = "REGISTERED")
        /\ out' = IF Head(todo).arg = "REGISTERED" /\ ~registered THEN news ELSE <<>>
    BY <1>3, Zenon DEF StateChange
  <2>3. Len(news) = NumPdu /\ \A k \in 1..Len(news) : news[k].type = "NewPDUSession"
    <3>1. Msg("NewPDUSession", 0).type = "NewPDUSession"
      BY DEF Msg
    <3>2. Len(news) = NumPdu /\ \A k \in 1..NumPdu : news[k] = Msg("NewPDUSession", 0)
      BY <1>0
    <3> QED
      BY <3>1, <3>2
  <2> HIDE DEF news
  <2>4. CASE Head(todo).arg = "REGISTERED" /\ ~registered
    <3>1. out' = news /\ registered' /\ nobj = 0
      BY <1>0, <2>1, <2>2, <2>4 DEF CountInv
    <3>2. Fresh(out)' /\ nobj' + Len(out') <= NumPdu
      BY <1>0, <2>1, <2>3, <3>1 DEF Fresh
    <3> QED
      BY <3>1, <3>2 DEF CountInv
  <2>5. CASE ~(Head(todo).arg = "REGISTERED" /\ ~registered)
    <3>1. out' = <<>> /\ (registered' <=> registered)
      BY <2>2, <2>5
    <3>2. Other(out)'
      BY <3>1 DEF Other
    <3>3. nobj <= NumPdu
      BY <1>0, <2>1, CountRoom
    <3> QED
      BY <1>0, <2>1, <3>1, <3>2, <3>3 DEF CountInv
  <2> QED
    BY <2>4, <2>5
<1>4. ASSUME NEW t, NEW m \in {"Terminate", "Idle", "ServiceRequest"}, FireTimer(t, m) PROVE CountInv'
  <2>1. out = <<>> /\ UNCHANGED <<nobj, registered>> /\ (out' = <<>> \/ out' = <<Msg(m, 0)>>)
    BY <1>4 DEF FireTimer, InSelect
  <2> QED
    BY <1>0, <1>4, <2>1, CountOne
<1>5. CASE FromTemplate
  <2>1. out = <<>> /\ UNCHANGED <<nobj, registered>> /\ (out' = <<>> \/ out' = <<Msg(Stop, 0)>>)
    BY <1>5 DEF FromTemplate, InSelect
  <2>2. Stop \notin {"NewPDUSession", "Deregistration", "DestroyPDUSession"}
    BY ConstAssumption
  <2> QED
    BY <1>0, <2>1, <2>2, CountOne
<1>6. CASE UeStep \/ GnbMsgHandler \/ GnbTxClosed \/ DrxTick \/ VerifyPaging
  BY <1>1, <1>6 DEF UeStep, GnbMsgHandler, GnbTxClosed, DrxTick, VerifyPaging
<1>7. CASE TemplateStop \/ UeTxClosed
  BY <1>1, <1>7 DEF TemplateStop, UeTxClosed
<1>8. CASE CoreAnswer \/ CoreOther \/ HandlerPaging \/ GnbHandover \/ GnbRelease
  BY <1>1, <1>8 DEF CoreAnswer, CoreOther, HandlerPaging, GnbHandover, GnbRelease
<1>9. ASSUME NEW r \in retry, RetryWake(r) \/ RetrySend(r) \/ RetryCount(r) PROVE CountInv'
  BY <1>1, <1>9 DEF RetryWake, RetrySend, RetryCount
<1>10. CASE UNCHANGED vars
  BY <1>1, <1>10 DEF vars
<1> QED
  BY <1>2, <1>3, <1>4, <1>5, <1>6, <1>7, <1>8, <1>9, <1>10 DEF Next

\* The first announcement of a custom scenario is never read.
LEMMA CustomStep ==
  ASSUME TInv, [Next]_vars PROVE CustomInv'
<1> SUFFICES ASSUME Custom PROVE CustomInv'
  BY DEF CustomInv
<1> USE DEF ueVars, scnVars, scnFrame
<1>0. /\ CountInv /\ CustomInv /\ OutInv /\ StepInv /\ ObjInv /\ DownInv /\ MsgInv /\ StopInv
      /\ nobj = 0 /\ ~ueRxNil /\ tick = FALSE /\ drx = "nil"
  BY DEF TInv, IInv, StopInv, CustomInv
<1>1. ASSUME UNCHANGED <<nobj, ueRxNil, tick, drx, out, todo>>,
             out = CustomCalls /\ dl = <<>> /\ core = "none" => UNCHANGED <<dl, core>>
      PROVE  CustomInv'
  BY <1>0, <1>1 DEF CustomInv
<1>2. retry = {}
  BY <1>0 DEF ObjInv
<1>3. CASE UeMgrHandler
  <2>1. todo = <<>> /\ out # <<>> /\ out' = Tail(out) /\ tick' = tick
        /\ ueRxNil' = (Head(out).type \in {"Terminate", "Kill"})
    BY <1>3 DEF UeMgrHandler
  <2>2. out[1].type = "Registration" /\ Head(out) = out[1]
    BY <1>0, <2>1, FirstCall, TailOut
  <2>3. MgrPlain
    BY <1>0, <1>3, <2>2, ManagerCases DEF MgrStop, MgrNew, Stopping
  <2> QED
    BY <1>0, <2>1, <2>2, <2>3 DEF MgrPlain, CustomInv
<1>4. CASE UeStep
  <2>1. todo # <<>> /\ todo' = Tail(todo) /\ UNCHANGED <<nobj, ueRxNil, out>>
    BY <1>4 DEF UeStep
  <2>2. CASE todo = <<InitConn>> /\ out = CustomCalls /\ dl = <<>> /\ core = "none"
    <3>1. Head(todo) = InitConn /\ Tail(todo) = <<>>
      BY <2>2
    <3>2. InitConn.op = "connect"
      BY DEF InitConn, Step
    <3>3. ConnectStep
      BY <1>4, <3>1, <3>2 DEF UeStep
    <3> QED
      BY <1>0, <2>1, <2>2, <3>1, <3>3 DEF ConnectStep, CustomInv, coreVars
  <2>3. CASE todo = InitRegistration
    <3>1. PICK a, b : a = Send("regReq") /\ b = Tell("DEREGISTERED")
      OBVIOUS
    <3>2. todo = <<a, b>>
      BY <2>3, <3>1 DEF InitRegistration
    <3>3. Head(todo) = a /\ Tail(todo) = <<b>>
      BY ONLY <3>2
    <3>4. a.op = "send"
      BY <3>1 DEF Send, Step
    <3>5. UNCHANGED <<tick, drx>>
      BY <1>4, <3>3, <3>4 DEF UeStep, SendStep
    <3> QED
      BY <1>0, <2>1, <3>1, <3>3, <3>5 DEF CustomInv
  <2>4. CASE todo = <<Tell("DEREGISTERED")>>
    <3>1. Head(todo) = Tell("DEREGISTERED")
      BY <2>4
    <3>2. Head(todo).op = "tell"
      BY <3>1 DEF Tell, Step
    <3> QED
      BY <1>4, <3>2 DEF UeStep
  <2> QED
    BY <1>0, <2>1, <2>2, <2>3, <2>4 DEF CustomInv
<1>5. CASE GnbMsgHandler \/ VerifyPaging
  <2>1. todo = <<>> /\ (dl # <<>> \/ tick)
    BY <1>5 DEF GnbMsgHandler, VerifyPaging
  <2> QED
    BY <1>0, <2>1, FirstCall
<1>6. ASSUME NEW t, NEW m, FireTimer(t, m) PROVE FALSE
  BY <1>6 DEF FireTimer, InSelect
<1>7. CASE FromTemplate \/ StateChange \/ UeTxClosed
  BY <1>7 DEF FromTemplate, StateChange, UeTxClosed, InSelect
<1>8. CASE TemplateStop \/ GnbTxClosed \/ GnbRelease \/ HandlerPaging
  BY <1>1, <1>8 DEF TemplateStop, GnbTxClosed, GnbRelease, HandlerPaging, coreVars
<1>9. CASE CoreAnswer \/ CoreOther \/ GnbHandover
  <2>1. core # "none" /\ UNCHANGED <<nobj, ueRxNil, tick, drx, out, todo>>
    BY <1>9 DEF CoreAnswer, CoreOther, GnbHandover
  <2> QED
    BY <1>1, <2>1
<1>10. CASE DrxTick
  BY <1>0, <1>10 DEF DrxTick
<1>11. CASE UNCHANGED vars
  BY <1>1, <1>11 DEF vars, coreVars
<1> QED
  BY <1>2, <1>3, <1>4, <1>5, <1>6, <1>7, <1>8, <1>9, <1>10, <1>11 DEF Next

LEMMA SetSm ==
  ASSUME obj \in [Obj -> ObjRec], NEW p \in Obj, NEW x \in {"INACTIVE", "ACTIVE_PENDING", "ACTIVE"},
         NEW o, o = [obj EXCEPT ![p].sm = x]
  PROVE  /\ o \in [Obj -> ObjRec] /\ \A q \in Obj : o[q].id = obj[q].id
         /\ o[p].sm = x /\ \A q \in Obj : q # p => o[q] = obj[q]
<1> DEFINE u == [obj[p] EXCEPT !.sm = x]
<1>1. obj[p] \in ObjRec
  OBVIOUS
<1>2. u \in ObjRec /\ u.sm = x /\ u.id = obj[p].id
  BY <1>1 DEF ObjRec
<1>3. o = [obj EXCEPT ![p] = u]
  OBVIOUS
<1> HIDE DEF u
<1>4. o \in [Obj -> ObjRec] /\ o[p] = u /\ \A q \in Obj : q # p => o[q] = obj[q]
  BY <1>2, <1>3
<1> QED
  BY <1>2, <1>4

LEMMA SetRetries ==
  ASSUME obj \in [Obj -> ObjRec], NEW p \in Obj, NEW o, o = [obj EXCEPT ![p].retries = @ + 1]
  PROVE  o \in [Obj -> ObjRec] /\ \A q \in Obj : o[q].id = obj[q].id /\ o[q].sm = obj[q].sm
<1> DEFINE u == [obj[p] EXCEPT !.retries = @ + 1]
<1>1. obj[p] \in ObjRec
  OBVIOUS
<1>2. u \in ObjRec /\ u.sm = obj[p].sm /\ u.id = obj[p].id
  BY <1>1 DEF ObjRec
<1>3. o = [obj EXCEPT ![p] = u]
  OBVIOUS
<1> HIDE DEF u
<1>4. o \in [Obj -> ObjRec] /\ o[p] = u /\ \A q \in Obj : q # p => o[q] = obj[q]
  BY <1>2, <1>3
<1> QED
  BY <1>2, <1>4

\* Objects keep their id.
LEMMA ObjKept ==
  ASSUME ObjInv, nrx \in Nat, UNCHANGED nobj, obj' \in [Obj -> ObjRec],
         \A q \in Obj : obj'[q].id = obj[q].id,
         slot' \in [Slot -> 0..nobj], \A i \in Slot : slot'[i] \in {slot[i], 0},
         \A r \in retry' : r \in retry \/ (r \in RetryRec /\ r.p \in 1..nobj /\ r.ch \in 0..nrx),
         nrx' \in {nrx, nrx + 1}
  PROVE  ObjInv'
<1>0. NumPdu \in Nat /\ nobj \in 0..NumPdu + 1
  BY ConstAssumption DEF ObjInv
<1>1. \A i \in Slot : slot'[i] # 0 => obj'[slot'[i]].id = i
  <2> SUFFICES ASSUME NEW i \in Slot, slot'[i] # 0 PROVE obj'[slot'[i]].id = i
    OBVIOUS
  <2>1. slot'[i] = slot[i] /\ slot[i] \in 0..nobj /\ obj[slot[i]].id = i
    BY DEF ObjInv
  <2>2. slot[i] \in Obj
    BY <1>0, <2>1 DEF Obj
  <2> QED
    BY <2>1, <2>2
<1>2. \A r \in retry' : r \in RetryRec /\ r.p \in 1..nobj /\ r.ch \in 0..nrx
  BY DEF ObjInv
<1>3. \A r \in retry' : r \in RetryRec /\ r.p \in 1..nobj' /\ r.ch \in 0..nrx'
  BY <1>2
<1> QED
  BY <1>0, <1>1, <1>3 DEF ObjInv

\* A new session takes an object no slot and no goroutine has.
LEMMA NewObject ==
  ASSUME ObjInv, CountInv, OutInv, MgrNew, out # <<>>, out' = Tail(out),
         UNCHANGED <<retry, nrx>>
  PROVE  /\ ObjInv'
         /\ \E i \in Slot : /\ slot[i] = 0 /\ todo' = <<SendS("sessReq", i)>> /\ nobj' = nobj + 1
                            /\ slot' = [slot EXCEPT ![i] = nobj + 1]
                            /\ \A q \in 1..nobj : q \in Obj /\ obj'[q] = obj[q]
                            /\ obj'[nobj + 1].sm = "ACTIVE_PENDING" /\ nobj + 1 \in Obj
<1>0. NumPdu \in Nat /\ nobj \in 0..NumPdu + 1 /\ NSlot \in Nat
  BY ConstAssumption DEF ObjInv
<1>1. PICK i \in FreeSlots : NewSession(i, i)
  BY DEF MgrNew
<1>2. i \in Slot /\ slot[i] = 0
  BY DEF FreeSlots
<1>3. nobj + 1 <= NumPdu
  <2>1. Len(out) \in Nat /\ Len(out) >= 1
    BY TailOut
  <2>2. 1 \in 1..Len(out) /\ out[1].type = "NewPDUSession" /\ ~Custom
    BY <2>1 DEF MgrNew
  <2>3. ~Other(out)
    BY <2>2 DEF Other
  <2>4. nobj + Len(out) <= NumPdu
    BY <2>2, <2>3 DEF CountInv
  <2> QED
    BY <1>0, <2>1, <2>4
<1>4. PICK n : n = nobj + 1
  OBVIOUS
<1>5. n \in Obj /\ n \in 1..NumPdu + 1 /\ \A q \in 1..nobj : q \in Obj /\ q # n
  BY <1>0, <1>3, <1>4 DEF Obj
<1> DEFINE u == [id |-> i, sm |-> "ACTIVE_PENDING", retries |-> 0]
<1>6. u \in ObjRec /\ u.id = i /\ u.sm = "ACTIVE_PENDING"
  BY <1>0, <1>2 DEF ObjRec, Slot
<1>7. nobj' = n /\ slot' = [slot EXCEPT ![i] = n] /\ obj' = [obj EXCEPT ![n] = u]
      /\ todo' = <<SendS("sessReq", i)>>
  BY <1>1, <1>4 DEF NewSession
<1> HIDE DEF u
<1>8. obj' \in [Obj -> ObjRec] /\ obj'[n] = u /\ \A q \in Obj : q # n => obj'[q] = obj[q]
  BY <1>5, <1>6, <1>7 DEF ObjInv
<1>9. slot' \in [Slot -> 0..n] /\ slot'[i] = n /\ \A j \in Slot : j # i => slot'[j] = slot[j]
  BY <1>0, <1>2, <1>4, <1>7 DEF ObjInv
<1>10. \A j \in Slot : slot'[j] # 0 => obj'[slot'[j]].id = j
  <2> SUFFICES ASSUME NEW j \in Slot, slot'[j] # 0 PROVE obj'[slot'[j]].id = j
    OBVIOUS
  <2>1. CASE j = i
    BY <1>6, <1>8, <1>9, <2>1
  <2>2. CASE j # i
    <3>1. slot'[j] = slot[j] /\ slot[j] \in 1..nobj /\ obj[slot[j]].id = j
      BY <1>0, <1>9, <2>2 DEF ObjInv
    <3> QED
      BY <1>5, <1>8, <3>1
  <2> QED
    BY <2>1, <2>2
<1>11. \A r \in retry' : r \in RetryRec /\ r.p \in 1..n /\ r.ch \in 0..nrx'
  BY <1>0, <1>4 DEF ObjInv
<1>12. ObjInv'
  BY <1>0, <1>5, <1>7, <1>8, <1>9, <1>10, <1>11 DEF ObjInv
<1> QED
  BY <1>2, <1>4, <1>5, <1>6, <1>7, <1>8, <1>12

LEMMA ObjStep ==
  ASSUME TInv, [Next]_vars PROVE ObjInv'
<1> USE DEF ueVars, linkVars, retryVars, scnVars, scnFrame
<1>0. /\ ObjInv /\ CountInv /\ CustomInv /\ OutInv /\ StopInv /\ DownInv /\ MsgInv /\ RetryInv /\ StepInv
      /\ nrx \in Nat /\ rx \in 0..nrx /\ nretry \in Nat /\ NumPdu \in Nat /\ nobj \in 0..NumPdu + 1
  BY ConstAssumption DEF TInv, IInv, StopInv, LinkInv, RetryInv, ObjInv
<1>1. obj \in [Obj -> ObjRec] /\ slot \in [Slot -> 0..nobj] /\ \A i \in Slot : slot[i] \in {slot[i], 0}
  BY <1>0 DEF ObjInv
<1>2. ASSUME UNCHANGED <<obj, slot, nobj, retry>>, nrx' \in {nrx, nrx + 1} PROVE ObjInv'
  BY <1>0, <1>1, <1>2, ObjKept
<1>3. CASE UeMgrHandler
  <2>1. out # <<>> /\ out' = Tail(out) /\ UNCHANGED <<retry, nrx>>
    BY <1>3 DEF UeMgrHandler
  <2>2. CASE MgrNew
    BY <1>0, <2>1, <2>2, NewObject
  <2> QED
    BY <1>0, <1>2, <1>3, <2>1, <2>2, ManagerCases DEF MgrStop, MgrPlain
<1>4. CASE UeStep
  <2>1. todo # <<>> /\ todo' = Tail(todo) /\ ueRxNil' = ueRxNil /\ UNCHANGED <<slot, nobj, retry>>
    BY <1>4 DEF UeStep
  <2>2. Head(todo) = todo[1]
    BY <1>0, <2>1, TailTodo
  <2>3. CASE todo[1].op = "release" /\ ReleaseStep(todo[1].id) /\ obj' # obj
    <3>1. todo[1].id \in Slot
      BY <1>0, <2>1, <2>3, TailTodo, StepKinds
    <3>2. PICK p : p = GetPduSession(todo[1].id)
      OBVIOUS
    <3>3. p # 0 /\ obj' = [obj EXCEPT ![p].sm = "INACTIVE"] /\ nrx' = nrx
      BY <2>3, <3>2 DEF ReleaseStep
    <3>4. p \in Obj
      BY <1>0, <3>1, <3>2, <3>3, FoundSession
    <3>5. obj' \in [Obj -> ObjRec] /\ \A q \in Obj : obj'[q].id = obj[q].id
      BY <1>1, <3>3, <3>4, SetSm
    <3> QED
      BY <1>0, <1>1, <2>1, <3>3, <3>5, ObjKept
  <2>4. CASE obj' = obj
    <3>1. nrx' \in {nrx, nrx + 1}
      BY <1>4 DEF UeStep, SendStep, ConnectStep, ReleaseStep, DrxStep, EndStep
    <3> QED
      BY <1>2, <2>1, <2>4, <3>1
  <2> QED
    BY <1>4, <2>2, <2>3, <2>4 DEF UeStep, SendStep, ConnectStep, DrxStep, EndStep
<1>5. CASE GnbMsgHandler
  <2>1. nobj' = nobj
    BY <1>5 DEF GnbMsgHandler
  <2>2. PICK i : i = dl[1].id
    OBVIOUS
  <2>3. CASE i \in Slot /\ DownAccept(i)
    <3>1. PICK p : p = GetPduSession(i)
      OBVIOUS
    <3>2. (obj' = obj \/ (p # 0 /\ obj' = [obj EXCEPT ![p].sm = "ACTIVE"])) /\ UNCHANGED <<slot, retry, nrx>>
      BY <2>3, <3>1 DEF DownAccept
    <3>3. p # 0 => p \in Obj
      BY <1>0, <2>3, <3>1, FoundSession
    <3>4. obj' \in [Obj -> ObjRec] /\ \A q \in Obj : obj'[q].id = obj[q].id
      BY <1>1, <3>2, <3>3, SetSm
    <3> QED
      BY <1>0, <1>1, <2>1, <3>2, <3>4, ObjKept
  <2>4. CASE i \in Slot /\ DownRelease(i)
    <3>1. UNCHANGED <<obj, retry, nrx>> /\ (slot' = slot \/ slot' = [slot EXCEPT ![i] = 0])
      BY <2>4 DEF DownRelease, DeletePduSession
    <3>2. slot' \in [Slot -> 0..nobj] /\ \A j \in Slot : slot'[j] \in {slot[j], 0}
      BY <1>0, <1>1, <2>4, <3>1
    <3> QED
      BY <1>0, <1>1, <2>1, <3>1, <3>2, ObjKept
  <2>5. CASE i \in Slot /\ DownReject(i)
    <3>1. PICK p : p = GetPduSession(i)
      OBVIOUS
    <3> DEFINE w == [n |-> nretry + 1, p |-> p, pc |-> "sleep", ch |-> 0]
    <3>2. UNCHANGED <<slot, obj, nrx>> /\ (retry' = retry \/ (p # 0 /\ retry' = retry \cup {w}))
      BY <2>5, <3>1 DEF DownReject, HandleSessReject
    <3>3. p # 0 => p \in 1..nobj /\ p \in Obj
      BY <1>0, <2>5, <3>1, FoundSession
    <3>4. p # 0 => w \in RetryRec /\ w.p \in 1..nobj /\ w.ch \in 0..nrx
      BY <1>0, <3>3 DEF RetryRec
    <3> HIDE DEF w
    <3>5. \A r \in retry' : r \in retry \/ (r \in RetryRec /\ r.p \in 1..nobj /\ r.ch \in 0..nrx)
      BY <3>2, <3>4
    <3> QED
      BY <1>0, <1>1, <2>1, <3>2, <3>5, ObjKept
  <2>6. CASE DownHandover \/ DownNas
    BY <1>2, <2>1, <2>6 DEF DownHandover, DownNas, HandleHandover
  <2> QED
    BY <1>0, <1>5, <2>2, <2>3, <2>4, <2>5, <2>6, DownCases
<1>6. ASSUME NEW r \in retry, RetryWake(r) \/ RetrySend(r) \/ RetryCount(r) PROVE ObjInv'
  <2>1. r \in RetryRec /\ r.p \in 1..nobj /\ r.ch \in 0..nrx
    BY <1>0 DEF ObjInv
  <2>2. UNCHANGED <<slot, nobj, nrx>> /\ r.p \in Obj
    BY <1>0, <1>6, <2>1 DEF RetryWake, RetrySend, RetryCount, Obj
  <2>3. \/ obj' = obj
        \/ obj' = [obj EXCEPT ![r.p].sm = "ACTIVE_PENDING"]
        \/ obj' = [obj EXCEPT ![r.p].retries = @ + 1]
    BY <1>6 DEF RetryWake, RetrySend, RetryCount, Pending
  <2>4. obj' \in [Obj -> ObjRec] /\ \A q \in Obj : obj'[q].id = obj[q].id
    BY <1>1, <2>2, <2>3, SetSm, SetRetries
  <2>5. \A ch \in 0..nrx : \A pc \in {"send", "count"} :
           At(r, pc, ch) \in RetryRec /\ At(r, pc, ch).p \in 1..nobj /\ At(r, pc, ch).ch \in 0..nrx
    BY <1>0, <2>1, <2>2 DEF At, RetryRec
  <2>6. \A q \in retry' : q \in retry \/ \E ch \in 0..nrx : \E pc \in {"send", "count"} : q = At(r, pc, ch)
    BY <1>0, <1>6, <2>1 DEF RetryWake, RetrySend, RetryCount
  <2>7. \A q \in retry' : q \in retry \/ (q \in RetryRec /\ q.p \in 1..nobj /\ q.ch \in 0..nrx)
    BY <2>5, <2>6
  <2> QED
    BY <1>0, <1>1, <2>2, <2>4, <2>7, ObjKept
<1>7. CASE GnbTxClosed \/ DrxTick \/ VerifyPaging
  BY <1>2, <1>7 DEF GnbTxClosed, DrxTick, VerifyPaging
<1>8. ASSUME NEW t, NEW m, FireTimer(t, m) PROVE ObjInv'
  BY <1>2, <1>8 DEF FireTimer
<1>9. CASE TemplateStop \/ FromTemplate \/ StateChange \/ UeTxClosed
  BY <1>2, <1>9 DEF TemplateStop, FromTemplate, StateChange, UeTxClosed
<1>10. CASE CoreAnswer \/ CoreOther \/ HandlerPaging \/ GnbHandover \/ GnbRelease
  BY <1>2, <1>10 DEF CoreAnswer, CoreOther, HandlerPaging, GnbHandover, GnbRelease
<1>11. CASE UNCHANGED vars
  BY <1>2, <1>11 DEF vars
<1> QED
  BY <1>3, <1>4, <1>5, <1>6, <1>7, <1>8, <1>9, <1>10, <1>11 DEF Next

LEMMA InitTInv == Init => TInv
<1> SUFFICES ASSUME Init PROVE TInv
  OBVIOUS
<1>0. NSlot \in Nat \ {0, 1} /\ NumPdu \in Nat
  BY ConstAssumption
<1>1. StepInv
  BY PlainStep, ShortPlain DEF Init, StepInv
<1>2. BaseInv
  <2>1. mm = "NULL" /\ alive = TRUE /\ guti = FALSE /\ drx = "nil" /\ tick = FALSE /\ gnbTx = "nil"
        /\ lock = 0 /\ nretry = 0
    BY DEF Init
  <2>2. lock \in 0..nretry
    BY <2>1
  <2>3. mm \in MMStates
    BY <2>1 DEF MMStates
  <2> QED
    BY <2>1, <2>2, <2>3, Zenon DEF BaseInv
<1>3. ObjInv
  <2>1. [id |-> 0, sm |-> "INACTIVE", retries |-> 0] \in ObjRec
    BY <1>0 DEF ObjRec
  <2>2. obj \in [Obj -> ObjRec]
    BY <2>1 DEF Init
  <2>3. nobj \in 0..NumPdu + 1 /\ slot \in [Slot -> 0..nobj] /\ \A i \in Slot : slot[i] = 0
    BY <1>0 DEF Init
  <2> QED
    BY <2>2, <2>3 DEF Init, ObjInv
<1>4. MsgInv
  BY DEF Init, MsgInv
<1>5. CountInv
  <2> SUFFICES ASSUME ~Custom PROVE CountInv
    BY DEF CountInv
  <2>1. PICK m : m = Msg("Registration", 0)
    OBVIOUS
  <2>2. m.type = "Registration"
    BY <2>1 DEF Msg
  <2>3. out = <<m>> /\ nobj = 0
    BY <2>1 DEF Init
  <2>4. Len(out) = 1 /\ out[1] = m /\ \A k \in 1..1 : k = 1
    BY <2>3
  <2>5. Other(out)
    BY <2>2, <2>4 DEF Other
  <2> QED
    BY <1>0, <2>3, <2>5 DEF CountInv
<1>6. CustomInv
  BY DEF Init, CustomInv
<1> QED
  BY <1>1, <1>2, <1>3, <1>4, <1>5, <1>6, InitIInv DEF TInv

LEMMA NextTInv == TInv /\ [Next]_vars => TInv'
<1> SUFFICES ASSUME TInv, [Next]_vars PROVE TInv'
  OBVIOUS
<1>1. IInv'
  BY NextIInv DEF TInv
<1> QED
  BY <1>1, StepStep, BaseStep, ObjStep, MsgStep, CountStep, CustomStep DEF TInv

LEMMA TInvTypes == TInv => TypeOK
<1> SUFFICES ASSUME TInv PROVE TypeOK
  OBVIOUS
<1>1. todo \in Seq(StepRec)
  <2>1. ASSUME NEW S, S \subseteq StepRec, todo \in Seq(S) PROVE todo \in Seq(StepRec)
    <3>1. PICK T : T = StepRec
      OBVIOUS
    <3>2. S \subseteq T
      BY <2>1, <3>1
    <3>3. todo \in Seq(T)
      BY ONLY <2>1, <3>2
    <3> QED
      BY <3>1, <3>3
  <2>2. CASE \E i \in Slot : Asking(i)
    <3>1. PICK i \in Slot : todo = <<SendS("sessReq", i)>>
      BY <2>2 DEF Asking
    <3>2. PICK x : x = SendS("sessReq", i)
      OBVIOUS
    <3>3. x \in StepRec
      BY <3>2, StepKinds
    <3>4. todo \in Seq({x})
      BY <3>1, <3>2
    <3> QED
      BY <2>1, <3>3, <3>4
  <2>3. todo \in Seq(Plain) \/ todo \in Seq(Quit) \/ \E i \in Slot : Asking(i)
    BY DEF TInv, StepInv
  <2> QED
    BY <2>1, <2>2, <2>3, StepKinds
<1>2. LinkInv /\ RetryInv /\ BaseInv /\ ObjInv
  BY DEF TInv, IInv
<1>3. retry \subseteq RetryRec /\ \A r \in retry : r.n <= nretry /\ r.p <= nobj /\ r.ch <= nrx
  <2>1. nretry \in Nat /\ nobj \in Nat /\ nrx \in Nat
    BY <1>2 DEF ObjInv, RetryInv, LinkInv
  <2>2. \A r \in retry : r \in RetryRec /\ r.p \in 1..nobj /\ r.ch \in 0..nrx /\ r.n \in 1..nretry
    BY <1>2 DEF ObjInv, RetryInv
  <2> QED
    BY <2>1, <2>2
<1> QED
  BY <1>1, <1>2, <1>3 DEF TypeOK, LinkInv, RetryInv, BaseInv, ObjInv

\* The state of the UE and of its scenario is well formed: no more objects are
\* made than the scenario was configured with sessions, a slot holds an object
\* made for it, and goroutines and steps name what exists.
THEOREM TypeCorrect == Spec => []TypeOK
  BY InitTInv, NextTInv, TInvTypes, PTL DEF Spec

-----------------------------------------------------------------------------
(* The messages about a session as one is added, read or all are lost.     *)

SameMail(i) == (\A t \in SessTypes : Has(i, t)' <=> Has(i, t)) /\ (Ordered(i) => Ordered(i)')

LEMMA MailAppend ==
  ASSUME DownInv, NEW t, NEW n, ToUe(t, n)
  PROVE  /\ \A i : ~(t \in SessTypes /\ n = i) => SameMail(i)
         /\ NoMsg(n) => Ordered(n)' /\ \A u \in SessTypes : Has(n, u)' <=> u = t
         /\ Has(n, t)'
         /\ t = "sessRelease" /\ Ordered(n) /\ ~Has(n, "sessReject") /\ ~Has(n, "sessRelease") =>
              Ordered(n)' /\ \A u \in SessTypes : Has(n, u)' <=> (u = t \/ Has(n, u))
<1> DEFINE l == Len(dl)
<1>1. /\ Len(dl') = l + 1 /\ l \in Nat /\ dl'[l + 1].type = t /\ dl'[l + 1].id = n
      /\ \A j \in 1..l : dl'[j] = dl[j]
  BY AppendDown
<1>2. \A j \in 1..Len(dl') : \/ j \in 1..l /\ dl'[j] = dl[j]
                             \/ j = l + 1 /\ dl'[j].type = t /\ dl'[j].id = n
  BY <1>1
<1>3. 1..l \subseteq 1..Len(dl') /\ l + 1 \in 1..Len(dl')
  BY <1>1
<1>4. \A i, u : Has(i, u)' <=> (Has(i, u) \/ (u = t /\ n = i))
  BY <1>1, <1>2, <1>3 DEF Has
<1>5. ASSUME NEW i, ~(t \in SessTypes /\ n = i), Ordered(i) PROVE Ordered(i)'
  BY <1>2, <1>5 DEF Ordered
<1>6. ASSUME NoMsg(n) PROVE Ordered(n)'
  <2>1. \A j \in 1..l : ~(dl[j].id = n /\ dl[j].type \in SessTypes)
    BY <1>6 DEF NoMsg, Has
  <2> QED
    BY <1>1, <1>2, <2>1 DEF Ordered
<1>7. ASSUME t = "sessRelease", Ordered(n), ~Has(n, "sessReject"), ~Has(n, "sessRelease")
      PROVE  Ordered(n)'
  <2>1. \A j \in 1..l : dl[j].id = n /\ dl[j].type \in SessTypes => dl[j].type = "sessAccept"
    BY <1>7 DEF Has, SessTypes
  <2> SUFFICES ASSUME NEW j \in 1..Len(dl'), NEW k \in 1..Len(dl'), j < k,
                      dl'[j].id = n, dl'[k].id = n, dl'[j].type \in SessTypes, dl'[k].type \in SessTypes
               PROVE  dl'[j].type = "sessAccept" /\ dl'[k].type = "sessRelease"
    BY DEF Ordered
  <2>2. j \in 1..l /\ dl'[j] = dl[j] /\ dl'[j].type = "sessAccept"
    BY <1>1, <1>2, <2>1
  <2>3. CASE k = l + 1
    BY <1>1, <1>7, <2>2, <2>3
  <2>4. CASE k \in 1..l
    BY <1>2, <1>7, <2>2, <2>4 DEF Ordered
  <2> QED
    BY <1>1, <2>3, <2>4
<1>8. \A i : ~(t \in SessTypes /\ n = i) => SameMail(i)
  BY <1>4, <1>5 DEF SameMail
<1>9. NoMsg(n) => \A u \in SessTypes : Has(n, u)' <=> u = t
  BY <1>4 DEF NoMsg
<1> QED
  BY <1>4, <1>6, <1>7, <1>8, <1>9

LEMMA MailTail ==
  ASSUME DownInv, dl # <<>>, dl' = Tail(dl), NEW h, NEW g, h = dl[1].id, g = dl[1].type
  PROVE  /\ \A i : ~(g \in SessTypes /\ h = i) => SameMail(i)
         /\ Has(h, g)
         /\ g \in SessTypes /\ Ordered(h) =>
              /\ Ordered(h)'
              /\ g # "sessAccept" => NoMsg(h)'
              /\ g = "sessAccept" =>
                   /\ Has(h, "sessRelease")' <=> Has(h, "sessRelease")
                   /\ ~Has(h, "sessAccept")' /\ ~Has(h, "sessReject")'
<1> DEFINE l == Len(dl)
<1>1. /\ l \in Nat /\ l >= 1 /\ Len(dl') = l - 1
      /\ \A j \in 1..Len(dl') : j + 1 \in 1..l /\ dl'[j] = dl[j + 1]
  BY TailDown
<1>2. \A k \in 1..l : k = 1 \/ (k - 1 \in 1..Len(dl') /\ dl'[k - 1] = dl[k])
  BY <1>1
<1>3. 1 \in 1..l /\ \A j \in 1..Len(dl') : 1 < j + 1
  BY <1>1
<1>4. Has(h, g)
  BY <1>3 DEF Has
<1>5. \A i, u : Has(i, u)' => Has(i, u)
  BY <1>1 DEF Has
<1>6. \A i, u : Has(i, u) => Has(i, u)' \/ (h = i /\ g = u)
  BY <1>2 DEF Has
<1>7. ASSUME NEW i, Ordered(i) PROVE Ordered(i)'
  <2> SUFFICES ASSUME NEW j \in 1..Len(dl'), NEW k \in 1..Len(dl'), j < k,
                      dl'[j].id = i, dl'[k].id = i, dl'[j].type \in SessTypes, dl'[k].type \in SessTypes
               PROVE  dl'[j].type = "sessAccept" /\ dl'[k].type = "sessRelease"
    BY DEF Ordered
  <2>1. j + 1 \in 1..l /\ k + 1 \in 1..l /\ dl'[j] = dl[j + 1] /\ dl'[k] = dl[k + 1] /\ j + 1 < k + 1
    BY <1>1
  <2> QED
    BY <1>7, <2>1 DEF Ordered
<1>8. ASSUME g \in SessTypes, Ordered(h), NEW u \in SessTypes, Has(h, u)'
      PROVE  g = "sessAccept" /\ u = "sessRelease"
  <2>1. PICK j \in 1..Len(dl') : dl'[j].id = h /\ dl'[j].type = u
    BY <1>8 DEF Has
  <2>2. j + 1 \in 1..l /\ 1 < j + 1 /\ dl[j + 1].id = h /\ dl[j + 1].type = u
    BY <1>1, <1>3, <2>1
  <2> QED
    BY <1>3, <1>8, <2>2 DEF Ordered
<1>9. \A i : ~(g \in SessTypes /\ h = i) => SameMail(i)
  BY <1>5, <1>6, <1>7 DEF SameMail
<1>10. {"sessAccept", "sessRelease", "sessReject"} \subseteq SessTypes /\ "sessAccept" # "sessRelease"
       /\ "sessReject" # "sessRelease"
  BY DEF SessTypes
<1>11. ASSUME g \in SessTypes, Ordered(h), g = "sessAccept"
       PROVE  /\ Has(h, "sessRelease")' <=> Has(h, "sessRelease")
              /\ ~Has(h, "sessAccept")' /\ ~Has(h, "sessReject")'
  BY <1>5, <1>6, <1>8, <1>10, <1>11
<1>12. ASSUME g \in SessTypes, Ordered(h), g # "sessAccept"
       PROVE  NoMsg(h)'
  BY <1>8, <1>12 DEF NoMsg
<1> QED
  BY <1>4, <1>7, <1>9, <1>11, <1>12

LEMMA MailLost ==
  ASSUME dl' = <<>>, NEW i PROVE (\A t : ~Has(i, t)') /\ NoMsg(i)' /\ Ordered(i)'
<1>1. Len(dl') = 0 /\ \A j \in 1..0 : FALSE
  OBVIOUS
<1> QED
  BY <1>1 DEF Has, NoMsg, Ordered

LEMMA MailKept == ASSUME dl' = dl, NEW i PROVE SameMail(i)
  BY DEF SameMail, Has, Ordered

-----------------------------------------------------------------------------
(* A step that does not concern the session of a slot.                     *)

NoNewWait(i) == \A r \in retry' : r.pc # "count" /\ r.p = slot[i] =>
                    \E q \in retry : q.pc # "count" /\ q.p = slot[i] /\ q.n = r.n
Frame(i) == /\ slot'[i] = slot[i] /\ csess'[i] = csess[i] /\ SameMail(i)
            /\ Active(i)' => Active(i) /\ (Released(i) => Released(i)')
            /\ Asking(i)' => Asking(i)
            /\ NoNewWait(i) /\ nrx' = nrx

LEMMA FrameSound ==
  ASSUME NEW i, Sound(i), Frame(i), ueRxNil => ueRxNil' PROVE Sound(i)'
<1>0. /\ slot'[i] = slot[i] /\ csess'[i] = csess[i] /\ nrx' = nrx /\ (Active(i)' => Active(i))
      /\ (Asking(i)' => Asking(i)) /\ (\A t \in SessTypes : Has(i, t)' <=> Has(i, t))
      /\ (Ordered(i) => Ordered(i)') /\ (Active(i)' => (Released(i) => Released(i)'))
  BY DEF Frame, SameMail
<1>1. Waits(i)' => Waits(i)
  BY <1>0 DEF Frame, NoNewWait, Waits
<1>2. Turn(i)'
  <2>1. \A q, r \in retry' : q.pc # "count" /\ q.p = slot'[i] /\ r.pc # "count" /\ r.p = slot'[i]
                               => q.n = r.n
    BY <1>0 DEF Frame, NoNewWait, Sound, Turn
  <2> QED
    BY <1>0, <1>1, <2>1 DEF Sound, Turn
<1>3. {"sessAccept", "sessReject", "sessRelease"} \subseteq SessTypes
  BY DEF SessTypes
<1>4. NoMsg(i) => NoMsg(i)'
  BY <1>0 DEF NoMsg
<1>5. ~ueRxNil' => Life(i)'
  BY <1>0, <1>1, <1>3, <1>4 DEF Sound, Life
<1>6. Agree(i)'
  BY <1>0, <1>3 DEF Sound, Agree
<1> QED
  BY <1>2, <1>5, <1>6 DEF Sound

\* The parts of the state that matter, the steps of the UE apart.
Calm == UNCHANGED <<slot, obj, retry, csess, dl, nrx>>

LEMMA CalmFrame ==
  ASSUME Calm, NEW i, Asking(i)' => Asking(i), Active(i) => (Released(i) => Released(i)')
  PROVE  Frame(i)
  BY MailKept DEF Calm, Frame, Active, NoNewWait

\* Steps among which there is no deregistration.
LEMMA NoDereg ==
  ASSUME NEW s, s \in Seq(Plain) \/ \E i \in Slot : s = <<SendS("sessReq", i)>>
  PROVE  \A k \in 1..Len(s) : s[k] # Send("deregReq")
<1>1. CASE s \in Seq(Plain)
  <2>1. PICK S : S = Plain
    OBVIOUS
  <2>2. \A k \in 1..Len(s) : s[k] \in S
    BY <1>1, <2>1
  <2> QED
    BY <2>1, <2>2, StepKinds
<1>2. CASE \E i \in Slot : s = <<SendS("sessReq", i)>>
  <2>1. PICK i \in Slot : s = <<SendS("sessReq", i)>>
    BY <1>2
  <2>2. PICK x : x = SendS("sessReq", i)
    OBVIOUS
  <2>3. s = <<x>> /\ x # Send("deregReq")
    BY <2>1, <2>2, StepKinds
  <2>4. \A k \in 1..Len(s) : s[k] = x
    BY ONLY <2>3
  <2> QED
    BY <2>3, <2>4
<1> QED
  BY <1>1, <1>2

LEMMA PlainReleased ==
  ASSUME todo' \in Seq(Plain) \/ \E i \in Slot : todo' = <<SendS("sessReq", i)>>, NEW j
  PROVE  Released(j)'
  BY NoDereg DEF Released

\* Nothing but plain steps before the UE stops.
LEMMA LiveReleased == ASSUME StepInv', ~ueRxNil', NEW j PROVE Released(j)'
<1>1. todo' \in Seq(Plain) \/ \E i \in Slot : todo' = <<SendS("sessReq", i)>>
  BY DEF StepInv, Asking
<1> QED
  BY <1>1, PlainReleased

\* The first steps of a handler that goes on with others.
LEMMA FirstSteps ==
  ASSUME NEW S, NEW s \in Seq(S), NEW t \in Seq(S)
  PROVE  LET u == s \o t IN u \in Seq(S) /\ Len(u) = Len(s) + Len(t) /\ \A k \in 1..Len(s) : u[k] = s[k]
<1> DEFINE u == s \o t
<1>1. /\ u \in Seq(S) /\ Len(u) = Len(s) + Len(t)
      /\ \A k \in 1..Len(s) + Len(t) : u[k] = IF k <= Len(s) THEN s[k] ELSE t[k - Len(s)]
  BY ConcatProperties
<1> HIDE DEF u
<1>2. PICK m, n \in Nat : m = Len(s) /\ n = Len(t)
  BY LenProperties
<1>3. \A k \in 1..m : k \in 1..m + n /\ k <= m
  BY ONLY <1>2
<1>4. u \in Seq(S) /\ Len(u) = Len(s) + Len(t) /\ \A k \in 1..Len(s) : u[k] = s[k]
  BY <1>1, <1>2, <1>3
<1> QED
  BY <1>4 DEF u

\* A stopping UE releases every session before it deregisters.
LEMMA QuitReleased ==
  ASSUME NEW i \in Slot, todo' \in {<<Terminate>>, TerminateSteps}
  PROVE  Released(i)' /\ \A j : ~Asking(j)'
<1>1. \A j : ~Asking(j)'
  BY QuitSteps, NotAsking DEF Asking
<1>2. Terminate # Send("deregReq")
  BY DEF Terminate, Send, Step
<1>3. CASE todo' = <<Terminate>>
  <2>1. PICK x : x = Terminate
    OBVIOUS
  <2>2. todo' = <<x>>
    BY <1>3, <2>1
  <2>3. \A k \in 1..Len(todo') : todo'[k] = x
    BY ONLY <2>2
  <2> QED
    BY <1>1, <1>2, <2>1, <2>3 DEF Released
<1>4. CASE todo' = TerminateSteps /\ mm = "REGISTERED"
  <2>0. NSlot \in Nat /\ i \in 1..NSlot
    BY ConstAssumption DEF Slot
  <2> DEFINE rel == [j \in 1..NSlot |-> Release(j)]
  <2>1. PICK a, b, c : a = Send("deregReq") /\ b = Tell("DEREGISTERED") /\ c = Terminate
    OBVIOUS
  <2>2. todo' = rel \o <<a, b>> \o <<c>>
    BY <1>4, <2>1 DEF TerminateSteps, InitDeregistration
  <2>3. rel \in Seq({rel[j] : j \in 1..NSlot}) /\ Len(rel) = NSlot /\ \A j \in 1..NSlot : rel[j] = Release(j)
    BY <2>0
  <2> HIDE DEF rel
  <2>4. /\ Len(todo') = NSlot + 3
        /\ \A j \in 1..NSlot : todo'[j] = rel[j]
    <3>1. PICK S : S = {rel[j] : j \in 1..NSlot} \cup {a, b, c}
      OBVIOUS
    <3>2. rel \in Seq(S) /\ <<a, b>> \in Seq(S) /\ <<c>> \in Seq(S)
      BY <2>3, <3>1
    <3>3. PICK v, w, r : v = <<a, b>> /\ w = <<c>> /\ r = rel
      OBVIOUS
    <3>4. Len(v) = 2 /\ Len(w) = 1 /\ Len(r) = NSlot
      BY <2>3, <3>3
    <3>5. v \in Seq(S) /\ w \in Seq(S) /\ r \in Seq(S)
      BY <3>2, <3>3
    <3>6. \A s, t \in Seq(S) : /\ s \o t \in Seq(S) /\ Len(s \o t) = Len(s) + Len(t)
                                 /\ \A k \in 1..Len(s) : (s \o t)[k] = s[k]
      BY ONLY FirstSteps
    <3>7. PICK u : u = r \o v
      OBVIOUS
    <3>8. u \in Seq(S) /\ Len(u) = NSlot + 2 /\ \A j \in 1..NSlot : u[j] = r[j]
      <4>1. u \in Seq(S) /\ Len(u) = Len(r) + Len(v) /\ \A j \in 1..Len(r) : u[j] = r[j]
        BY <3>6, <3>5, <3>7, Zenon
      <4> QED
        BY <3>4, <4>1
    <3>9. todo' = u \o w
      BY <2>2, <3>3, <3>7
    <3>10. Len(todo') = Len(u) + Len(w) /\ \A j \in 1..Len(u) : todo'[j] = u[j]
      BY <3>6, <3>5, <3>8, <3>9, Zenon
    <3>11. Len(todo') = NSlot + 3 /\ \A j \in 1..NSlot : todo'[j] = u[j]
      BY <2>0, <3>4, <3>8, <3>10
    <3> QED
      BY <3>3, <3>8, <3>11
  <2>5. \A j \in 1..NSlot : todo'[j] # Send("deregReq")
    <3>1. \A j : Release(j) # Send("deregReq")
      BY DEF Release, Send, Step
    <3> QED
      BY <2>3, <2>4, <3>1
  <2>6. i \in 1..Len(todo') /\ todo'[i] = Release(i)
    BY <2>0, <2>3, <2>4
  <2>7. ASSUME NEW k \in 1..Len(todo'), todo'[k] = Send("deregReq") PROVE i < k
    BY <2>0, <2>4, <2>5, <2>7
  <2> QED
    BY <1>1, <2>6, <2>7 DEF Released
<1>5. mm # "REGISTERED" => TerminateSteps = <<Terminate>>
  BY DEF TerminateSteps
<1> QED
  BY <1>3, <1>4, <1>5

\* The release of another session is not what comes next.
LEMMA TailReleased ==
  ASSUME StepInv, todo # <<>>, todo' = Tail(todo), ueRxNil' = ueRxNil, NEW i, Released(i),
         todo[1] # Release(i)
  PROVE  Released(i)'
<1>1. /\ Len(todo) \in Nat /\ Len(todo') = Len(todo) - 1
      /\ \A k \in 1..Len(todo') : k + 1 \in 1..Len(todo) /\ todo'[k] = todo[k + 1]
  BY TailTodo
<1> SUFFICES ASSUME NEW k \in 1..Len(todo'), todo'[k] = Send("deregReq")
             PROVE  \E j \in 1..Len(todo') : j < k /\ todo'[j] = Release(i)
  BY DEF Released
<1>2. k + 1 \in 1..Len(todo) /\ todo[k + 1] = Send("deregReq")
  BY <1>1
<1>3. PICK j \in 1..Len(todo) : j < k + 1 /\ todo[j] = Release(i)
  BY <1>2 DEF Released
<1>4. j # 1
  BY <1>3
<1>5. j - 1 \in 1..Len(todo') /\ j - 1 < k /\ (j - 1) + 1 = j
  BY <1>1, <1>3, <1>4
<1>6. todo'[j - 1] = todo[j]
  BY <1>1, <1>5
<1> QED
  BY <1>3, <1>5, <1>6

\* Different sessions have different objects.
LEMMA OtherObject ==
  ASSUME ObjInv, NEW i \in Slot, NEW k \in Slot, i # k
  PROVE  /\ slot[i] # 0 => slot[i] \in Obj /\ slot[i] \in 1..nobj
         /\ slot[k] # 0 => slot[i] # slot[k]
<1>1. NumPdu \in Nat /\ nobj \in 0..NumPdu + 1 /\ slot[i] \in 0..nobj
  BY ConstAssumption DEF ObjInv
<1>2. slot[i] # 0 => slot[i] \in Obj /\ slot[i] \in 1..nobj
  BY <1>1 DEF Obj
<1>3. slot[k] # 0 => slot[i] # slot[k]
  BY DEF ObjInv
<1> QED
  BY <1>2, <1>3

\* The step concerns the session of slot k and this is another one.
LEMMA OtherFrame ==
  ASSUME ObjInv, NEW i \in Slot, NEW k \in Slot, i # k,
         slot'[i] = slot[i], csess'[i] = csess[i], SameMail(i), nrx' = nrx,
         \A q \in 1..nobj : q # slot[k] => obj'[q] = obj[q],
         Active(i) => (Released(i) => Released(i)'), Asking(i)' => Asking(i), NoNewWait(i)
  PROVE  Frame(i)
<1>1. Active(i)' => Active(i)
  <2>1. slot[i] # 0 => obj'[slot[i]] = obj[slot[i]] \/ slot[k] = 0
    BY OtherObject
  <2>2. slot[i] # 0 /\ slot[k] = 0 => obj'[slot[i]] = obj[slot[i]]
    BY OtherObject
  <2> QED
    BY <2>1, <2>2 DEF Active
<1> QED
  BY <1>1 DEF Frame

\* A step of the UE that changes nothing about sessions.
LEMMA TodoFrame ==
  ASSUME Calm, NEW i \in Slot,
         todo' \in Seq(Plain) \/ todo' = todo
  PROVE  Frame(i)
<1>1. CASE todo' \in Seq(Plain)
  BY <1>1, CalmFrame, NotAsking, PlainReleased DEF Asking
<1>2. CASE todo' = todo
  BY <1>2, CalmFrame DEF Asking, Released
<1> QED
  BY <1>1, <1>2

\* The session of a message of the scenario.
LEMMA ManagerSound ==
  ASSUME SInv, UeMgrHandler, NEW i \in Slot PROVE Sound(i)'
<1> USE DEF linkVars, retryVars, coreVars
<1>0. OutInv /\ CountInv /\ CustomInv /\ ObjInv /\ Sound(i)
  BY DEF SInv, TInv, IInv, StopInv
<1>1. /\ todo = <<>> /\ out # <<>> /\ out' = Tail(out) /\ ~ueRxNil
      /\ UNCHANGED <<retry, nrx, csess, dl>>
  BY DEF UeMgrHandler
<1>2. CASE MgrStop
  <2>1. Calm
    BY <1>1, <1>2 DEF MgrStop, Calm
  <2>2. Released(i)' /\ ~Asking(i)'
    BY <1>2, QuitReleased DEF MgrStop
  <2> QED
    BY <1>0, <1>1, <2>1, <2>2, CalmFrame, FrameSound
<1>3. CASE MgrPlain
  <2>1. Calm /\ todo' \in Seq(Plain)
    BY <1>1, <1>3 DEF MgrPlain, Calm
  <2> QED
    BY <1>0, <1>1, <2>1, TodoFrame, FrameSound
<1>4. CASE MgrNew
  <2>1. PICK k \in Slot : /\ slot[k] = 0 /\ todo' = <<SendS("sessReq", k)>> /\ nobj' = nobj + 1
                          /\ slot' = [slot EXCEPT ![k] = nobj + 1]
                          /\ \A q \in 1..nobj : q \in Obj /\ obj'[q] = obj[q]
                          /\ obj'[nobj + 1].sm = "ACTIVE_PENDING" /\ nobj + 1 \in Obj
    BY <1>0, <1>1, <1>4, NewObject
  <2>2. nobj \in Nat /\ slot \in [Slot -> 0..nobj] /\ \A r \in retry : r.p \in 1..nobj
    BY <1>0, ConstAssumption DEF ObjInv
  <2>3. SameMail(i)
    BY <1>1, MailKept
  <2>4. Released(i)'
    BY <2>1, PlainReleased
  <2>5. CASE i # k
    <3>1. slot'[i] = slot[i]
      BY <2>1, <2>2, <2>5
    <3>2. ~Asking(i)'
      <4>1. PICK x, y : x = SendS("sessReq", i) /\ y = SendS("sessReq", k)
        OBVIOUS
      <4>2. x # y
        BY <2>5, <4>1, StepKinds
      <4>3. <<x>> # <<y>>
        BY ONLY <4>2
      <4> QED
        BY <2>1, <4>1, <4>3 DEF Asking
    <3>3. NoNewWait(i)
      BY <1>1 DEF NoNewWait
    <3>4. Frame(i)
      BY <1>0, <1>1, <2>1, <2>3, <2>4, <2>5, <3>1, <3>2, <3>3, OtherFrame
    <3> QED
      BY <1>0, <1>1, <3>4, FrameSound
  <2>6. CASE i = k
    <3>1. slot'[i] = nobj + 1 /\ slot'[i] # 0 /\ ~Active(i)' /\ ~Waits(i)'
      BY <1>1, <2>1, <2>2, <2>6 DEF Active, Waits
    <3>2. csess'[i] = "none" /\ NoMsg(i) /\ Ordered(i)
      BY <1>0, <1>1, <2>1, <2>6 DEF Sound, Life
    <3>3. NoMsg(i)' /\ Ordered(i)'
      BY <2>3, <3>2 DEF SameMail, NoMsg
    <3>4. \A q \in retry' : q.p # slot'[i]
      BY <1>1, <2>2, <3>1
    <3>5. \A t \in {"sessReject", "sessRelease", "sessAccept"} : ~Has(i, t)'
      BY <3>3 DEF NoMsg, SessTypes
    <3>6. Turn(i)' /\ Agree(i)'
      BY <3>1, <3>2, <3>4 DEF Turn, Agree
    <3>7. Life(i)'
      BY <3>1, <3>2, <3>3, <3>5 DEF Life
    <3> QED
      BY <3>6, <3>7 DEF Sound
  <2> QED
    BY <2>5, <2>6
<1> QED
  BY <1>0, <1>2, <1>3, <1>4, ManagerCases

\* The messages of the channel the UE leaves are lost.
LEMMA LostSound ==
  ASSUME NEW i, Sound(i), ~ueRxNil, UNCHANGED <<slot, obj, retry, csess>>, dl' = <<>>,
         nrx \in Nat, nrx' = nrx + 1, nrx = 0 => ~Active(i), ~Asking(i)', Released(i)'
  PROVE  Sound(i)'
<1>1. (\A t : ~Has(i, t)') /\ NoMsg(i)' /\ Ordered(i)'
  BY MailLost
<1>2. (Waits(i)' <=> Waits(i)) /\ (Active(i)' <=> Active(i)) /\ slot'[i] = slot[i] /\ csess'[i] = csess[i]
  BY DEF Waits, Active
<1>3. Turn(i)'
  BY <1>2 DEF Sound, Turn
<1>4. Life(i)'
  BY <1>1, <1>2 DEF Sound, Life
<1>5. Agree(i)'
  BY <1>2 DEF Agree
<1> QED
  BY <1>3, <1>4, <1>5 DEF Sound

\* The session of a slot is requested.
LEMMA AskedSound ==
  ASSUME NEW i, Sound(i), slot'[i] = slot[i], csess'[i] = "asked", ueRxNil' = ueRxNil, SameMail(i),
         Waits(i) \/ Asking(i), ~Waits(i)', ~Asking(i)', Active(i)' => Active(i)
  PROVE  Sound(i)'
<1>1. slot[i] # 0 /\ ~Active(i) /\ (~ueRxNil => NoMsg(i) /\ Ordered(i))
  BY DEF Sound, Turn, Life
<1>2. ~ueRxNil => NoMsg(i)' /\ Ordered(i)'
  BY <1>1 DEF SameMail, NoMsg
<1>3. NoMsg(i)' => \A t \in {"sessReject", "sessRelease", "sessAccept"} : ~Has(i, t)'
  BY DEF NoMsg, SessTypes
<1>4. Turn(i)'
  BY <1>1 DEF Turn, Waits
<1>5. ~ueRxNil => Life(i)'
  BY <1>1, <1>2, <1>3 DEF Life
<1>6. Agree(i)'
  BY <1>1 DEF Agree
<1> QED
  BY <1>4, <1>5, <1>6 DEF Sound

LEMMA SendSound ==
  ASSUME SInv, NEW s, s = todo[1], todo # <<>>, todo' = Tail(todo), s.op = "send", SendStep(s.arg, s.id),
         UNCHANGED <<slot, retry, ueRxNil>>, NEW i \in Slot
  PROVE  Sound(i)'
<1>0. StepInv /\ ObjInv /\ CoreInv /\ Sound(i)
  BY DEF SInv, TInv
<1>1. UNCHANGED <<obj, nrx, dl>>
  BY DEF SendStep, linkVars
<1>2. SameMail(i) /\ (Active(i)' <=> Active(i)) /\ (Waits(i)' <=> Waits(i))
  BY <1>1, MailKept DEF Active, Waits
<1>3. \A j : ~Asking(j)'
  BY <1>0, TailTodo DEF Asking
<1>4. CASE csess' = csess
  <2>1. Calm
    BY <1>1, <1>4 DEF Calm
  <2>2. s # Release(i)
    BY StepKinds
  <2>3. Released(i) => Released(i)'
    BY <1>0, <2>2, TailReleased
  <2> QED
    BY <1>0, <1>3, <2>1, <2>3, CalmFrame, FrameSound
<1>5. CASE csess' # csess
  <2>1. csess' = CoreSess(s.arg, s.id)
    BY <1>5 DEF SendStep, Uplink, coreVars
  <2>2. s \in StepRec
    BY <1>0, TailTodo, StepKinds
  <2>3. s.arg # "sessRel"
    BY <2>2 DEF StepRec, MMStates, NasTypes
  <2>4. CASE s.arg = "sessReq"
    <3>1. PICK k \in Slot : Asking(k) /\ s = SendS("sessReq", k)
      BY <1>0, <2>4, TailTodo, StepKinds
    <3>2. csess' = [csess EXCEPT ![k] = "asked"]
      <4>1. s.id = k
        BY <3>1, StepKinds
      <4>2. csess' = CoreSess("sessReq", k)
        BY <2>1, <2>4, <4>1
      <4> QED
        BY <4>2 DEF CoreSess
    <3>3. CASE i = k
      <4>1. csess'[i] = "asked" /\ Asking(i)
        BY <1>0, <3>1, <3>2, <3>3 DEF CoreInv
      <4>2. ~Waits(i)
        BY <1>0, <4>1 DEF Sound, Turn
      <4> QED
        BY <1>0, <1>2, <1>3, <4>1, <4>2, AskedSound
    <3>4. CASE i # k
      <4>1. csess'[i] = csess[i]
        BY <1>0, <3>2, <3>4 DEF CoreInv
      <4>2. s # Release(i)
        BY StepKinds
      <4>3. Released(i) => Released(i)'
        BY <1>0, <4>2, TailReleased
      <4>4. Frame(i)
        BY <1>1, <1>2, <1>3, <4>1, <4>3 DEF Frame, NoNewWait
      <4> QED
        BY <1>0, <4>4, FrameSound
    <3> QED
      BY <3>3, <3>4
  <2>5. CASE s.arg = "deregReq"
    <3>1. ueRxNil /\ s = Send("deregReq")
      BY <1>0, <2>5, TailTodo, StepKinds
    <3>2. ~Active(i)
      <4>1. Len(todo) \in Nat /\ Len(todo) # 0
        BY <1>0, TailTodo
      <4>2. 1 \in 1..Len(todo) /\ \A j \in 1..Len(todo) : ~(j < 1)
        BY <4>1
      <4>3. ~Released(i)
        BY <3>1, <4>2 DEF Released
      <4> QED
        BY <1>0, <4>3 DEF Sound, Agree
    <3>3. csess'[i] = "none"
      BY <2>1, <2>5 DEF CoreSess
    <3>4. Turn(i)'
      BY <1>0, <1>2, <1>3, <3>2, <3>3 DEF Sound, Turn
    <3> QED
      BY <1>2, <3>1, <3>2, <3>4 DEF Sound, Agree
  <2>6. s.arg \notin {"sessReq", "sessRel", "deregReq"} => csess' = csess
    BY <2>1 DEF CoreSess
  <2> QED
    BY <1>5, <2>3, <2>4, <2>5, <2>6
<1> QED
  BY <1>4, <1>5

LEMMA ReleaseSound ==
  ASSUME SInv, NEW s, s = todo[1], todo # <<>>, todo' = Tail(todo), s.op = "release", ReleaseStep(s.id),
         UNCHANGED <<slot, retry, ueRxNil>>, NEW i \in Slot
  PROVE  Sound(i)'
<1>0. StepInv /\ ObjInv /\ CoreInv /\ obj \in [Obj -> ObjRec]
  BY DEF SInv, TInv, ObjInv
<1>1. UNCHANGED <<nrx, dl>>
  BY DEF ReleaseStep, linkVars
<1>2. SameMail(i) /\ (Waits(i)' <=> Waits(i)) /\ NoNewWait(i)
  BY <1>1, MailKept DEF Waits, NoNewWait
<1>3. \A j : ~Asking(j)'
  BY <1>0, TailTodo DEF Asking
<1>4. PICK k \in Slot : s = Release(k) /\ s.id = k /\ ueRxNil
  BY <1>0, TailTodo, StepKinds
<1>5. Sound(i) /\ Sound(k)
  BY DEF SInv
<1>6. i # k => s # Release(i)
  BY <1>4, StepKinds
<1>7. i # k => (Released(i) => Released(i)')
  BY <1>0, <1>6, TailReleased
<1>8. PICK p : p = GetPduSession(k)
  OBVIOUS
<1>9. CASE p # 0 /\ obj[p].sm = "ACTIVE"
  <2>1. obj' = [obj EXCEPT ![p].sm = "INACTIVE"] /\ csess' = [csess EXCEPT ![k] = "releasing"]
    BY <1>4, <1>8, <1>9 DEF ReleaseStep, Uplink, CoreSess
  <2>2. p = slot[k] /\ p \in Obj /\ p \in 1..nobj
    BY <1>0, <1>8, <1>9, FoundSession
  <2>3. obj'[p].sm = "INACTIVE" /\ \A q \in Obj : q # p => obj'[q] = obj[q]
    BY <1>0, <2>1, <2>2, SetSm
  <2>4. CASE i = k
    <3>1. Active(i) /\ ~Active(i)' /\ csess'[i] = "releasing"
      BY <1>0, <1>9, <2>1, <2>2, <2>3, <2>4 DEF Active, CoreInv
    <3>2. ~Waits(i)'
      BY <1>2, <1>5, <3>1 DEF Sound, Turn
    <3>3. Turn(i)' /\ Agree(i)'
      BY <1>3, <3>1, <3>2 DEF Turn, Agree, Waits
    <3> QED
      BY <1>4, <3>3 DEF Sound
  <2>5. CASE i # k
    <3>1. csess'[i] = csess[i]
      BY <1>0, <2>1, <2>5 DEF CoreInv
    <3>2. \A q \in 1..nobj : q # slot[k] => obj'[q] = obj[q]
      <4>1. \A q \in 1..nobj : q \in Obj
        BY <1>0, ConstAssumption DEF ObjInv, Obj
      <4> QED
        BY <2>2, <2>3, <4>1
    <3>3. Frame(i)
      BY <1>0, <1>1, <1>2, <1>3, <1>7, <2>5, <3>1, <3>2, OtherFrame
    <3> QED
      BY <1>5, <3>3, FrameSound
  <2> QED
    BY <2>4, <2>5
<1>10. CASE ~(p # 0 /\ obj[p].sm = "ACTIVE")
  <2>1. Calm
    BY <1>4, <1>8, <1>10 DEF ReleaseStep, Calm, coreVars, linkVars
  <2>2. ~Active(k)
    <3>1. NSlot \in Nat /\ k \in 1..NSlot
      BY ConstAssumption DEF Slot
    <3>2. k = NSlot \/ p = slot[k]
      BY <1>8, <3>1 DEF GetPduSession
    <3> QED
      BY <1>5, <1>10, <3>2 DEF Sound, Turn, Active
  <2>3. Active(i) => (Released(i) => Released(i)')
    BY <1>7, <2>2
  <2> QED
    BY <1>3, <1>5, <2>1, <2>3, CalmFrame, FrameSound
<1> QED
  BY <1>9, <1>10

LEMMA StepSound ==
  ASSUME SInv, UeStep, NEW i \in Slot PROVE Sound(i)'
<1> USE DEF retryVars, scnVars
<1>0. StepInv /\ ObjInv /\ Sound(i) /\ BirthInv /\ nrx \in Nat
  BY DEF SInv, TInv, IInv, LinkInv
<1>1. todo # <<>> /\ todo' = Tail(todo) /\ UNCHANGED <<slot, retry, ueRxNil>>
  BY DEF UeStep
<1>2. PICK s : s = todo[1]
  OBVIOUS
<1>3. Head(todo) = s /\ \A j : ~Asking(j)'
  BY <1>0, <1>1, <1>2, TailTodo DEF Asking
<1>4. CASE s.op = "send" /\ SendStep(s.arg, s.id)
  BY <1>1, <1>2, <1>4, SendSound
<1>5. CASE s.op = "release" /\ ReleaseStep(s.id)
  BY <1>1, <1>2, <1>5, ReleaseSound
<1>6. s.op # "release" => (Released(i) => Released(i)')
  <2>1. s.op # "release" => s # Release(i)
    BY StepKinds
  <2> QED
    BY <1>0, <1>1, <1>2, <2>1, TailReleased
<1>7. CASE s.op = "connect" /\ ConnectStep
  <2>1. ~ueRxNil
    BY <1>0, <1>1, <1>2, <1>7, TailTodo, StepKinds
  <2>2. dl' = <<>> /\ nrx' = nrx + 1 /\ UNCHANGED <<obj, csess>>
    BY <1>7 DEF ConnectStep, coreVars
  <2>3. nrx = 0 => ~Active(i)
    <3>1. nobj = 0 => slot[i] = 0
      BY <1>0 DEF ObjInv
    <3> QED
      BY <1>0, <3>1 DEF BirthInv, Active
  <2>4. Released(i)'
    <3>1. StepInv' /\ ~ueRxNil'
      BY <1>0, <1>1, <2>1, TailTodo
    <3> QED
      BY <3>1, LiveReleased
  <2> QED
    BY <1>0, <1>1, <1>3, <2>1, <2>2, <2>3, <2>4, LostSound
<1>8. CASE (s.op = "drx" /\ DrxStep) \/ (s.op = "end" /\ EndStep)
  <2>1. Calm
    BY <1>1, <1>8 DEF Calm, DrxStep, EndStep, coreVars, linkVars
  <2> QED
    BY <1>0, <1>1, <1>3, <1>6, <1>8, <2>1, CalmFrame, FrameSound
<1> QED
  BY <1>3, <1>4, <1>5, <1>7, <1>8 DEF UeStep

\* The session a message of the gNodeB is about.
LEMMA AcceptSound ==
  ASSUME SInv, NEW h \in Slot, h = dl[1].id, dl # <<>>, todo = <<>>, ~ueRxNil, DownAccept(h),
         UNCHANGED <<nobj, csess, ueRxNil>>, NEW i \in Slot
  PROVE  Sound(i)'
<1>0. DownInv /\ ObjInv /\ Sound(h) /\ Sound(i) /\ obj \in [Obj -> ObjRec]
  BY DEF SInv, TInv, IInv, ObjInv
<1>1. PICK g : g = "sessAccept"
  OBVIOUS
<1>2. g = dl[1].type /\ dl' = Tail(dl) /\ g \in SessTypes /\ UNCHANGED <<slot, todo, retry, nrx>>
  BY <1>1 DEF DownAccept, SessTypes
<1>3. Released(i)' /\ ~Asking(i)' /\ ~Asking(h)
  BY <1>2, PlainReleased, PlainTriggers, NotAsking DEF Asking
<1>4. PICK p : p = GetPduSession(h)
  OBVIOUS
<1>5. obj' = IF p = 0 THEN obj ELSE [obj EXCEPT ![p].sm = "ACTIVE"]
  BY <1>4 DEF DownAccept
<1>6. p # 0 => p = slot[h] /\ p \in Obj /\ h # NSlot
  BY <1>0, <1>4, FoundSession
<1>7. CASE i # h
  <2>1. SameMail(i)
    BY <1>0, <1>2, <1>7, MailTail
  <2>2. \A q \in 1..nobj : q # slot[h] => obj'[q] = obj[q]
    <3>1. \A q \in 1..nobj : q \in Obj
      BY <1>0, ConstAssumption DEF ObjInv, Obj
    <3>2. p # 0 => \A q \in Obj : q # p => obj'[q] = obj[q]
      BY <1>0, <1>5, <1>6, SetSm
    <3> QED
      BY <1>5, <1>6, <3>1, <3>2
  <2>3. Frame(i)
    BY <1>0, <1>2, <1>3, <1>7, <2>1, <2>2, OtherFrame DEF NoNewWait
  <2> QED
    BY <1>0, <2>3, FrameSound
<1>8. CASE i = h
  <2>1. Has(h, "sessAccept") /\ Ordered(h)
    BY <1>0, <1>1, <1>2, MailTail DEF Sound, Life
  <2>2. ~NoMsg(h)
    BY <1>1, <1>2, <2>1 DEF NoMsg
  <2>3. /\ Ordered(h)' /\ (Has(h, "sessRelease")' <=> Has(h, "sessRelease"))
        /\ ~Has(h, "sessAccept")' /\ ~Has(h, "sessReject")'
    BY <1>0, <1>1, <1>2, <2>1, MailTail
  <2>4. /\ csess'[h] = csess[h] /\ csess[h] # "asked" /\ slot'[h] # 0 /\ ~Waits(h) /\ csess[h] # "releasing"
        /\ (csess[h] = "active" \/ Has(h, "sessRelease"))
    BY <1>0, <1>2, <2>1, <2>2 DEF Sound, Life
  <2>5. ~Waits(h)'
    BY <1>2, <2>4 DEF Waits
  <2>6. h = NSlot => ~Active(h)'
    <3>1. h = NSlot => p = 0 /\ obj' = obj /\ ~Active(h)
      BY <1>0, <1>5, <1>6 DEF Sound, Turn
    <3> QED
      BY <1>2, <3>1 DEF Active
  <2>7. Turn(h)'
    BY <1>3, <1>8, <2>4, <2>5, <2>6 DEF Turn, Waits
  <2>8. Has(h, "sessRelease") => csess[h] = "none"
    BY <1>0 DEF Sound, Life
  <2>9. Life(h)'
    BY <1>3, <1>8, <2>3, <2>4, <2>5, <2>8 DEF Life
  <2>10. Agree(h)'
    BY <1>3, <1>8, <2>3, <2>4 DEF Agree
  <2> QED
    BY <1>8, <2>7, <2>9, <2>10 DEF Sound
<1> QED
  BY <1>7, <1>8

\* A session that is not there, or was just removed.
LEMMA GoneSound ==
  ASSUME NEW i, csess'[i] = "none", NoMsg(i)', Ordered(i)', ~Active(i)', ~Waits(i)', ~Asking(i)'
  PROVE  Sound(i)'
<1>1. \A t \in {"sessReject", "sessRelease", "sessAccept"} : ~Has(i, t)'
  BY DEF NoMsg, SessTypes
<1>2. Turn(i)'
  BY DEF Turn, Waits
<1>3. Life(i)'
  BY <1>1 DEF Life
<1>4. Agree(i)'
  BY DEF Agree
<1> QED
  BY <1>2, <1>3, <1>4 DEF Sound

LEMMA RemoveSound ==
  ASSUME SInv, NEW h \in Slot, h = dl[1].id, dl # <<>>, todo = <<>>, ~ueRxNil, DownRelease(h),
         UNCHANGED <<nobj, csess, ueRxNil>>, NEW i \in Slot
  PROVE  Sound(i)' /\ ~Waits(h)
<1>0. DownInv /\ ObjInv /\ Sound(h) /\ Sound(i)
  BY DEF SInv, TInv, IInv
<1>1. PICK g : g = "sessRelease"
  OBVIOUS
<1>2. g = dl[1].type /\ dl' = Tail(dl) /\ g \in SessTypes /\ UNCHANGED <<obj, retry, nrx>>
  BY <1>1 DEF DownRelease, SessTypes
<1>3. PICK p : p = GetPduSession(h)
  OBVIOUS
<1>4. IF p = 0 THEN UNCHANGED <<slot, todo>>
      ELSE slot' = [slot EXCEPT ![h] = 0] /\ (todo' = <<>> \/ todo' = <<SendS("sessRelComplete", h)>>)
  BY <1>3 DEF DownRelease, DeletePduSession
<1>5. todo' \in Seq(Plain)
  <2>1. h \in 0..NSlot /\ "sessRelComplete" \in PlainTypes
    BY ConstAssumption DEF Slot, PlainTypes, NasTypes
  <2>2. <<SendS("sessRelComplete", h)>> \in Seq(Plain)
    BY <2>1, PlainStep, ShortPlain
  <2> QED
    BY <1>4, <2>2, PlainTriggers
<1>6. Released(i)' /\ ~Asking(i)'
  BY <1>5, PlainReleased, NotAsking DEF Asking
<1>7. Has(h, "sessRelease") /\ Ordered(h)
  BY <1>0, <1>1, <1>2, MailTail DEF Sound, Life
<1>8. ~NoMsg(h)
  BY <1>1, <1>2, <1>7 DEF NoMsg
<1>9. csess[h] = "none" /\ slot[h] # 0 /\ ~Waits(h)
  BY <1>0, <1>7, <1>8 DEF Sound, Life
<1>10. CASE i # h
  <2>1. SameMail(i)
    BY <1>0, <1>2, <1>10, MailTail
  <2>2. slot'[i] = slot[i]
    BY <1>0, <1>4, <1>10 DEF ObjInv
  <2>3. Frame(i)
    BY <1>0, <1>2, <1>6, <1>10, <2>1, <2>2, OtherFrame DEF NoNewWait
  <2> QED
    BY <1>0, <1>9, <2>3, FrameSound
<1>11. CASE i = h
  <2>1. NoMsg(h)' /\ Ordered(h)'
    BY <1>0, <1>1, <1>2, <1>7, MailTail
  <2>2. CASE p = 0
    <3>1. NSlot \in Nat /\ h \in 1..NSlot
      BY ConstAssumption DEF Slot
    <3>2. h = NSlot
      BY <1>3, <1>9, <2>2, <3>1 DEF GetPduSession
    <3>3. ~Active(h)
      BY <1>0, <3>2 DEF Sound, Turn
    <3>4. ~Active(h)' /\ ~Waits(h)'
      BY <1>2, <1>4, <1>9, <2>2, <3>3 DEF Active, Waits
    <3> QED
      BY <1>6, <1>9, <1>11, <2>1, <3>4, GoneSound
  <2>3. CASE p # 0
    <3>1. slot'[h] = 0 /\ \A r \in retry' : r.p # 0
      BY <1>0, <1>2, <1>4, <2>3 DEF ObjInv
    <3>2. ~Active(h)' /\ ~Waits(h)'
      BY <3>1 DEF Active, Waits
    <3> QED
      BY <1>6, <1>9, <1>11, <2>1, <3>2, GoneSound
  <2> QED
    BY <2>2, <2>3
<1> QED
  BY <1>9, <1>10, <1>11

LEMMA RejectSound ==
  ASSUME SInv, NEW h \in Slot, h = dl[1].id, dl # <<>>, todo = <<>>, ~ueRxNil, DownReject(h),
         UNCHANGED <<nobj, csess, ueRxNil>>, NEW i \in Slot
  PROVE  Sound(i)'
<1>0. DownInv /\ ObjInv /\ Sound(h) /\ Sound(i)
  BY DEF SInv, TInv, IInv
<1>1. PICK g : g = "sessReject"
  OBVIOUS
<1>2. g = dl[1].type /\ dl' = Tail(dl) /\ g \in SessTypes /\ UNCHANGED <<slot, todo, obj, nrx>>
  BY <1>1 DEF DownReject, SessTypes
<1>3. PICK p : p = GetPduSession(h)
  OBVIOUS
<1>4. PICK w : w = [n |-> nretry + 1, p |-> p, pc |-> "sleep", ch |-> 0]
  OBVIOUS
<1>5. w.p = p /\ (retry' = retry \/ (p # 0 /\ retry' = retry \cup {w}))
  BY <1>3, <1>4 DEF DownReject, HandleSessReject, retryVars
<1>6. p # 0 => p = slot[h]
  BY <1>0, <1>3, FoundSession
<1>7. Released(i)' /\ ~Asking(i)'
  BY <1>2, PlainReleased, PlainTriggers, NotAsking DEF Asking
<1>8. CASE i # h
  <2>1. SameMail(i)
    BY <1>0, <1>2, <1>8, MailTail
  <2>2. NoNewWait(i)
    BY <1>0, <1>5, <1>6, <1>8, OtherObject DEF NoNewWait
  <2>3. Frame(i)
    BY <1>0, <1>2, <1>7, <1>8, <2>1, <2>2, OtherFrame
  <2> QED
    BY <1>0, <2>3, FrameSound
<1>9. CASE i = h
  <2>1. Has(h, "sessReject") /\ Ordered(h)
    BY <1>0, <1>1, <1>2, MailTail DEF Sound, Life
  <2>2. ~NoMsg(h)
    BY <1>1, <1>2, <2>1 DEF NoMsg
  <2>3. csess[h] = "none" /\ slot[h] # 0 /\ ~Waits(h) /\ ~Active(h)
    BY <1>0, <2>1, <2>2 DEF Sound, Life
  <2>4. NoMsg(h)' /\ Ordered(h)'
    BY <1>0, <1>1, <1>2, <2>1, MailTail
  <2>5. \A t \in {"sessReject", "sessRelease", "sessAccept"} : ~Has(h, t)'
    BY <2>4 DEF NoMsg, SessTypes
  <2>6. csess'[h] = "none" /\ slot'[h] = slot[h] /\ ~Active(h)'
    BY <1>2, <2>3 DEF Active
  <2>7. \A q \in retry' : q.pc # "count" /\ q.p = slot[h] => q = w
    BY <1>5, <2>3 DEF Waits
  <2>8. Turn(h)'
    BY <1>7, <1>9, <2>3, <2>6, <2>7 DEF Turn
  <2>9. Life(h)'
    BY <2>3, <2>4, <2>5, <2>6 DEF Life
  <2> QED
    BY <1>9, <2>6, <2>8, <2>9 DEF Sound, Agree
<1> QED
  BY <1>8, <1>9

LEMMA DownSound ==
  ASSUME SInv, GnbMsgHandler, NEW i \in Slot PROVE Sound(i)'
<1> USE DEF scnVars, coreVars
<1>0. DownInv /\ MsgInv /\ StopInv /\ ObjInv /\ BirthInv /\ Sound(i) /\ nrx \in Nat
  BY DEF SInv, TInv, IInv, LinkInv
<1>1. todo = <<>> /\ dl # <<>> /\ ~ueRxNil /\ UNCHANGED <<nobj, csess, ueRxNil>>
  BY <1>0, DownCases
<1>2. PICK h, g : h = dl[1].id /\ g = dl[1].type
  OBVIOUS
<1>3. CASE h \in Slot /\ DownAccept(h)
  BY <1>1, <1>2, <1>3, AcceptSound
<1>4. CASE h \in Slot /\ DownRelease(h)
  BY <1>1, <1>2, <1>4, RemoveSound
<1>5. CASE h \in Slot /\ DownReject(h)
  BY <1>1, <1>2, <1>5, RejectSound
<1>6. CASE DownHandover
  <2>1. dl' = <<>> /\ nrx' = nrx + 1 /\ UNCHANGED <<slot, obj, todo, retry>>
    BY <1>6 DEF DownHandover, HandleHandover
  <2>2. nrx # 0
    BY <1>0, <1>1 DEF BirthInv
  <2>3. Released(i)' /\ ~Asking(i)'
    BY <1>1, <2>1, PlainReleased, PlainTriggers, NotAsking DEF Asking
  <2> QED
    BY <1>0, <1>1, <2>1, <2>2, <2>3, LostSound
<1>7. CASE DownNas
  <2>1. g \notin SessTypes /\ todo' \in Seq(Plain) /\ dl' = Tail(dl) /\ UNCHANGED <<slot, obj, retry, nrx>>
    BY <1>2, <1>7 DEF DownNas
  <2>2. SameMail(i)
    BY <1>0, <1>1, <1>2, <2>1, MailTail
  <2>3. Released(i)' /\ ~Asking(i)'
    BY <2>1, PlainReleased, NotAsking DEF Asking
  <2>4. Frame(i)
    BY <1>1, <2>1, <2>2, <2>3 DEF Frame, Active, NoNewWait
  <2> QED
    BY <1>0, <1>1, <2>4, FrameSound
<1> QED
  BY <1>0, <1>2, <1>3, <1>4, <1>5, <1>6, <1>7, DownCases

\* What the core says about a session.
LEMMA CoreSound ==
  ASSUME SInv, CoreAnswer \/ CoreOther \/ GnbHandover, NEW i \in Slot PROVE Sound(i)'
<1> USE DEF scnVars, ueVars, linkVars, retryVars
<1>0. DownInv /\ Sound(i) /\ CoreInv
  BY DEF SInv, TInv, IInv
<1>1. UNCHANGED <<slot, obj, todo, retry, nrx, ueRxNil>>
  BY <1>0, CoreCases
<1>2. (Waits(i)' <=> Waits(i)) /\ (Active(i)' <=> Active(i)) /\ (Asking(i)' <=> Asking(i))
      /\ (Released(i)' <=> Released(i)) /\ NoNewWait(i)
  BY <1>1 DEF Waits, Active, Asking, Released, NoNewWait
<1>3. ASSUME csess'[i] = csess[i], SameMail(i) PROVE Sound(i)'
  <2>1. Frame(i)
    BY <1>1, <1>2, <1>3 DEF Frame
  <2> QED
    BY <1>0, <1>1, <2>1, FrameSound
<1>4. CASE CoreNote
  <2>1. PICK t \in DownTypes \ SessTypes, n \in Nat : ToUe(t, n) /\ csess' = csess
    BY <1>4 DEF CoreNote
  <2>2. SameMail(i)
    BY <1>0, <2>1, MailAppend
  <2> QED
    BY <1>3, <2>1, <2>2
<1>5. ASSUME NEW k \in Slot, CoreAccepts(k) \/ CoreRejects(k) \/ CoreReleases(k), i # k PROVE Sound(i)'
  <2>1. csess'[i] = csess[i]
    BY <1>0, <1>5 DEF CoreAccepts, CoreRejects, CoreReleases, CoreInv
  <2>2. PICK t : ToUe(t, k)
    BY <1>5 DEF CoreAccepts, CoreRejects, CoreReleases
  <2>3. SameMail(i)
    BY <1>0, <1>5, <2>2, MailAppend
  <2> QED
    BY <1>3, <2>1, <2>3
<1>6. CASE CoreAccepts(i) \/ CoreRejects(i)
  <2>1. PICK t \in {"sessAccept", "sessReject"} : /\ ToUe(t, i) /\ csess[i] = "asked"
                                                  /\ csess'[i] = IF t = "sessAccept" THEN "active" ELSE "none"
    BY <1>0, <1>6 DEF CoreAccepts, CoreRejects, CoreInv
  <2>2. ~Active(i) /\ ~Waits(i) /\ ~Asking(i) /\ (~ueRxNil => NoMsg(i) /\ slot[i] # 0)
    BY <1>0, <2>1 DEF Sound, Turn, Life
  <2>3. NoMsg(i) => Ordered(i)' /\ \A u \in SessTypes : Has(i, u)' <=> u = t
    BY <1>0, <2>1, MailAppend
  <2>4. Turn(i)'
    BY <1>2, <2>2 DEF Turn, Waits
  <2>5. ASSUME ~ueRxNil PROVE Life(i)'
    <3>1. /\ Ordered(i)' /\ ~Has(i, "sessRelease")'
          /\ (Has(i, "sessAccept")' <=> t = "sessAccept") /\ (Has(i, "sessReject")' <=> t = "sessReject")
      BY <2>1, <2>2, <2>3, <2>5 DEF SessTypes
    <3> QED
      BY <1>1, <1>2, <2>1, <2>2, <2>5, <3>1 DEF Life
  <2> QED
    BY <1>1, <1>2, <2>2, <2>4, <2>5 DEF Sound, Agree
<1>7. CASE CoreReleases(i)
  <2>1. PICK t : t = "sessRelease" /\ ToUe(t, i)
    BY <1>7 DEF CoreReleases
  <2>2. csess[i] \in {"active", "releasing"} /\ csess'[i] = "none"
    BY <1>0, <1>7 DEF CoreReleases, CoreInv
  <2>3. Has(i, "sessRelease")'
    BY <1>0, <2>1, MailAppend
  <2>4. Turn(i)'
    BY <1>0, <1>1, <1>2, <2>2 DEF Sound, Turn
  <2>5. ASSUME ~ueRxNil PROVE Life(i)'
    <3>1. /\ Ordered(i) /\ ~Has(i, "sessReject") /\ ~Has(i, "sessRelease") /\ slot[i] # 0
          /\ ~Waits(i) /\ ~Asking(i)
      BY <1>0, <2>2, <2>5 DEF Sound, Life
    <3>2. Ordered(i)' /\ \A u \in SessTypes : Has(i, u)' <=> (u = t \/ Has(i, u))
      BY <1>0, <2>1, <3>1, MailAppend
    <3>3. ~Has(i, "sessReject")'
      BY <2>1, <3>1, <3>2 DEF SessTypes
    <3> QED
      BY <1>1, <1>2, <2>2, <2>3, <3>1, <3>2, <3>3 DEF Life
  <2>6. Agree(i)'
    BY <1>0, <1>2, <2>3 DEF Sound, Agree
  <2> QED
    BY <1>1, <2>4, <2>5, <2>6 DEF Sound
<1> QED
  BY <1>0, <1>4, <1>5, <1>6, <1>7, CoreCases

\* The goroutine that requests a session again.
LEMMA RetrySound ==
  ASSUME SInv, NEW r \in retry, RetryWake(r) \/ RetrySend(r) \/ RetryCount(r), NEW i \in Slot
  PROVE  Sound(i)'
<1> USE DEF scnVars, ueVars, linkVars
<1>0. ObjInv /\ RetryInv /\ HomeInv /\ CoreInv /\ Sound(i) /\ obj \in [Obj -> ObjRec]
  BY DEF SInv, TInv, IInv, ObjInv
<1>1. UNCHANGED <<slot, todo, nrx, ueRxNil, dl>>
  BY DEF RetryWake, RetrySend, RetryCount
<1>2. SameMail(i) /\ (Asking(i)' <=> Asking(i)) /\ (Released(i)' <=> Released(i))
  BY <1>1, MailKept DEF Asking, Released
<1>3. \A pc, ch : At(r, pc, ch).n = r.n /\ At(r, pc, ch).p = r.p /\ At(r, pc, ch).pc = pc
  BY DEF At
<1>4. NoNewWait(i)
  <2>1. \A q \in retry' : \/ q \in retry
                          \/ q.pc = "count"
                          \/ r.pc = "sleep" /\ q.n = r.n /\ q.p = r.p
    BY <1>3 DEF RetryWake, RetrySend, RetryCount
  <2> QED
    BY <2>1 DEF NoNewWait
<1>5. r.p \in Obj
  BY <1>0, ConstAssumption DEF ObjInv, Obj
<1>6. Active(i)' => Active(i)
  <2>1. \/ obj' = obj
        \/ obj' = [obj EXCEPT ![r.p].sm = "ACTIVE_PENDING"]
        \/ obj' = [obj EXCEPT ![r.p].retries = @ + 1]
    BY DEF RetryWake, RetrySend, RetryCount, Pending
  <2>2. \A q \in Obj : obj'[q].sm = obj[q].sm \/ obj'[q].sm = "ACTIVE_PENDING"
    BY <1>0, <1>5, <2>1, SetSm, SetRetries
  <2>3. slot[i] # 0 => slot[i] \in Obj
    BY <1>0, ConstAssumption DEF ObjInv, Obj
  <2> QED
    BY <1>1, <2>2, <2>3 DEF Active
<1>7. CASE csess'[i] = csess[i]
  <2>1. Frame(i)
    BY <1>1, <1>2, <1>4, <1>6, <1>7 DEF Frame
  <2> QED
    BY <1>0, <1>1, <2>1, FrameSound
<1>8. CASE csess'[i] # csess[i]
  <2>1. /\ RetrySend(r) /\ r.pc = "send" /\ csess' = CoreSess("sessReq", obj[r.p].id)
        /\ retry' = (retry \ {r}) \cup {At(r, "count", r.ch)}
    BY <1>8 DEF RetryWake, RetrySend, RetryCount, coreVars, Uplink
  <2>2. obj[r.p].id \in Slot /\ slot[obj[r.p].id] = r.p
    BY <1>0, <2>1 DEF HomeInv
  <2>3. PICK k : k = obj[r.p].id
    OBVIOUS
  <2>4. csess' = [csess EXCEPT ![k] = "asked"]
    BY <2>1, <2>3 DEF CoreSess
  <2>5. i = k /\ csess'[i] = "asked"
    BY <1>0, <1>8, <2>2, <2>3, <2>4 DEF CoreInv
  <2>6. Waits(i) /\ slot[i] = r.p
    BY <2>1, <2>2, <2>3, <2>5 DEF Waits
  <2>7. ~Waits(i)'
    <3> SUFFICES ASSUME NEW q \in retry', q.pc # "count", q.p = slot[i] PROVE FALSE
      BY <1>1 DEF Waits
    <3>1. q \in retry /\ q # r
      BY <1>3, <2>1
    <3>2. q.n = r.n
      BY <1>0, <2>1, <2>6, <3>1 DEF Sound, Turn
    <3> QED
      BY <1>0, <3>1, <3>2 DEF RetryInv
  <2>8. ~Asking(i)'
    BY <1>0, <1>2, <2>6 DEF Sound, Turn
  <2> QED
    BY <1>0, <1>1, <1>2, <1>6, <2>5, <2>6, <2>7, <2>8, AskedSound
<1> QED
  BY <1>7, <1>8

LEMMA SoundStep ==
  ASSUME SInv, [Next]_vars, NEW i \in Slot PROVE Sound(i)'
<1> USE DEF ueVars, linkVars, retryVars, scnVars, coreVars, scnFrame
<1>0. Sound(i) /\ StepInv
  BY DEF SInv, TInv
<1>1. ASSUME UNCHANGED <<slot, obj, retry, csess, dl, nrx, todo, ueRxNil>> PROVE Sound(i)'
  <2>1. Calm
    BY <1>1 DEF Calm
  <2> QED
    BY <1>0, <1>1, <2>1, TodoFrame, FrameSound
<1>2. CASE StateChange
  <2>1. Calm /\ todo # <<>> /\ todo' = Tail(todo) /\ UNCHANGED ueRxNil /\ Head(todo).op = "tell"
    BY <1>2 DEF StateChange, Calm
  <2>2. ~Asking(i)' /\ todo[1].op = "tell"
    BY <1>0, <2>1, TailTodo DEF Asking
  <2>3. todo[1] # Release(i)
    BY <2>2, StepKinds
  <2>4. Released(i) => Released(i)'
    BY <1>0, <2>1, <2>3, TailReleased
  <2> QED
    BY <1>0, <2>1, <2>2, <2>4, CalmFrame, FrameSound
<1>3. CASE VerifyPaging
  <2>1. Calm /\ UNCHANGED ueRxNil /\ (todo' = todo \/ todo' = ServiceSteps)
    BY <1>3 DEF VerifyPaging, ServiceRequest, Calm
  <2> QED
    BY <1>0, <2>1, TodoFrame, PlainTriggers, FrameSound
<1>4. ASSUME NEW t, NEW m, FireTimer(t, m) PROVE Sound(i)'
  BY <1>1, <1>4 DEF FireTimer
<1>5. CASE TemplateStop \/ FromTemplate \/ UeTxClosed
  BY <1>1, <1>5 DEF TemplateStop, FromTemplate, UeTxClosed
<1>6. CASE GnbTxClosed \/ DrxTick \/ HandlerPaging \/ GnbRelease
  BY <1>1, <1>6 DEF GnbTxClosed, DrxTick, HandlerPaging, GnbRelease
<1>7. CASE UNCHANGED vars
  BY <1>1, <1>7 DEF vars
<1> QED
  BY <1>2, <1>3, <1>4, <1>5, <1>6, <1>7, ManagerSound, StepSound, DownSound, CoreSound, RetrySound
  DEF Next

\* A slot is not emptied while its session is to be requested again.
LEMMA HomeStep ==
  ASSUME SInv, [Next]_vars PROVE HomeInv'
<1> USE DEF ueVars, linkVars, retryVars, scnVars, coreVars, scnFrame
<1>0. /\ OutInv /\ CountInv /\ CustomInv /\ DownInv /\ MsgInv /\ StopInv /\ ObjInv /\ HomeInv
      /\ obj \in [Obj -> ObjRec] /\ \A r \in retry : r.p \in Obj /\ r.p \in 1..nobj
  BY ConstAssumption DEF SInv, TInv, IInv, StopInv, ObjInv, Obj
<1>1. ASSUME UNCHANGED <<slot, retry>>, \A r \in retry : obj'[r.p].id = obj[r.p].id PROVE HomeInv'
  BY <1>0, <1>1 DEF HomeInv
<1>2. CASE UeMgrHandler
  <2>1. out # <<>> /\ out' = Tail(out) /\ UNCHANGED <<retry, nrx>>
    BY <1>2 DEF UeMgrHandler
  <2>2. CASE MgrNew
    <3>1. PICK k \in Slot : /\ slot[k] = 0 /\ slot' = [slot EXCEPT ![k] = nobj + 1]
                            /\ \A q \in 1..nobj : obj'[q] = obj[q]
      BY <1>0, <2>1, <2>2, NewObject
    <3>2. ASSUME NEW r \in retry, r.pc # "count"
          PROVE  obj'[r.p].id \in Slot /\ slot'[obj'[r.p].id] = r.p
      <4>1. obj'[r.p] = obj[r.p] /\ obj[r.p].id \in Slot /\ slot[obj[r.p].id] = r.p /\ r.p # 0
        BY <1>0, <3>1, <3>2 DEF HomeInv
      <4>2. obj[r.p].id # k
        BY <3>1, <4>1
      <4>3. slot'[obj[r.p].id] = slot[obj[r.p].id]
        BY <1>0, <3>1, <4>1, <4>2 DEF ObjInv
      <4> QED
        BY <4>1, <4>3
    <3> QED
      BY <2>1, <3>2 DEF HomeInv
  <2>3. CASE MgrStop \/ MgrPlain
    BY <1>1, <2>1, <2>3 DEF MgrStop, MgrPlain
  <2> QED
    BY <1>0, <1>2, <2>2, <2>3, ManagerCases
<1>3. CASE UeStep
  <2>1. todo # <<>> /\ todo' = Tail(todo) /\ UNCHANGED <<slot, retry, ueRxNil>>
    BY <1>3 DEF UeStep
  <2>2. CASE obj' = obj
    BY <1>1, <2>1, <2>2
  <2>3. CASE obj' # obj
    <3>1. StepInv /\ Head(todo) = todo[1]
      BY <2>1, TailTodo DEF SInv, TInv
    <3>2. todo[1].op = "release" /\ ReleaseStep(todo[1].id)
      BY <1>3, <2>3, <3>1 DEF UeStep, SendStep, ConnectStep, DrxStep, EndStep
    <3>3. PICK k \in Slot : todo[1].id = k
      BY <2>1, <3>1, <3>2, TailTodo, StepKinds
    <3>4. PICK p : p = GetPduSession(k)
      OBVIOUS
    <3>5. p # 0 /\ obj' = [obj EXCEPT ![p].sm = "INACTIVE"]
      BY <2>3, <3>2, <3>3, <3>4 DEF ReleaseStep
    <3>6. p \in Obj
      BY <1>0, <3>4, <3>5, FoundSession
    <3>7. \A q \in Obj : obj'[q].id = obj[q].id
      BY <1>0, <3>5, <3>6, SetSm
    <3> QED
      BY <1>0, <1>1, <2>1, <3>7
  <2> QED
    BY <2>2, <2>3
<1>4. CASE GnbMsgHandler
  <2>1. todo = <<>> /\ dl # <<>> /\ ~ueRxNil /\ UNCHANGED <<nobj, csess, ueRxNil>>
    BY <1>0, <1>4, DownCases
  <2>2. PICK h : h = dl[1].id
    OBVIOUS
  <2>3. CASE h \in Slot /\ DownAccept(h)
    <3>1. PICK p : p = GetPduSession(h)
      OBVIOUS
    <3>2. (obj' = obj \/ (p # 0 /\ obj' = [obj EXCEPT ![p].sm = "ACTIVE"])) /\ UNCHANGED <<slot, retry>>
      BY <2>3, <3>1 DEF DownAccept
    <3>3. p # 0 => p \in Obj
      BY <1>0, <2>3, <3>1, FoundSession
    <3>4. \A q \in Obj : obj'[q].id = obj[q].id
      BY <1>0, <3>2, <3>3, SetSm
    <3> QED
      BY <1>0, <1>1, <3>2, <3>4
  <2>4. CASE h \in Slot /\ DownRelease(h)
    <3>1. ~Waits(h)
      BY <2>1, <2>2, <2>4, RemoveSound
    <3>2. UNCHANGED <<obj, retry>> /\ (slot' = slot \/ slot' = [slot EXCEPT ![h] = 0])
      BY <2>4 DEF DownRelease, DeletePduSession
    <3>3. \A j \in Slot : j # h => slot'[j] = slot[j]
      BY <1>0, <3>2 DEF ObjInv
    <3>4. ASSUME NEW r \in retry, r.pc # "count"
          PROVE  obj[r.p].id \in Slot /\ slot'[obj[r.p].id] = r.p
      <4>1. obj[r.p].id \in Slot /\ slot[obj[r.p].id] = r.p
        BY <1>0, <3>4 DEF HomeInv
      <4>2. obj[r.p].id # h
        BY <3>1, <3>4, <4>1 DEF Waits
      <4> QED
        BY <3>3, <4>1, <4>2
    <3> QED
      BY <3>2, <3>4 DEF HomeInv
  <2>5. CASE h \in Slot /\ DownReject(h)
    <3>1. PICK p : p = GetPduSession(h)
      OBVIOUS
    <3>2. PICK w : w = [n |-> nretry + 1, p |-> p, pc |-> "sleep", ch |-> 0]
      OBVIOUS
    <3>3. w.p = p /\ UNCHANGED <<slot, obj>> /\ (retry' = retry \/ (p # 0 /\ retry' = retry \cup {w}))
      BY <2>5, <3>1, <3>2 DEF DownReject, HandleSessReject
    <3>4. p # 0 => p = slot[h] /\ obj[p].id = h
      BY <1>0, <2>5, <3>1, FoundSession
    <3> QED
      BY <1>0, <2>5, <3>3, <3>4 DEF HomeInv
  <2>6. CASE DownHandover \/ DownNas
    BY <1>1, <2>6 DEF DownHandover, DownNas
  <2> QED
    BY <1>0, <1>4, <2>2, <2>3, <2>4, <2>5, <2>6, DownCases
<1>5. ASSUME NEW r \in retry, RetryWake(r) \/ RetrySend(r) \/ RetryCount(r) PROVE HomeInv'
  <2>1. \A pc, ch : At(r, pc, ch).p = r.p /\ At(r, pc, ch).pc = pc
    BY DEF At
  <2>2. slot' = slot /\ \A q \in retry' : \/ q \in retry
                                          \/ q.pc = "count"
                                          \/ r.pc # "count" /\ q.p = r.p
    BY <1>5, <2>1 DEF RetryWake, RetrySend, RetryCount
  <2>3. \/ obj' = obj
        \/ obj' = [obj EXCEPT ![r.p].sm = "ACTIVE_PENDING"]
        \/ obj' = [obj EXCEPT ![r.p].retries = @ + 1]
    BY <1>5 DEF RetryWake, RetrySend, RetryCount, Pending
  <2>4. \A q \in Obj : obj'[q].id = obj[q].id
    BY <1>0, <2>3, SetSm, SetRetries
  <2>5. ASSUME NEW q \in retry', q.pc # "count"
        PROVE  obj'[q.p].id \in Slot /\ slot[obj'[q.p].id] = q.p
    <3>1. PICK o \in retry : o.pc # "count" /\ q.p = o.p
      BY <2>2, <2>5
    <3>2. obj[o.p].id \in Slot /\ slot[obj[o.p].id] = o.p /\ obj'[o.p].id = obj[o.p].id
      BY <1>0, <2>4, <3>1 DEF HomeInv
    <3> QED
      BY <3>1, <3>2
  <2> QED
    BY <2>2, <2>5 DEF HomeInv
<1>6. CASE GnbTxClosed \/ DrxTick \/ VerifyPaging
  BY <1>1, <1>6 DEF GnbTxClosed, DrxTick, VerifyPaging
<1>7. ASSUME NEW t, NEW m, FireTimer(t, m) PROVE HomeInv'
  BY <1>1, <1>7 DEF FireTimer
<1>8. CASE TemplateStop \/ FromTemplate \/ StateChange \/ UeTxClosed
  BY <1>1, <1>8 DEF TemplateStop, FromTemplate, StateChange, UeTxClosed
<1>9. CASE CoreAnswer \/ CoreOther \/ HandlerPaging \/ GnbHandover \/ GnbRelease
  BY <1>1, <1>9 DEF CoreAnswer, CoreOther, HandlerPaging, GnbHandover, GnbRelease
<1>10. CASE UNCHANGED vars
  BY <1>1, <1>10 DEF vars
<1> QED
  BY <1>2, <1>3, <1>4, <1>5, <1>6, <1>7, <1>8, <1>9, <1>10 DEF Next

LEMMA CoreStep ==
  ASSUME SInv, [Next]_vars PROVE CoreInv'
<1> USE DEF ueVars, linkVars, retryVars, scnVars, coreVars, scnFrame
<1> DEFINE C == {"none", "asked", "active", "releasing"}
<1>0. DownInv /\ csess \in [Slot -> C]
  BY DEF SInv, TInv, IInv, CoreInv
<1>1. \A m, k : CoreSess(m, k) \in [Slot -> C]
  BY <1>0 DEF CoreSess
<1>2. CASE csess' = csess
  BY <1>0, <1>2 DEF CoreInv
<1>3. CASE \E m, k : csess' = CoreSess(m, k)
  BY <1>1, <1>3 DEF CoreInv
<1>4. CASE CoreAnswer \/ CoreOther \/ GnbHandover
  <2>1. csess' = csess \/ \E i \in Slot : CoreAccepts(i) \/ CoreRejects(i) \/ CoreReleases(i)
    BY <1>0, <1>4, CoreCases DEF CoreNote
  <2>2. csess' \in [Slot -> C]
    BY <1>0, <2>1 DEF CoreAccepts, CoreRejects, CoreReleases
  <2> QED
    BY <2>2 DEF CoreInv
<1>5. CASE UeStep
  BY <1>2, <1>3, <1>5 DEF UeStep, SendStep, ConnectStep, ReleaseStep, DrxStep, EndStep, Uplink
<1>6. ASSUME NEW r \in retry, RetryWake(r) \/ RetrySend(r) \/ RetryCount(r) PROVE CoreInv'
  BY <1>2, <1>3, <1>6 DEF RetryWake, RetrySend, RetryCount, Uplink
<1>7. CASE UeMgrHandler \/ GnbMsgHandler \/ GnbTxClosed \/ DrxTick \/ VerifyPaging
  BY <1>2, <1>7 DEF UeMgrHandler, GnbMsgHandler, GnbTxClosed, DrxTick, VerifyPaging
<1>8. ASSUME NEW t, NEW m, FireTimer(t, m) PROVE CoreInv'
  BY <1>2, <1>8 DEF FireTimer
<1>9. CASE TemplateStop \/ FromTemplate \/ StateChange \/ UeTxClosed \/ HandlerPaging \/ GnbRelease
  BY <1>2, <1>9 DEF TemplateStop, FromTemplate, StateChange, UeTxClosed, HandlerPaging, GnbRelease
<1>10. CASE UNCHANGED vars
  BY <1>2, <1>10 DEF vars
<1> QED
  BY <1>4, <1>5, <1>6, <1>7, <1>8, <1>9, <1>10 DEF Next

\* The first step of the UE is to connect.
LEMMA BirthStep ==
  ASSUME SInv, [Next]_vars PROVE BirthInv'
<1> USE DEF ueVars, linkVars, retryVars, scnVars, coreVars, scnFrame
<1>0. BirthInv /\ nrx \in Nat
  BY DEF SInv, TInv, IInv, LinkInv
<1>1. PICK x : x = InitConn
  OBVIOUS
<1>2. x.op = "connect" /\ <<x>> # <<>> /\ Head(<<x>>) = x
  <2>1. x.op = "connect"
    BY <1>1 DEF InitConn, Step
  <2>2. <<x>> # <<>> /\ Head(<<x>>) = x
    OBVIOUS
  <2> QED
    BY <2>1, <2>2
<1>3. nrx = 0 => todo # <<>> /\ Head(todo).op = "connect"
  BY <1>0, <1>1, <1>2 DEF BirthInv
<1>4. ASSUME UNCHANGED <<nrx, todo, nobj>> PROVE BirthInv'
  BY <1>0, <1>4 DEF BirthInv
<1>5. ASSUME nrx' \in {nrx, nrx + 1}, nrx # 0 PROVE BirthInv'
  BY <1>0, <1>5 DEF BirthInv
<1>6. CASE UeMgrHandler \/ GnbMsgHandler \/ VerifyPaging
  <2>1. nrx # 0
    BY <1>3, <1>6 DEF UeMgrHandler, GnbMsgHandler, VerifyPaging
  <2>2. nrx' \in {nrx, nrx + 1}
    BY <1>6 DEF UeMgrHandler, GnbMsgHandler, VerifyPaging, HandleHandover
  <2> QED
    BY <1>5, <2>1, <2>2
<1>7. CASE UeStep
  <2>1. nrx' \in {nrx, nrx + 1} /\ (Head(todo).op = "connect" => nrx' = nrx + 1)
    BY <1>7 DEF UeStep, SendStep, ConnectStep, ReleaseStep, DrxStep, EndStep
  <2>2. nrx = 0 => nrx' # 0
    BY <1>3, <2>1
  <2> QED
    BY <1>0, <1>5, <2>1, <2>2 DEF BirthInv
<1>8. CASE StateChange
  BY <1>3, <1>5, <1>8 DEF StateChange
<1>9. ASSUME NEW t, NEW m, FireTimer(t, m) PROVE BirthInv'
  BY <1>4, <1>9 DEF FireTimer
<1>10. CASE TemplateStop \/ FromTemplate \/ UeTxClosed \/ GnbTxClosed \/ DrxTick
  BY <1>4, <1>10 DEF TemplateStop, FromTemplate, UeTxClosed, GnbTxClosed, DrxTick
<1>11. CASE CoreAnswer \/ CoreOther \/ HandlerPaging \/ GnbHandover \/ GnbRelease
  BY <1>4, <1>11 DEF CoreAnswer, CoreOther, HandlerPaging, GnbHandover, GnbRelease
<1>12. ASSUME NEW r \in retry, RetryWake(r) \/ RetrySend(r) \/ RetryCount(r) PROVE BirthInv'
  BY <1>4, <1>12 DEF RetryWake, RetrySend, RetryCount
<1>13. CASE UNCHANGED vars
  BY <1>4, <1>13 DEF vars
<1> QED
  BY <1>6, <1>7, <1>8, <1>9, <1>10, <1>11, <1>12, <1>13 DEF Next

LEMMA InitSInv == Init => SInv
<1> SUFFICES ASSUME Init PROVE SInv
  OBVIOUS
<1>1. HomeInv /\ BirthInv
  BY DEF Init, HomeInv, BirthInv
<1>2. CoreInv
  BY DEF Init, CoreInv
<1>3. ASSUME NEW i \in Slot PROVE Sound(i)
  <2>1. slot[i] = 0 /\ csess[i] = "none" /\ retry = {} /\ dl = <<>>
    BY DEF Init
  <2>2. ~Waits(i) /\ ~Active(i) /\ (\A t : ~Has(i, t)) /\ NoMsg(i) /\ Ordered(i)
    <3>1. Len(dl) = 0 /\ \A j \in 1..0 : FALSE
      BY <2>1
    <3> QED
      BY <2>1, <3>1 DEF Waits, Active, Has, NoMsg, Ordered
  <2>3. ~Asking(i)
    <3>1. todo \in Seq(Plain)
      BY PlainStep, ShortPlain DEF Init
    <3> QED
      BY <3>1, NotAsking DEF Asking
  <2> QED
    BY <2>1, <2>2, <2>3 DEF Sound, Turn, Life, Agree
<1> QED
  BY <1>1, <1>2, <1>3, InitTInv DEF SInv

LEMMA NextSInv == SInv /\ [Next]_vars => SInv'
<1> SUFFICES ASSUME SInv, [Next]_vars PROVE SInv'
  OBVIOUS
<1>1. TInv'
  BY NextTInv DEF SInv
<1>2. \A i \in Slot : Sound(i)'
  BY SoundStep
<1> QED
  BY <1>1, <1>2, HomeStep, CoreStep, BirthStep DEF SInv

LEMMA SInvOne == SInv => OneRequest
<1> SUFFICES ASSUME SInv, NEW r \in retry, r.pc # "count"
             PROVE  /\ obj[r.p].sm # "ACTIVE" /\ csess[obj[r.p].id] # "asked"
                    /\ \A q \in retry : q.p = r.p /\ q.pc # "count" => q = r
  BY DEF OneRequest
<1>1. obj[r.p].id \in Slot /\ slot[obj[r.p].id] = r.p
  BY DEF SInv, HomeInv
<1>2. PICK i \in Slot : i = obj[r.p].id /\ slot[i] = r.p
  BY <1>1
<1>3. Turn(i) /\ Waits(i)
  BY <1>2 DEF SInv, Sound, Waits
<1>4. ~Active(i) /\ csess[i] # "asked" /\ slot[i] # 0
  BY <1>3 DEF Turn
<1>5. ASSUME NEW q \in retry, q.p = r.p, q.pc # "count" PROVE q = r
  <2>1. q.n = r.n
    BY <1>2, <1>3, <1>5 DEF Turn
  <2> QED
    BY <2>1 DEF SInv, TInv, IInv, RetryInv
<1> QED
  BY <1>2, <1>4, <1>5 DEF Active

LEMMA SInvAgree == SInv => SessionsAgree
<1> SUFFICES ASSUME SInv, NEW i \in Slot, Active(i), nrx = 1
             PROVE  csess[i] = "active" \/ \E j \in 1..Len(dl) : dl[j] = Msg("sessRelease", i)
  BY DEF SessionsAgree, Active
<1>1. csess[i] = "active" \/ Has(i, "sessRelease")
  BY DEF SInv, Sound, Agree
<1>2. CASE Has(i, "sessRelease")
  <2>1. PICK j \in 1..Len(dl) : dl[j].id = i /\ dl[j].type = "sessRelease"
    BY <1>2 DEF Has
  <2>2. dl[j] \in Messages
    BY DEF SInv, TInv, IInv, DownInv
  <2>3. dl[j] = Msg("sessRelease", i)
    BY <2>1, <2>2 DEF Messages, Msg
  <2> QED
    BY <2>3
<1> QED
  BY <1>1, <1>2

\* A session is requested once at a time: while a T3580 goroutine waits or sends,
\* no other one does for the same session, the session is not active and the core
\* has no unanswered request for it (HandlerDlNasTransportPduaccept, the reject).
THEOREM OneRequestProved == Spec => []OneRequest
  BY InitSInv, NextSInv, SInvOne, PTL DEF Spec

\* For as long as the UE keeps its first channel, a session it holds active is
\* active in the core or its release waits in the channel: InitPduSessionRelease
\* comes before InitDeregistration for every session, and no answer is lost.
THEOREM SessionsAgreeProved == Spec => []SessionsAgree
  BY InitSInv, NextSInv, SInvAgree, PTL DEF Spec

=============================================================================
