----------------------------- MODULE UeScenario -----------------------------
(***************************************************************************)
(* A simulated UE of PacketRusher and the scenario that drives it.         *)
(*                                                                         *)
(* Source: internal/control_test_engine/ue (ue.go, nas/handler,            *)
(* nas/trigger, context), internal/common/tools (SimulateSingleUE) and     *)
(* internal/templates.  The UE and its scenario are two goroutines joined  *)
(* by two unbuffered channels: a send is a rendezvous, and each side can   *)
(* be blocked in one.  A rejected PDU session starts a third goroutine     *)
(* that retries (T3580).  The core network and the gNodeB are external.    *)
(* The gNodeB accepts the UE and goes on reading what it sends: GnbContext *)
(* has the refusal of a connection for want of an AMF.                     *)
(*                                                                         *)
(* A handler of the UE is the sequence of its steps that another goroutine *)
(* can observe (todo); the UE is back in its select when it is empty.      *)
(***************************************************************************)
EXTENDS Integers, Sequences, FiniteSets

CONSTANTS
    NSlot,      \* slots of the array of PDU sessions (16)
    NumPdu,     \* NumPduSessions of the scenario
    MaxRetry,   \* T3580 retries allowed (5)
    Timers,     \* timers of the scenario that are set
    Stop,       \* what the test template ends with: "Terminate", "Kill" or "none"
    Custom,     \* TRUE for TestWithCustomScenario
    Gutis,      \* whether the core assigns a GUTI: a subset of BOOLEAN
    MaxHo,      \* bound: handover orders
    MaxReject,  \* bound: PDU session rejects
    MaxReauth   \* bound: authentications of a registered UE

ASSUME ConstAssumption ==
    /\ NSlot \in Nat \ {0, 1} /\ NumPdu \in Nat /\ MaxRetry \in Nat
    /\ Timers \subseteq {"dereg", "idle", "reconnect"} /\ Stop \in {"Terminate", "Kill", "none"}
    /\ Custom \in BOOLEAN /\ Gutis \subseteq BOOLEAN
    /\ MaxHo \in Nat /\ MaxReject \in Nat /\ MaxReauth \in Nat

Slot == 1..NSlot
Obj  == 1..NumPdu + 1    \* UEPDUSession objects in order of creation

VARIABLES
    \* the UE
    mm, todo, alive, guti,
    slot,       \* PduSession: session id -> object, 0 when nil
    obj,        \* the objects: id, SM state, T3580Retries
    nobj,
    drx, tick,  \* the DRX ticker, and whether a tick waits in its channel
    rx,         \* gnbRx: number of the channel to the gNodeB, 0 when nil
    nrx, closed,
    gnbTx,      \* the channel from the gNodeB: "open", "closed" or "nil"
    lock,       \* number of the retry goroutine that holds the UE's mutex, or 0
    retry,      \* the T3580 goroutines
    nretry,
    \* the scenario goroutine
    out,        \* messages it is about to send to the UE
    ueRxNil,    \* it has forgotten the channel to the UE
    timers, registered, done,
    ctl,        \* the template: "run", wants to "stop" the UE, or has "told" it
    \* the core network and the gNodeB
    dl,         \* messages to the UE, in order
    core, csess, paged,
    release,    \* channel whose context the gNodeB is about to release
    nho, nrej, nauth,
    fate        \* "running", or why the process died

ueVars   == <<mm, todo, alive, guti, slot, obj, nobj, drx, tick>>
linkVars == <<rx, nrx, closed, gnbTx, lock>>
retryVars == <<retry, nretry>>
scnVars  == <<out, ueRxNil, timers, registered, done, ctl>>
boundVars == <<nho, nrej, nauth>>
coreVars == <<core, csess, paged, release, boundVars>>
vars == <<ueVars, linkVars, retryVars, scnVars, dl, coreVars, fate>>

\* Steps of a handler: tell the scenario, send to the gNodeB, connect to the
\* gNodeB, release a session, create the DRX ticker, terminate.
Step(op, arg, id) == [op |-> op, arg |-> arg, id |-> id]
Tell(s)    == Step("tell", s, 0)
Send(m)    == Step("send", m, 0)
SendS(m, i) == Step("send", m, i)
InitConn   == Step("connect", "", 0)
Release(i) == Step("release", "", i)
CreateDRX  == Step("drx", "", 0)
Terminate  == Step("end", "", 0)

Msg(type, id) == [type |-> type, id |-> id]

\* The calls of the sample custom scenario: its session ids are passed on minus 1.
CustomCalls == <<Msg("Registration", 0), Msg("NewPDUSession", 0),
                 Msg("DestroyPDUSession", 0), Msg("Deregistration", 0)>>

Init ==
    /\ mm = "NULL" /\ todo = <<InitConn>> /\ alive = TRUE /\ guti = FALSE
    /\ slot = [i \in Slot |-> 0] /\ nobj = 0
    /\ obj = [p \in Obj |-> [id |-> 0, sm |-> "INACTIVE", retries |-> 0]]
    /\ drx = "nil" /\ tick = FALSE
    /\ rx = 0 /\ nrx = 0 /\ closed = {} /\ gnbTx = "nil" /\ lock = 0
    /\ retry = {} /\ nretry = 0
    /\ out = IF Custom THEN CustomCalls ELSE <<Msg("Registration", 0)>>
    /\ ueRxNil = FALSE /\ timers = Timers \ {"reconnect"} /\ registered = FALSE /\ done = FALSE
    /\ ctl = "run" /\ dl = <<>>
    /\ core = "none" /\ csess = [i \in Slot |-> "none"] /\ paged = FALSE /\ release = 0
    /\ nho = 0 /\ nrej = 0 /\ nauth = 0
    /\ fate = "running"

-----------------------------------------------------------------------------
(* The core network and the gNodeB, external.                              *)

\* What the core makes of a message of the UE.
CoreState(m) ==
    CASE m = "regReq" -> "started"
      [] m \in {"identityResponse", "authFailure"} -> "identified"
      [] m = "authResponse" -> IF core = "authSent" THEN "authOk" ELSE core
      [] m = "smComplete"   -> "secured"
      [] m = "regComplete"  -> "registered"
      [] m = "serviceReq"   -> IF core \in {"idle", "service", "registered"} THEN "service" ELSE core
      [] m = "idle"         -> IF core \in {"registered", "service"} THEN "idle" ELSE "none"
      [] m = "deregReq"     -> "none"
      [] OTHER              -> core
CoreSess(m, i) ==
    CASE m = "sessReq" -> [csess EXCEPT ![i] = "asked"]
      [] m = "sessRel" -> [csess EXCEPT ![i] = "releasing"]
      [] m = "deregReq" -> [s \in Slot |-> "none"]
      [] OTHER -> csess

\* Message m of the UE on channel k; a UE that leaves has its context released.
Uplink(m, i, k) ==
    /\ core' = CoreState(m)
    /\ csess' = CoreSess(m, i)
    /\ release' = IF m \in {"idle", "deregReq"} THEN k ELSE release
    /\ UNCHANGED <<paged, boundVars>>

ToUe(type, id) == dl' = Append(dl, Msg(type, id))

\* The procedures the core runs: each answer it owes the UE.
CoreAnswer ==
    /\ fate = "running" /\ gnbTx = "open"
    /\ \/ /\ core \in {"started", "identified"} /\ core' = "authSent"
          /\ ToUe("authRequest", 0) /\ UNCHANGED csess
       \/ /\ core = "authOk" /\ core' = "smcSent"
          /\ ToUe("securityModeCommand", 0) /\ UNCHANGED csess
       \/ /\ core = "secured" /\ core' = "acceptSent"
          /\ \E g \in Gutis : ToUe("registrationAccept", IF g THEN 1 ELSE 0)
          /\ UNCHANGED csess
       \/ /\ core = "service" /\ core' = "registered"
          /\ ToUe("serviceAccept", 0) /\ UNCHANGED csess
       \/ \E i \in Slot :
          /\ core = "registered" /\ csess[i] = "asked"
          /\ csess' = [csess EXCEPT ![i] = "active"]
          /\ ToUe("sessAccept", i) /\ UNCHANGED core
       \/ \E i \in Slot :
          /\ core = "registered" /\ csess[i] = "releasing"
          /\ csess' = [csess EXCEPT ![i] = "none"]
          /\ ToUe("sessRelease", i) /\ UNCHANGED core
    /\ UNCHANGED <<ueVars, linkVars, retryVars, scnVars, paged, release, boundVars, fate>>

\* What the core may also do: ask for the identity, fail the authentication,
\* refuse, reject or release a session, authenticate or configure a registered UE.
CoreOther ==
    /\ fate = "running" /\ gnbTx = "open"
    /\ \/ /\ core = "started" /\ core' = "identitySent"
          /\ ToUe("identityRequest", 0) /\ UNCHANGED <<csess, boundVars>>
       \/ /\ core \in {"started", "identified"} /\ core' = "refused"
          /\ \E r \in {"authReject", "registrationReject"} : ToUe(r, 0)
          /\ UNCHANGED <<csess, boundVars>>
       \/ /\ core \in {"started", "identified"} /\ core' = "authSent" /\ nauth < MaxReauth
          /\ nauth' = nauth + 1
          /\ ToUe("badAuthRequest", 0) /\ UNCHANGED <<csess, nrej, nho>>
       \/ \E i \in Slot :
          /\ core = "registered" /\ csess[i] \in {"asked", "active"} /\ nrej < MaxReject
          /\ nrej' = nrej + 1
          /\ csess' = [csess EXCEPT ![i] = "none"]
          /\ ToUe(IF csess[i] = "asked" THEN "sessReject" ELSE "sessRelease", i)
          /\ UNCHANGED <<core, nauth, nho>>
       \/ /\ core = "registered" /\ nauth < MaxReauth
          /\ nauth' = nauth + 1
          /\ \E r \in {"authRequest", "configurationUpdate"} : ToUe(r, 0)
          /\ UNCHANGED <<core, csess, nrej, nho>>
    /\ UNCHANGED <<ueVars, linkVars, retryVars, scnVars, paged, release, fate>>

\* The core pages an idle UE.  Its entry stays in the gNodeB's list: what expires
\* after a second is the empty range in front of it.
AddPagedUE == paged' = TRUE
HandlerPaging ==
    /\ fate = "running" /\ core = "idle" /\ ~paged
    /\ AddPagedUE
    /\ UNCHANGED <<ueVars, linkVars, retryVars, scnVars, dl, core, csess, release, boundVars, fate>>

\* The gNodeB tells the UE to use another gNodeB, or closes the channel of a
\* context that is released.
GnbHandover ==
    /\ fate = "running" /\ gnbTx = "open" /\ core = "registered" /\ nho < MaxHo
    /\ nho' = nho + 1
    /\ ToUe("handover", 0)
    /\ UNCHANGED <<ueVars, linkVars, retryVars, scnVars, core, csess, paged, release, nrej,
                   nauth, fate>>
GnbRelease ==
    /\ fate = "running" /\ gnbTx = "open" /\ release = nrx
    /\ gnbTx' = "closed" /\ release' = 0
    /\ UNCHANGED <<ueVars, rx, nrx, closed, lock, retryVars, scnVars, dl, core, csess, paged,
                   boundVars, fate>>

-----------------------------------------------------------------------------
(* PDU sessions of the UE.                                                 *)

\* GetPduSession: the object of a session, or 0; the last slot is never found.
GetPduSession(i) == IF i > NSlot - 1 THEN 0 ELSE slot[i]

\* A pending session of the UE is requested from the core.
Pending(p) == [obj EXCEPT ![p].sm = "ACTIVE_PENDING"]

FreeSlots == {i \in Slot : slot[i] = 0}
NewSession(i, id) ==
    /\ \A j \in FreeSlots : i <= j
    /\ nobj' = nobj + 1
    /\ slot' = [slot EXCEPT ![i] = nobj + 1]
    /\ obj' = [obj EXCEPT ![nobj + 1] = [id |-> id, sm |-> "ACTIVE_PENDING", retries |-> 0]]
    /\ todo' = <<SendS("sessReq", i)>>
    /\ UNCHANGED fate
InitPduSessionRequest_ZeroId ==
    \E i \in FreeSlots : NewSession(i, i - 1)

\* CreatePDUSession takes the first free slot; without one the program ends.
InitPduSessionRequest ==
    \/ FreeSlots = {} /\ fate' = "fatal" /\ UNCHANGED <<slot, obj, nobj, todo>>
    \/ \E i \in FreeSlots : NewSession(i, i)

DeletePduSession_KeepsSlot(i) ==
    UNCHANGED <<slot, todo>>

\* ReleaseComplete is sent only for a session the UE itself asked to release.
DeletePduSession(i) ==
    LET p == GetPduSession(i) IN
    IF p = 0 THEN UNCHANGED <<slot, todo>>
    ELSE /\ slot' = [slot EXCEPT ![i] = 0]
         /\ todo' = IF obj[p].sm = "INACTIVE" THEN <<SendS("sessRelComplete", i)>> ELSE <<>>

-----------------------------------------------------------------------------
(* ueMgrHandler: messages of the scenario.  Rendezvous: the scenario is in *)
(* its send and the UE in its select.                                      *)

\* What the triggers of the UE send and announce.
InitRegistration   == <<Send("regReq"), Tell("DEREGISTERED")>>
InitDeregistration == <<Send("deregReq"), Tell("DEREGISTERED")>>
InitServiceRequest == <<Send("serviceReq")>>
SwitchToIdle       == <<Send("idle")>>

ServiceSteps_NoConn == IF guti THEN InitServiceRequest ELSE InitRegistration
ServiceSteps == <<InitConn>> \o (IF guti THEN InitServiceRequest ELSE InitRegistration)
StopDRX == drx' = IF drx = "on" THEN "stopped" ELSE drx
\* Also what paging leads to: an idle UE connects again.
ServiceRequest ==
    IF mm = "IDLE" THEN StopDRX /\ todo' = ServiceSteps ELSE UNCHANGED <<drx, todo>>

TerminateSteps_Stays ==
    IF mm # "REGISTERED" THEN <<Terminate>>
    ELSE [i \in 1..NSlot |-> Release(i)] \o InitDeregistration

\* A registered UE releases its sessions and deregisters; another one just ends.
TerminateSteps ==
    IF mm # "REGISTERED" THEN <<Terminate>>
    ELSE [i \in 1..NSlot |-> Release(i)] \o InitDeregistration \o <<Terminate>>

Handler(m) ==
    \/ /\ m.type = "Registration"
       /\ todo' = InitRegistration
       /\ UNCHANGED <<slot, obj, nobj, drx, fate>>
    \/ /\ m.type = "Deregistration"
       /\ todo' = InitDeregistration
       /\ UNCHANGED <<slot, obj, nobj, drx, fate>>
    \/ /\ m.type = "NewPDUSession" /\ InitPduSessionRequest /\ UNCHANGED drx
    \/ /\ m.type = "DestroyPDUSession"
       /\ fate' = IF m.id = 0 THEN "index" ELSE fate
       /\ todo' = IF m.id # 0 /\ GetPduSession(m.id) # 0 THEN <<Release(m.id)>> ELSE <<>>
       /\ UNCHANGED <<slot, obj, nobj, drx>>
    \/ /\ m.type = "Idle"
       /\ todo' = <<Tell("IDLE")>> \o SwitchToIdle \o <<CreateDRX>>
       /\ UNCHANGED <<slot, obj, nobj, drx, fate>>
    \/ /\ m.type = "ServiceRequest" /\ ServiceRequest /\ UNCHANGED <<slot, obj, nobj, fate>>
    \/ /\ m.type = "Terminate" /\ todo' = TerminateSteps
       /\ UNCHANGED <<slot, obj, nobj, drx, fate>>
    \/ /\ m.type = "Kill" /\ todo' = <<Terminate>>
       /\ UNCHANGED <<slot, obj, nobj, drx, fate>>

UeMgrHandler ==
    LET m == Head(out) IN
    /\ fate = "running" /\ alive /\ todo = <<>> /\ out # <<>> /\ ~ueRxNil
    /\ Handler(m)
    /\ out' = Tail(out)
    /\ ueRxNil' = (m.type \in {"Terminate", "Kill"})
    /\ timers' = IF m.type = "Idle" THEN timers \cup (Timers \cap {"reconnect"})
                 ELSE timers
    /\ UNCHANGED <<mm, alive, guti, tick, linkVars, retryVars, registered, done, ctl, dl, coreVars>>

-----------------------------------------------------------------------------
(* The steps of a handler.                                                 *)

\* SendToGnb holds the mutex of the UE; without a channel the message is dropped.
SendStep(m, i) ==
    /\ lock = 0
    /\ fate' = IF rx \in closed THEN "closedSend" ELSE fate
    /\ IF rx = 0 THEN UNCHANGED coreVars ELSE Uplink(m, i, rx)
    /\ UNCHANGED <<mm, alive, obj, drx, tick, linkVars, dl>>

\* InitConn waits for the answer of gnbListen, here an acceptance: a gNodeB without an
\* active AMF closes the channel instead, which the UE takes for an answer too, and
\* nobody reads gnbRx then.  An accepted UE has a reader (processingConn) until the
\* first message after the release of its context, so that a send on gnbRx, of
\* capacity 1, is only a short wait; it takes three T3580 goroutines in one idle
\* period to send more.
ConnectStep ==
    /\ nrx' = nrx + 1 /\ rx' = nrx + 1
    /\ gnbTx' = "open" /\ dl' = <<>>
    /\ UNCHANGED <<mm, alive, obj, drx, tick, closed, lock, coreVars, fate>>

\* InitPduSessionRelease skips a session that is not active.
ReleaseStep(i) ==
    LET p == GetPduSession(i) IN
    IF p # 0 /\ obj[p].sm = "ACTIVE"
    THEN /\ lock = 0
         /\ obj' = [obj EXCEPT ![p].sm = "INACTIVE"]
         /\ fate' = IF rx \in closed THEN "closedSend" ELSE fate
         /\ Uplink("sessRel", i, rx)
         /\ UNCHANGED <<mm, alive, drx, tick, linkVars, dl>>
    ELSE UNCHANGED <<mm, alive, obj, drx, tick, linkVars, dl, coreVars, fate>>

DrxStep ==
    /\ drx' = "on" /\ tick' = FALSE
    /\ UNCHANGED <<mm, alive, obj, linkVars, dl, coreVars, fate>>

\* UEContext.Terminate: under the mutex the channel is closed and forgotten; then
\* the channel to the scenario is closed.
EndStep_NoLock ==
    /\ mm' = "NULL" /\ alive' = FALSE
    /\ rx' = 0 /\ closed' = closed \cup ({rx} \ {0})
    /\ StopDRX
    /\ UNCHANGED <<obj, tick, nrx, gnbTx, lock, dl, coreVars, fate>>
EndStep_KeepsRx ==
    /\ lock = 0
    /\ mm' = "NULL" /\ alive' = FALSE
    /\ StopDRX
    /\ UNCHANGED <<obj, tick, rx, nrx, closed, gnbTx, lock, dl, coreVars, fate>>
EndStep ==
    /\ lock = 0
    /\ mm' = "NULL" /\ alive' = FALSE
    /\ rx' = 0 /\ closed' = closed \cup ({rx} \ {0})
    /\ StopDRX
    /\ UNCHANGED <<obj, tick, nrx, gnbTx, lock, dl, coreVars, fate>>

UeStep ==
    LET s == Head(todo) IN
    /\ fate = "running" /\ todo # <<>>
    /\ todo' = Tail(todo)
    /\ \/ s.op = "send" /\ SendStep(s.arg, s.id)
       \/ s.op = "connect" /\ ConnectStep
       \/ s.op = "release" /\ ReleaseStep(s.id)
       \/ s.op = "drx" /\ DrxStep
       \/ s.op = "end" /\ EndStep
    /\ UNCHANGED <<guti, slot, nobj, retryVars, scnVars>>

-----------------------------------------------------------------------------
(* gnbMsgHandler: messages of the gNodeB.                                  *)

\* Handlers that only answer or announce a state.  Messages of the core are well
\* formed: the checks that end the program on a malformed one do not fire.
HandlerAuthenticationReject   == <<Tell("DEREGISTERED")>>
HandlerAuthenticationRequest(ok) ==
    IF ok THEN <<Tell("REGISTERED_INITIATED"), Send("authResponse")>>
    ELSE <<Send("authFailure")>>
HandlerSecurityModeCommand    == <<Send("smComplete")>>
HandlerRegistrationAccept     == <<Tell("REGISTERED"), Send("regComplete")>>
HandlerServiceAccept          == <<Tell("REGISTERED")>>
HandlerIdentityRequest        == <<Send("identityResponse")>>
HandlerConfigurationUpdateCommand == <<Send("configComplete")>>

\* DispatchNas; a Registration Reject is only logged.
DispatchNas(type) ==
    CASE type = "authRequest"         -> HandlerAuthenticationRequest(TRUE)
      [] type = "badAuthRequest"      -> HandlerAuthenticationRequest(FALSE)
      [] type = "authReject"          -> HandlerAuthenticationReject
      [] type = "identityRequest"     -> HandlerIdentityRequest
      [] type = "securityModeCommand" -> HandlerSecurityModeCommand
      [] type = "registrationAccept"  -> HandlerRegistrationAccept
      [] type = "configurationUpdate" -> HandlerConfigurationUpdateCommand
      [] type = "serviceAccept"       -> HandlerServiceAccept
      [] OTHER                        -> <<>>

\* PDU Session Establishment Accept: the object is used before the error is checked.
HandleSessAccept(i) ==
    LET p == GetPduSession(i) IN
    /\ fate' = IF p = 0 THEN "acceptNil" ELSE fate
    /\ obj' = IF p = 0 THEN obj ELSE [obj EXCEPT ![p].sm = "ACTIVE"]
    /\ UNCHANGED <<slot, todo, retryVars>>

HandleSessReject_OffByOne(i) ==
    LET p == GetPduSession(i) IN
    /\ IF p # 0 /\ obj[p].retries + 1 < MaxRetry
       THEN /\ nretry' = nretry + 1
            /\ retry' = retry \cup {[n |-> nretry + 1, p |-> p, pc |-> "sleep", ch |-> 0]}
       ELSE UNCHANGED retryVars
    /\ UNCHANGED <<slot, obj, todo, fate>>

\* PDU Session Establishment Reject starts the T3580 goroutine.
HandleSessReject(i) ==
    LET p == GetPduSession(i) IN
    /\ IF p # 0 /\ obj[p].retries < MaxRetry
       THEN /\ nretry' = nretry + 1
            /\ retry' = retry \cup {[n |-> nretry + 1, p |-> p, pc |-> "sleep", ch |-> 0]}
       ELSE UNCHANGED retryVars
    /\ UNCHANGED <<slot, obj, todo, fate>>

\* A handover order: the new channels are stored, then the old one is closed, all
\* without the mutex.
HandleHandover ==
    /\ nrx' = nrx + 1 /\ rx' = nrx + 1
    /\ closed' = closed \cup ({rx} \ {0})
    /\ dl' = <<>>

GnbMsgHandler ==
    LET m == Head(dl) IN
    /\ fate = "running" /\ alive /\ todo = <<>> /\ gnbTx # "nil" /\ dl # <<>>
    /\ \/ /\ m.type = "sessAccept" /\ HandleSessAccept(m.id)
          /\ dl' = Tail(dl) /\ UNCHANGED <<rx, nrx, closed, guti>>
       \/ /\ m.type = "sessRelease" /\ DeletePduSession(m.id)
          /\ dl' = Tail(dl) /\ UNCHANGED <<obj, rx, nrx, closed, guti, retryVars, fate>>
       \/ /\ m.type = "sessReject" /\ HandleSessReject(m.id)
          /\ dl' = Tail(dl) /\ UNCHANGED <<rx, nrx, closed, guti>>
       \/ /\ m.type = "handover" /\ HandleHandover
          /\ UNCHANGED <<slot, obj, todo, guti, retryVars, fate>>
       \/ /\ m.type \notin {"sessAccept", "sessRelease", "sessReject", "handover"}
          /\ todo' = DispatchNas(m.type)
          /\ guti' = (guti \/ m = Msg("registrationAccept", 1))
          /\ dl' = Tail(dl) /\ UNCHANGED <<slot, obj, rx, nrx, closed, retryVars, fate>>
    /\ UNCHANGED <<mm, alive, nobj, drx, tick, gnbTx, lock, scnVars, coreVars>>

\* The gNodeB has closed the channel.
GnbTxClosed ==
    /\ fate = "running" /\ alive /\ todo = <<>> /\ gnbTx = "closed" /\ dl = <<>>
    /\ gnbTx' = "nil"
    /\ UNCHANGED <<ueVars, rx, nrx, closed, lock, retryVars, scnVars, dl, coreVars, fate>>

\* The DRX ticker, and verifyPaging.
DrxTick ==
    /\ fate = "running" /\ drx = "on" /\ ~tick
    /\ tick' = TRUE
    /\ UNCHANGED <<mm, todo, alive, guti, slot, obj, nobj, drx, linkVars, retryVars, scnVars,
                   dl, coreVars, fate>>
VerifyPaging ==
    /\ fate = "running" /\ alive /\ todo = <<>> /\ tick
    /\ tick' = FALSE
    /\ IF guti /\ paged THEN ServiceRequest ELSE UNCHANGED <<drx, todo>>
    /\ UNCHANGED <<mm, alive, guti, slot, obj, nobj, linkVars, retryVars, scnVars, dl,
                   coreVars, fate>>

-----------------------------------------------------------------------------
(* The T3580 goroutine of a rejected session: it sleeps, sends the request *)
(* again (SendToGnb: mutex, read of the channel, send) and then counts.    *)

At(r, pc, ch) == [n |-> r.n, p |-> r.p, pc |-> pc, ch |-> ch]

RetryWake(r) ==
    /\ fate = "running" /\ r \in retry /\ r.pc = "sleep" /\ lock = 0
    /\ obj' = Pending(r.p)
    /\ lock' = r.n
    /\ retry' = (retry \ {r}) \cup {At(r, "send", rx)}
    /\ UNCHANGED <<mm, todo, alive, guti, slot, nobj, drx, tick, rx, nrx, closed, gnbTx, nretry,
                   scnVars, dl, coreVars, fate>>
RetrySend(r) ==
    /\ fate = "running" /\ r \in retry /\ r.pc = "send"
    /\ fate' = IF r.ch \in closed THEN "closedSend" ELSE fate
    /\ IF r.ch = 0 \/ r.ch \in closed THEN UNCHANGED coreVars
       ELSE Uplink("sessReq", obj[r.p].id, r.ch)
    /\ lock' = 0
    /\ retry' = (retry \ {r}) \cup {At(r, "count", r.ch)}
    /\ UNCHANGED <<ueVars, rx, nrx, closed, gnbTx, nretry, scnVars, dl>>
RetryCount_Loops(r) ==
    /\ fate = "running" /\ r \in retry /\ r.pc = "count"
    /\ obj' = [obj EXCEPT ![r.p].retries = @ + 1]
    /\ retry' = (retry \ {r}) \cup {At(r, "sleep", 0)}
    /\ obj[r.p].retries < MaxRetry
    /\ UNCHANGED <<mm, todo, alive, guti, slot, nobj, drx, tick, linkVars, nretry, scnVars, dl,
                   coreVars, fate>>
RetryCount(r) ==
    /\ fate = "running" /\ r \in retry /\ r.pc = "count"
    /\ obj' = [obj EXCEPT ![r.p].retries = @ + 1]
    /\ retry' = retry \ {r}
    /\ UNCHANGED <<mm, todo, alive, guti, slot, nobj, drx, tick, linkVars, nretry, scnVars, dl,
                   coreVars, fate>>

-----------------------------------------------------------------------------
(* SimulateSingleUE: the select of the scenario goroutine.                 *)

InSelect == fate = "running" /\ ~Custom /\ ~done /\ out = <<>>
scnFrame == <<ueVars, linkVars, retryVars, dl, coreVars, fate>>

\* A timer fires; once the UE was told to stop, nothing is sent to it.
FireTimer_NilFirst(t, m) ==
    /\ InSelect /\ t \in timers
    /\ timers' = timers \ {t}
    /\ out' = IF ueRxNil THEN <<>> ELSE <<Msg(m, 0)>>
    /\ ueRxNil' = (ueRxNil \/ m = "Terminate")
    /\ UNCHANGED <<registered, done, ctl, scnFrame>>
FireTimer(t, m) ==
    /\ InSelect /\ t \in timers
    /\ timers' = timers \ {t}
    /\ out' = IF ueRxNil THEN <<>> ELSE <<Msg(m, 0)>>
    /\ UNCHANGED <<ueRxNil, registered, done, ctl, scnFrame>>

\* The template wants the UE to stop (Ctrl-C, or the next round of the loop), and
\* the scenario takes its message.
TemplateStop ==
    /\ fate = "running" /\ Stop # "none" /\ ctl = "run"
    /\ ctl' = "stop"
    /\ UNCHANGED <<out, ueRxNil, timers, registered, done, scnFrame>>
FromTemplate ==
    /\ InSelect /\ ctl = "stop"
    /\ ctl' = "told"
    /\ out' = IF ueRxNil THEN <<>> ELSE <<Msg(Stop, 0)>>
    /\ UNCHANGED <<ueRxNil, timers, registered, done, scnFrame>>

StateChange_AnyState ==
    LET s == Head(todo) IN
    /\ InSelect /\ todo # <<>> /\ s.op = "tell"
    /\ mm' = s.arg /\ todo' = Tail(todo)
    /\ registered' = TRUE
    /\ out' = IF s.arg = "REGISTERED" /\ ~registered
              THEN [i \in 1..NumPdu |-> Msg("NewPDUSession", 0)] ELSE <<>>
    /\ UNCHANGED <<alive, guti, slot, obj, nobj, drx, tick, linkVars, retryVars, ueRxNil,
                   timers, done, ctl, dl, coreVars, fate>>

\* Rendezvous: the UE announces a state; at the first registration the scenario
\* goes on to request the sessions.
StateChange ==
    LET s == Head(todo) IN
    /\ InSelect /\ todo # <<>> /\ s.op = "tell"
    /\ mm' = s.arg /\ todo' = Tail(todo)
    /\ registered' = (registered \/ s.arg = "REGISTERED")
    /\ out' = IF s.arg = "REGISTERED" /\ ~registered
              THEN [i \in 1..NumPdu |-> Msg("NewPDUSession", 0)] ELSE <<>>
    /\ UNCHANGED <<alive, guti, slot, obj, nobj, drx, tick, linkVars, retryVars, ueRxNil,
                   timers, done, ctl, dl, coreVars, fate>>

\* The UE has closed the channel: its zero value reads as the state NULL.
UeTxClosed ==
    /\ InSelect /\ ~alive
    /\ done' = TRUE
    /\ UNCHANGED <<out, ueRxNil, timers, registered, ctl, scnFrame>>

Next ==
    \/ UeMgrHandler \/ UeStep \/ GnbMsgHandler \/ GnbTxClosed \/ DrxTick \/ VerifyPaging
    \/ \E r \in retry : RetryWake(r) \/ RetrySend(r) \/ RetryCount(r)
    \/ FireTimer("dereg", "Terminate") \/ FireTimer("idle", "Idle")
    \/ FireTimer("reconnect", "ServiceRequest")
    \/ TemplateStop \/ FromTemplate \/ StateChange \/ UeTxClosed
    \/ CoreAnswer \/ CoreOther \/ HandlerPaging \/ GnbHandover \/ GnbRelease

Spec == Init /\ [][Next]_vars

-----------------------------------------------------------------------------
MMStates == {"NULL", "DEREGISTERED", "REGISTERED_INITIATED", "REGISTERED", "IDLE"}
Ops      == {"tell", "send", "connect", "release", "drx", "end"}
NasTypes == {"regReq", "serviceReq", "deregReq", "idle", "authResponse", "authFailure",
             "identityResponse", "smComplete", "regComplete", "configComplete",
             "sessReq", "sessRelComplete"}
StepRec  == [op : Ops, arg : MMStates \cup NasTypes \cup {""}, id : 0..NSlot]
ObjRec   == [id : 0..NSlot, sm : {"INACTIVE", "ACTIVE_PENDING", "ACTIVE"}, retries : Nat]
RetryRec == [n : Nat \ {0}, p : Obj, pc : {"sleep", "send", "count"}, ch : Nat]

\* A session in a slot is an object created for that slot; steps, goroutines and
\* messages name slots, objects and channels that exist.
TypeOK ==
    /\ mm \in MMStates /\ todo \in Seq(StepRec) /\ alive \in BOOLEAN /\ guti \in BOOLEAN
    /\ nobj \in 0..NumPdu + 1 /\ obj \in [Obj -> ObjRec]
    /\ slot \in [Slot -> 0..nobj] /\ \A i \in Slot : slot[i] # 0 => obj[slot[i]].id = i
    /\ drx \in {"nil", "on", "stopped"} /\ tick \in BOOLEAN
    /\ nrx \in Nat /\ rx \in 0..nrx /\ closed \subseteq 1..nrx
    /\ gnbTx \in {"open", "closed", "nil"}
    /\ nretry \in Nat /\ lock \in 0..nretry /\ retry \subseteq RetryRec
    /\ \A r \in retry : r.n <= nretry /\ r.p <= nobj /\ r.ch <= nrx

\* No goroutine of the UE sends on a closed channel: Terminate closes and forgets
\* it under the mutex that a sender holds from reading the channel to its send
\* (sender.SendToGnbMsg, UEContext.Terminate).
NoClosedSend == fate # "closedSend"

\* A UE that has terminated sends nothing any more, not even a T3580 retry that
\* was waiting (UEContext.Terminate clears the channel).
NoLateUplink == [][~alive => UNCHANGED <<core, csess>> \/ CoreAnswer \/ CoreOther]_vars

\* The scenario never starts the PDU sessions of a UE it has told to stop: its
\* sends would go to a nil channel and block it for ever (SimulateSingleUE).
NoNilSend == ueRxNil => out = <<>>

\* A session the UE holds active is active in the core, or its release is on its
\* way, for as long as the UE keeps its channel: a new one loses what waits in
\* the old one.
SessionsAgree ==
    \A i \in Slot : slot[i] # 0 /\ obj[slot[i]].sm = "ACTIVE" /\ fate = "running" /\ nrx = 1 =>
        csess[i] = "active" \/ \E j \in 1..Len(dl) : dl[j] = Msg("sessRelease", i)

\* A session that is active, or whose request the core has not answered, has no
\* retry waiting or being sent: a session is requested once at a time (T3580).
OneRequest ==
    \A r \in retry : r.pc # "count" =>
        /\ obj[r.p].sm # "ACTIVE" /\ csess[obj[r.p].id] # "asked"
        /\ \A q \in retry : q.p = r.p /\ q.pc # "count" => q = r

\* The error path of PDU Session Establishment Accept: an unknown session is
\* reported, not dereferenced (nas/handler, HandlerDlNasTransportPduaccept).
\* Not so for the last session id, NumPdu = NSlot.
UnknownAcceptReported == fate # "acceptNil"

\* A session is requested again at most MaxRetry times.  Not so when the next
\* reject is read before the retry goroutine has counted, MaxReject > MaxRetry.
RetryBound == \A p \in Obj : Cardinality({r \in retry : r.p = p}) + obj[p].retries <= MaxRetry

-----------------------------------------------------------------------------
\* The goroutines run, the ticker ticks, the core answers what it owes, a released
\* context is closed.  Nothing forces the core to do anything else, and the
\* scenario's timers may be as long as one likes.
Fairness ==
    /\ WF_vars(UeMgrHandler) /\ WF_vars(UeStep) /\ WF_vars(StateChange) /\ WF_vars(UeTxClosed)
    /\ SF_vars(GnbMsgHandler) /\ WF_vars(GnbTxClosed) /\ WF_vars(CoreAnswer)
    /\ WF_vars(GnbRelease) /\ SF_vars(FromTemplate)
    /\ WF_vars(\E r \in retry : RetrySend(r) \/ RetryCount(r))
    /\ WF_vars(\E r \in retry : RetryWake(r))
    /\ WF_vars(DrxTick) /\ SF_vars(VerifyPaging)
FairSpec == Spec /\ Fairness

\* The timers that are set fire.
TimersFire ==
    /\ SF_vars(FireTimer("dereg", "Terminate"))
    /\ WF_vars(FireTimer("idle", "Idle")) /\ WF_vars(FireTimer("reconnect", "ServiceRequest"))

\* Every PDU session of the scenario is requested, unless the core refuses the UE.
SessionsRequested == <>(nobj = NumPdu \/ core = "refused" \/ fate # "running")

\* A session that was requested becomes active, or was requested again as often
\* as T3580 allows: no reject is forgotten between the goroutines.  (A handover
\* loses the answer that waits in the channel the UE leaves.)
SessionsSettle ==
    \A p \in Obj : obj[p].sm = "ACTIVE_PENDING" ~>
        (obj[p].sm = "ACTIVE" \/ obj[p].retries >= MaxRetry \/ nho # 0 \/ fate # "running")

\* Once the UE has taken the message to stop, it ends and so does its scenario:
\* sessions are released, the deregistration announced, the channels closed.
EndsOnceTold == ueRxNil ~> (done \/ fate # "running")

\* An idle UE that is paged comes back: the ticker of this idle period looks at the
\* gNodeB's list, and the UE connects and is registered again (verifyPaging,
\* CreateDRX), unless its scenario has something else for it to do.  A late
\* Authentication Request also takes it out of the idle state, without connecting.
PagedConnects ==
    (paged /\ guti /\ mm = "IDLE" /\ core = "idle") ~>
        (mm \in {"REGISTERED", "REGISTERED_INITIATED"} \/ out # <<>> \/ ueRxNil \/ fate # "running")

\* A UE that is configured to deregister ends: its scenario's timer gets through
\* to ueMgrHandler (SimulateSingleUE).
DeregTimerWorks == TimersFire => (("dereg" \notin timers) ~> (~alive \/ fate # "running"))

\* The template gets rid of its message to the scenario of a UE that has ended
\* by itself, and goes on to the next UE (TestMultiUesInQueue).
\* Not so with a deregistration timer and Stop = "Kill".
TemplateProceeds == (ctl = "stop" /\ ~alive) ~> (ctl = "told" \/ fate # "running")

\* A UE the core has registered and that is told to terminate is deregistered
\* (ueMgrHandler).  Not so for an idle UE, Timers = {"dereg", "idle"}.
StopDeregisters == [](ueRxNil /\ core \in {"registered", "idle"} =>
                          <>(core = "none" \/ fate # "running"))

\* The custom scenario gets to its last call (TestWithCustomScenario).  Not so:
\* with Custom = TRUE nobody reads the announcements of the UE.
CustomFinishes == <>(out = <<>> \/ fate # "running")

=============================================================================
