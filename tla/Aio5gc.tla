------------------------------- MODULE Aio5gc -------------------------------
(***************************************************************************)
(* The all-in-one 5GC that PacketRusher is tested against: the contexts of *)
(* its UEs, their state machine, their PDU sessions, and the replacement   *)
(* of a UE that registers again without having deregistered.               *)
(*                                                                         *)
(* Source: test/aio5gc (context, msg, service).  One goroutine serves the  *)
(* association of a gNodeB, one message after the other.  A context is     *)
(* never removed.  The simulated UEs and gNodeBs are external here: a run  *)
(* of a UE is one life of its goroutine, what it sends goes through the    *)
(* goroutine of its connection in the gNodeB to the association, and each  *)
(* message of the core is handled by a gNodeB goroutine of its own.  The   *)
(* UEs stay connected to one gNodeB as long as they live: the core has no  *)
(* handler for the procedures of idle periods and handovers, and ends the  *)
(* program when it gets one of their messages.                             *)
(***************************************************************************)
EXTENDS Integers, Sequences, FiniteSets

CONSTANTS
    Gnb,        \* gNodeBs, each with an association
    Msin,       \* subscribers, all provisioned
    Sess,       \* PDU session ids
    Races,      \* what may be slow: see RAssumption
    MaxRun,     \* bound: lives of UEs
    MaxReq      \* bound: PDU session requests of all of them

\* "late": messages of a killed UE reach the association after its successor is
\* started; "timeout": 500 ms pass before the core has released a session;
\* "early": a UE is stopped while it waits for a session.
ASSUME RAssumption == Races \subseteq {"late", "timeout", "early"}
ASSUME BoundAssumption == MaxRun \in Nat /\ MaxReq \in Nat /\ Sess \subseteq Nat \ {0}

VARIABLES
    ues,        \* AMFContext.ues; the AMF UE NGAP id is the index less one
    hung,       \* associations whose goroutine waits for a mutex it holds itself
    ul,         \* what a UE, and its gNodeB for it, have sent to the core, in order
    dl,         \* messages towards the gNodeBs, each handled by its own goroutine
    run,        \* the lives of UEs, in order of their start
    nreq,       \* PDU session requests so far
    fate        \* "running", or "fatal" once log.Fatal was called

coreVars == <<ues, hung>>
vars == <<coreVars, ul, dl, run, nreq, fate>>

Init ==
    /\ ues = <<>> /\ hung = {}
    /\ ul = <<>> /\ dl = {} /\ run = <<>> /\ nreq = 0
    /\ fate = "running"

Up(type, ran, amf, msin, s) == [type |-> type, ran |-> ran, amf |-> amf, msin |-> msin, s |-> s]
Down(type, g, ue, s) == [type |-> type, gnb |-> g, ran |-> ue.ran, amf |-> ue.id, s |-> s]

-----------------------------------------------------------------------------
(* AMFContext: the list of UEs.                                            *)

\* The searches stop at the first context that fits.
First(C) == {c \in C : \A d \in C : c <= d}
FindUEById(id) == First({c \in 1..Len(ues) : ues[c].id = id})
FindUEByRanId(r) == First({c \in 1..Len(ues) : ues[c].ran = r})

FindRegisteredUEByMsin_First(m) ==
    {c \in First({d \in 1..Len(ues) : ues[d].msin = m}) : ues[c].state = "Registered"}
FindRegisteredUEByMsin_AnyMsin(m) == First({c \in 1..Len(ues) : ues[c].state = "Registered"})
FindRegisteredUEByMsin(m) ==
    First({c \in 1..Len(ues) : ues[c].msin = m /\ ues[c].state = "Registered"})

getAmfUeId_Stuck == 1
getAmfUeId == Len(ues) + 1
NewUE(r, m) == [id |-> getAmfUeId, ran |-> r, msin |-> m, state |-> "Deregistered",
                sm |-> [s \in Sess |-> "none"]]

(* The state machines.  The events AuthenticationSuccess and               *)
(* RegistrationAccept are one string.                                      *)

UeFsm_Stays == {<<"RegistrationRequest", "Deregistered", "AuthenticationInitiated">>,
                <<"RegistrationAccept", "AuthenticationInitiated", "Authenticated">>,
                <<"RegistrationAccept", "Authenticated", "Registered">>,
                <<"DeregistrationRequest", "Registered", "DeregisteredInitiated">>,
                <<"Deregistration", "DeregisteredInitiated", "DeregisteredInitiated">>,
                <<"ForceDeregistrationInit", "Registered", "DeregisteredInitiated">>}
UeFsm == {<<"RegistrationRequest", "Deregistered", "AuthenticationInitiated">>,
          <<"RegistrationAccept", "AuthenticationInitiated", "Authenticated">>,
          <<"RegistrationAccept", "Authenticated", "Registered">>,
          <<"DeregistrationRequest", "Registered", "DeregisteredInitiated">>,
          <<"Deregistration", "DeregisteredInitiated", "Deregistered">>}
         \cup {<<"ForceDeregistrationInit", s, "DeregisteredInitiated">> : s \in
                {"AuthenticationInitiated", "Authenticated", "Registered", "DeregisteredInitiated"}}
PduFsm == {<<"EstablishmentAccept", "Inactive", "Active">>,
           <<"ReleaseCommand", "Active", "InactivePending">>,
           <<"ReleaseComplete", "InactivePending", "Inactive">>,
           <<"ForceRelease", "Active", "Inactive">>}

\* SendEvent: an event without a transition is an error and changes nothing.
Fires(fsm, event, s) == \E t \in fsm : t[1] = event /\ t[2] = s
SendEvent(fsm, event, s) ==
    IF Fires(fsm, event, s) THEN (CHOOSE t \in fsm : t[1] = event /\ t[2] = s)[3] ELSE s

-----------------------------------------------------------------------------
(* The NAS handlers, for context c and a message on the association of g.  *)

SetUe(c, state) == [ues EXCEPT ![c].state = state]
Ignore == UNCHANGED <<coreVars, dl, fate>>

\* UEContextReleaseCommand moves the state machine; it must be able to, or the
\* program ends.
SendUEContextReleaseCommand(g, c, before, more) ==
    IF Fires(UeFsm, "Deregistration", before[c].state)
    THEN /\ ues' = [before EXCEPT ![c].state = SendEvent(UeFsm, "Deregistration", @)]
         /\ dl' = dl \cup more \cup {Down("ctxRelease", g, ues[c], 0)}
         /\ UNCHANGED <<hung, fate>>
    ELSE fate' = "fatal" /\ ues' = before /\ UNCHANGED <<hung, dl>>

\* 5G-AKA has succeeded: a registered context of the same subscriber is replaced,
\* through the gNodeB of the new one.
AuthenticationResponse(g, c) ==
    LET now == SetUe(c, SendEvent(UeFsm, "RegistrationAccept", ues[c].state))
        smc == {Down("securityModeCommand", g, ues[c], 0)}
        old == FindRegisteredUEByMsin(ues[c].msin) \ {c}
    IN  IF old = {} THEN ues' = now /\ dl' = dl \cup smc /\ UNCHANGED <<hung, fate>>
        ELSE \E o \in old :
             SendUEContextReleaseCommand(g, o,
                 [now EXCEPT ![o].state = SendEvent(UeFsm, "ForceDeregistrationInit", @)], smc)

SecurityModeComplete(g, c) ==
    /\ dl' = dl \cup {Down("registrationAccept", g, ues[c], 0)}
    /\ UNCHANGED <<coreVars, fate>>

\* The Configuration Update Command that answers is ignored by the UE: left out.
RegistrationComplete(c) ==
    /\ ues' = SetUe(c, SendEvent(UeFsm, "RegistrationAccept", ues[c].state))
    /\ UNCHANGED <<hung, dl, fate>>

\* A session id that is in use is refused without an answer.
CreatePDUSession(g, c, s) ==
    IF ues[c].sm[s] \in {"none", "Inactive"}
    THEN /\ ues' = [ues EXCEPT ![c].sm[s] = SendEvent(PduFsm, "EstablishmentAccept", "Inactive")]
         /\ dl' = dl \cup {Down("sessAccept", g, ues[c], s)}
         /\ UNCHANGED <<hung, fate>>
    ELSE Ignore

ReleasePDUSession(g, c, s) ==
    IF Fires(PduFsm, "ReleaseCommand", ues[c].sm[s])
    THEN /\ ues' = [ues EXCEPT ![c].sm[s] = SendEvent(PduFsm, "ReleaseCommand", @)]
         /\ dl' = dl \cup {Down("sessRelease", g, ues[c], s)}
         /\ UNCHANGED <<hung, fate>>
    ELSE Ignore

\* ForceReleaseAllPDUSession holds the mutex of the sessions around a function that
\* takes it again: the goroutine stops at the first session there is.
ForceReleaseAllPDUSession(g, c, s) ==
    /\ hung' = hung \cup {g}
    /\ ues' = [ues EXCEPT ![c].sm[s] = SendEvent(PduFsm, "ForceRelease", @)]
    /\ UNCHANGED <<dl, fate>>
UEOriginatingDeregistration(g, c) ==
    LET S == {s \in Sess : ues[c].sm[s] # "none"}
        next == SendEvent(UeFsm, "DeregistrationRequest", ues[c].state)
    IN  IF S # {} THEN \E s \in S : ForceReleaseAllPDUSession(g, c, s)
        ELSE IF Fires(UeFsm, "DeregistrationRequest", ues[c].state)
             THEN SendUEContextReleaseCommand(g, c, SetUe(c, next), {})
             ELSE Ignore

-----------------------------------------------------------------------------
(* nas.Dispatch: once authenticated a UE must protect its messages, before *)
(* that it must not; each handler then has the states it works in.         *)

Expected_Registered ==
    [authResponse |-> {"AuthenticationInitiated"}, smComplete |-> {"Authenticated"},
     regComplete |-> {"Registered"}, sessReq |-> {"Registered"}, sessRel |-> {"Registered"},
     dereg |-> {"AuthenticationInitiated", "Authenticated", "Registered"}]
Expected == [authResponse |-> {"AuthenticationInitiated"}, smComplete |-> {"Authenticated"},
             regComplete |-> {"Authenticated"}, sessReq |-> {"Registered"},
             sessRel |-> {"Registered"},
             dereg |-> {"AuthenticationInitiated", "Authenticated", "Registered"}]
Protected == {"smComplete", "regComplete", "sessReq", "sessRel", "dereg"}

NasDispatch(g, c, m) ==
    IF /\ (ues[c].state \in {"Authenticated", "Registered"}) = (m.type \in Protected)
       /\ ues[c].state \in Expected[m.type]
    THEN \/ m.type = "authResponse" /\ AuthenticationResponse(g, c)
         \/ m.type = "smComplete" /\ SecurityModeComplete(g, c)
         \/ m.type = "regComplete" /\ RegistrationComplete(c)
         \/ m.type = "sessReq" /\ CreatePDUSession(g, c, m.s)
         \/ m.type = "sessRel" /\ ReleasePDUSession(g, c, m.s)
         \/ m.type = "dereg" /\ UEOriginatingDeregistration(g, c)
    ELSE Ignore

(* The NGAP handlers.                                                      *)

\* A new context, and the Registration Request it comes with: always with the SUCI of
\* a provisioned subscriber, so that there is no Identity Request.
InitialUEMessage(g, m) ==
    LET ue == [NewUE(m.ran, m.msin) EXCEPT !.state = SendEvent(UeFsm, "RegistrationRequest", @)] IN
    /\ ues' = Append(ues, ue)
    /\ dl' = dl \cup {Down("authRequest", g, ue, 0)}
    /\ UNCHANGED <<hung, fate>>

\* The context of the RAN id and that of the AMF id must be the same.
UplinkNASTransport(g, m) ==
    IF FindUEById(m.amf) = {} \/ FindUEById(m.amf) # FindUEByRanId(m.ran)
    THEN fate' = "fatal" /\ UNCHANGED <<coreVars, dl>>
    ELSE \E c \in FindUEById(m.amf) : NasDispatch(g, c, m)

ConfirmPDUSessionRelease_Kept(m) ==
    /\ ues' = [c \in 1..Len(ues) |-> IF c \in FindUEById(m.amf)
                   THEN [ues[c] EXCEPT !.sm[m.s] = "Inactive"] ELSE ues[c]]
    /\ UNCHANGED <<hung, dl, fate>>
\* PDU Session Resource Release Response: all sessions of the UE are deleted.  Here
\* a mismatch of the ids is not looked at.
ConfirmPDUSessionRelease(m) ==
    LET C == FindUEById(m.amf) IN
    IF C = FindUEByRanId(m.ran) /\ \E c \in C : ues[c].sm[m.s] # "none"
    THEN /\ ues' = [c \in 1..Len(ues) |->
                       IF c \in C THEN [ues[c] EXCEPT !.sm = [s \in Sess |-> "none"]] ELSE ues[c]]
         /\ UNCHANGED <<hung, dl, fate>>
    ELSE Ignore

\* The goroutine of association g takes the next message of a UE: those of different
\* UEs come in any order, but for a UE and its successor, unless "late".  The other
\* responses of a gNodeB are only looked up.  Any other message (UE Context Release
\* Request, Path Switch Request, Handover Required, ...) would end the program in a
\* default branch of the dispatcher; the UEs below do nothing that leads to one.
Dispatch(g, a) ==
    LET m == Head(ul[a]) IN
    /\ fate = "running" /\ g = run[a].gnb /\ g \notin hung /\ ul[a] # <<>>
    /\ "late" \in Races \/ \A b \in 1..a - 1 : run[b].msin = run[a].msin => ul[b] = <<>>
    /\ ul' = [ul EXCEPT ![a] = Tail(@)]
    /\ \/ m.type = "initial" /\ InitialUEMessage(g, m)
       \/ m.type = "relResponse" /\ ConfirmPDUSessionRelease(m)
       \/ m.type \notin {"initial", "relResponse"} /\ UplinkNASTransport(g, m)
    /\ UNCHANGED <<run, nreq>>

-----------------------------------------------------------------------------
(* PacketRusher, external: the UEs, their scenarios and the gNodeBs.       *)

Send(a, type, amf, s) ==
    ul' = [ul EXCEPT ![a] = Append(@, Up(type, run[a].ran, amf, run[a].msin, s))]

\* A UE is started for a subscriber whose last UE was killed or has ended.
Start(m, g) ==
    LET mine == {a \in 1..Len(run) : run[a].msin = m}
        ran  == Cardinality({a \in 1..Len(run) : run[a].gnb = g}) + 1 IN
    /\ fate = "running" /\ Len(run) < MaxRun
    /\ \A a \in mine : run[a].st \in {"killed", "left"}
    /\ run' = Append(run, [msin |-> m, gnb |-> g, ran |-> ran, amf |-> 0, st |-> "started",
                           ctx |-> TRUE, sess |-> [s \in Sess |-> "none"]])
    /\ ul' = Append(ul, <<Up("initial", ran, 0, m, 0)>>)
    /\ UNCHANGED <<coreVars, dl, nreq, fate>>

\* A message of the core reaches the gNodeB, which knows the UE by its RAN id, and
\* the UE, unless that has been killed or is ending.
Reply == [authRequest |-> "authResponse", securityModeCommand |-> "smComplete",
          registrationAccept |-> "regComplete"]
Deliver(m) ==
    LET A == {a \in 1..Len(run) : run[a].gnb = m.gnb /\ run[a].ran = m.ran /\ run[a].ctx} IN
    /\ fate = "running"
    /\ dl' = dl \ {m}
    /\ \/ A = {} /\ UNCHANGED <<run, ul>>
       \/ \E a \in A :
          /\ m.type \in DOMAIN Reply
          /\ IF run[a].st = "started" THEN Send(a, Reply[m.type], m.amf, 0) ELSE UNCHANGED ul
          /\ run' = [run EXCEPT ![a].amf = m.amf, ![a].st =
                 IF @ = "started" /\ m.type = "registrationAccept" THEN "registered" ELSE @]
       \/ \E a \in A :
          /\ m.type = "sessAccept"
          /\ run' = [run EXCEPT ![a].sess[m.s] =
                 IF run[a].st = "registered" THEN "active" ELSE @]
          /\ UNCHANGED ul
       \/ \E a \in A :
          /\ m.type = "sessRelease"
          /\ Send(a, "relResponse", m.amf, m.s)
          /\ run' = [run EXCEPT ![a].sess[m.s] =
                 IF run[a].st = "registered" THEN "none" ELSE @]
       \/ \E a \in A :
          /\ m.type = "ctxRelease"
          /\ run' = [run EXCEPT ![a].ctx = FALSE]
          /\ UNCHANGED ul
    /\ UNCHANGED <<coreVars, nreq, fate>>

\* A registered UE requests a session, or releases one.
NewSession(a, s) ==
    /\ fate = "running" /\ run[a].st = "registered" /\ run[a].sess[s] = "none"
    /\ nreq < MaxReq /\ nreq' = nreq + 1
    /\ run' = [run EXCEPT ![a].sess[s] = "asked"]
    /\ Send(a, "sessReq", run[a].amf, s)
    /\ UNCHANGED <<coreVars, dl, fate>>

\* The core and the gNodeB have dealt with all that concerns the UE.
Quiet(a) == ul[a] = <<>> /\ \A m \in dl : <<m.gnb, m.ran>> # <<run[a].gnb, run[a].ran>>

\* A session is released when the user wants it, or one after the other when the UE
\* terminates: it then waits 500 ms after each.
Release(a, s) ==
    /\ fate = "running" /\ run[a].sess[s] = "active"
    /\ \/ run[a].st = "registered"
       \/ run[a].st = "stopping" /\ ("timeout" \in Races \/ Quiet(a))
    /\ run' = [run EXCEPT ![a].sess[s] = "releasing"]
    /\ Send(a, "sessRel", run[a].amf, s)
    /\ UNCHANGED <<coreVars, dl, nreq, fate>>

Stop(a) ==
    /\ fate = "running" /\ run[a].st = "registered"
    /\ "early" \in Races \/ \A s \in Sess : run[a].sess[s] # "asked"
    /\ run' = [run EXCEPT ![a].st = "stopping"]
    /\ UNCHANGED <<coreVars, ul, dl, nreq, fate>>
Leave(a) ==
    /\ fate = "running" /\ run[a].st = "stopping"
    /\ \A s \in Sess : run[a].sess[s] # "active"
    /\ "timeout" \in Races \/ Quiet(a)
    /\ run' = [run EXCEPT ![a].st = "left"]
    /\ Send(a, "dereg", run[a].amf, 0)
    /\ UNCHANGED <<coreVars, dl, nreq, fate>>

Kill(a) ==
    /\ fate = "running" /\ run[a].st \in {"started", "registered"}
    /\ run' = [run EXCEPT ![a].st = "killed"]
    /\ UNCHANGED <<coreVars, ul, dl, nreq, fate>>

UeNext(a) ==
    \/ Stop(a) \/ Leave(a) \/ Kill(a)
    \/ \E s \in Sess : NewSession(a, s) \/ Release(a, s)

Next ==
    \/ \E m \in Msin, g \in Gnb : Start(m, g)
    \/ \E m \in dl : Deliver(m)
    \/ \E a \in 1..Len(run) : UeNext(a) \/ \E g \in Gnb : Dispatch(g, a)

Spec == Init /\ [][Next]_vars

-----------------------------------------------------------------------------
UeStates == {"Deregistered", "AuthenticationInitiated", "Authenticated", "Registered",
             "DeregisteredInitiated"}
UpMsg    == [type : DOMAIN Expected \cup {"initial", "relResponse"}, ran : Nat \ {0}, amf : Nat,
             msin : Msin, s : Sess \cup {0}]
DownMsg  == [type : {"authRequest", "securityModeCommand", "registrationAccept", "sessAccept",
                     "sessRelease", "ctxRelease"},
             gnb : Gnb, ran : Nat \ {0}, amf : Nat \ {0}, s : Sess \cup {0}]
SmStates == {"none", "Inactive", "Active", "InactivePending"}
UeContext == [id : Nat \ {0}, ran : Nat \ {0}, msin : Msin, sm : [Sess -> SmStates],
              state : UeStates \ {"DeregisteredInitiated"}]
Life == [msin : Msin, gnb : Gnb, ran : Nat \ {0}, amf : Nat, ctx : BOOLEAN,
         st : {"started", "registered", "stopping", "left", "killed"},
         sess : [Sess -> {"none", "asked", "active", "releasing"}]]

\* Contexts, messages and lives have the fields their readers use, and a handler
\* leaves no context half deregistered.
TypeOK ==
    /\ hung \subseteq Gnb /\ fate \in {"running", "fatal"}
    /\ ues \in Seq(UeContext) /\ run \in Seq(Life) /\ ul \in Seq(Seq(UpMsg))
    /\ dl \subseteq DownMsg /\ nreq \in 0..MaxReq /\ Len(ul) = Len(run)

\* A subscriber has one registered context, however often its UE was killed and
\* started again (DefaultAuthenticationResponse).  Not so with "late".
OneRegistered ==
    \A c, d \in 1..Len(ues) :
        ues[c].msin = ues[d].msin /\ ues[c].state = "Registered" /\ ues[d].state = "Registered"
            => c = d

\* The core does not end itself over the messages of its UEs: each is found by its
\* two ids, and a context that is released can be (UplinkNASTransport,
\* UEContextReleaseCommand).  Not so with two gNodeBs.
NoFatal == fate = "running"

\* No association is left alone by its goroutine (ForceReleaseAllPDUSession).  Not so
\* with "early" or "timeout".
AssociationsServed == hung = {}

\* A session that a running UE holds active is active in its registered context,
\* through releases and new requests of the same id (ConfirmPDUSessionRelease).  Not
\* so with two sessions, or "late".
SessionsKnown ==
    \A a \in 1..Len(run), s \in Sess :
        run[a].st = "registered" /\ run[a].sess[s] = "active" =>
            \E c \in FindUEById(run[a].amf) :
                ues[c].state = "Registered" /\ ues[c].msin = run[a].msin /\ ues[c].sm[s] = "Active"

\* The goroutines of core, gNodeBs and UEs run.
Fairness ==
    /\ \A g \in Gnb : WF_vars(\E a \in 1..Len(run) : Dispatch(g, a))
    /\ WF_vars(\E m \in dl : Deliver(m))
    /\ WF_vars(\E a \in 1..Len(run) : Leave(a))
    /\ WF_vars(\E a \in 1..Len(run), s \in Sess : run[a].st = "stopping" /\ Release(a, s))
FairSpec == Spec /\ Fairness

\* A UE that is started registers unless it is killed, and one that is stopped is
\* deregistered, which the tests of the repository wait for: the core is never left
\* with a UE that waits.  Not so with "early" or "timeout".
UesSettle ==
    []<>(\A a \in 1..Len(run) :
            /\ run[a].st # "started"
            /\ run[a].st \in {"stopping", "left"} =>
                 \E c \in FindUEById(run[a].amf) : ues[c].state = "Deregistered")

=============================================================================
