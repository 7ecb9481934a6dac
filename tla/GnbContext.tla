----------------------------- MODULE GnbContext -----------------------------
(***************************************************************************)
(* The UE contexts of the simulated gNodeBs of PacketRusher: the pools     *)
(* that index them, the goroutines that serve them, and the Xn and NGAP    *)
(* handovers that move a UE from one gNodeB to another.                    *)
(*                                                                         *)
(* Source: internal/control_test_engine/gnb (context, nas/service, ngap).  *)
(* A gNodeB runs one goroutine for its inbound channel (gnbListen), one    *)
(* per UE connection (processingConn) and one per NGAP message received    *)
(* (go Dispatch), so NGAP messages are handled in any order; none of the   *)
(* id generators is protected by a mutex.  UE and AMF are modelled by what *)
(* they exchange with the gNodeB.                                          *)
(***************************************************************************)
EXTENDS Integers, Sequences, FiniteSets

CONSTANTS
    Gnb,         \* the gNodeBs of the test
    UE,          \* the PacketRusher UE ids (never 0)
    SessId,      \* PDU session ids, a subset of 1..16
    Nil,         \* the nil pointer
    NextGnb,     \* gnbIdGen: the gNodeB a handover goes to
    HomeGnb,     \* the gNodeB a UE is started on
    Timers,      \* the timers of the scenario that are configured
    AmfMayFail,  \* TRUE when the AMF of a gNodeB can become inactive
    MaxCtx, MaxConn, MaxRan, MaxTeid, MaxN2   \* bounds of the model

Ctx  == 1..MaxCtx      \* *GNBUe pointers, in order of allocation
Conn == 1..MaxConn     \* pairs of channels gnbRx, gnbTx, always made together
Ran  == 1..MaxRan      \* RAN UE NGAP ids
Teid == 1..MaxTeid     \* downlink TEIDs; 0 stands for no session

ASSUME ConstAssumption ==
    /\ MaxCtx \in Nat /\ MaxConn \in Nat /\ MaxRan \in Nat /\ MaxTeid \in Nat
    /\ MaxN2 \in Nat
    /\ NextGnb \in [Gnb -> Gnb] /\ HomeGnb \in [UE -> Gnb]
    /\ Timers \subseteq {"xn", "n2", "idle", "stop"}
    /\ AmfMayFail \in BOOLEAN
    /\ SessId \subseteq 1..16
    /\ Nil \notin Gnb \cup UE \cup Nat

VARIABLES
    \* the gNodeBs
    ctx,            \* the GNBUe objects
    nctx,           \* how many were allocated
    uePool,         \* RAN UE NGAP id -> GNBUe
    prUePool,       \* PacketRusher UE id -> GNBUe
    teidPool,       \* downlink TEID -> GNBUe
    idUeGenerator, teidGenerator,
    amfActive,      \* selectAmFByActive finds an AMF
    inbound,        \* the inbound channel, of capacity 1: its message or Nil
    proc,           \* running processingConn goroutines: <<ctx, conn>>
    disp,           \* Dispatch goroutines that have read the id generators
    sends,          \* messages to UEs still to be sent: <<ctx, conn, gnb>> for the
                    \* order of a handover, <<ctx, Nil, Nil>> for any other
    \* the channels between UE and gNodeB
    nconn, txOpen, rxOpen,
    rxq,            \* UE -> gNodeB, of capacity 1
    txq,            \* gNodeB -> UE, of capacity 1: at most one message
    \* the UEs and their scenario
    ueState, ueRx, ueTx,
    ueGnb,          \* gNodeB whose inbound channel the UE uses
    cell,           \* gNodeB the scenario believes the UE is on
    timers,         \* timers that have not fired
    \* the AMF
    amfUe,          \* where it believes the UE is, and its sessions
    n2,             \* NGAP messages sent to a gNodeB and not yet handled
    fate            \* "running", or why the process died

gnbVars  == <<ctx, nctx, uePool, prUePool, teidPool, idUeGenerator, teidGenerator>>
chanVars == <<nconn, txOpen, rxOpen, rxq, txq>>
ueVars   == <<ueState, ueRx, ueTx, ueGnb>>
scnVars  == <<cell, timers>>
vars == <<gnbVars, amfActive, inbound, proc, disp, sends, chanVars, ueVars, scnVars,
          amfUe, n2, fate>>

\* What a gNodeB sends to a UE (the answer to InitConn, the order of a handover;
\* Content is NAS or sessions), and the connection requests.
Accepted      == [type |-> "accepted", conn |-> Nil, gnb |-> Nil]
Content       == [type |-> "content", conn |-> Nil, gnb |-> Nil]
Switch(k, g)  == [type |-> "switch", conn |-> k, gnb |-> g]
Request(k, u, ho, from) == [conn |-> k, pr |-> u, ho |-> ho, from |-> from]

\* A channel that holds a request is not empty.
ASSUME NilAssumption ==
    \A k \in Conn, u \in UE, ho \in BOOLEAN, from \in Ctx \cup {Nil} :
        Request(k, u, ho, from) # Nil

NoSess == [s \in SessId |-> 0]
Blank  == [gnb |-> Nil, ran |-> 0, pr |-> Nil, amf |-> FALSE, sctp |-> FALSE,
           state |-> "Initialized", tx |-> Nil, rx |-> Nil,
           nssai |-> FALSE, ho |-> Nil, sess |-> NoSess]

Init ==
    /\ ctx = [c \in Ctx |-> Blank] /\ nctx = 0
    /\ uePool = [g \in Gnb |-> [r \in Ran |-> Nil]]
    /\ prUePool = [g \in Gnb |-> [u \in UE |-> Nil]]
    /\ teidPool = [g \in Gnb |-> [t \in Teid |-> Nil]]
    /\ idUeGenerator = [g \in Gnb |-> 1] /\ teidGenerator = [g \in Gnb |-> 1]
    /\ amfActive = [g \in Gnb |-> TRUE]
    /\ inbound = [g \in Gnb |-> Nil]
    /\ proc = {} /\ disp = {} /\ sends = {}
    /\ nconn = 0
    /\ txOpen = [k \in Conn |-> TRUE] /\ rxOpen = [k \in Conn |-> TRUE]
    /\ rxq = [k \in Conn |-> Nil] /\ txq = [k \in Conn |-> <<>>]
    /\ ueState = [u \in UE |-> "off"]
    /\ ueRx = [u \in UE |-> Nil] /\ ueTx = [u \in UE |-> Nil]
    /\ ueGnb = HomeGnb /\ cell = HomeGnb
    /\ timers = [u \in UE |-> Timers]
    /\ amfUe = [u \in UE |-> [gnb |-> Nil, ran |-> 0, ics |-> "no", prep |-> {},
                              sess |-> [s \in SessId |-> "none"]]]
    /\ n2 = {} /\ fate = "running"

-----------------------------------------------------------------------------
(* The AMF, external: its reaction to the NGAP messages of a gNodeB.       *)

\* An NGAP message to gNodeB g about the context with RAN id r; src is the source
\* of a handover.
Ngap(type, g, r, u, S) ==
    [type |-> type, gnb |-> g, ran |-> r, pr |-> u, sess |-> S, src |-> <<g, r>>]

ReleaseOld(u) == IF amfUe[u].gnb = Nil THEN {}
                 ELSE {Ngap("release", amfUe[u].gnb, amfUe[u].ran, u, {})}
ActiveSess(u) == {s \in SessId : amfUe[u].sess[s] = "active"}

\* Initial UE Message: the UE is now reached through (g, r); a context it still
\* had elsewhere is released, and so are the sessions being set up or released.
AmfInitialUe(u, g, r) ==
    /\ amfUe' = [amfUe EXCEPT ![u].gnb = g, ![u].ran = r, ![u].ics = "no",
           ![u].sess = [s \in SessId |-> IF @[s] = "active" THEN "active" ELSE "none"]]
    /\ n2' = n2 \cup ReleaseOld(u)

\* The answer to a request counts only while the AMF still reaches the UE where
\* the request went.
AmfAnswer(m, new) ==
    amfUe' = IF amfUe[m.pr].gnb = m.gnb /\ amfUe[m.pr].ran = m.ran
             THEN [amfUe EXCEPT ![m.pr] = new] ELSE amfUe

\* Path Switch Request: honoured when the AMF UE NGAP id is known and at least one
\* of the sessions listed is active; a failure has no effect on the gNodeB.
AmfPathSwitch(u, g, r, known, sess) ==
    LET S == {s \in ActiveSess(u) : sess[s] # 0} IN
    IF known /\ S # {} /\ amfUe[u].gnb # Nil
    THEN /\ amfUe' = [amfUe EXCEPT ![u].gnb = g, ![u].ran = r]
         /\ n2' = n2 \cup {Ngap("pathSwitchAck", g, r, u, S)}
    ELSE UNCHANGED <<amfUe, n2>>

\* Handover Notify: honoured when the AMF prepared that handover; the source
\* context is then released.
AmfHandoverNotify(u, g, r) ==
    IF <<g, r>> \in amfUe[u].prep /\ amfUe[u].gnb # Nil
    THEN /\ amfUe' = [amfUe EXCEPT ![u].gnb = g, ![u].ran = r, ![u].prep = {}]
         /\ n2' = n2 \cup ReleaseOld(u)
    ELSE UNCHANGED <<amfUe, n2>>

\* Handover Required: the AMF asks the target gNodeB to prepare, if it knows the
\* UE by the ids in the message and there is a session to hand over.
AmfHandoverRequired(u, g, r, target) ==
    n2' = IF amfUe[u].gnb = g /\ amfUe[u].ran = r /\ ActiveSess(u) # {}
          THEN n2 \cup {[Ngap("handoverRequest", target, r, u, ActiveSess(u))
                            EXCEPT !.src = <<g, r>>]}
          ELSE n2

\* UE Context Release Request (the UE went idle).
AmfReleaseRequest(u, g, r) ==
    /\ n2' = n2 \cup {Ngap("release", g, r, u, {})}
    /\ amfUe' = [amfUe EXCEPT ![u].gnb = IF @ = g /\ amfUe[u].ran = r THEN Nil ELSE @]

\* What the AMF may send on its own to a UE it can reach, while fewer than MaxN2
\* messages are on their way to a handler or from one to a UE.
AmfSend(u) ==
    LET a == amfUe[u] IN
    /\ fate = "running" /\ a.gnb # Nil
    /\ Cardinality(n2) + Cardinality({o \in sends : o[2] = Nil}) < MaxN2
    /\ \/ /\ n2' = n2 \cup {Ngap("downlinkNas", a.gnb, a.ran, u, {})}
          /\ UNCHANGED amfUe
       \/ /\ a.ics = "no"
          /\ amfUe' = [amfUe EXCEPT ![u].ics = "sent"]
          /\ n2' = n2 \cup {Ngap("ics", a.gnb, a.ran, u, ActiveSess(u))}
       \/ \E s \in SessId :
          /\ a.ics = "done" /\ a.sess[s] = "none"
          /\ amfUe' = [amfUe EXCEPT ![u].sess[s] = "setup"]
          /\ n2' = n2 \cup {Ngap("setup", a.gnb, a.ran, u, {s})}
       \/ \E s \in SessId :
          /\ a.sess[s] = "active"
          /\ amfUe' = [amfUe EXCEPT ![u].sess[s] = "rel"]
          /\ n2' = n2 \cup {Ngap("sessRelease", a.gnb, a.ran, u, {s})}
       \/ /\ amfUe' = [amfUe EXCEPT ![u].gnb = Nil]
          /\ n2' = n2 \cup {Ngap("release", a.gnb, a.ran, u, {})}
    /\ UNCHANGED <<gnbVars, amfActive, inbound, proc, disp, sends, chanVars, ueVars, scnVars, fate>>

-----------------------------------------------------------------------------
(* The operations of GNBContext and GNBUe.                                 *)

\* The next RAN UE NGAP id.
getRanUeId_Stuck(g) == UNCHANGED idUeGenerator
getRanUeId(g) == idUeGenerator' = [idUeGenerator EXCEPT ![g] = @ + 1]

\* A new GNBUe enters both pools before an AMF is selected for it.
NewGnBUe(g, u, r, new) ==
    /\ nctx < MaxCtx /\ r \in Ran
    /\ nctx' = nctx + 1
    /\ ctx' = [ctx EXCEPT ![nctx + 1] = new]
    /\ uePool' = [uePool EXCEPT ![g][r] = nctx + 1]
    /\ prUePool' = [prUePool EXCEPT ![g][u] = nctx + 1]

\* A send to a UE waits until the message before it was read.
Send(k, message) == txq[k] = <<>> /\ txq' = [txq EXCEPT ![k] = Append(@, message)]

\* A handler goes on to send content to the UE of a context (see SendToUe).
TellUe(c) == sends' = sends \cup {<<c, Nil, Nil>>}

\* A send to the UE panics when the context still holds a closed channel.
SendPanics(c) == ctx[c].tx # Nil /\ ~txOpen[ctx[c].tx]

\* The parts of DeleteGnBUe and plausible slips in them.
RemoveIds(c) ==
    LET g == ctx[c].gnb IN
    /\ uePool' = [uePool EXCEPT ![g][ctx[c].ran] = Nil]
    /\ teidPool' = [teidPool EXCEPT ![g] =
           [t \in Teid |-> IF \E s \in SessId : ctx[c].sess[s] = t THEN Nil ELSE @[t]]]
RemovePr(c, keep) ==
    prUePool' = [prUePool EXCEPT ![ctx[c].gnb][ctx[c].pr] = IF keep THEN @ ELSE Nil]
CloseTx(c) ==
    /\ txOpen' = IF ctx[c].tx = Nil THEN txOpen ELSE [txOpen EXCEPT ![ctx[c].tx] = FALSE]
    /\ fate' = IF SendPanics(c) THEN "closedChannel" ELSE fate

DeleteGnBUe_KeepsTx(c, new) ==
    RemoveIds(c) /\ RemovePr(c, prUePool[ctx[c].gnb][ctx[c].pr] # c) /\ CloseTx(c) /\ ctx' = new
DeleteGnBUe_NoClose(c, new) ==
    /\ RemoveIds(c) /\ RemovePr(c, prUePool[ctx[c].gnb][ctx[c].pr] # c)
    /\ ctx' = new /\ UNCHANGED <<txOpen, fate>>
DeleteGnBUe_AnyPr(c, new) ==
    RemoveIds(c) /\ RemovePr(c, FALSE) /\ CloseTx(c) /\ ctx' = [new EXCEPT ![c].tx = Nil]
DeleteGnBUe_KeepsPr(c, new) ==
    RemoveIds(c) /\ RemovePr(c, TRUE) /\ CloseTx(c) /\ ctx' = [new EXCEPT ![c].tx = Nil]

\* DeleteGnBUe: by RAN id, by PacketRusher id if it is still this context, the
\* TEIDs of its sessions; the channel is closed and forgotten.
DeleteGnBUe(c, new) ==
    /\ RemoveIds(c)
    /\ RemovePr(c, prUePool[ctx[c].gnb][ctx[c].pr] # c)
    /\ CloseTx(c)
    /\ ctx' = [new EXCEPT ![c].tx = Nil]

\* GetUeTeid for the sessions of a message, in increasing order of id, starting
\* from the value read earlier; the increments may overwrite concurrent ones.
TeidFor_OffByOne(base, S, s) == base + Cardinality({r \in S : r <= s})
TeidFor(base, S, s) == base + Cardinality({r \in S : r < s})
GetUeTeid(g, c, base, S) ==
    /\ base + Cardinality(S) - 1 <= MaxTeid
    /\ teidPool' = [teidPool EXCEPT ![g] =
           [t \in Teid |-> IF \E s \in S : t = TeidFor(base, S, s) THEN c ELSE @[t]]]
    /\ \E b \in {base, teidGenerator[g]} :
           teidGenerator' = [teidGenerator EXCEPT ![g] = b + Cardinality(S)]

\* The session array after CreatePduSession for each session of S: it refuses a
\* slot in use and a slice that is not allowed to the UE.
CreatePduSession(old, nssai, base, S) ==
    [s \in SessId |-> IF s \in S /\ old[s] = 0 /\ nssai THEN TeidFor(base, S, s) ELSE old[s]]

-----------------------------------------------------------------------------
(* gnbListen: the goroutine of a gNodeB's inbound channel.                 *)

\* A handover for a UE this gNodeB already has a context for: the context takes
\* the new channels over, the UE gets its sessions and the AMF a Handover Notify.
ListenKnownUe(g, m, c) ==
    /\ m.ho /\ c # Nil
    /\ ctx' = [ctx EXCEPT ![c].rx = m.conn, ![c].tx = m.conn, ![c].state = "Ready"]
    /\ proc' = proc \cup {<<c, m.conn>>}
    /\ AmfHandoverNotify(m.pr, g, ctx[c].ran)
    /\ Send(m.conn, Content)
    /\ fate' = IF ctx[c].sctp THEN fate ELSE "nilSctp"
    /\ UNCHANGED <<nctx, uePool, prUePool, idUeGenerator, txOpen>>

\* A UE that no AMF can serve finds its channel closed.
CloseUnserved_Forgotten(k) == UNCHANGED txOpen
CloseUnserved(k) == txOpen' = [txOpen EXCEPT ![k] = FALSE]

\* Any other request makes a new context: an Xn handover copies the context of
\* the previous gNodeB (its sessions with it), a first connection is answered.
\* With no AMF the context stays in the pools and the channel is closed.
ListenNewUe(g, m, c) ==
    LET r   == idUeGenerator[g]
        old == ctx[m.from]
        xn  == m.ho /\ m.from # Nil
        new == [Blank EXCEPT !.gnb = g, !.ran = r, !.pr = m.pr,
                             !.tx = m.conn, !.rx = m.conn, !.sctp = amfActive[g]]
    IN
    /\ ~(m.ho /\ c # Nil)
    /\ getRanUeId(g)
    /\ \/ /\ ~amfActive[g]
          /\ NewGnBUe(g, m.pr, r, new)
          /\ CloseUnserved(m.conn)
          /\ UNCHANGED <<proc, txq, amfUe, n2>>
       \/ /\ amfActive[g] /\ xn
          /\ NewGnBUe(g, m.pr, r, [new EXCEPT !.state = "Ready", !.amf = old.amf,
                                              !.nssai = old.nssai, !.sess = old.sess])
          /\ proc' = proc \cup {<<nctx + 1, m.conn>>}
          /\ AmfPathSwitch(m.pr, g, r, old.amf, old.sess)
          /\ UNCHANGED <<txOpen, txq>>
       \/ /\ amfActive[g] /\ ~xn
          /\ NewGnBUe(g, m.pr, r, new)
          /\ proc' = proc \cup {<<nctx + 1, m.conn>>}
          /\ Send(m.conn, Accepted)
          /\ UNCHANGED <<txOpen, amfUe, n2>>
    /\ UNCHANGED fate

GnbListen(g) ==
    /\ fate = "running" /\ inbound[g] # Nil
    /\ inbound' = [inbound EXCEPT ![g] = Nil]
    /\ LET m == inbound[g] IN
          ListenKnownUe(g, m, prUePool[g][m.pr]) \/ ListenNewUe(g, m, prUePool[g][m.pr])
    /\ UNCHANGED <<teidPool, teidGenerator, amfActive, disp, sends, nconn, rxOpen, rxq,
                   ueVars, scnVars>>

-----------------------------------------------------------------------------
(* processingConn: the goroutine of one UE connection.  It looks the       *)
(* context up by RAN id for every message, and acts on its own pointer.    *)

\* nas.Dispatch: the first message goes in an Initial UE Message, the next ones
\* in Uplink NAS Transports; a context that is down drops them.
ProcessNas(c) ==
    /\ IF ctx[c].state = "Initialized"
       THEN /\ ctx' = [ctx EXCEPT ![c].state = "Ongoing"]
            /\ AmfInitialUe(ctx[c].pr, ctx[c].gnb, ctx[c].ran)
       ELSE UNCHANGED <<ctx, amfUe, n2>>
    /\ UNCHANGED <<uePool, prUePool, teidPool, txOpen, fate>>

\* ConnectionClosed: the UE has left.  The context is kept only when an NGAP
\* handover was started, since the AMF will then ask for the clean-up.
ProcessConnectionClosed(c, gc) ==
    LET down == [ctx EXCEPT ![gc].state = "Down"] IN
    /\ IF ctx[gc].ho = Nil
       THEN DeleteGnBUe(c, down)
       ELSE /\ ctx' = down
            /\ UNCHANGED <<uePool, prUePool, teidPool, txOpen, fate>>
    /\ UNCHANGED <<amfUe, n2>>

ProcessIdle(c) ==
    /\ AmfReleaseRequest(ctx[c].pr, ctx[c].gnb, ctx[c].ran)
    /\ UNCHANGED <<ctx, uePool, prUePool, teidPool, txOpen, fate>>

\* A message whose context was cleaned in the meantime ends the goroutine, and so
\* does the closing of the channel, which puts the context found in state Down.
ProcessingConn(c, k) ==
    LET gc == uePool[ctx[c].gnb][ctx[c].ran] IN
    /\ fate = "running" /\ <<c, k>> \in proc
    /\ \/ /\ rxq[k] # Nil /\ gc # Nil
          /\ rxq' = [rxq EXCEPT ![k] = Nil]
          /\ \/ rxq[k] = "nas" /\ ProcessNas(c)
             \/ rxq[k] = "closed" /\ ProcessConnectionClosed(c, gc)
             \/ rxq[k] = "idle" /\ ProcessIdle(c)
          /\ UNCHANGED proc
       \/ /\ rxq[k] # Nil /\ gc = Nil
          /\ rxq' = [rxq EXCEPT ![k] = Nil]
          /\ proc' = proc \ {<<c, k>>}
          /\ UNCHANGED <<ctx, uePool, prUePool, teidPool, txOpen, amfUe, n2, fate>>
       \/ /\ rxq[k] = Nil /\ ~rxOpen[k]
          /\ ctx' = IF gc = Nil THEN ctx ELSE [ctx EXCEPT ![gc].state = "Down"]
          /\ proc' = proc \ {<<c, k>>}
          /\ UNCHANGED <<uePool, prUePool, teidPool, txOpen, rxq, amfUe, n2, fate>>
    /\ UNCHANGED <<nctx, idUeGenerator, teidGenerator, amfActive, inbound, disp, sends,
                   nconn, rxOpen, txq, ueVars, scnVars>>

-----------------------------------------------------------------------------
(* The NGAP handlers, each run by a goroutine of its own (go Dispatch).    *)
(* A handler that allocates ids first reads the generators (disp) and      *)
(* stores and increments later, which is where the missing mutex bites.    *)

Allocating == {"handoverRequest", "ics", "setup"}

ReadGenerators(m) ==
    /\ fate = "running" /\ m \in n2 /\ m.type \in Allocating
    /\ n2' = n2 \ {m}
    /\ disp' = disp \cup {[msg |-> m, ran |-> idUeGenerator[m.gnb],
                           teid |-> teidGenerator[m.gnb]]}
    /\ UNCHANGED <<gnbVars, amfActive, inbound, proc, sends, chanVars, ueVars, scnVars,
                   amfUe, fate>>

\* Handover Request: a context without channels, waiting for the UE to arrive.
HandlerHandoverRequest(d) ==
    LET m   == d.msg
        g   == m.gnb
        new == [Blank EXCEPT !.gnb = g, !.ran = d.ran, !.pr = m.pr, !.sctp = amfActive[g]]
    IN
    /\ d.msg.type = "handoverRequest"
    /\ \E b \in {d.ran, idUeGenerator[g]} :
          idUeGenerator' = [idUeGenerator EXCEPT ![g] = b + 1]
    /\ \/ /\ amfActive[g]
          /\ NewGnBUe(g, m.pr, d.ran, [new EXCEPT !.amf = TRUE, !.nssai = TRUE,
                 !.sess = CreatePduSession(NoSess, TRUE, d.teid, m.sess)])
          /\ GetUeTeid(g, nctx + 1, d.teid, m.sess)
          /\ amfUe' = [amfUe EXCEPT ![m.pr].prep = @ \cup {<<g, d.ran>>}]
          /\ n2' = n2 \cup {Ngap("handoverCommand", m.src[1], m.src[2], m.pr, {})}
          /\ UNCHANGED fate
       \/ /\ ~amfActive[g]
          /\ NewGnBUe(g, m.pr, d.ran, new)
          /\ fate' = "fatal"
          /\ UNCHANGED <<teidPool, teidGenerator, amfUe, n2>>
    /\ UNCHANGED sends

\* Initial Context Setup Request: it stores what the AMF allows to the UE and sets
\* up the sessions listed; one that exists already is left alone.  The UE gets the
\* NAS message, if there is one, and the sessions.
HandlerInitialContextSetupRequest(d) ==
    LET m == d.msg
        c == uePool[m.gnb][m.ran]
    IN
    /\ d.msg.type = "ics"
    /\ IF c = Nil THEN UNCHANGED <<ctx, teidPool, teidGenerator, amfUe, sends>>
       ELSE /\ ctx' = [ctx EXCEPT ![c].amf = TRUE, ![c].nssai = TRUE,
                        ![c].sess = CreatePduSession(@, TRUE, d.teid, m.sess)]
            /\ GetUeTeid(m.gnb, c, d.teid, m.sess)
            /\ AmfAnswer(m, [amfUe[m.pr] EXCEPT !.ics = "done"])
            /\ TellUe(c) \/ (m.sess = {} /\ UNCHANGED sends)
    /\ UNCHANGED <<nctx, uePool, prUePool, idUeGenerator, n2, fate>>

\* PDU Session Resource Setup Request: a session that cannot be created is nil and
\* is dereferenced all the same.
HandlerPduSessionResourceSetupRequest(d) ==
    LET m  == d.msg
        c  == uePool[m.gnb][m.ran]
        ok == ctx[c].nssai /\ \A s \in m.sess : ctx[c].sess[s] = 0
    IN
    /\ d.msg.type = "setup"
    /\ IF c = Nil THEN UNCHANGED <<ctx, teidPool, teidGenerator, amfUe, sends, fate>>
       ELSE /\ ctx' = [ctx EXCEPT ![c].amf = TRUE, ![c].state = IF ok THEN "Ready" ELSE @,
                        ![c].sess = CreatePduSession(@, ctx[c].nssai, d.teid, m.sess)]
            /\ GetUeTeid(m.gnb, c, d.teid, m.sess)
            /\ AmfAnswer(m, [amfUe[m.pr] EXCEPT !.sess =
                   [s \in SessId |-> IF s \in m.sess /\ ok THEN "active" ELSE @[s]]])
            /\ TellUe(c)
            /\ fate' = IF ok THEN fate ELSE "setupNil"
    /\ UNCHANGED <<nctx, uePool, prUePool, idUeGenerator, n2>>

HandleAllocating(d) ==
    /\ fate = "running" /\ d \in disp
    /\ disp' = disp \ {d}
    /\ \/ HandlerHandoverRequest(d)
       \/ HandlerInitialContextSetupRequest(d)
       \/ HandlerPduSessionResourceSetupRequest(d)
    /\ UNCHANGED <<amfActive, inbound, proc, chanVars, ueVars, scnVars>>

\* Downlink NAS Transport: forwarded to the UE.
HandlerDownlinkNasTransport(m, c) ==
    /\ m.type = "downlinkNas"
    /\ ctx' = [ctx EXCEPT ![c].amf = TRUE]
    /\ TellUe(c)
    /\ UNCHANGED <<uePool, prUePool, teidPool, amfUe, nconn, txOpen, inbound, fate>>

\* PDU Session Release Command: the slot is emptied; the TEID stays in its pool.
HandlerPduSessionReleaseCommand(m, c) ==
    /\ m.type = "sessRelease"
    /\ ctx' = [ctx EXCEPT ![c].amf = TRUE,
                ![c].sess = [s \in SessId |-> IF s \in m.sess THEN 0 ELSE @[s]]]
    /\ AmfAnswer(m, [amfUe[m.pr] EXCEPT !.sess =
           [s \in SessId |-> IF s \in m.sess THEN "none" ELSE @[s]]])
    /\ TellUe(c)
    /\ UNCHANGED <<uePool, prUePool, teidPool, nconn, txOpen, inbound, fate>>

HandlerUeContextReleaseCommand(m, c) ==
    /\ m.type = "release"
    /\ DeleteGnBUe(c, ctx)
    /\ UNCHANGED <<amfUe, nconn, inbound, sends>>

\* Path Switch Request Acknowledge: every session listed goes to the UE; an unknown
\* one is dereferenced if the AMF says where its uplink goes now, else sent as nil.
HandlerPathSwitchRequestAcknowledge(m, c) ==
    /\ m.type = "pathSwitchAck"
    /\ ctx' = [ctx EXCEPT ![c].amf = TRUE]
    /\ \/ /\ \E s \in m.sess : ctx[c].sess[s] = 0
          /\ fate' = "switchNil" /\ UNCHANGED sends
       \/ /\ IF m.sess = {} THEN UNCHANGED sends ELSE TellUe(c)
          /\ UNCHANGED fate
    /\ UNCHANGED <<uePool, prUePool, teidPool, amfUe, nconn, txOpen, inbound>>

\* Handover Command: the target gNodeB gets the new channels first, the UE next.
HandlerHandoverCommand(m, c) ==
    LET target == ctx[c].ho IN
    /\ m.type = "handoverCommand"
    /\ ctx' = [ctx EXCEPT ![c].amf = TRUE]
    /\ IF target = Nil THEN UNCHANGED <<nconn, inbound, sends>>
       ELSE /\ nconn < MaxConn /\ inbound[target] = Nil
            /\ nconn' = nconn + 1
            /\ inbound' = [inbound EXCEPT ![target] =
                   Request(nconn + 1, ctx[c].pr, TRUE, Nil)]
            /\ sends' = sends \cup {<<c, nconn + 1, target>>}
    /\ UNCHANGED <<uePool, prUePool, teidPool, amfUe, txOpen, fate>>

HandleNgap(m) ==
    LET c == uePool[m.gnb][m.ran] IN
    /\ fate = "running" /\ m \in n2 /\ m.type \notin Allocating
    /\ n2' = n2 \ {m}
    /\ IF c = Nil
       THEN UNCHANGED <<ctx, uePool, prUePool, teidPool, amfUe, fate, nconn, txOpen,
                        inbound, sends>>
       ELSE \/ HandlerDownlinkNasTransport(m, c)
            \/ HandlerPduSessionReleaseCommand(m, c)
            \/ HandlerUeContextReleaseCommand(m, c)
            \/ HandlerPathSwitchRequestAcknowledge(m, c)
            \/ HandlerHandoverCommand(m, c)
    /\ UNCHANGED <<nctx, idUeGenerator, teidGenerator, amfActive, proc, disp, rxOpen, rxq,
                   txq, ueVars, scnVars>>

\* SendToUe, SendMessageToUe: the last call of a handler or of a trigger.  Under the
\* context's lock, the message is dropped when the context has no channel any more
\* and waits until the UE has read the one before otherwise; a DeleteGnBUe that
\* waits for the lock meanwhile is one that comes later.
SendToUe(o) ==
    LET k == ctx[o[1]].tx
        message == IF o[2] = Nil THEN Content ELSE Switch(o[2], o[3])
    IN
    /\ fate = "running" /\ o \in sends
    /\ sends' = sends \ {o}
    /\ \/ k = Nil /\ UNCHANGED <<txq, fate>>
       \/ SendPanics(o[1]) /\ fate' = "closedChannel" /\ UNCHANGED txq
       \/ k # Nil /\ ~SendPanics(o[1]) /\ Send(k, message) /\ UNCHANGED fate
    /\ UNCHANGED <<gnbVars, amfActive, inbound, proc, disp, nconn, txOpen, rxOpen, rxq,
                   ueVars, scnVars, amfUe, n2>>

-----------------------------------------------------------------------------
(* The handover triggers, run by the scenario goroutine of the UE; a UE    *)
(* the source gNodeB does not know ends the program (log.Fatal).           *)

Fire(u, t) ==
    /\ fate = "running" /\ t \in timers[u]
    /\ timers' = [timers EXCEPT ![u] = @ \ {t}]
    /\ cell' = [cell EXCEPT ![u] = NextGnb[@]]

TriggerXnHandover_SameChannels(u) ==
    LET c      == prUePool[cell[u]][u]
        target == NextGnb[cell[u]]
    IN
    /\ Fire(u, "xn")
    /\ IF c = Nil \/ ctx[c].tx = Nil THEN fate' = "fatal" /\ UNCHANGED <<nconn, inbound, sends>>
       ELSE /\ nconn < MaxConn /\ inbound[target] = Nil
            /\ nconn' = nconn + 1
            /\ inbound' = [inbound EXCEPT ![target] = Request(ctx[c].tx, u, TRUE, c)]
            /\ sends' = sends \cup {<<c, ctx[c].tx, target>>}
            /\ UNCHANGED fate
    /\ UNCHANGED <<gnbVars, amfActive, proc, disp, txOpen, rxOpen, rxq, txq, ueVars, amfUe, n2>>
TriggerXnHandover(u) ==
    LET c      == prUePool[cell[u]][u]
        target == NextGnb[cell[u]]
    IN
    /\ Fire(u, "xn")
    /\ IF c = Nil THEN fate' = "fatal" /\ UNCHANGED <<nconn, inbound, sends>>
       ELSE /\ nconn < MaxConn /\ inbound[target] = Nil
            /\ nconn' = nconn + 1
            /\ inbound' = [inbound EXCEPT ![target] =
                   Request(nconn + 1, u, TRUE, c)]
            /\ sends' = sends \cup {<<c, nconn + 1, target>>}
            /\ UNCHANGED fate
    /\ UNCHANGED <<gnbVars, amfActive, proc, disp, txOpen, rxOpen, rxq, txq, ueVars, amfUe, n2>>

TriggerNgapHandover(u) ==
    LET c      == prUePool[cell[u]][u]
        target == NextGnb[cell[u]]
    IN
    /\ Fire(u, "n2")
    /\ IF c = Nil THEN fate' = "fatal" /\ UNCHANGED <<ctx, n2>>
       ELSE /\ ctx' = [ctx EXCEPT ![c].ho = target]
            /\ AmfHandoverRequired(u, cell[u], ctx[c].ran, target)
            /\ fate' = IF ctx[c].sctp THEN fate ELSE "nilSctp"
    /\ UNCHANGED <<nctx, uePool, prUePool, teidPool, idUeGenerator, teidGenerator, amfActive,
                   inbound, proc, disp, sends, chanVars, ueVars, amfUe>>

-----------------------------------------------------------------------------
(* The UE, as far as the gNodeB sees it.                                   *)

\* InitConn: at start, and again when an idle UE comes back.
InitConn(u) ==
    LET g == ueGnb[u] IN
    /\ fate = "running" /\ ueState[u] \in {"off", "idle"}
    /\ nconn < MaxConn /\ inbound[g] = Nil
    /\ nconn' = nconn + 1
    /\ ueRx' = [ueRx EXCEPT ![u] = nconn + 1]
    /\ ueTx' = [ueTx EXCEPT ![u] = nconn + 1]
    /\ inbound' = [inbound EXCEPT ![g] = Request(nconn + 1, u, FALSE, Nil)]
    /\ ueState' = [ueState EXCEPT ![u] = "wait"]
    /\ UNCHANGED <<gnbVars, amfActive, proc, disp, sends, txOpen, rxOpen, rxq, txq, ueGnb,
                   scnVars, amfUe, n2, fate>>

\* What the UE reads from its gNodeB: InitConn takes the first message, or the
\* closing of the channel, for its answer; later it obeys a handover order, acts on
\* NAS and sessions (see module UeScenario), and forgets a channel that is closed.
UeReceive(u) ==
    LET k == ueTx[u] IN
    /\ fate = "running" /\ ueState[u] \in {"wait", "conn", "idle"} /\ k # Nil
    /\ \/ /\ txq[k] # <<>> /\ (ueState[u] = "wait" \/ Head(txq[k]).type # "switch")
          /\ txq' = [txq EXCEPT ![k] = Tail(@)]
          /\ ueState' = [ueState EXCEPT ![u] = IF @ = "wait" THEN "conn" ELSE @]
          /\ UNCHANGED <<ueRx, ueTx, ueGnb, rxOpen, rxq>>
       \/ /\ txq[k] # <<>> /\ Head(txq[k]).type = "switch" /\ ueState[u] # "wait"
          /\ rxq[ueRx[u]] = Nil
          /\ txq' = [txq EXCEPT ![k] = Tail(@)]
          /\ rxq' = [rxq EXCEPT ![ueRx[u]] = "closed"]
          /\ rxOpen' = [rxOpen EXCEPT ![ueRx[u]] = FALSE]
          /\ ueRx' = [ueRx EXCEPT ![u] = Head(txq[k]).conn]
          /\ ueTx' = [ueTx EXCEPT ![u] = Head(txq[k]).conn]
          /\ ueGnb' = [ueGnb EXCEPT ![u] = Head(txq[k]).gnb]
          /\ UNCHANGED ueState
       \/ /\ txq[k] = <<>> /\ ~txOpen[k]
          /\ ueTx' = IF ueState[u] = "wait" THEN ueTx ELSE [ueTx EXCEPT ![u] = Nil]
          /\ ueState' = [ueState EXCEPT ![u] = IF @ = "wait" THEN "conn" ELSE @]
          /\ UNCHANGED <<ueRx, ueGnb, rxOpen, rxq, txq>>
    /\ UNCHANGED <<gnbVars, amfActive, inbound, proc, disp, sends, nconn, txOpen, scnVars,
                   amfUe, n2, fate>>

\* A NAS message, or the switch to idle.
UeSend(u, m) ==
    LET k == ueRx[u] IN
    /\ fate = "running" /\ ueState[u] = "conn" /\ rxq[k] = Nil
    /\ m = "idle" => "idle" \in timers[u]
    /\ rxq' = [rxq EXCEPT ![k] = m]
    /\ ueState' = [ueState EXCEPT ![u] = IF m = "idle" THEN "idle" ELSE @]
    /\ timers' = [timers EXCEPT ![u] = @ \ {m}]
    /\ UNCHANGED <<gnbVars, amfActive, inbound, proc, disp, sends, nconn, txOpen, rxOpen,
                   txq, ueRx, ueTx, ueGnb, cell, amfUe, n2, fate>>

\* UEContext.Terminate: the UE closes its channel and stops.
UeTerminate(u) ==
    /\ fate = "running" /\ ueState[u] \in {"conn", "idle"} /\ "stop" \in timers[u]
    /\ rxOpen' = [rxOpen EXCEPT ![ueRx[u]] = FALSE]
    /\ ueRx' = [ueRx EXCEPT ![u] = Nil]
    /\ ueState' = [ueState EXCEPT ![u] = "dead"]
    /\ UNCHANGED <<gnbVars, amfActive, inbound, proc, disp, sends, nconn, txOpen, rxq, txq,
                   ueTx, ueGnb, scnVars, amfUe, n2, fate>>

\* The AMF of a gNodeB becomes inactive, or active again (see module AmfPool).
AmfStatus(g) ==
    /\ fate = "running" /\ AmfMayFail
    /\ amfActive' = [amfActive EXCEPT ![g] = ~@]
    /\ UNCHANGED <<gnbVars, inbound, proc, disp, sends, chanVars, ueVars, scnVars,
                   amfUe, n2, fate>>

Next ==
    \/ \E u \in UE : InitConn(u) \/ UeReceive(u) \/ UeTerminate(u) \/ AmfSend(u)
    \/ \E u \in UE, m \in {"nas", "idle"} : UeSend(u, m)
    \/ \E u \in UE : TriggerXnHandover(u) \/ TriggerNgapHandover(u)
    \/ \E g \in Gnb : GnbListen(g) \/ AmfStatus(g)
    \/ \E p \in proc : ProcessingConn(p[1], p[2])
    \/ \E m \in n2 : ReadGenerators(m) \/ HandleNgap(m)
    \/ \E d \in disp : HandleAllocating(d)
    \/ \E o \in sends : SendToUe(o)

Spec == Init /\ [][Next]_vars

-----------------------------------------------------------------------------
CtxRec == [gnb : Gnb \cup {Nil}, ran : Ran \cup {0}, pr : UE \cup {Nil}, amf : BOOLEAN,
           sctp : BOOLEAN, state : {"Initialized", "Ongoing", "Ready", "Down"},
           tx : Conn \cup {Nil}, rx : Conn \cup {Nil}, nssai : BOOLEAN,
           ho : Gnb \cup {Nil}, sess : [SessId -> Teid \cup {0}]]
NgapTypes == Allocating \cup {"downlinkNas", "sessRelease", "release", "pathSwitchAck",
                             "handoverCommand"}
NgapRec == [type : NgapTypes, gnb : Gnb, ran : Ran, pr : UE, sess : SUBSET SessId, src : Gnb \X Ran]
AmfRec  == [gnb : Gnb \cup {Nil}, ran : Ran \cup {0}, ics : {"no", "sent", "done"},
            prep : SUBSET (Gnb \X Nat), sess : [SessId -> {"none", "setup", "active", "rel"}]]
ToUe    == {Accepted, Content} \cup {Switch(k, g) : k \in Conn, g \in Gnb}
Live    == 1..nctx    \* the contexts allocated so far

SendRec == (Live \X Conn \X Gnb) \cup (Live \X {Nil} \X {Nil})
ReqRec  == [conn : Conn, pr : UE, ho : BOOLEAN, from : Live \cup {Nil}]

GnbTypeOK ==
    /\ nctx \in 0..MaxCtx /\ ctx \in [Ctx -> CtxRec]
    /\ \A c \in Live : ctx[c].gnb \in Gnb /\ ctx[c].ran \in Ran /\ ctx[c].pr \in UE
    /\ uePool \in [Gnb -> [Ran -> Live \cup {Nil}]]
    /\ prUePool \in [Gnb -> [UE -> Live \cup {Nil}]]
    /\ teidPool \in [Gnb -> [Teid -> Live \cup {Nil}]]
    /\ idUeGenerator \in [Gnb -> Nat \ {0}] /\ teidGenerator \in [Gnb -> Nat \ {0}]
TaskTypeOK ==
    /\ amfActive \in [Gnb -> BOOLEAN]
    /\ inbound \in [Gnb -> ReqRec \cup {Nil}]
    /\ proc \subseteq Live \X Conn
    /\ disp \subseteq [msg : NgapRec, ran : Nat \ {0}, teid : Nat \ {0}]
    /\ sends \subseteq SendRec
ChanTypeOK ==
    /\ nconn \in 0..MaxConn
    /\ txOpen \in [Conn -> BOOLEAN] /\ rxOpen \in [Conn -> BOOLEAN]
    /\ rxq \in [Conn -> {Nil, "nas", "idle", "closed"}]
    /\ txq \in [Conn -> Seq(ToUe)]
UeTypeOK ==
    /\ ueState \in [UE -> {"off", "wait", "conn", "idle", "dead"}]
    /\ ueRx \in [UE -> Conn \cup {Nil}] /\ ueTx \in [UE -> Conn \cup {Nil}]
    /\ ueGnb \in [UE -> Gnb] /\ cell \in [UE -> Gnb]
    /\ timers \in [UE -> SUBSET Timers]
AmfTypeOK ==
    /\ amfUe \in [UE -> AmfRec]
    /\ \A u \in UE : amfUe[u].gnb # Nil => amfUe[u].ran \in Ran
    /\ n2 \subseteq NgapRec
Fates == {"running", "fatal", "closedChannel", "setupNil", "switchNil", "nilSctp"}

\* Every context allocated belongs to a UE and a gNodeB and has a RAN id; pools,
\* goroutines, handovers and connection requests name allocated contexts only;
\* a message in a channel has the fields its reader uses.
TypeOK == GnbTypeOK /\ TaskTypeOK /\ ChanTypeOK /\ UeTypeOK /\ AmfTypeOK /\ fate \in Fates

\* No goroutine sends on, or closes, a channel that is closed: the channel is
\* closed and forgotten under the lock of its context (sender.SendToUe,
\* DeleteGnBUe).
NoClosedSend == fate # "closedChannel"

\* A path switch of a session that is unknown is skipped, not dereferenced
\* (HandlerPathSwitchRequestAcknowledge).  Not so once a release command can
\* overtake the acknowledge: MaxN2 = 2 and an Xn handover.
UnknownSwitchSkipped == fate # "switchNil"

\* A UE whose downlink channel is open is served: its connection request is still
\* queued, or a context in the UE pool of a gNodeB holds the channel.  A context
\* is never dropped with the channel left open (DeleteGnBUe closes it), which
\* would leave the UE waiting for ever.
Holds(g, r, k) == uePool[g][r] # Nil /\ ctx[uePool[g][r]].tx = k
ServedWhileOpen ==
    \A u \in UE : LET k == ueTx[u] IN k # Nil /\ txOpen[k] /\ fate = "running" =>
        \/ \E g \in Gnb : inbound[g] # Nil /\ inbound[g].conn = k
        \/ \E g \in Gnb, r \in Ran : Holds(g, r, k)

\* The goroutine that takes in all UEs of a gNodeB never waits for one of them: the
\* channel on which gnbListen answers a request is new and empty, so that its send
\* has room although the channel holds one message only (InitConn).
ListenNeverWaits ==
    \A g \in Gnb : inbound[g] # Nil => txq[inbound[g].conn] = <<>>

\* The context that serves a UE is the one its gNodeB finds by PacketRusher id:
\* the late clean-up of an older context of the same UE must not hide it
\* (CompareAndDelete), or the next handover of the UE ends the program.
ServedIsFound ==
    \A g \in Gnb, r \in Ran, u \in UE :
        ueTx[u] # Nil /\ Holds(g, r, ueTx[u]) => prUePool[g][u] = uePool[g][r]

\* The context found by PacketRusher id is also the one found by its RAN id, so
\* the AMF and the scenario speak of the same context (uePool is keyed by RAN id,
\* prUePool by PacketRusher id, context/context.go:27).
PoolsAgree ==
    \A g \in Gnb, u \in UE : LET c == prUePool[g][u] IN
        c # Nil => uePool[g][ctx[c].ran] = c

\* A RAN UE NGAP id in use is never given to another context (getRanUeId).
NoOverwrite ==
    [][\A g \in Gnb, r \in Ran :
          uePool[g][r] # Nil => uePool'[g][r] \in {uePool[g][r], Nil}]_vars

\* A context that gnbListen takes for the target of an NGAP handover was made by
\* one: no UE was ever connected to it.  Not so when a UE makes both kinds of
\* handover (Timers = {"xn", "n2"}).
KnownUeWasPrepared ==
    \A g \in Gnb : inbound[g] # Nil /\ inbound[g].ho =>
        LET c == prUePool[g][inbound[g].pr] IN c # Nil => ctx[c].rx = Nil

\* A downlink TEID identifies one UE of a gNodeB (teidPool is keyed by it).
\* Not so for two UEs of two gNodeBs after an Xn handover.
TeidIdentifiesUe ==
    \A g \in Gnb, q, r \in Ran, s, t \in SessId :
        LET c == uePool[g][q]
            d == uePool[g][r]
        IN c # Nil /\ d # Nil /\ c # d /\ ctx[c].sess[s] # 0 /\ ctx[d].sess[t] # 0
               => ctx[c].sess[s] # ctx[d].sess[t]

\* A gNodeB's inbound goroutine and that of a UE that waits for its answer run;
\* nothing forces AMF, scenario or handlers.
Fairness ==
    /\ \A g \in Gnb : WF_vars(GnbListen(g))
    /\ \A u \in UE : WF_vars(UeReceive(u))
FairSpec == Spec /\ Fairness

\* A UE that waits in InitConn gets an answer, also when its gNodeB has no AMF
\* left: it is accepted, or its channel is closed (gnbListen).
ConnAnswered ==
    \A u \in UE : (ueState[u] = "wait") ~> (ueState[u] # "wait" \/ fate # "running")

=============================================================================
