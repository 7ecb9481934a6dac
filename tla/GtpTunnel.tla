----------------------------- MODULE GtpTunnel -----------------------------
(***************************************************************************)
(* The data plane of the UEs: the GTP-U tunnel of PDU session 1 of each UE *)
(* and the kernel objects it is made of.                                   *)
(*                                                                         *)
(* Source: internal/control_test_engine/ue/gtp/service/service.go, the     *)
(* tunnel parts of ue/context/context.go and ue/ue.go, and                 *)
(* internal/cmd/gogtp5g-link.  A tunnel is a gtp5g link (val<msin>) with   *)
(* its forwarding rules, on a UDP socket that a goroutine of its own       *)
(* (CmdAdd) keeps open on the N3 address of the gNodeB until it is told to *)
(* stop; a policy rule or a VRF device leads the UE's traffic to a routing *)
(* table numbered by the uplink TEID, and a default route in that table to *)
(* the link.  Everything else a UE does runs in the goroutine of that UE.  *)
(***************************************************************************)
EXTENDS GtpCommands

CONSTANTS
    Ues,       \* subscribers: each has one IP address
    Gnbs,      \* gNodeBs: each has one N3 address
    Home,      \* the gNodeB a UE registers at
    Teids,     \* uplink TEIDs of the UPF
    Modes,     \* TunnelMode
    Qfi,       \* QoS flow identifiers
    Reuse,     \* modes in which the UPF gives a TEID again once it is free
    Loop,      \* modes in which a UE that ended is started again (--loop)
    Races,     \* what else may happen: see RAssumption
    MaxNet     \* bound: steps of the network

ASSUME ModeAssumption == Modes \subseteq {"disabled", "tun", "vrf"}
\* "slow": a goroutine may need more than the second its UE sleeps, or, once it was sent
\* its stop, than a UE and the network need to set the session up again; "handover": a UE
\* may move to the gNodeB of another UE.
ASSUME RAssumption == Races \subseteq {"slow", "handover"}
\* --tunnel needs --dedicatedGnb.
ASSUME HomeAssumption ==
    /\ Ues \subseteq Nat /\ Gnbs \subseteq Nat \ {0} /\ Teids \subseteq Nat \ {0}
    /\ Home \in [Ues -> Gnbs] /\ \A u, v \in Ues : Home[u] = Home[v] => u = v
    /\ Qfi \subseteq 0..63 /\ MaxNet \in Nat

VARIABLES
    fate,      \* "run", or "fatal" after a log.Fatal or a nil dereference
    mode,      \* ue.TunnelMode, the same for all UEs
    active,    \* the UEs of this run of the tester
    net,       \* per UE: whether the network has session 1, at which gNodeB, which TEID
    used,      \* TEIDs given so far
    nnet,      \* steps of the network
    inbox,     \* per UE: what its gNodeB has put in gnbTx, in order
    pc,        \* where the goroutine of the UE is
    sess,      \* per UE: PduSession[0]
    cmd,       \* the CmdAdd goroutines, in order of creation: where, and whether told to stop
    link,      \* per UE: val<msin>, named by the goroutine that created it
    vrf,       \* per UE: the table of vrf<msin>, 0 without one
    rules,     \* policy rules of priority 100, in the order they are tried
    route      \* per table: the link of its default route, 0 without one

netVars  == <<net, used, nnet>>
hostVars == <<cmd, link, vrf, rules, route>>
vars == <<fate, mode, active, netVars, inbox, pc, sess, hostVars>>

\* ip is set by the accept, gnb, ul and qfi by the setup; stop is the goroutine at the other
\* end of stopSignal; tun, rule and vrf are what Terminate removes.
NoSession == [up |-> FALSE, ip |-> NoIp, gnb |-> 0, ul |-> 0, qfi |-> 0,
              stop |-> 0, tun |-> 0, rule |-> 0, vrf |-> 0]
NewSession == [NoSession EXCEPT !.up = TRUE]
NoRules    == [far |-> <<>>, pdr |-> <<>>, qer |-> <<>>]
NoLink     == [id |-> 0, rules |-> NoRules]

Accept          == [type |-> "accept", id |-> 1, gnb |-> 0, ul |-> 0, qfi |-> 0]
Release         == [type |-> "release", id |-> 1, gnb |-> 0, ul |-> 0, qfi |-> 0]
Setup(i, g, t, q) == [type |-> "setup", id |-> i, gnb |-> g, ul |-> t, qfi |-> q]

NetDown(u)    == [up |-> FALSE, gnb |-> Home[u], ul |-> 0]
NetUp(g, t)   == [up |-> TRUE, gnb |-> g, ul |-> t]

Init ==
    /\ fate = "run" /\ mode \in Modes /\ active \in (SUBSET Ues) \ {{}}
    /\ net = [u \in Ues |-> NetDown(u)] /\ used = {} /\ nnet = 0
    /\ inbox = [u \in Ues |-> <<>>]
    /\ pc = [u \in Ues |-> "loop"] /\ sess = [u \in Ues |-> NoSession]
    /\ cmd = <<>> /\ link = [u \in Ues |-> NoLink] /\ vrf = [u \in Ues |-> 0]
    /\ rules = <<>> /\ route = [t \in Teids |-> 0]

----------------------------------------------------------------------------
(* The network: what it does, and what the gNodeB then puts in gnbTx.      *)

Acts(u) == fate = "run" /\ u \in active /\ pc[u] # "ended" /\ nnet < MaxNet
\* A TEID that is free: one that no UE has or will be told to use, or one never given before
\* (the least of these, for the numbers themselves mean nothing).
Held(t) == \E v \in Ues : \/ net[v].ul = t
                          \/ sess[v].up /\ sess[v].ul = t
                          \/ \E i \in DOMAIN inbox[v] : inbox[v][i].ul = t
Fresh(t) ==
    \/ mode \in Reuse /\ t \in used /\ ~Held(t)
    \/ t \notin used /\ \A s \in Teids \ used : t <= s
ToUe(u, s) == inbox' = [inbox EXCEPT ![u] = @ \o s]
Gives(u, g, t) ==
    /\ net' = [net EXCEPT ![u] = NetUp(g, t)]
    /\ used' = used \cup {t} /\ nnet' = nnet + 1

\* InitPduSessionRequest, and the network's answer: the accept and then the setup, both
\* sent by HandlerPduSessionResourceSetupRequest.
InitPduSessionRequest(u) ==
    /\ Acts(u) /\ pc[u] = "loop" /\ ~sess[u].up
    /\ inbox[u] = <<>> \/ "slow" \in Races
    /\ \E t \in Teids, q \in Qfi :
         /\ Fresh(t) /\ Gives(u, net[u].gnb, t)
         /\ ToUe(u, <<Accept, Setup(1, net[u].gnb, t, q)>>)
    /\ sess' = [sess EXCEPT ![u] = NewSession]
    /\ UNCHANGED <<fate, mode, active, pc, hostVars>>

\* A handover, or a service request from idle: the TEID is kept or a new one is given.
MaySwitch(u, g) == \/ g = net[u].gnb
                   \/ active = {u}
                   \/ "handover" \in Races
SetupAgain(u) ==
    /\ Acts(u) /\ net[u].up
    /\ \E g \in Gnbs, t \in Teids, q \in Qfi :
         /\ MaySwitch(u, g) /\ (t = net[u].ul \/ Fresh(t))
         /\ Gives(u, g, t) /\ ToUe(u, <<Setup(1, g, t, q)>>)
    /\ UNCHANGED <<fate, mode, active, pc, sess, hostVars>>

\* The setup of another PDU session of the UE.
SetupOther(u) ==
    /\ Acts(u) /\ nnet' = nnet + 1
    /\ ToUe(u, <<Setup(2, net[u].gnb, 0, 0)>>)
    /\ UNCHANGED <<fate, mode, active, net, used, pc, sess, hostVars>>

\* HandlerPduSessionReleaseCommand: its goroutine may overtake that of the last setup.
NetRelease(u) ==
    /\ Acts(u) /\ net[u].up
    /\ net' = [net EXCEPT ![u] = [@ EXCEPT !.up = FALSE, !.ul = 0]]
    /\ nnet' = nnet + 1
    /\ \/ ToUe(u, <<Release>>)
       \/ LET n == Len(inbox[u]) IN
            /\ n > 0 /\ inbox[u][n].type = "setup"
            /\ inbox' = [inbox EXCEPT ![u] = SubSeq(@, 1, n - 1) \o <<Release, @[n]>>]
    /\ UNCHANGED <<fate, mode, active, used, pc, sess, hostVars>>

----------------------------------------------------------------------------
(* The goroutine of a UE.                                                  *)

Receives(u, type) ==
    /\ fate = "run" /\ pc[u] = "loop" /\ inbox[u] # <<>> /\ Head(inbox[u]).type = type
    /\ inbox' = [inbox EXCEPT ![u] = Tail(@)]

\* The accept sets the state and the address of its session; without one it dereferences
\* nil, which ends the process.
HandleAccept(u) ==
    /\ Receives(u, "accept")
    /\ sess' = [sess EXCEPT ![u].ip = IF sess[u].up THEN Ipv4(u) ELSE @]
    /\ fate' = IF sess[u].up THEN fate ELSE "fatal"
    /\ UNCHANGED <<mode, active, netVars, pc, hostVars>>

\* log.Fatal: os.Exit, nothing else happens.
Fatal == fate' = "fatal" /\ UNCHANGED <<mode, active, netVars, inbox, pc, sess, hostVars>>

CmdDel_Skipped(u) == UNCHANGED <<link, route>>

\* CmdDel and LinkDel: the kernel drops the rules of the link and the routes through it.
CmdDel(u) ==
    /\ link' = [link EXCEPT ![u] = NoLink]
    /\ route' = [t \in Teids |-> IF route[t] = link[u].id THEN 0 ELSE route[t]]

TunnelWanted_First(u, m) == sess[u].up /\ mode # "disabled" /\ m.id = 1 /\ sess[u].stop = 0

\* SetupGtpInterface when there is no tunnel to set up: the session is gone, it is not
\* session 1, or tunnels are disabled.
StoreSetup(s, m) == [s EXCEPT !.ul = m.ul, !.qfi = m.qfi]
TunnelWanted(u, m) == sess[u].up /\ mode # "disabled" /\ m.id = 1
SetupSkipped(u) ==
    LET m == Head(inbox[u]) IN
    /\ Receives(u, "setup") /\ ~TunnelWanted(u, m)
    /\ sess' = [sess EXCEPT ![u] = IF @.up /\ m.id = 1 THEN StoreSetup(@, m) ELSE @]
    /\ UNCHANGED <<fate, mode, active, netVars, pc, hostVars>>

\* SetupGtpInterface until the first sleep: the previous tunnel is taken down.
SetGnbIp_Missing(s, g) == s
SetGnbIp(s, g) == [s EXCEPT !.gnb = g]
CloseStop(u) ==
    cmd' = IF sess[u].stop = 0 THEN cmd ELSE [cmd EXCEPT ![sess[u].stop].told = "yes"]
SetupGtpInterface(u) ==
    LET m == Head(inbox[u]) IN
    /\ Receives(u, "setup") /\ TunnelWanted(u, m)
    /\ sess' = [sess EXCEPT ![u] = SetGnbIp(StoreSetup(@, m), m.gnb)]
    /\ CmdDel(u) /\ CloseStop(u)
    /\ pc' = [pc EXCEPT ![u] = "spawn"]
    /\ UNCHANGED <<fate, mode, active, netVars, vrf, rules>>

\* The CmdAdd goroutine of the new tunnel is started, and given a second.  The first sleep,
\* or the exchange that brought the session back, is there for the previous goroutine to
\* close its socket.
Closing(u) == \E p \in DOMAIN cmd : cmd[p].ue = u /\ cmd[p].told = "yes" /\ cmd[p].at # "done"
SetupStart(u) ==
    /\ fate = "run" /\ pc[u] = "spawn" /\ (~Closing(u) \/ "slow" \in Races)
    /\ cmd' = Append(cmd, [ue |-> u, gnb |-> sess[u].gnb, at |-> "start", told |-> "no"])
    /\ sess' = [sess EXCEPT ![u].stop = Len(cmd) + 1]
    /\ pc' = [pc EXCEPT ![u] = "rules"]
    /\ UNCHANGED <<fate, mode, active, netVars, inbox, link, vrf, rules, route>>

\* The forwarding rules, the commands in their order and the result.
Far1 == <<Option("--action", <<Num(2)>>)>>
Far2(s) == <<Option("--action", <<Num(2)>>),
             Option("--hdr-creation", <<Num(0), Num(s.ul), Ipv4(0), Num(2152)>>)>>
Pdr1(s) == <<Option("--pcd", <<Num(1)>>), Option("--hdr-rm", <<Num(0)>>),
             Option("--ue-ipv4", <<s.ip>>), Option("--f-teid", <<Num(1), Ipv4(s.gnb)>>),
             Option("--far-id", <<Num(1)>>)>>
Pdr2(s) == <<Option("--pcd", <<Num(2)>>), Option("--ue-ipv4", <<s.ip>>),
             Option("--far-id", <<Num(2)>>), Option("--source-interface", <<Num(0)>>)>>
           \o IF s.qfi > 0 THEN <<Option("--qer-id", <<Num(1)>>)>> ELSE <<>>
Qer1(s) == <<Option("--qfi", <<Num(s.qfi)>>)>>
Commands(exists, s) ==
    /\ CmdAddFAR(exists, Far1) /\ CmdAddFAR(exists, Far2(s)) /\ CmdAddPDR(exists, Pdr1(s))
    /\ s.qfi > 0 => CmdAddQER(exists, Qer1(s))
    /\ CmdAddPDR(exists, Pdr2(s))
Forwarding(s) == [far |-> <<Far1, Far2(s)>>, pdr |-> <<Pdr1(s), Pdr2(s)>>,
                  qer |-> IF s.qfi > 0 THEN <<Qer1(s)>> ELSE <<>>]

Rule(u, t) == [src |-> u, table |-> t]
\* RuleDel: the first rule that matches, if there is one, is taken out.
Without(u, t) ==
    LET S == {i \in DOMAIN rules : rules[i] = Rule(u, t)}
        k == CHOOSE i \in S : \A j \in S : i <= j
    IN  IF S = {} THEN rules
        ELSE [i \in 1..Len(rules) - 1 |-> IF i < k THEN rules[i] ELSE rules[i + 1]]

RouteAdd(t, l) == route' = IF route[t] = 0 THEN [route EXCEPT ![t] = l] ELSE route
RouteReplace(t, l) == route' = [route EXCEPT ![t] = l]

\* SetupGtpInterface after the second sleep: rules, address, policy, default route.
SetupRules(u) ==
    LET s == sess[u] IN
        /\ fate = "run" /\ pc[u] = "rules" /\ (cmd[s.stop].at \in {"wait", "done"} \/ "slow" \in Races)
        /\ IF ~Commands(link[u].id # 0, s) THEN Fatal ELSE
             /\ link' = [link EXCEPT ![u].rules = Forwarding(s)]
             /\ rules' = IF mode = "tun" THEN Append(Without(u, s.ul), Rule(u, s.ul)) ELSE rules
             /\ vrf' = IF mode = "vrf" THEN [vrf EXCEPT ![u] = s.ul] ELSE vrf
             /\ RouteReplace(s.ul, link[u].id)
             /\ sess' = [sess EXCEPT ![u] = IF mode = "tun"
                           THEN [@ EXCEPT !.tun = link[u].id, !.rule = s.ul]
                           ELSE [@ EXCEPT !.tun = link[u].id, !.vrf = s.ul]]
             /\ pc' = [pc EXCEPT ![u] = "loop"]
             /\ UNCHANGED <<fate, mode, active, netVars, inbox, cmd>>

DeletePduSession_NoStop(u) ==
    /\ Receives(u, "release")
    /\ sess' = [sess EXCEPT ![u] = NoSession]
    /\ UNCHANGED <<fate, mode, active, netVars, pc, hostVars>>

DeletePduSession_NilSend(u) ==
    /\ Receives(u, "release")
    /\ IF sess[u].up THEN pc' = [pc EXCEPT ![u] = "stop"] /\ UNCHANGED sess
                     ELSE sess' = [sess EXCEPT ![u] = NoSession] /\ UNCHANGED pc
    /\ UNCHANGED <<fate, mode, active, netVars, hostVars>>

\* DeletePduSession: the send on stopSignal blocks until the goroutine receives it.
DeletePduSession(u) ==
    /\ Receives(u, "release")
    /\ IF sess[u].up /\ sess[u].stop # 0
         THEN pc' = [pc EXCEPT ![u] = "stop"] /\ UNCHANGED sess
         ELSE sess' = [sess EXCEPT ![u] = NoSession] /\ UNCHANGED pc
    /\ UNCHANGED <<fate, mode, active, netVars, hostVars>>

\* Terminate, after a Terminate message (which deregisters the UE; the release of its
\* sessions is not answered before, for the goroutine that would handle the answer is the
\* one that waits for it) or after a Kill.
Terminate(u) ==
    /\ fate = "run" /\ u \in active /\ pc[u] = "loop"
    /\ pc' = [pc EXCEPT ![u] = "ended"]
    /\ net' \in {net, [net EXCEPT ![u] = NetDown(u)]}
    /\ inbox' = [inbox EXCEPT ![u] = <<>>]
    /\ IF sess[u].up /\ sess[u].tun # 0 THEN CmdDel(u) ELSE UNCHANGED <<link, route>>
    /\ rules' = IF sess[u].up /\ sess[u].rule # 0 THEN Without(u, sess[u].rule) ELSE rules
    /\ vrf' = IF sess[u].up /\ sess[u].vrf # 0 THEN [vrf EXCEPT ![u] = 0] ELSE vrf
    /\ UNCHANGED <<fate, mode, active, used, nnet, sess, cmd>>

\* TestMultiUesInQueue with --loop: a new UE with the same identity.
Restart(u) ==
    /\ fate = "run" /\ mode \in Loop /\ pc[u] = "ended"
    /\ pc' = [pc EXCEPT ![u] = "loop"] /\ sess' = [sess EXCEPT ![u] = NoSession]
    /\ net' = [net EXCEPT ![u] = NetDown(u)]
    /\ UNCHANGED <<fate, mode, active, used, nnet, inbox, hostVars>>

----------------------------------------------------------------------------
(* CmdAdd: the goroutine that keeps the socket of a tunnel.                *)

Bound(g) == \E p \in DOMAIN cmd : cmd[p].gnb = g /\ cmd[p].at \in {"bound", "wait"}
Goes(p, where) == cmd' = [cmd EXCEPT ![p].at = where]

\* net.ListenUDP
CmdAddListen(p) ==
    /\ fate = "run" /\ cmd[p].at = "start"
    /\ IF Bound(cmd[p].gnb) THEN Fatal ELSE
         /\ Goes(p, "bound")
         /\ UNCHANGED <<fate, mode, active, netVars, inbox, pc, sess, link, vrf, rules, route>>

\* rtnllink.Create and Up
CmdAddCreate(p) ==
    /\ fate = "run" /\ cmd[p].at = "bound"
    /\ IF link[cmd[p].ue].id # 0 THEN Fatal ELSE
         /\ Goes(p, "wait")
         /\ link' = [link EXCEPT ![cmd[p].ue] = [id |-> p, rules |-> NoRules]]
         /\ UNCHANGED <<fate, mode, active, netVars, inbox, pc, sess, vrf, rules, route>>

\* <-stopSignal meets the send of DeletePduSession, which goes on to free the slot.
CmdAddStopped(p) ==
    LET u == cmd[p].ue IN
    /\ fate = "run" /\ cmd[p].at = "wait" /\ pc[u] = "stop" /\ sess[u].stop = p
    /\ cmd' = [cmd EXCEPT ![p].told = "yes"]
    /\ sess' = [sess EXCEPT ![u] = NoSession]
    /\ pc' = [pc EXCEPT ![u] = "loop"]
    /\ UNCHANGED <<fate, mode, active, netVars, inbox, link, vrf, rules, route>>

\* The goroutine whose stopSignal was closed, or who was sent its stop, returns: its defers
\* close the socket.
CmdAddReturn(p) ==
    /\ fate = "run" /\ cmd[p].at = "wait" /\ cmd[p].told = "yes"
    /\ Goes(p, "done")
    /\ UNCHANGED <<fate, mode, active, netVars, inbox, pc, sess, link, vrf, rules, route>>

CmdAdd(p) == CmdAddListen(p) \/ CmdAddCreate(p) \/ CmdAddStopped(p) \/ CmdAddReturn(p)

UeStep(u) == \/ HandleAccept(u) \/ SetupSkipped(u) \/ SetupGtpInterface(u)
             \/ SetupStart(u) \/ SetupRules(u) \/ DeletePduSession(u)

Next ==
    \/ \E u \in Ues : \/ InitPduSessionRequest(u) \/ SetupAgain(u) \/ SetupOther(u)
                      \/ NetRelease(u) \/ UeStep(u) \/ Terminate(u) \/ Restart(u)
    \/ \E p \in DOMAIN cmd : CmdAdd(p)

Spec == Init /\ [][Next]_vars

----------------------------------------------------------------------------
\* Goroutines run whenever they can.
Fairness ==
    /\ \A u \in Ues : WF_vars(UeStep(u))
    /\ WF_vars(\E p \in DOMAIN cmd : CmdAdd(p))
FairSpec == Spec /\ Fairness

SessRec == [up : BOOLEAN, ip : {NoIp} \cup {Ipv4(u) : u \in Ues}, gnb : Gnbs \cup {0},
            ul : Teids \cup {0}, qfi : Qfi \cup {0}, stop : Nat, tun : Nat,
            rule : Teids \cup {0}, vrf : Teids \cup {0}]
NetRec  == [up : BOOLEAN, gnb : Gnbs, ul : Teids \cup {0}]
MsgRec  == [type : {"accept", "setup", "release"}, id : 1..2, gnb : Gnbs \cup {0},
            ul : Teids \cup {0}, qfi : Qfi \cup {0}]
CmdRec  == [ue : Ues, gnb : Gnbs, at : {"start", "bound", "wait", "done"},
            told : {"no", "yes"}]

\* The state has its type; a stopSignal names a goroutine that was started.
TypeOK ==
    /\ fate \in {"run", "fatal"} /\ mode \in Modes /\ active \subseteq Ues
    /\ net \in [Ues -> NetRec] /\ used \subseteq Teids /\ nnet \in Nat
    /\ inbox \in [Ues -> Seq(MsgRec)]
    /\ pc \in [Ues -> {"loop", "spawn", "rules", "stop", "ended"}]
    /\ sess \in [Ues -> SessRec]
    /\ cmd \in Seq(CmdRec)
    /\ DOMAIN link = Ues /\ \A u \in Ues : link[u].id \in Nat
    /\ vrf \in [Ues -> Teids \cup {0}]
    /\ rules \in Seq([src : Ues, table : Teids])
    /\ route \in [Teids -> Nat]
    /\ \A u \in Ues : sess[u].stop \in 0..Len(cmd)

\* No setup ends the process: the address of the gNodeB is free when CmdAdd binds it, the
\* name of the link when it is created, and the commands find the link and parse.
NoFatal == fate = "run"

\* A UE that has handled all its gNodeB sent has the tunnel the network expects: a link on
\* the socket of the serving gNodeB, encapsulating with the TEID the UPF gave last.
TunnelCurrent ==
    \A u \in Ues :
      (fate = "run" /\ mode # "disabled" /\ pc[u] = "loop" /\ inbox[u] = <<>> /\ net[u].up) =>
        LET l == link[u] IN
        /\ l.id # 0 /\ cmd[l.id].ue = u /\ cmd[l.id].gnb = net[u].gnb
        /\ cmd[l.id].at = "wait" /\ cmd[l.id].told = "no"
        /\ Arg(l.rules.far[2], "--hdr-creation", 2) = net[u].ul
        /\ Arg(l.rules.pdr[1], "--f-teid", 2) = net[u].gnb

\* The link traffic of the UE leaves by: in tun mode the first rule of its address whose
\* table has a default route decides, in vrf mode the table of its VRF.
Matching(u) == {i \in DOMAIN rules : rules[i].src = u /\ route[rules[i].table] # 0}
Egress(u) ==
    IF mode = "vrf" THEN IF vrf[u] = 0 THEN 0 ELSE route[vrf[u]]
    ELSE IF Matching(u) = {} THEN 0
         ELSE route[rules[CHOOSE i \in Matching(u) : \A j \in Matching(u) : i <= j].table]

\* The traffic of a UE whose tunnel uses the TEID the network keeps for it leaves by the
\* link of that UE, whatever rules, routes and devices earlier sessions have left behind.
UplinkRouted ==
    \A u \in Ues :
      (/\ fate = "run" /\ pc[u] = "loop"
       /\ sess[u].up /\ sess[u].tun # 0 /\ sess[u].ul = net[u].ul) =>
        Egress(u) = link[u].id /\ link[u].id = sess[u].tun

\* A goroutine that may still hold an address and has not been told to stop is the one the
\* session of its UE can stop, as long as the UE lives; and a stopSignal that will be closed
\* or sent on is open and has its goroutine at the other end.
NoOrphan ==
    /\ \A p \in DOMAIN cmd : LET u == cmd[p].ue IN
         (cmd[p].at # "done" /\ cmd[p].told = "no" /\ pc[u] # "ended") => sess[u].stop = p
    /\ \A u \in Ues : (sess[u].stop # 0 /\ pc[u] \notin {"spawn", "ended"}) =>
         LET c == cmd[sess[u].stop] IN c.ue = u /\ c.told = "no" /\ c.at # "done"

\* The goroutine of a UE is never kept: a setup ends, and the send on stopSignal is received.
UeResponds ==
    \A u \in Ues : pc[u] \in {"spawn", "rules", "stop"} ~> (pc[u] = "loop" \/ fate = "fatal")
=============================================================================
