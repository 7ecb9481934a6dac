-------------------------- MODULE GtpTunnelProofs --------------------------
(* Theorems about GtpTunnel, for any UEs, gNodeBs and TEIDs. *)
EXTENDS GtpTunnel, TLAPS, SequenceTheorems, WellFoundedInduction

-----------------------------------------------------------------------------
(* The inductive invariants.  All but the last are about one UE: the state *)
(* of its goroutine and the CmdAdd goroutines it has started.              *)

Cmds    == 1..Len(cmd)
Mine(u) == {p \in Cmds : cmd[p].ue = u}
Msgs(u) == 1..Len(inbox[u])
Setup1(m) == m.type = "setup" /\ m.id = 1
\* A UE that is started again has no tunnel.
NoTunnelLoop == Loop \subseteq {"disabled"}

\* The setup of session 1 names a gNodeB and a TEID, and so does the session until the
\* tunnel is built.
Links == \A u \in Ues : \E i \in Nat : \E r : link[u] = [id |-> i, rules |-> r]
Named(u) ==
    /\ \A i \in Msgs(u) : Setup1(inbox[u][i]) => inbox[u][i].gnb \in Gnbs /\ inbox[u][i].ul \in Teids
    /\ pc[u] \in {"spawn", "rules"} => sess[u].gnb \in Gnbs /\ sess[u].ul \in Teids
TypeInv == TypeOK /\ Links /\ \A u \in Ues : Named(u)

\* The session of a UE in each of the places its goroutine can be at; the goroutine it can
\* stop, which is the only one of the UE that was not told to.
Place(u) ==
    /\ ~sess[u].up => sess[u] = NoSession
    /\ pc[u] \in {"spawn", "rules", "stop"} => sess[u].up /\ mode # "disabled"
    /\ pc[u] \in {"rules", "stop"} => sess[u].stop # 0
Stops(u) ==
    /\ sess[u].stop # 0 => sess[u].stop \in Mine(u)
    /\ sess[u].stop # 0 /\ pc[u] = "spawn" => cmd[sess[u].stop].told = "yes"
    /\ sess[u].stop # 0 /\ pc[u] \notin {"spawn", "ended"} =>
          cmd[sess[u].stop].told = "no" /\ cmd[sess[u].stop].at # "done"
Started(u) ==
    /\ \A p \in Mine(u) : cmd[p].at # "done" /\ cmd[p].told = "no" => sess[u].stop = p
    /\ mode = "disabled" => Mine(u) = {}
Handled(u) == Place(u) /\ Stops(u) /\ Started(u)
OrphanInv == TypeInv /\ \A u \in Ues : Handled(u)

\* Without races: a goroutine that has not ended is the one its UE can stop or was told to,
\* and none of the latter is left when the next is started; a goroutine has no link before
\* it waits; a setup follows the accept of its session, which is there when the accept is.
Local(u, g) == g \in Gnbs /\ (g = Home[u] \/ active = {u})
Inactive(u) == u \notin active => pc[u] = "loop" /\ inbox[u] = <<>> /\ Mine(u) = {}
Address(u) ==
    /\ Local(u, net[u].gnb) /\ \A p \in Mine(u) : Local(u, cmd[p].gnb)
    /\ pc[u] \in {"spawn", "rules"} => Local(u, sess[u].gnb)
Heard(u) == \A i \in Msgs(u) : Setup1(inbox[u][i]) => Local(u, inbox[u][i].gnb)
Alive(u) ==
    \A p \in Mine(u) : /\ cmd[p].at # "done" =>
                             sess[u].stop = p \/ (cmd[p].told = "yes" /\ pc[u] # "rules")
                       /\ cmd[p].at \in {"start", "bound"} => pc[u] = "rules" /\ link[u].id = 0
Linked(u) ==
    /\ link[u].id # 0 => link[u].id \in Mine(u)
    /\ pc[u] = "spawn" => link[u].id = 0
    /\ pc[u] = "rules" /\ cmd[sess[u].stop].at = "wait" => link[u].id = sess[u].stop
Accepted(u) ==
    sess[u].up /\ pc[u] # "ended" =>
        \/ sess[u].ip = Ipv4(u)
        \/ pc[u] = "loop" /\ Len(inbox[u]) >= 1 /\ inbox[u][1].type = "accept"
Expected(u) ==
    \A i \in Msgs(u) : inbox[u][i].type = "accept" => i = 1 /\ sess[u].up /\ pc[u] = "loop"
Sound(u) == Inactive(u) /\ Address(u) /\ Heard(u) /\ Alive(u) /\ Linked(u) /\ Accepted(u)
AliveInv == OrphanInv /\ NoFatal /\ \A u \in Ues : Sound(u) /\ Expected(u)

\* The last setup the network sent is under way, or the session has what it said; and the
\* link is made of what the session has.
IsLast(u, i) == Setup1(inbox[u][i]) /\ \A j \in i + 1..Len(inbox[u]) : ~Setup1(inbox[u][j])
Hears(u) ==
    /\ sess[u].up /\ pc[u] # "stop" /\ \A i \in Msgs(u) : inbox[u][i].type # "release"
    /\ \A i \in Msgs(u) : IsLast(u, i) =>
          inbox[u][i].gnb = net[u].gnb /\ inbox[u][i].ul = net[u].ul
    /\ (mode # "disabled" /\ \A i \in Msgs(u) : ~Setup1(inbox[u][i])) =>
          sess[u].gnb = net[u].gnb /\ sess[u].ul = net[u].ul
Told(u) == net[u].up /\ pc[u] # "ended" => Hears(u)
Built(u) ==
    /\ sess[u].gnb # 0 /\ pc[u] # "spawn" => sess[u].stop # 0
    /\ sess[u].stop # 0 /\ pc[u] # "spawn" => cmd[sess[u].stop].gnb = sess[u].gnb
    /\ sess[u].stop # 0 /\ pc[u] = "loop" =>
          /\ link[u].id = sess[u].stop
          /\ Arg(link[u].rules.far[2], "--hdr-creation", 2) = sess[u].ul
          /\ Arg(link[u].rules.pdr[1], "--f-teid", 2) = sess[u].gnb
CurrentInv == AliveInv /\ \A u \in Ues : Told(u) /\ Built(u)

\* A TEID is used by one UE at a time, and in tun mode by one UE for good; the routes in its
\* table and the rules or the VRF that lead there are those of that UE.
Has(u, t) ==
    \/ net[u].ul = t
    \/ sess[u].up /\ sess[u].ul = t
    \/ \E i \in Msgs(u) : inbox[u][i].ul = t
Ruled(u, t) == \E i \in 1..Len(rules) : rules[i] = Rule(u, t)
Claims(u, t) == Has(u, t) \/ (mode = "tun" /\ Ruled(u, t))
OneOwner ==
    /\ \A u \in Ues, t \in Teids : Claims(u, t) => t \in used
    /\ \A u, v \in Ues, t \in Teids : Claims(u, t) /\ Claims(v, t) => u = v
Routes ==
    \A t \in Teids : route[t] # 0 =>
        \E u \in Ues : route[t] = link[u].id /\ (mode = "tun" => Ruled(u, t))
Reached(u) ==
    /\ sess[u].tun # 0 => mode # "disabled" /\ sess[u].stop # 0
    /\ sess[u].rule # 0 => sess[u].tun # 0
    /\ sess[u].tun # 0 /\ pc[u] = "loop" =>
          /\ sess[u].tun = sess[u].stop /\ sess[u].ul \in Teids
          /\ route[sess[u].ul] = link[u].id
          /\ mode = "tun" => Ruled(u, sess[u].ul)
          /\ mode = "vrf" => vrf[u] = sess[u].ul
RouteInv == CurrentInv /\ OneOwner /\ Routes /\ \A u \in Ues : Reached(u)

-----------------------------------------------------------------------------
(* Sequences, and the records of sessions and goroutines.                  *)

LEMMA AddOne ==
    ASSUME NEW S, NEW q \in Seq(S), NEW x \in S
    PROVE  /\ q \o <<x>> \in Seq(S) /\ Len(q \o <<x>>) = Len(q) + 1
           /\ (q \o <<x>>)[Len(q) + 1] = x
           /\ \A i \in 1..Len(q) : (q \o <<x>>)[i] = q[i]
BY SMT

LEMMA AddTwo ==
    ASSUME NEW S, NEW q \in Seq(S), NEW x \in S, NEW y \in S
    PROVE  /\ q \o <<x, y>> \in Seq(S) /\ Len(q \o <<x, y>>) = Len(q) + 2
           /\ (q \o <<x, y>>)[Len(q) + 1] = x /\ (q \o <<x, y>>)[Len(q) + 2] = y
           /\ \A i \in 1..Len(q) : (q \o <<x, y>>)[i] = q[i]
BY SMT

LEMMA Rest ==
    ASSUME NEW S, NEW q \in Seq(S), q # <<>>
    PROVE  /\ Len(q) \in Nat /\ Len(q) >= 1 /\ Head(q) = q[1] /\ q[1] \in S
           /\ Tail(q) \in Seq(S) /\ Len(Tail(q)) = Len(q) - 1
           /\ \A i \in 1..Len(q) - 1 : Tail(q)[i] = q[i + 1]
BY SMT

Overtaken(q, x) == SubSeq(q, 1, Len(q) - 1) \o <<x, q[Len(q)]>>
LEMMA Overtake ==
    ASSUME NEW S, NEW q \in Seq(S), NEW x \in S, Len(q) > 0
    PROVE  /\ Overtaken(q, x) \in Seq(S) /\ Len(Overtaken(q, x)) = Len(q) + 1
           /\ Overtaken(q, x)[Len(q)] = x /\ Overtaken(q, x)[Len(q) + 1] = q[Len(q)]
           /\ \A i \in 1..Len(q) - 1 : Overtaken(q, x)[i] = q[i]
<1>1. Len(q) \in Nat /\ \A i \in 1..Len(q) : q[i] \in S  OBVIOUS
<1>2. PICK n \in Nat : n = Len(q) - 1  BY <1>1
<1>3. \A i \in 1..n : q[i] \in S  BY <1>1, <1>2
<1>4. /\ SubSeq(q, 1, n) \in Seq(S) /\ Len(SubSeq(q, 1, n)) = n
      /\ \A i \in 1..n : SubSeq(q, 1, n)[i] = q[i]
  <2>1. /\ SubSeq(q, 1, n) \in Seq(S)
        /\ Len(SubSeq(q, 1, n)) = IF 1 <= n THEN n - 1 + 1 ELSE 0
        /\ \A i \in 1..n - 1 + 1 : SubSeq(q, 1, n)[i] = q[1 + i - 1]
    BY <1>2, <1>3, SubSeqProperties
  <2>2. Len(SubSeq(q, 1, n)) = n  BY <2>1, <1>2
  <2>3. \A i \in 1..n : SubSeq(q, 1, n)[i] = q[i]  BY <2>1, <1>2
  <2>4. QED  BY <2>1, <2>2, <2>3
<1>5. PICK s \in Seq(S) : s = SubSeq(q, 1, n)  BY <1>4
<1>6. Len(s) = n /\ \A i \in 1..n : s[i] = q[i]  BY <1>4, <1>5
<1>7. PICK y \in S : y = q[Len(q)]  BY <1>1
<1>8. PICK r : r = s \o <<x, y>>  OBVIOUS
<1>9. r \in Seq(S) /\ Len(r) = n + 2 /\ r[n + 1] = x /\ r[n + 2] = y /\ \A i \in 1..n : r[i] = s[i]
  <2>1. /\ s \o <<x, y>> \in Seq(S) /\ Len(s \o <<x, y>>) = Len(s) + 2
        /\ (s \o <<x, y>>)[Len(s) + 1] = x /\ (s \o <<x, y>>)[Len(s) + 2] = y
        /\ \A i \in 1..Len(s) : (s \o <<x, y>>)[i] = s[i]
    BY ONLY AddTwo, s \in Seq(S), x \in S, y \in S
  <2>2. QED  BY <2>1, <1>6, <1>8, Zenon
<1>10. /\ Len(r) = Len(q) + 1 /\ r[Len(q)] = x /\ r[Len(q) + 1] = q[Len(q)]
       /\ \A i \in 1..Len(q) - 1 : r[i] = q[i]
  BY <1>1, <1>2, <1>6, <1>7, <1>9
<1>11. r = Overtaken(q, x)  BY <1>2, <1>5, <1>7, <1>8, Zenon DEF Overtaken
<1>12. QED  BY <1>9, <1>10, <1>11, Zenon

\* One entry of a sequence of records is replaced.
LEMMA SetAt ==
    ASSUME NEW q \in Seq(CmdRec), NEW p \in 1..Len(q), NEW x \in CmdRec,
           NEW r, r = [q EXCEPT ![p] = x]
    PROVE  /\ r \in Seq(CmdRec) /\ Len(r) = Len(q) /\ r[p] = x
           /\ \A i \in 1..Len(q) : i # p => r[i] = q[i]
<1> HIDE DEF CmdRec
<1> QED  BY SMT

LEMMA CmdAt ==
    ASSUME NEW c \in CmdRec, NEW a \in {"start", "bound", "wait", "done"}
    PROVE  /\ [c EXCEPT !.at = a] \in CmdRec /\ [c EXCEPT !.at = a].at = a
           /\ [c EXCEPT !.at = a].ue = c.ue /\ [c EXCEPT !.at = a].gnb = c.gnb
           /\ [c EXCEPT !.at = a].told = c.told
BY DEF CmdRec

LEMMA CmdTold ==
    ASSUME NEW c \in CmdRec
    PROVE  /\ [c EXCEPT !.told = "yes"] \in CmdRec
           /\ [c EXCEPT !.told = "yes"].told = "yes"
           /\ [c EXCEPT !.told = "yes"].ue = c.ue /\ [c EXCEPT !.told = "yes"].gnb = c.gnb
           /\ [c EXCEPT !.told = "yes"].at = c.at
BY DEF CmdRec

LEMMA Blank ==
    /\ NoSession \in SessRec /\ ~NoSession.up /\ NoSession.stop = 0 /\ NoSession.tun = 0
    /\ NoSession.gnb = 0 /\ NoSession.ul = 0 /\ NoSession.rule = 0 /\ NoSession.vrf = 0
    /\ NewSession \in SessRec /\ NewSession.up /\ NewSession.stop = 0 /\ NewSession.tun = 0
    /\ NewSession.gnb = 0 /\ NewSession.ul = 0 /\ NewSession.rule = 0 /\ NewSession.vrf = 0
BY DEF NoSession, NewSession, SessRec

\* The fields of a session that one update leaves alone.
LEMMA Stored ==
    ASSUME NEW s \in SessRec, NEW m \in MsgRec
    PROVE  /\ StoreSetup(s, m) \in SessRec /\ StoreSetup(s, m).up = s.up
           /\ StoreSetup(s, m).ip = s.ip /\ StoreSetup(s, m).gnb = s.gnb
           /\ StoreSetup(s, m).ul = m.ul /\ StoreSetup(s, m).qfi = m.qfi
           /\ StoreSetup(s, m).stop = s.stop /\ StoreSetup(s, m).tun = s.tun
           /\ StoreSetup(s, m).rule = s.rule /\ StoreSetup(s, m).vrf = s.vrf
BY DEF SessRec, MsgRec, StoreSetup

LEMMA GnbSet ==
    ASSUME NEW s \in SessRec, NEW g \in Gnbs \cup {0}
    PROVE  /\ SetGnbIp(s, g) \in SessRec /\ SetGnbIp(s, g).up = s.up
           /\ SetGnbIp(s, g).ip = s.ip /\ SetGnbIp(s, g).gnb = g
           /\ SetGnbIp(s, g).ul = s.ul /\ SetGnbIp(s, g).qfi = s.qfi
           /\ SetGnbIp(s, g).stop = s.stop /\ SetGnbIp(s, g).tun = s.tun
           /\ SetGnbIp(s, g).rule = s.rule /\ SetGnbIp(s, g).vrf = s.vrf
BY DEF SessRec, SetGnbIp

LEMMA StopSet ==
    ASSUME NEW s \in SessRec, NEW n \in Nat, NEW r, r = [s EXCEPT !.stop = n]
    PROVE  /\ r \in SessRec /\ r.up = s.up /\ r.ip = s.ip /\ r.gnb = s.gnb
           /\ r.ul = s.ul /\ r.qfi = s.qfi
           /\ r.stop = n /\ r.tun = s.tun /\ r.rule = s.rule /\ r.vrf = s.vrf
BY DEF SessRec

LEMMA IpSet ==
    ASSUME NEW s \in SessRec, NEW a \in {NoIp} \cup {Ipv4(u) : u \in Ues},
           NEW r, r = [s EXCEPT !.ip = a]
    PROVE  /\ r \in SessRec /\ r.up = s.up /\ r.ip = a /\ r.gnb = s.gnb
           /\ r.ul = s.ul /\ r.qfi = s.qfi
           /\ r.stop = s.stop /\ r.tun = s.tun /\ r.rule = s.rule /\ r.vrf = s.vrf
           /\ a = s.ip => r = s
<1> HIDE DEF NoIp, Ipv4
<1> QED  BY DEF SessRec

TunRule(s, n, t) == [s EXCEPT !.tun = n, !.rule = t]
TunVrf(s, n, t)  == [s EXCEPT !.tun = n, !.vrf = t]
LEMMA TunSet ==
    ASSUME NEW s \in SessRec, NEW n \in Nat, NEW t \in Teids, NEW r,
           r = TunRule(s, n, t) \/ r = TunVrf(s, n, t)
    PROVE  /\ r \in SessRec /\ r.up = s.up /\ r.ip = s.ip /\ r.gnb = s.gnb
           /\ r.ul = s.ul /\ r.qfi = s.qfi /\ r.stop = s.stop /\ r.tun = n
<1>1. CASE r = TunRule(s, n, t)
  <2>1. r = [s EXCEPT !.tun = n, !.rule = t]  BY <1>1, Zenon DEF TunRule
  <2>2. QED  BY ONLY <2>1, s \in SessRec, n \in Nat, t \in Teids DEF SessRec
<1>2. CASE r = TunVrf(s, n, t)
  <2>1. r = [s EXCEPT !.tun = n, !.vrf = t]  BY <1>2, Zenon DEF TunVrf
  <2>2. QED  BY ONLY <2>1, s \in SessRec, n \in Nat, t \in Teids DEF SessRec
<1>3. QED  BY <1>1, <1>2

-----------------------------------------------------------------------------
(* What each action does, variable by variable; it keeps the type.         *)

LEMMA Nums == Ues \subseteq Nat /\ Gnbs \subseteq Nat \ {0} /\ Teids \subseteq Nat \ {0}
              /\ Qfi \subseteq 0..63 /\ Home \in [Ues -> Gnbs]
BY HomeAssumption

LEMMA Messages ==
    /\ Accept \in MsgRec /\ Accept.type = "accept" /\ Accept.ul = 0
    /\ Release \in MsgRec /\ Release.type = "release" /\ Release.ul = 0
    /\ \A g \in Gnbs, t \in Teids, q \in Qfi :
         /\ Setup(1, g, t, q) \in MsgRec /\ Setup1(Setup(1, g, t, q))
         /\ Setup(1, g, t, q).gnb = g /\ Setup(1, g, t, q).ul = t
    /\ \A g \in Gnbs : /\ Setup(2, g, 0, 0) \in MsgRec /\ Setup(2, g, 0, 0).type = "setup"
                       /\ Setup(2, g, 0, 0).id = 2 /\ Setup(2, g, 0, 0).ul = 0
BY DEF Accept, Release, Setup, MsgRec, Setup1

\* The UE v is not touched, but for what cmd, rules and route hold.
Same(v) == /\ pc'[v] = pc[v] /\ sess'[v] = sess[v] /\ net'[v] = net[v]
           /\ inbox'[v] = inbox[v] /\ link'[v] = link[v] /\ vrf'[v] = vrf[v]
Others(u) == \A v \in Ues : v # u => Same(v)
\* What the gNodeB of u has sent is followed by m, or by m and n.
SentOne(u, m) ==
    /\ Len(inbox'[u]) = Len(inbox[u]) + 1 /\ inbox'[u][Len(inbox[u]) + 1] = m
    /\ \A i \in Msgs(u) : inbox'[u][i] = inbox[u][i]
SentTwo(u, m, n) ==
    /\ Len(inbox'[u]) = Len(inbox[u]) + 2
    /\ inbox'[u][Len(inbox[u]) + 1] = m /\ inbox'[u][Len(inbox[u]) + 2] = n
    /\ \A i \in Msgs(u) : inbox'[u][i] = inbox[u][i]
Inserted(u, m) ==
    /\ Len(inbox[u]) > 0 /\ Len(inbox'[u]) = Len(inbox[u]) + 1
    /\ inbox'[u][Len(inbox[u])] = m /\ inbox'[u][Len(inbox[u]) + 1] = inbox[u][Len(inbox[u])]
    /\ inbox[u][Len(inbox[u])].type = "setup"
    /\ \A i \in 1..Len(inbox[u]) - 1 : inbox'[u][i] = inbox[u][i]
Taken(u) ==
    /\ Len(inbox[u]) >= 1 /\ Len(inbox'[u]) = Len(inbox[u]) - 1
    /\ \A i \in 1..Len(inbox[u]) - 1 : inbox'[u][i] = inbox[u][i + 1]
BoxesOK == inbox \in [Ues -> Seq(MsgRec)]
OtherBoxes(u) == \A v \in Ues : v # u => inbox'[v] = inbox[v]

LEMMA SendOne ==
    ASSUME BoxesOK, NEW u \in Ues, NEW m \in MsgRec, ToUe(u, <<m>>)
    PROVE  BoxesOK' /\ OtherBoxes(u) /\ SentOne(u, m)
<1> HIDE DEF MsgRec
<1>1. inbox[u] \in Seq(MsgRec)  BY DEF BoxesOK
<1>2. PICK q \in Seq(MsgRec) : q = inbox[u] \o <<m>>  BY <1>1, AddOne
<1>3. inbox' = [inbox EXCEPT ![u] = q]  BY <1>2 DEF ToUe
<1>4. inbox'[u] = q /\ BoxesOK' /\ OtherBoxes(u)  BY <1>3 DEF BoxesOK, OtherBoxes
<1>5. /\ Len(q) = Len(inbox[u]) + 1 /\ q[Len(inbox[u]) + 1] = m
      /\ \A i \in 1..Len(inbox[u]) : q[i] = inbox[u][i]
  BY <1>1, <1>2, AddOne
<1>6. QED  BY <1>4, <1>5 DEF SentOne, Msgs

LEMMA SendTwo ==
    ASSUME BoxesOK, NEW u \in Ues, NEW m \in MsgRec, NEW n \in MsgRec, ToUe(u, <<m, n>>)
    PROVE  BoxesOK' /\ OtherBoxes(u) /\ SentTwo(u, m, n)
<1> HIDE DEF MsgRec
<1>1. inbox[u] \in Seq(MsgRec)  BY DEF BoxesOK
<1>2. PICK q \in Seq(MsgRec) : q = inbox[u] \o <<m, n>>  BY <1>1, AddTwo
<1>3. inbox' = [inbox EXCEPT ![u] = q]  BY <1>2 DEF ToUe
<1>4. inbox'[u] = q /\ BoxesOK' /\ OtherBoxes(u)  BY <1>3 DEF BoxesOK, OtherBoxes
<1>5. /\ Len(q) = Len(inbox[u]) + 2 /\ q[Len(inbox[u]) + 1] = m /\ q[Len(inbox[u]) + 2] = n
      /\ \A i \in 1..Len(inbox[u]) : q[i] = inbox[u][i]
  BY <1>1, <1>2, AddTwo
<1>6. QED  BY <1>4, <1>5 DEF SentTwo, Msgs

LEMMA Receive ==
    ASSUME BoxesOK, NEW u \in Ues, NEW type, Receives(u, type)
    PROVE  /\ BoxesOK' /\ OtherBoxes(u) /\ Taken(u) /\ fate = "run" /\ pc[u] = "loop"
           /\ Head(inbox[u]) = inbox[u][1] /\ inbox[u][1] \in MsgRec /\ inbox[u][1].type = type
<1> HIDE DEF MsgRec
<1>1. /\ inbox[u] \in Seq(MsgRec) /\ inbox[u] # <<>> /\ fate = "run" /\ pc[u] = "loop"
      /\ Head(inbox[u]).type = type /\ inbox' = [inbox EXCEPT ![u] = Tail(inbox[u])]
  BY DEF BoxesOK, Receives
<1>2. /\ Len(inbox[u]) \in Nat /\ Len(inbox[u]) >= 1 /\ Head(inbox[u]) = inbox[u][1]
      /\ inbox[u][1] \in MsgRec
      /\ Tail(inbox[u]) \in Seq(MsgRec) /\ Len(Tail(inbox[u])) = Len(inbox[u]) - 1
      /\ \A i \in 1..Len(inbox[u]) - 1 : Tail(inbox[u])[i] = inbox[u][i + 1]
  BY <1>1, Rest
<1>3. PICK q \in Seq(MsgRec) : q = Tail(inbox[u])  BY <1>2
<1>4. inbox'[u] = q /\ BoxesOK' /\ OtherBoxes(u)  BY <1>1, <1>3 DEF BoxesOK, OtherBoxes
<1>5. Taken(u)  BY <1>2, <1>3, <1>4 DEF Taken
<1>6. QED  BY <1>1, <1>2, <1>4, <1>5

LEMMA Insert ==
    ASSUME BoxesOK, NEW u \in Ues, NEW m \in MsgRec, NEW n, n = Len(inbox[u]), n > 0,
           inbox[u][n].type = "setup",
           inbox' = [inbox EXCEPT ![u] = SubSeq(@, 1, n - 1) \o <<m, @[n]>>]
    PROVE  BoxesOK' /\ OtherBoxes(u) /\ Inserted(u, m)
<1> HIDE DEF MsgRec
<1>1. inbox[u] \in Seq(MsgRec)  BY ONLY BoxesOK, u \in Ues DEF BoxesOK
<1>2. PICK q : q = Overtaken(inbox[u], m)  OBVIOUS
<1>3. /\ q \in Seq(MsgRec) /\ Len(q) = Len(inbox[u]) + 1
      /\ q[Len(inbox[u])] = m /\ q[Len(inbox[u]) + 1] = inbox[u][Len(inbox[u])]
      /\ \A i \in 1..Len(inbox[u]) - 1 : q[i] = inbox[u][i]
  <2>1. PICK b \in Seq(MsgRec) : b = inbox[u]  BY <1>1
  <2>2. q = Overtaken(b, m) /\ Len(b) > 0  BY ONLY <1>2, <2>1, n = Len(inbox[u]), n > 0
  <2>3. /\ q \in Seq(MsgRec) /\ Len(q) = Len(b) + 1
        /\ q[Len(b)] = m /\ q[Len(b) + 1] = b[Len(b)]
        /\ \A i \in 1..Len(b) - 1 : q[i] = b[i]
    BY ONLY <2>2, b \in Seq(MsgRec), m \in MsgRec, Overtake
  <2>4. QED  BY ONLY <2>1, <2>3
<1>4. inbox' = [inbox EXCEPT ![u] = q]  BY <1>2, Zenon DEF Overtaken
<1>5. inbox'[u] = q /\ BoxesOK' /\ OtherBoxes(u)
  BY ONLY <1>3, <1>4, BoxesOK, u \in Ues DEF BoxesOK, OtherBoxes
<1>6. Inserted(u, m)
  BY ONLY <1>3, <1>5, n = Len(inbox[u]), n > 0, inbox[u][n].type = "setup" DEF Inserted
<1>7. QED  BY ONLY <1>5, <1>6

NetOK  == net \in [Ues -> NetRec] /\ used \subseteq Teids /\ nnet \in Nat
SessOK == sess \in [Ues -> SessRec]
PcOK   == pc \in [Ues -> {"loop", "spawn", "rules", "stop", "ended"}]
CmdOK  == cmd \in Seq(CmdRec)
LinkOK == DOMAIN link = Ues /\ \A u \in Ues : link[u].id \in Nat
StopOK == \A u \in Ues : sess[u].stop \in 0..Len(cmd)
WorldOK == fate \in {"run", "fatal"} /\ mode \in Modes /\ active \subseteq Ues
HostOK == /\ vrf \in [Ues -> Teids \cup {0}] /\ rules \in Seq([src : Ues, table : Teids])
          /\ route \in [Teids -> Nat]

LEMMA TypeParts ==
    ASSUME TypeOK
    PROVE  /\ NetOK /\ SessOK /\ PcOK /\ CmdOK /\ LinkOK /\ StopOK /\ WorldOK /\ HostOK /\ BoxesOK
           /\ Len(cmd) \in Nat /\ \A u \in Ues : Len(inbox[u]) \in Nat
<1>1. NetOK /\ SessOK /\ PcOK /\ CmdOK /\ LinkOK /\ StopOK /\ WorldOK /\ HostOK /\ BoxesOK
  BY DEF TypeOK, NetOK, SessOK, PcOK, CmdOK, LinkOK, StopOK, WorldOK, HostOK, BoxesOK
<1>2. Len(cmd) \in Nat  BY <1>1, LenProperties DEF CmdOK
<1>3. ASSUME NEW u \in Ues PROVE Len(inbox[u]) \in Nat
  <2>1. inbox[u] \in Seq(MsgRec)  BY <1>1 DEF BoxesOK
  <2>2. QED  BY <2>1, LenProperties
<1>4. QED  BY <1>1, <1>2, <1>3

LEMMA Networks ==
    ASSUME NEW u \in Ues, NEW g \in Gnbs, NEW t \in Teids
    PROVE  /\ NetUp(g, t) \in NetRec /\ NetUp(g, t).up /\ NetUp(g, t).gnb = g /\ NetUp(g, t).ul = t
           /\ NetDown(u) \in NetRec /\ ~NetDown(u).up /\ NetDown(u).gnb = Home[u]
           /\ NetDown(u).ul = 0
BY Nums DEF NetUp, NetDown, NetRec

LEMMA NetEnds ==
    ASSUME NEW n \in NetRec, NEW r, r = [n EXCEPT !.up = FALSE, !.ul = 0]
    PROVE  r \in NetRec /\ ~r.up /\ r.gnb = n.gnb /\ r.ul = 0
BY DEF NetRec

\* The goroutines: one moves on, one is told to stop, one is added.
OtherCmds(p) == \A i \in Cmds : i # p => cmd'[i] = cmd[i]
Moved(p, a) ==
    /\ Len(cmd') = Len(cmd) /\ OtherCmds(p) /\ cmd'[p].at = a
    /\ cmd'[p].ue = cmd[p].ue /\ cmd'[p].gnb = cmd[p].gnb /\ cmd'[p].told = cmd[p].told
Signalled(p) ==
    /\ Len(cmd') = Len(cmd) /\ OtherCmds(p) /\ cmd'[p].told = "yes"
    /\ cmd'[p].ue = cmd[p].ue /\ cmd'[p].gnb = cmd[p].gnb /\ cmd'[p].at = cmd[p].at
Grown(u, g) ==
    /\ Len(cmd') = Len(cmd) + 1 /\ \A i \in Cmds : cmd'[i] = cmd[i]
    /\ cmd'[Len(cmd) + 1].ue = u /\ cmd'[Len(cmd) + 1].gnb = g
    /\ cmd'[Len(cmd) + 1].at = "start" /\ cmd'[Len(cmd) + 1].told = "no"

LEMMA MoveCmd ==
    ASSUME CmdOK, NEW p \in Cmds, NEW a \in {"start", "bound", "wait", "done"}, Goes(p, a)
    PROVE  CmdOK' /\ Moved(p, a)
<1>1. cmd[p] \in CmdRec /\ Len(cmd) \in Nat  BY DEF CmdOK, Cmds
<1>2. PICK c \in CmdRec : c = [cmd[p] EXCEPT !.at = a]  BY <1>1, CmdAt
<1>3. c.at = a /\ c.ue = cmd[p].ue /\ c.gnb = cmd[p].gnb /\ c.told = cmd[p].told
  BY <1>1, <1>2, CmdAt
<1>4. cmd' = [cmd EXCEPT ![p] = c]  BY <1>2 DEF Goes
<1>5. /\ cmd' \in Seq(CmdRec) /\ Len(cmd') = Len(cmd) /\ cmd'[p] = c
      /\ \A i \in 1..Len(cmd) : i # p => cmd'[i] = cmd[i]
  BY <1>4, SetAt DEF CmdOK, Cmds
<1>6. QED  BY <1>3, <1>5 DEF CmdOK, Moved, OtherCmds, Cmds

LEMMA CloseCmd ==
    ASSUME CmdOK, NEW p \in Cmds, cmd' = [cmd EXCEPT ![p].told = "yes"]
    PROVE  CmdOK' /\ Signalled(p)
<1>1. cmd[p] \in CmdRec /\ Len(cmd) \in Nat  BY DEF CmdOK, Cmds
<1>2. PICK c \in CmdRec : c = [cmd[p] EXCEPT !.told = "yes"]  BY <1>1, CmdTold
<1>3. c.told = "yes" /\ c.ue = cmd[p].ue /\ c.gnb = cmd[p].gnb /\ c.at = cmd[p].at
  BY <1>1, <1>2, CmdTold
<1>4. cmd' = [cmd EXCEPT ![p] = c]  BY <1>2
<1>5. /\ cmd' \in Seq(CmdRec) /\ Len(cmd') = Len(cmd) /\ cmd'[p] = c
      /\ \A i \in 1..Len(cmd) : i # p => cmd'[i] = cmd[i]
  BY <1>4, SetAt DEF CmdOK, Cmds
<1>6. QED  BY <1>3, <1>5 DEF CmdOK, Signalled, OtherCmds, Cmds

LEMMA AddCmd ==
    ASSUME CmdOK, NEW u \in Ues, NEW g \in Gnbs,
           cmd' = Append(cmd, [ue |-> u, gnb |-> g, at |-> "start", told |-> "no"])
    PROVE  CmdOK' /\ Grown(u, g)
<1>1. PICK c \in CmdRec : c = [ue |-> u, gnb |-> g, at |-> "start", told |-> "no"]
  BY DEF CmdRec
<1>2. c.ue = u /\ c.gnb = g /\ c.at = "start" /\ c.told = "no"  BY <1>1
<1>3. cmd' = Append(cmd, c)  BY <1>1
<1>4. /\ cmd' \in Seq(CmdRec) /\ Len(cmd') = Len(cmd) + 1 /\ cmd'[Len(cmd) + 1] = c
      /\ \A i \in 1..Len(cmd) : cmd'[i] = cmd[i]
  <2>1. cmd \in Seq(CmdRec)  BY DEF CmdOK
  <2>2. QED  BY ONLY <2>1, <1>3, c \in CmdRec
<1>5. QED  BY <1>2, <1>4 DEF CmdOK, Grown, Cmds

LEMMA InitEffect ==
    ASSUME TypeOK, NEW u \in Ues, InitPduSessionRequest(u)
    PROVE  /\ TypeOK' /\ fate = "run" /\ u \in active /\ pc[u] = "loop" /\ ~sess[u].up
           /\ inbox[u] = <<>> \/ "slow" \in Races
           /\ UNCHANGED <<fate, mode, active, pc, cmd, link, vrf, rules, route>>
           /\ Others(u) /\ sess'[u] = NewSession
           /\ \E t \in Teids, q \in Qfi :
                /\ Fresh(t) /\ used' = used \cup {t} /\ net'[u] = NetUp(net[u].gnb, t)
                /\ SentTwo(u, Accept, Setup(1, net[u].gnb, t, q))
<1>1. NetOK /\ SessOK /\ BoxesOK /\ StopOK /\ Len(cmd) \in Nat  BY TypeParts
<1>2. /\ fate = "run" /\ u \in active /\ pc[u] = "loop" /\ ~sess[u].up
      /\ inbox[u] = <<>> \/ "slow" \in Races
      /\ UNCHANGED <<fate, mode, active, pc, cmd, link, vrf, rules, route>>
      /\ sess' = [sess EXCEPT ![u] = NewSession]
  BY DEF InitPduSessionRequest, Acts, hostVars
<1>3. PICK t \in Teids, q \in Qfi :
        /\ Fresh(t) /\ Gives(u, net[u].gnb, t)
        /\ ToUe(u, <<Accept, Setup(1, net[u].gnb, t, q)>>)
  BY DEF InitPduSessionRequest
<1>4. net[u].gnb \in Gnbs  BY <1>1 DEF NetOK, NetRec
<1>5. BoxesOK' /\ OtherBoxes(u) /\ SentTwo(u, Accept, Setup(1, net[u].gnb, t, q))
  BY <1>1, <1>3, <1>4, SendTwo, Messages
<1>6. NetUp(net[u].gnb, t) \in NetRec  BY <1>4, Networks
<1>7. /\ NetOK' /\ net'[u] = NetUp(net[u].gnb, t) /\ used' = used \cup {t}
      /\ \A v \in Ues : v # u => net'[v] = net[v]
  BY <1>1, <1>3, <1>6 DEF NetOK, Gives
<1>8. SessOK' /\ sess'[u] = NewSession /\ \A v \in Ues : v # u => sess'[v] = sess[v]
  BY <1>1, <1>2, Blank DEF SessOK
<1>9. StopOK'
  <2>1. ASSUME NEW v \in Ues PROVE sess'[v].stop \in 0..Len(cmd')
    <3>1. CASE v = u  BY <3>1, <1>1, <1>2, <1>8, Blank
    <3>2. CASE v # u  BY <3>2, <1>1, <1>2, <1>8 DEF StopOK
    <3>3. QED  BY <3>1, <3>2
  <2>2. QED  BY <2>1 DEF StopOK
<1>10. TypeOK'
  BY <1>2, <1>5, <1>7, <1>8, <1>9 DEF TypeOK, NetOK, SessOK, StopOK, BoxesOK
<1>11. Others(u)  BY <1>2, <1>5, <1>7, <1>8 DEF Others, Same, OtherBoxes
<1>12. QED  BY <1>2, <1>3, <1>5, <1>7, <1>8, <1>10, <1>11

LEMMA AgainEffect ==
    ASSUME TypeOK, NEW u \in Ues, SetupAgain(u)
    PROVE  /\ TypeOK' /\ fate = "run" /\ u \in active /\ pc[u] # "ended" /\ net[u].up
           /\ UNCHANGED <<fate, mode, active, pc, sess, cmd, link, vrf, rules, route>>
           /\ Others(u)
           /\ \E g \in Gnbs, t \in Teids, q \in Qfi :
                /\ MaySwitch(u, g) /\ (t = net[u].ul \/ Fresh(t))
                /\ used' = used \cup {t} /\ net'[u] = NetUp(g, t)
                /\ SentOne(u, Setup(1, g, t, q))
<1>1. NetOK /\ BoxesOK  BY TypeParts
<1>2. /\ fate = "run" /\ u \in active /\ pc[u] # "ended" /\ net[u].up
      /\ UNCHANGED <<fate, mode, active, pc, sess, cmd, link, vrf, rules, route>>
  BY DEF SetupAgain, Acts, hostVars
<1>3. PICK g \in Gnbs, t \in Teids, q \in Qfi :
        /\ MaySwitch(u, g) /\ (t = net[u].ul \/ Fresh(t))
        /\ Gives(u, g, t) /\ ToUe(u, <<Setup(1, g, t, q)>>)
  BY DEF SetupAgain
<1>4. BoxesOK' /\ OtherBoxes(u) /\ SentOne(u, Setup(1, g, t, q))
  BY <1>1, <1>3, SendOne, Messages
<1>5. NetUp(g, t) \in NetRec  BY Networks
<1>6. /\ NetOK' /\ net'[u] = NetUp(g, t) /\ used' = used \cup {t}
      /\ \A v \in Ues : v # u => net'[v] = net[v]
  BY <1>1, <1>3, <1>5 DEF NetOK, Gives
<1>7. TypeOK'  BY <1>2, <1>4, <1>6 DEF TypeOK, NetOK, BoxesOK
<1>8. Others(u)  BY <1>2, <1>4, <1>6 DEF Others, Same, OtherBoxes
<1>9. QED  BY <1>2, <1>3, <1>4, <1>6, <1>7, <1>8

LEMMA OtherEffect ==
    ASSUME TypeOK, NEW u \in Ues, SetupOther(u)
    PROVE  /\ TypeOK' /\ fate = "run" /\ u \in active /\ pc[u] # "ended"
           /\ UNCHANGED <<fate, mode, active, net, used, pc, sess, cmd, link, vrf, rules, route>>
           /\ Others(u) /\ net[u].gnb \in Gnbs /\ SentOne(u, Setup(2, net[u].gnb, 0, 0))
<1>1. NetOK /\ BoxesOK  BY TypeParts
<1>2. /\ fate = "run" /\ u \in active /\ pc[u] # "ended" /\ nnet' = nnet + 1
      /\ ToUe(u, <<Setup(2, net[u].gnb, 0, 0)>>)
      /\ UNCHANGED <<fate, mode, active, net, used, pc, sess, cmd, link, vrf, rules, route>>
  BY DEF SetupOther, Acts, hostVars
<1>3. net[u].gnb \in Gnbs  BY <1>1 DEF NetOK, NetRec
<1>4. BoxesOK' /\ OtherBoxes(u) /\ SentOne(u, Setup(2, net[u].gnb, 0, 0))
  BY <1>1, <1>2, <1>3, SendOne, Messages
<1>5. nnet' \in Nat  BY <1>1, <1>2 DEF NetOK
<1>6. TypeOK'  BY <1>2, <1>4, <1>5 DEF TypeOK, BoxesOK
<1>7. Others(u)  BY <1>2, <1>4 DEF Others, Same, OtherBoxes
<1>8. QED  BY <1>2, <1>3, <1>4, <1>6, <1>7

LEMMA NetReleaseEffect ==
    ASSUME TypeOK, NEW u \in Ues, NetRelease(u)
    PROVE  /\ TypeOK' /\ fate = "run" /\ u \in active /\ pc[u] # "ended" /\ net[u].up
           /\ UNCHANGED <<fate, mode, active, used, pc, sess, cmd, link, vrf, rules, route>>
           /\ Others(u) /\ ~net'[u].up /\ net'[u].gnb = net[u].gnb /\ net'[u].ul = 0
           /\ SentOne(u, Release) \/ Inserted(u, Release)
<1>1. NetOK /\ BoxesOK  BY TypeParts
<1>2. /\ fate = "run" /\ u \in active /\ pc[u] # "ended" /\ net[u].up /\ nnet' = nnet + 1
      /\ UNCHANGED <<fate, mode, active, used, pc, sess, cmd, link, vrf, rules, route>>
  BY DEF NetRelease, Acts, hostVars
<1>3. PICK r : r = [net[u] EXCEPT !.up = FALSE, !.ul = 0]  OBVIOUS
<1>4. net' = [net EXCEPT ![u] = r]  BY <1>3, Zenon DEF NetRelease
<1>5. net[u] \in NetRec  BY <1>1 DEF NetOK
<1>6. r \in NetRec /\ ~r.up /\ r.gnb = net[u].gnb /\ r.ul = 0  BY ONLY <1>3, <1>5, NetEnds
<1>7. NetOK' /\ net'[u] = r /\ \A v \in Ues : v # u => net'[v] = net[v]
  BY ONLY <1>1, <1>2, <1>4, <1>6, u \in Ues DEF NetOK
<1>8. BoxesOK' /\ OtherBoxes(u) /\ (SentOne(u, Release) \/ Inserted(u, Release))
  <2>1. CASE ToUe(u, <<Release>>)  BY ONLY <2>1, <1>1, u \in Ues, SendOne, Messages
  <2>2. CASE LET n == Len(inbox[u]) IN
               /\ n > 0 /\ inbox[u][n].type = "setup"
               /\ inbox' = [inbox EXCEPT ![u] = SubSeq(@, 1, n - 1) \o <<Release, @[n]>>]
    <3>1. PICK n : n = Len(inbox[u])  OBVIOUS
    <3>2. /\ n > 0 /\ inbox[u][n].type = "setup"
          /\ inbox' = [inbox EXCEPT ![u] = SubSeq(@, 1, n - 1) \o <<Release, @[n]>>]
      BY <2>2, <3>1, Zenon
    <3>3. Release \in MsgRec  BY ONLY Messages
    <3>4. QED  BY ONLY <3>1, <3>2, <3>3, <1>1, u \in Ues, Insert, Zenon
  <2>3. QED  BY <2>1, <2>2, Zenon DEF NetRelease
<1>9. TypeOK'
  BY ONLY TypeOK, <1>2, <1>7, <1>8 DEF TypeOK, NetOK, BoxesOK
<1>10. Others(u)  BY ONLY <1>2, <1>7, <1>8 DEF Others, Same, OtherBoxes
<1>11. QED  BY ONLY <1>2, <1>6, <1>7, <1>8, <1>9, <1>10

\* The rules after RuleDel of one of them: some of those there were, and all the others.
LEMMA Least ==
    ASSUME NEW T, T \subseteq Nat, T # {}
    PROVE  \E x \in T : \A y \in T : x <= y
<1>1. PICK R : R = OpToRel(<, Nat)  OBVIOUS
<1>2. IsWellFoundedOn(R, Nat)  BY <1>1, NatLessThanWellFounded
<1>3. PICK x \in T : \A y \in T : ~(<<y, x>> \in R)  BY ONLY <1>2, T \subseteq Nat, T # {}, WFMin
<1>4. ASSUME NEW y \in T PROVE x <= y
  <2>1. ~(<<y, x>> \in R) /\ x \in Nat /\ y \in Nat  BY <1>3
  <2>2. ~(y < x)
    <3>1. SUFFICES ASSUME y < x PROVE FALSE  OBVIOUS
    <3>2. <<y, x>> \in OpToRel(<, Nat)  BY <2>1, <3>1 DEF OpToRel
    <3>3. QED  BY <1>1, <2>1, <3>2
  <2>3. QED  BY <2>1, <2>2
<1>5. QED  BY <1>4

RuleRec == [src : Ues, table : Teids]
RulesOK == rules \in Seq(RuleRec)
AllOf(q)     == \A i \in 1..Len(q) : \E j \in 1..Len(rules) : rules[j] = q[i]
AllBut(q, r) == \A j \in 1..Len(rules) : rules[j] # r => \E i \in 1..Len(q) : q[i] = rules[j]
LEMMA Removed ==
    ASSUME RulesOK, NEW u, NEW t, NEW q, q = Without(u, t)
    PROVE  q \in Seq(RuleRec) /\ Len(q) \in Nat /\ AllOf(q) /\ AllBut(q, Rule(u, t))
<1> DEFINE S == {i \in DOMAIN rules : rules[i] = Rule(u, t)}
           k == CHOOSE i \in S : \A j \in S : i <= j
           n == Len(rules) - 1
<1>1. /\ Len(rules) \in Nat /\ DOMAIN rules = 1..Len(rules)
      /\ \A i \in 1..Len(rules) : rules[i] \in RuleRec
  BY DEF RulesOK
<1>2. CASE S = {}
  <2>1. q = rules  BY <1>2 DEF Without
  <2>2. QED  BY <2>1, <1>1 DEF RulesOK, AllOf, AllBut
<1>3. CASE S # {}
  <2>1. S \subseteq Nat  BY <1>1
  <2>2. \E x \in S : \A y \in S : x <= y  BY ONLY <1>3, <2>1, Least, Zenon
  <2>3. k \in S  BY ONLY <2>2, Zenon
  <2>4. k \in 1..Len(rules) /\ rules[k] = Rule(u, t)  BY ONLY <2>3, <1>1
  <2>5. q = [i \in 1..n |-> IF i < k THEN rules[i] ELSE rules[i + 1]]  BY <1>3, Zenon DEF Without
  <2> HIDE DEF k, S
  <2>6. n \in Nat  BY <1>1, <2>4
  <2>7. \A i \in 1..n : (IF i < k THEN rules[i] ELSE rules[i + 1]) \in RuleRec
    BY <1>1, <2>4, <2>6
  <2>8. q \in Seq(RuleRec) /\ Len(q) = n  BY ONLY <2>5, <2>6, <2>7
  <2>9. \A i \in 1..n : q[i] = IF i < k THEN rules[i] ELSE rules[i + 1]  BY <2>5
  <2>10. ASSUME NEW i \in 1..n PROVE \E j \in 1..Len(rules) : rules[j] = q[i]
    <3>1. CASE i < k  BY <3>1, <2>9, <1>1, <2>4
    <3>2. CASE ~(i < k)  BY <3>2, <2>9, <1>1, <2>4
    <3>3. QED  BY <3>1, <3>2
  <2>11. ASSUME NEW j \in 1..Len(rules), rules[j] # Rule(u, t) PROVE \E i \in 1..n : q[i] = rules[j]
    <3>1. j # k  BY <2>11, <2>4
    <3>2. CASE j < k  BY <3>2, <2>9, <1>1, <2>4
    <3>3. CASE j > k
      <4>1. j - 1 \in 1..n /\ ~(j - 1 < k) /\ j - 1 + 1 = j  BY <3>3, <1>1, <2>4
      <4>2. q[j - 1] = rules[j]  BY <4>1, <2>9
      <4>3. QED  BY <4>1, <4>2
    <3>4. QED  BY <3>1, <3>2, <3>3, <1>1, <2>4
  <2>12. QED  BY <2>6, <2>8, <2>10, <2>11 DEF AllOf, AllBut
<1>4. QED  BY <1>2, <1>3

\* What the session of u has after its update, by field.
SameSess(u)  == /\ sess'[u].up = sess[u].up /\ sess'[u].ip = sess[u].ip
                /\ sess'[u].rule = sess[u].rule /\ sess'[u].vrf = sess[u].vrf
OtherSess(u) == \A v \in Ues : v # u => sess'[v] = sess[v]

LEMMA SetSess ==
    ASSUME SessOK, NEW u \in Ues, NEW s \in SessRec, sess' = [sess EXCEPT ![u] = s]
    PROVE  SessOK' /\ sess'[u] = s /\ OtherSess(u)
BY DEF SessOK, OtherSess

LEMMA SetPc ==
    ASSUME PcOK, NEW u \in Ues, NEW a \in {"loop", "spawn", "rules", "stop", "ended"},
           pc' = [pc EXCEPT ![u] = a]
    PROVE  PcOK' /\ pc'[u] = a /\ \A v \in Ues : v # u => pc'[v] = pc[v]
BY DEF PcOK

LEMMA StopKept ==
    ASSUME StopOK, Len(cmd) \in Nat, NEW u \in Ues, OtherSess(u),
           Len(cmd') \in Nat, Len(cmd) <= Len(cmd'), sess'[u].stop \in 0..Len(cmd')
    PROVE  StopOK'
<1>1. ASSUME NEW v \in Ues PROVE sess'[v].stop \in 0..Len(cmd')
  <2>1. CASE v = u  BY <2>1
  <2>2. CASE v # u  BY <2>2 DEF StopOK, OtherSess
  <2>3. QED  BY <2>1, <2>2
<1>2. QED  BY <1>1 DEF StopOK

LEMMA AcceptEffect ==
    ASSUME TypeOK, NEW u \in Ues, HandleAccept(u)
    PROVE  /\ TypeOK' /\ fate = "run" /\ pc[u] = "loop" /\ Taken(u) /\ inbox[u][1].type = "accept"
           /\ UNCHANGED <<mode, active, net, used, nnet, pc, cmd, link, vrf, rules, route>>
           /\ Others(u) /\ fate' = IF sess[u].up THEN fate ELSE "fatal"
           /\ sess'[u].up = sess[u].up /\ (sess[u].up => sess'[u].ip = Ipv4(u))
           /\ (~sess[u].up => sess'[u] = sess[u])
           /\ sess'[u].gnb = sess[u].gnb /\ sess'[u].ul = sess[u].ul
           /\ sess'[u].stop = sess[u].stop /\ sess'[u].tun = sess[u].tun
           /\ sess'[u].rule = sess[u].rule /\ sess'[u].vrf = sess[u].vrf
<1>1. SessOK /\ BoxesOK /\ StopOK /\ Len(cmd) \in Nat  BY TypeParts
<1>2. /\ Receives(u, "accept") /\ fate' = IF sess[u].up THEN fate ELSE "fatal"
      /\ UNCHANGED <<mode, active, net, used, nnet, pc, cmd, link, vrf, rules, route>>
  BY DEF HandleAccept, netVars, hostVars
<1>3. /\ BoxesOK' /\ OtherBoxes(u) /\ Taken(u) /\ fate = "run" /\ pc[u] = "loop"
      /\ inbox[u][1].type = "accept"
  BY <1>1, <1>2, Receive
<1>4. sess[u] \in SessRec  BY <1>1 DEF SessOK
<1>5. PICK a : a = IF sess[u].up THEN Ipv4(u) ELSE sess[u].ip  OBVIOUS
<1>6. a \in {NoIp} \cup {Ipv4(v) : v \in Ues}  BY <1>4, <1>5 DEF SessRec
<1>7. PICK s : s = [sess[u] EXCEPT !.ip = a]  OBVIOUS
<1>8. /\ s \in SessRec /\ s.up = sess[u].up /\ s.ip = a /\ s.gnb = sess[u].gnb
      /\ s.ul = sess[u].ul /\ s.qfi = sess[u].qfi
      /\ s.stop = sess[u].stop /\ s.tun = sess[u].tun /\ s.rule = sess[u].rule
      /\ s.vrf = sess[u].vrf /\ (a = sess[u].ip => s = sess[u])
  BY ONLY <1>4, <1>6, <1>7, IpSet
<1>9. sess' = [sess EXCEPT ![u] = s]  BY <1>5, <1>7 DEF HandleAccept
<1>10. SessOK' /\ sess'[u] = s /\ OtherSess(u)  BY ONLY <1>1, <1>8, <1>9, u \in Ues, SetSess
<1>11. StopOK'
  <2>1. sess[u].stop \in 0..Len(cmd)  BY <1>1 DEF StopOK
  <2>2. QED  BY ONLY <1>1, <1>2, <1>8, <1>10, <2>1, u \in Ues, StopKept
<1>12. TypeOK'  BY ONLY TypeOK, <1>2, <1>3, <1>10, <1>11 DEF TypeOK, SessOK, StopOK, BoxesOK
<1>13. Others(u)  BY <1>2, <1>3, <1>10 DEF Others, Same, OtherBoxes, OtherSess
<1>14. (sess[u].up => a = Ipv4(u)) /\ (~sess[u].up => a = sess[u].ip)  BY <1>5
<1>15. QED  BY <1>2, <1>3, <1>8, <1>10, <1>12, <1>13, <1>14

LEMMA SkippedEffect ==
    ASSUME TypeOK, NEW u \in Ues, SetupSkipped(u)
    PROVE  /\ TypeOK' /\ fate = "run" /\ pc[u] = "loop" /\ Taken(u) /\ inbox[u][1].type = "setup"
           /\ UNCHANGED <<fate, mode, active, net, used, nnet, pc, cmd, link, vrf, rules, route>>
           /\ Others(u) /\ ~TunnelWanted(u, inbox[u][1])
           /\ inbox[u][1] \in MsgRec
           /\ SameSess(u) /\ sess'[u].gnb = sess[u].gnb /\ sess'[u].stop = sess[u].stop
           /\ sess'[u].tun = sess[u].tun
           /\ \/ sess'[u] = sess[u] /\ ~(sess[u].up /\ inbox[u][1].id = 1)
              \/ sess[u].up /\ inbox[u][1].id = 1 /\ sess'[u].ul = inbox[u][1].ul
<1>1. SessOK /\ BoxesOK /\ StopOK /\ Len(cmd) \in Nat  BY TypeParts
<1>2. PICK m : m = Head(inbox[u])  OBVIOUS
<1>3. /\ Receives(u, "setup") /\ ~TunnelWanted(u, m)
      /\ sess' = [sess EXCEPT ![u] = IF @.up /\ m.id = 1 THEN StoreSetup(@, m) ELSE @]
      /\ UNCHANGED <<fate, mode, active, net, used, nnet, pc, cmd, link, vrf, rules, route>>
  BY <1>2 DEF SetupSkipped, netVars, hostVars
<1>4. /\ BoxesOK' /\ OtherBoxes(u) /\ Taken(u) /\ fate = "run" /\ pc[u] = "loop"
      /\ m = inbox[u][1] /\ m \in MsgRec /\ m.type = "setup"
  BY ONLY <1>1, <1>2, <1>3, u \in Ues, Receive
<1>5. sess[u] \in SessRec  BY <1>1 DEF SessOK
<1>6. PICK s : s = IF sess[u].up /\ m.id = 1 THEN StoreSetup(sess[u], m) ELSE sess[u]  OBVIOUS
<1>7. /\ s \in SessRec /\ s.up = sess[u].up /\ s.ip = sess[u].ip /\ s.gnb = sess[u].gnb
      /\ s.stop = sess[u].stop /\ s.tun = sess[u].tun /\ s.rule = sess[u].rule
      /\ s.vrf = sess[u].vrf
      /\ \/ s = sess[u] /\ ~(sess[u].up /\ m.id = 1)
         \/ sess[u].up /\ m.id = 1 /\ s.ul = m.ul
  <2>1. CASE sess[u].up /\ m.id = 1
    <3>1. s = StoreSetup(sess[u], m)  BY <2>1, <1>6
    <3>2. QED  BY ONLY <2>1, <3>1, <1>4, <1>5, Stored
  <2>2. CASE ~(sess[u].up /\ m.id = 1)  BY ONLY <2>2, <1>5, <1>6
  <2>3. QED  BY ONLY <2>1, <2>2
<1>8. sess' = [sess EXCEPT ![u] = s]  BY ONLY <1>3, <1>6
<1>9. SessOK' /\ sess'[u] = s /\ OtherSess(u)  BY ONLY <1>1, <1>7, <1>8, u \in Ues, SetSess
<1>10. StopOK'
  <2>1. sess[u].stop \in 0..Len(cmd)  BY <1>1 DEF StopOK
  <2>2. QED  BY ONLY <1>1, <1>3, <1>7, <1>9, <2>1, u \in Ues, StopKept
<1>11. TypeOK'  BY ONLY TypeOK, <1>3, <1>4, <1>9, <1>10 DEF TypeOK, SessOK, StopOK, BoxesOK
<1>12. Others(u)  BY ONLY <1>3, <1>4, <1>9 DEF Others, Same, OtherBoxes, OtherSess
<1>13. SameSess(u)  BY ONLY <1>7, <1>9 DEF SameSess
<1>14. QED  BY ONLY <1>3, <1>4, <1>7, <1>9, <1>11, <1>12, <1>13

LEMMA DeleteLink ==
    ASSUME LinkOK, Links, route \in [Teids -> Nat], NEW u \in Ues, CmdDel(u)
    PROVE  /\ LinkOK' /\ Links' /\ link'[u] = NoLink /\ \A v \in Ues : v # u => link'[v] = link[v]
           /\ route' \in [Teids -> Nat]
           /\ \A t \in Teids : route'[t] = IF route[t] = link[u].id THEN 0 ELSE route[t]
<1>1. link' = [link EXCEPT ![u] = NoLink] /\ DOMAIN link = Ues  BY DEF CmdDel, LinkOK
<1>2. link'[u] = NoLink /\ DOMAIN link' = Ues /\ \A v \in Ues : v # u => link'[v] = link[v]
  BY <1>1
<1>3. NoLink.id = 0 /\ NoLink = [id |-> 0, rules |-> NoRules]  BY DEF NoLink
<1>4. ASSUME NEW v \in Ues
      PROVE  link'[v].id \in Nat /\ \E i \in Nat : \E r : link'[v] = [id |-> i, rules |-> r]
  <2>1. CASE v = u
    <3>1. link'[v] = [id |-> 0, rules |-> NoRules]  BY <2>1, <1>2, <1>3
    <3>2. \E i \in Nat : \E r : link'[v] = [id |-> i, rules |-> r]
      <4>1. 0 \in Nat  OBVIOUS
      <4>2. QED  BY <3>1, <4>1, Zenon
    <3>3. link'[v].id \in Nat  BY ONLY <3>1
    <3>4. QED  BY ONLY <3>2, <3>3, Zenon
  <2>2. CASE v # u  BY <2>2, <1>2 DEF LinkOK, Links
  <2>3. QED  BY <2>1, <2>2
<1>5. LinkOK' /\ Links'  BY <1>2, <1>4 DEF LinkOK, Links
<1>6. /\ route' \in [Teids -> Nat]
      /\ \A t \in Teids : route'[t] = IF route[t] = link[u].id THEN 0 ELSE route[t]
  BY DEF CmdDel
<1>7. QED  BY <1>2, <1>5, <1>6

LEMMA InterfaceEffect ==
    ASSUME TypeOK, Links, NEW u \in Ues, SetupGtpInterface(u)
    PROVE  /\ TypeOK' /\ Links' /\ fate = "run" /\ pc[u] = "loop" /\ Taken(u)
           /\ inbox[u][1] \in MsgRec /\ Setup1(inbox[u][1]) /\ sess[u].up /\ mode # "disabled"
           /\ UNCHANGED <<fate, mode, active, net, used, nnet, vrf, rules>>
           /\ Others(u) /\ SameSess(u) /\ sess'[u].gnb = inbox[u][1].gnb
           /\ sess'[u].ul = inbox[u][1].ul
           /\ sess'[u].stop = sess[u].stop /\ sess'[u].tun = sess[u].tun
           /\ link'[u] = NoLink /\ pc'[u] = "spawn"
           /\ \A t \in Teids : route'[t] = IF route[t] = link[u].id THEN 0 ELSE route[t]
           /\ IF sess[u].stop = 0 THEN cmd' = cmd ELSE Signalled(sess[u].stop)
<1>1. /\ SessOK /\ BoxesOK /\ StopOK /\ CmdOK /\ LinkOK /\ PcOK /\ Len(cmd) \in Nat
      /\ route \in [Teids -> Nat]
  BY TypeParts DEF HostOK
<1>2. PICK m : m = Head(inbox[u])  OBVIOUS
<1>3. /\ Receives(u, "setup") /\ TunnelWanted(u, m)
      /\ sess' = [sess EXCEPT ![u] = SetGnbIp(StoreSetup(@, m), m.gnb)]
      /\ CmdDel(u) /\ CloseStop(u) /\ pc' = [pc EXCEPT ![u] = "spawn"]
      /\ UNCHANGED <<fate, mode, active, net, used, nnet, vrf, rules>>
  BY <1>2 DEF SetupGtpInterface, netVars
<1>4. /\ BoxesOK' /\ OtherBoxes(u) /\ Taken(u) /\ fate = "run" /\ pc[u] = "loop"
      /\ m = inbox[u][1] /\ m \in MsgRec /\ m.type = "setup"
  BY ONLY <1>1, <1>2, <1>3, u \in Ues, Receive
<1>5. sess[u].up /\ mode # "disabled" /\ Setup1(m)  BY <1>3, <1>4 DEF TunnelWanted, Setup1
<1>6. sess[u] \in SessRec /\ sess[u].stop \in 0..Len(cmd)  BY <1>1 DEF SessOK, StopOK
<1>7. PICK r : r = StoreSetup(sess[u], m)  OBVIOUS
<1>8. /\ r \in SessRec /\ r.up = sess[u].up /\ r.ip = sess[u].ip /\ r.ul = m.ul
      /\ r.stop = sess[u].stop /\ r.tun = sess[u].tun /\ r.rule = sess[u].rule
      /\ r.vrf = sess[u].vrf
  BY ONLY <1>4, <1>6, <1>7, Stored
<1>9. m.gnb \in Gnbs \cup {0}  BY <1>4 DEF MsgRec
<1>10. PICK s : s = SetGnbIp(r, m.gnb)  OBVIOUS
<1>11. /\ s \in SessRec /\ s.up = r.up /\ s.ip = r.ip /\ s.ul = r.ul /\ s.gnb = m.gnb
       /\ s.stop = r.stop /\ s.tun = r.tun /\ s.rule = r.rule /\ s.vrf = r.vrf
  BY ONLY <1>8, <1>9, <1>10, GnbSet
<1>12. sess' = [sess EXCEPT ![u] = s]  BY ONLY <1>3, <1>7, <1>10
<1>13. SessOK' /\ sess'[u] = s /\ OtherSess(u)  BY ONLY <1>1, <1>11, <1>12, u \in Ues, SetSess
<1>14. PcOK' /\ pc'[u] = "spawn" /\ \A v \in Ues : v # u => pc'[v] = pc[v]
  BY ONLY <1>1, <1>3, u \in Ues, SetPc
<1>15. /\ LinkOK' /\ Links' /\ link'[u] = NoLink /\ \A v \in Ues : v # u => link'[v] = link[v]
       /\ route' \in [Teids -> Nat]
       /\ \A t \in Teids : route'[t] = IF route[t] = link[u].id THEN 0 ELSE route[t]
  BY ONLY <1>1, <1>3, Links, u \in Ues, DeleteLink
<1>16. /\ CmdOK' /\ Len(cmd') = Len(cmd)
       /\ IF sess[u].stop = 0 THEN cmd' = cmd ELSE Signalled(sess[u].stop)
  <2>1. CASE sess[u].stop = 0  BY ONLY <2>1, <1>1, <1>3 DEF CloseStop, CmdOK
  <2>2. CASE sess[u].stop # 0
    <3>1. PICK p \in Cmds : p = sess[u].stop  BY <2>2, <1>1, <1>6 DEF Cmds
    <3>2. cmd' = [cmd EXCEPT ![p].told = "yes"]  BY ONLY <2>2, <1>3, <3>1 DEF CloseStop
    <3>3. CmdOK' /\ Signalled(p)  BY ONLY <1>1, <3>2, p \in Cmds, CloseCmd
    <3>4. QED  BY ONLY <2>2, <3>1, <3>3 DEF Signalled
  <2>3. QED  BY ONLY <2>1, <2>2
<1>17. StopOK'  BY ONLY <1>1, <1>6, <1>8, <1>11, <1>13, <1>16, u \in Ues, StopKept
<1>18. TypeOK'
  BY ONLY TypeOK, <1>3, <1>4, <1>13, <1>14, <1>15, <1>16, <1>17
     DEF TypeOK, SessOK, StopOK, BoxesOK, PcOK, CmdOK, LinkOK
<1>19. Others(u)
  BY ONLY <1>3, <1>4, <1>13, <1>14, <1>15 DEF Others, Same, OtherBoxes, OtherSess
<1>20. SameSess(u)  BY ONLY <1>8, <1>11, <1>13 DEF SameSess
<1>21. QED
  BY ONLY <1>3, <1>4, <1>5, <1>8, <1>11, <1>13, <1>14, <1>15, <1>16, <1>18, <1>19, <1>20

LEMMA StartEffect ==
    ASSUME TypeOK, Links, NEW u \in Ues, Named(u), SetupStart(u)
    PROVE  /\ TypeOK' /\ fate = "run" /\ pc[u] = "spawn" /\ pc'[u] = "rules"
           /\ ~Closing(u) \/ "slow" \in Races
           /\ UNCHANGED <<fate, mode, active, net, used, nnet, inbox, link, vrf, rules, route>>
           /\ Others(u) /\ Grown(u, sess[u].gnb) /\ sess[u].gnb \in Gnbs
           /\ SameSess(u) /\ sess'[u].gnb = sess[u].gnb /\ sess'[u].ul = sess[u].ul
           /\ sess'[u].stop = Len(cmd) + 1 /\ sess'[u].tun = sess[u].tun
<1>1. SessOK /\ StopOK /\ CmdOK /\ PcOK /\ Len(cmd) \in Nat  BY TypeParts
<1>2. /\ fate = "run" /\ pc[u] = "spawn" /\ (~Closing(u) \/ "slow" \in Races)
      /\ cmd' = Append(cmd, [ue |-> u, gnb |-> sess[u].gnb, at |-> "start", told |-> "no"])
      /\ sess' = [sess EXCEPT ![u].stop = Len(cmd) + 1]
      /\ pc' = [pc EXCEPT ![u] = "rules"]
      /\ UNCHANGED <<fate, mode, active, net, used, nnet, inbox, link, vrf, rules, route>>
  BY DEF SetupStart, netVars
<1>3. sess[u].gnb \in Gnbs  BY <1>2 DEF Named
<1>4. CmdOK' /\ Grown(u, sess[u].gnb)  BY ONLY <1>1, <1>2, <1>3, u \in Ues, AddCmd
<1>5. Len(cmd') = Len(cmd) + 1  BY ONLY <1>4 DEF Grown
<1>6. sess[u] \in SessRec  BY <1>1 DEF SessOK
<1>7. PICK s : s = [sess[u] EXCEPT !.stop = Len(cmd) + 1]  OBVIOUS
<1>8. Len(cmd) + 1 \in Nat  BY <1>1
<1>9. /\ s \in SessRec /\ s.up = sess[u].up /\ s.ip = sess[u].ip /\ s.gnb = sess[u].gnb
      /\ s.ul = sess[u].ul /\ s.stop = Len(cmd) + 1 /\ s.tun = sess[u].tun
      /\ s.rule = sess[u].rule /\ s.vrf = sess[u].vrf
  BY ONLY <1>6, <1>7, <1>8, StopSet
<1>10. sess' = [sess EXCEPT ![u] = s]  BY ONLY <1>2, <1>7
<1>11. SessOK' /\ sess'[u] = s /\ OtherSess(u)  BY ONLY <1>1, <1>9, <1>10, u \in Ues, SetSess
<1>12. PcOK' /\ pc'[u] = "rules" /\ \A v \in Ues : v # u => pc'[v] = pc[v]
  BY ONLY <1>1, <1>2, u \in Ues, SetPc
<1>13. StopOK'
  <2>1. sess'[u].stop \in 0..Len(cmd') /\ Len(cmd') \in Nat /\ Len(cmd) <= Len(cmd')
    BY <1>1, <1>5, <1>9, <1>11
  <2>2. QED  BY ONLY <1>1, <1>11, <2>1, u \in Ues, StopKept
<1>14. TypeOK'
  BY ONLY TypeOK, <1>2, <1>4, <1>11, <1>12, <1>13 DEF TypeOK, SessOK, StopOK, PcOK, CmdOK
<1>15. Others(u)  BY ONLY <1>2, <1>11, <1>12 DEF Others, Same, OtherSess
<1>16. SameSess(u)  BY ONLY <1>9, <1>11 DEF SameSess
<1>17. QED  BY ONLY <1>2, <1>3, <1>4, <1>9, <1>11, <1>12, <1>14, <1>15, <1>16

\* A rule is added, or one of those of u is taken out.
RuleAdded(r) ==
    /\ \E i \in 1..Len(rules') : rules'[i] = r
    /\ \A i \in 1..Len(rules') : rules'[i] = r \/ \E j \in 1..Len(rules) : rules[j] = rules'[i]
    /\ \A j \in 1..Len(rules) : \E i \in 1..Len(rules') : rules'[i] = rules[j]
RuleRemoved(r) ==
    /\ \A i \in 1..Len(rules') : \E j \in 1..Len(rules) : rules[j] = rules'[i]
    /\ \A j \in 1..Len(rules) : rules[j] # r => \E i \in 1..Len(rules') : rules'[i] = rules[j]

LEMMA AddRule ==
    ASSUME RulesOK, NEW u \in Ues, NEW t \in Teids,
           rules' = Append(Without(u, t), Rule(u, t))
    PROVE  RulesOK' /\ RuleAdded(Rule(u, t))
<1>1. PICK q : q = Without(u, t)  OBVIOUS
<1>2. /\ q \in Seq(RuleRec) /\ Len(q) \in Nat
      /\ \A i \in 1..Len(q) : \E j \in 1..Len(rules) : rules[j] = q[i]
      /\ \A j \in 1..Len(rules) : rules[j] # Rule(u, t) => \E i \in 1..Len(q) : q[i] = rules[j]
  <2>1. q \in Seq(RuleRec) /\ Len(q) \in Nat /\ AllOf(q) /\ AllBut(q, Rule(u, t))
    BY ONLY <1>1, RulesOK, Removed, Zenon
  <2>2. QED  BY ONLY <2>1, Zenon DEF AllOf, AllBut
<1>3. PICK r \in RuleRec : r = Rule(u, t)  BY DEF Rule, RuleRec
<1>4. rules' = Append(q, r)  BY <1>1, <1>3
<1>5. /\ rules' \in Seq(RuleRec) /\ Len(rules') = Len(q) + 1 /\ rules'[Len(q) + 1] = r
      /\ \A i \in 1..Len(q) : rules'[i] = q[i]
  BY ONLY <1>2, <1>4, r \in RuleRec
<1>6. Len(q) + 1 \in 1..Len(rules')  BY <1>2, <1>5
<1>7. ASSUME NEW i \in 1..Len(rules')
      PROVE  rules'[i] = r \/ \E j \in 1..Len(rules) : rules[j] = rules'[i]
  <2>1. CASE i = Len(q) + 1  BY <2>1, <1>5
  <2>2. CASE i # Len(q) + 1
    <3>1. i \in 1..Len(q)  BY <2>2, <1>2, <1>5
    <3>2. QED  BY <3>1, <1>2, <1>5
  <2>3. QED  BY <2>1, <2>2
<1>8. ASSUME NEW j \in 1..Len(rules) PROVE \E i \in 1..Len(rules') : rules'[i] = rules[j]
  <2>1. CASE rules[j] = r  BY <2>1, <1>5, <1>6
  <2>2. CASE rules[j] # r
    <3>1. PICK i \in 1..Len(q) : q[i] = rules[j]  BY <2>2, <1>2, <1>3
    <3>2. i \in 1..Len(rules')  BY <1>2, <1>5
    <3>3. QED  BY <3>1, <3>2, <1>5
  <2>3. QED  BY <2>1, <2>2
<1>9. QED  BY <1>3, <1>5, <1>6, <1>7, <1>8 DEF RulesOK, RuleAdded

LEMMA FatalEffect ==
    ASSUME Fatal
    PROVE  /\ fate' = "fatal"
           /\ UNCHANGED <<mode, active, net, used, nnet, inbox, pc, sess, cmd, link, vrf, rules, route>>
BY DEF Fatal, netVars, hostVars

\* The setup has written its rules and routes.
RulesWritten(u) ==
    /\ pc'[u] = "loop" /\ UNCHANGED <<fate, mode, active, net, used, nnet, inbox, cmd>>
    /\ Commands(link[u].id # 0, sess[u])
    /\ \A v \in Ues : v # u =>
          /\ pc'[v] = pc[v] /\ sess'[v] = sess[v] /\ link'[v] = link[v] /\ vrf'[v] = vrf[v]
    /\ link'[u] = [id |-> link[u].id, rules |-> Forwarding(sess[u])]
    /\ sess'[u].up = sess[u].up /\ sess'[u].ip = sess[u].ip /\ sess'[u].gnb = sess[u].gnb
    /\ sess'[u].ul = sess[u].ul /\ sess'[u].stop = sess[u].stop /\ sess'[u].tun = link[u].id
    /\ sess[u].ul \in Teids
    /\ \A t \in Teids : route'[t] = IF t = sess[u].ul THEN link[u].id ELSE route[t]
    /\ IF mode = "tun" THEN RuleAdded(Rule(u, sess[u].ul)) ELSE rules' = rules
    /\ mode = "vrf" => vrf'[u] = sess[u].ul

LEMMA RulesEffect ==
    ASSUME TypeOK, Links, NEW u \in Ues, Named(u), SetupRules(u)
    PROVE  /\ fate = "run" /\ pc[u] = "rules"
           /\ cmd[sess[u].stop].at \in {"wait", "done"} \/ "slow" \in Races
           /\ \/ Fatal /\ ~Commands(link[u].id # 0, sess[u])
              \/ TypeOK' /\ Links' /\ RulesWritten(u)
<1> DEFINE s == sess[u]
<1>1. SessOK /\ StopOK /\ PcOK /\ LinkOK /\ HostOK /\ Len(cmd) \in Nat  BY TypeParts
<1>2. /\ fate = "run" /\ pc[u] = "rules"
      /\ cmd[s.stop].at \in {"wait", "done"} \/ "slow" \in Races
  BY DEF SetupRules
<1>3. s \in SessRec /\ s.ul \in Teids /\ s.stop \in 0..Len(cmd)
  BY <1>1, <1>2 DEF SessOK, StopOK, Named
<1>4. CASE ~Commands(link[u].id # 0, s)  BY <1>2, <1>4 DEF SetupRules
<1>5. CASE Commands(link[u].id # 0, s)
  <2>1. /\ link' = [link EXCEPT ![u].rules = Forwarding(s)]
        /\ rules' = IF mode = "tun" THEN Append(Without(u, s.ul), Rule(u, s.ul)) ELSE rules
        /\ vrf' = IF mode = "vrf" THEN [vrf EXCEPT ![u] = s.ul] ELSE vrf
        /\ route' = [route EXCEPT ![s.ul] = link[u].id]
        /\ sess' = [sess EXCEPT ![u] = IF mode = "tun"
                      THEN [@ EXCEPT !.tun = link[u].id, !.rule = s.ul]
                      ELSE [@ EXCEPT !.tun = link[u].id, !.vrf = s.ul]]
        /\ pc' = [pc EXCEPT ![u] = "loop"]
        /\ UNCHANGED <<fate, mode, active, net, used, nnet, inbox, cmd>>
    BY <1>5, Zenon DEF SetupRules, RouteReplace, netVars
  <2>2. PICK n \in Nat : n = link[u].id  BY <1>1 DEF LinkOK
  <2>3. PICK r : r = IF mode = "tun" THEN [s EXCEPT !.tun = link[u].id, !.rule = s.ul]
                                   ELSE [s EXCEPT !.tun = link[u].id, !.vrf = s.ul]
    OBVIOUS
  <2>4. sess' = [sess EXCEPT ![u] = r]  BY ONLY <2>1, <2>3, Zenon
  <2>5. r = [s EXCEPT !.tun = n, !.rule = s.ul] \/ r = [s EXCEPT !.tun = n, !.vrf = s.ul]
    BY ONLY <2>2, <2>3, Zenon
  <2>6. /\ r \in SessRec /\ r.up = s.up /\ r.ip = s.ip /\ r.gnb = s.gnb /\ r.ul = s.ul
        /\ r.stop = s.stop /\ r.tun = n
    <3>1. PICK z \in SessRec, t \in Teids : z = s /\ t = s.ul  BY ONLY <1>3
    <3>2. r = TunRule(z, n, t) \/ r = TunVrf(z, n, t)
      BY ONLY <2>5, <3>1, Zenon DEF TunRule, TunVrf
    <3>3. /\ r \in SessRec /\ r.up = z.up /\ r.ip = z.ip /\ r.gnb = z.gnb
          /\ r.ul = z.ul /\ r.qfi = z.qfi /\ r.stop = z.stop /\ r.tun = n
      BY ONLY <3>2, z \in SessRec, n \in Nat, t \in Teids, TunSet
    <3>4. QED  BY ONLY <3>1, <3>3, Zenon
  <2>7. SessOK' /\ sess'[u] = r /\ OtherSess(u)  BY ONLY <1>1, <2>4, <2>6, u \in Ues, SetSess
  <2>8. PcOK' /\ pc'[u] = "loop" /\ \A v \in Ues : v # u => pc'[v] = pc[v]
    BY ONLY <1>1, <2>1, u \in Ues, SetPc
  <2>9. StopOK'  BY ONLY <1>1, <1>3, <2>1, <2>6, <2>7, u \in Ues, StopKept
  <2>10. PICK i, x : i \in Nat /\ link[u] = [id |-> i, rules |-> x]  BY DEF Links
  <2>11. /\ link'[u] = [id |-> n, rules |-> Forwarding(s)] /\ DOMAIN link' = Ues
         /\ \A v \in Ues : v # u => link'[v] = link[v]
    <3>1. [link[u] EXCEPT !.rules = Forwarding(s)] = [id |-> i, rules |-> Forwarding(s)]
      BY ONLY <2>10
    <3>2. i = n  BY ONLY <2>2, <2>10
    <3>3. DOMAIN link = Ues  BY <1>1 DEF LinkOK
    <3>4. QED  BY ONLY <2>1, <3>1, <3>2, <3>3, u \in Ues
  <2>12. LinkOK' /\ Links'
    <3>1. ASSUME NEW v \in Ues
          PROVE  link'[v].id \in Nat /\ \E j \in Nat : \E y : link'[v] = [id |-> j, rules |-> y]
      <4>1. CASE v = u
        <5>1. link'[v].id \in Nat  BY ONLY <4>1, <2>11, n \in Nat
        <5>2. \E j \in Nat : \E y : link'[v] = [id |-> j, rules |-> y]
          BY ONLY <4>1, <2>11, n \in Nat, Zenon
        <5>3. QED  BY ONLY <5>1, <5>2, Zenon
      <4>2. CASE v # u  BY <4>2, <1>1, <2>11 DEF LinkOK, Links
      <4>3. QED  BY ONLY <4>1, <4>2, Zenon
    <3>2. QED  BY <3>1, <2>11 DEF LinkOK, Links
  <2>13. /\ RulesOK' /\ IF mode = "tun" THEN RuleAdded(Rule(u, s.ul)) ELSE rules' = rules
    <3>1. RulesOK  BY <1>1 DEF HostOK, RulesOK, RuleRec
    <3>2. CASE mode = "tun"
      <4>1. rules' = Append(Without(u, s.ul), Rule(u, s.ul))  BY ONLY <2>1, <3>2, Zenon
      <4>2. PICK t \in Teids : t = s.ul  BY <1>3
      <4>3. rules' = Append(Without(u, t), Rule(u, t))  BY ONLY <4>1, <4>2, Zenon
      <4>4. RulesOK' /\ RuleAdded(Rule(u, t))
        BY ONLY <3>1, <4>3, u \in Ues, t \in Teids, AddRule
      <4>5. QED  BY ONLY <3>2, <4>2, <4>4, Zenon
    <3>3. CASE mode # "tun"
      <4>1. rules' = rules  BY ONLY <2>1, <3>3, Zenon
      <4>2. QED  BY ONLY <3>1, <3>3, <4>1 DEF RulesOK
    <3>4. QED  BY ONLY <3>2, <3>3
  <2>14. /\ vrf' \in [Ues -> Teids \cup {0}] /\ \A v \in Ues : v # u => vrf'[v] = vrf[v]
         /\ mode = "vrf" => vrf'[u] = s.ul
    <3>1. vrf \in [Ues -> Teids \cup {0}] /\ s.ul \in Teids \cup {0}  BY <1>1, <1>3 DEF HostOK
    <3>2. CASE mode = "vrf"
      <4>1. vrf' = [vrf EXCEPT ![u] = s.ul]  BY ONLY <2>1, <3>2, Zenon
      <4>2. QED  BY ONLY <3>1, <4>1, u \in Ues
    <3>3. CASE mode # "vrf"
      <4>1. vrf' = vrf  BY ONLY <2>1, <3>3, Zenon
      <4>2. QED  BY ONLY <3>1, <3>3, <4>1
    <3>4. QED  BY ONLY <3>2, <3>3
  <2>15. /\ route' \in [Teids -> Nat]
         /\ \A t \in Teids : route'[t] = IF t = s.ul THEN link[u].id ELSE route[t]
    <3>1. route \in [Teids -> Nat]  BY <1>1 DEF HostOK
    <3>2. route' = [route EXCEPT ![s.ul] = n]  BY ONLY <2>1, <2>2, Zenon
    <3>3. QED  BY ONLY <3>1, <3>2, <2>2, <1>3, n \in Nat
  <2>16. TypeOK'
    BY ONLY TypeOK, <2>1, <2>7, <2>8, <2>9, <2>12, <2>13, <2>14, <2>15
       DEF TypeOK, SessOK, StopOK, PcOK, LinkOK, RulesOK, RuleRec
  <2>17. RulesWritten(u)
    <3>1. \A v \in Ues : v # u =>
            /\ pc'[v] = pc[v] /\ sess'[v] = sess[v] /\ link'[v] = link[v] /\ vrf'[v] = vrf[v]
      BY ONLY <2>7, <2>8, <2>11, <2>14 DEF OtherSess
    <3>2. link'[u] = [id |-> link[u].id, rules |-> Forwarding(s)]  BY ONLY <2>2, <2>11, Zenon
    <3>3. /\ sess'[u].up = s.up /\ sess'[u].ip = s.ip /\ sess'[u].gnb = s.gnb
          /\ sess'[u].ul = s.ul /\ sess'[u].stop = s.stop /\ sess'[u].tun = link[u].id
      BY ONLY <2>2, <2>6, <2>7, Zenon
    <3>4. QED
      BY ONLY <1>3, <1>5, <2>1, <2>8, <2>13, <2>14, <2>15, <3>1, <3>2, <3>3, Zenon DEF RulesWritten
  <2>18. QED  BY ONLY <1>2, <2>12, <2>16, <2>17, Zenon
<1>6. QED  BY ONLY <1>4, <1>5, Zenon

\* DeletePduSession frees the slot, or waits for the goroutine to be told.
LEMMA DeleteEffect ==
    ASSUME TypeOK, NEW u \in Ues, DeletePduSession(u)
    PROVE  /\ TypeOK' /\ fate = "run" /\ pc[u] = "loop" /\ Taken(u) /\ inbox[u][1].type = "release"
           /\ UNCHANGED <<fate, mode, active, net, used, nnet, cmd, link, vrf, rules, route>>
           /\ Others(u)
           /\ \/ sess[u].up /\ sess[u].stop # 0 /\ pc'[u] = "stop" /\ sess'[u] = sess[u]
              \/ ~(sess[u].up /\ sess[u].stop # 0) /\ pc'[u] = "loop" /\ sess'[u] = NoSession
<1>1. SessOK /\ BoxesOK /\ StopOK /\ PcOK /\ Len(cmd) \in Nat  BY TypeParts
<1>2. /\ Receives(u, "release")
      /\ UNCHANGED <<fate, mode, active, net, used, nnet, cmd, link, vrf, rules, route>>
  BY DEF DeletePduSession, netVars, hostVars
<1>3. /\ BoxesOK' /\ OtherBoxes(u) /\ Taken(u) /\ fate = "run" /\ pc[u] = "loop"
      /\ inbox[u][1].type = "release"
  BY <1>1, <1>2, Receive
<1>4. CASE sess[u].up /\ sess[u].stop # 0
  <2>1. pc' = [pc EXCEPT ![u] = "stop"] /\ sess' = sess  BY <1>4 DEF DeletePduSession
  <2>2. PcOK' /\ pc'[u] = "stop" /\ \A v \in Ues : v # u => pc'[v] = pc[v]
    BY <1>1, <2>1, SetPc
  <2>3. TypeOK'  BY <1>2, <1>3, <2>1, <2>2 DEF TypeOK, BoxesOK, PcOK
  <2>4. Others(u)  BY <1>2, <1>3, <2>1, <2>2 DEF Others, Same, OtherBoxes
  <2>5. QED  BY <1>2, <1>3, <1>4, <2>1, <2>2, <2>3, <2>4
<1>5. CASE ~(sess[u].up /\ sess[u].stop # 0)
  <2>1. sess' = [sess EXCEPT ![u] = NoSession] /\ pc' = pc
    BY <1>5 DEF DeletePduSession
  <2>2. SessOK' /\ sess'[u] = NoSession /\ OtherSess(u)  BY <1>1, <2>1, SetSess, Blank
  <2>3. StopOK'
    <3>1. sess'[u].stop \in 0..Len(cmd')  BY <1>1, <1>2, <2>2, Blank
    <3>2. QED  BY <1>1, <1>2, <2>2, <3>1, StopKept
  <2>4. TypeOK'  BY <1>2, <1>3, <2>1, <2>2, <2>3 DEF TypeOK, BoxesOK, SessOK, StopOK
  <2>5. Others(u)  BY <1>2, <1>3, <2>1, <2>2 DEF Others, Same, OtherBoxes, OtherSess
  <2>6. QED  BY <1>2, <1>3, <1>5, <2>1, <2>2, <2>4, <2>5
<1>6. QED  BY <1>4, <1>5

LEMMA TerminateEffect ==
    ASSUME TypeOK, Links, NEW u \in Ues, Terminate(u)
    PROVE  /\ TypeOK' /\ Links' /\ fate = "run" /\ u \in active /\ pc[u] = "loop"
           /\ pc'[u] = "ended" /\ inbox'[u] = <<>>
           /\ UNCHANGED <<fate, mode, active, used, nnet, sess, cmd>> /\ Others(u)
           /\ net'[u] = net[u] \/ net'[u] = NetDown(u)
           /\ IF sess[u].up /\ sess[u].tun # 0
                THEN /\ link'[u] = NoLink
                     /\ \A t \in Teids : route'[t] = IF route[t] = link[u].id THEN 0 ELSE route[t]
                ELSE link'[u] = link[u] /\ route' = route
           /\ rules' = rules \/ (sess[u].up /\ sess[u].rule # 0 /\ RuleRemoved(Rule(u, sess[u].rule)))
<1>1. /\ PcOK /\ BoxesOK /\ NetOK /\ LinkOK /\ HostOK /\ RulesOK
      /\ route \in [Teids -> Nat] /\ vrf \in [Ues -> Teids \cup {0}]
  BY TypeParts DEF HostOK, RulesOK, RuleRec
<1>2. /\ fate = "run" /\ u \in active /\ pc[u] = "loop"
      /\ pc' = [pc EXCEPT ![u] = "ended"]
      /\ net' \in {net, [net EXCEPT ![u] = NetDown(u)]}
      /\ inbox' = [inbox EXCEPT ![u] = <<>>]
      /\ IF sess[u].up /\ sess[u].tun # 0 THEN CmdDel(u) ELSE UNCHANGED <<link, route>>
      /\ rules' = IF sess[u].up /\ sess[u].rule # 0 THEN Without(u, sess[u].rule) ELSE rules
      /\ vrf' = IF sess[u].up /\ sess[u].vrf # 0 THEN [vrf EXCEPT ![u] = 0] ELSE vrf
      /\ UNCHANGED <<fate, mode, active, used, nnet, sess, cmd>>
  BY DEF Terminate
<1>3. PcOK' /\ pc'[u] = "ended" /\ \A v \in Ues : v # u => pc'[v] = pc[v]
  BY ONLY <1>1, <1>2, u \in Ues, SetPc
<1>4. BoxesOK' /\ inbox'[u] = <<>> /\ OtherBoxes(u)
  <2>1. <<>> \in Seq(MsgRec)  OBVIOUS
  <2>2. QED  BY ONLY <1>1, <1>2, <2>1, u \in Ues DEF BoxesOK, OtherBoxes
<1>5. /\ NetOK' /\ \A v \in Ues : v # u => net'[v] = net[v]
      /\ net'[u] = net[u] \/ net'[u] = NetDown(u)
  <2>1. NetDown(u) \in NetRec  BY Nums DEF NetDown, NetRec
  <2>2. QED  BY ONLY <1>1, <1>2, <2>1, u \in Ues DEF NetOK
<1>6. /\ LinkOK' /\ Links' /\ \A v \in Ues : v # u => link'[v] = link[v]
      /\ route' \in [Teids -> Nat]
      /\ IF sess[u].up /\ sess[u].tun # 0
           THEN /\ link'[u] = NoLink
                /\ \A t \in Teids : route'[t] = IF route[t] = link[u].id THEN 0 ELSE route[t]
           ELSE link'[u] = link[u] /\ route' = route
  <2>1. CASE sess[u].up /\ sess[u].tun # 0
    <3>1. CmdDel(u)  BY ONLY <1>2, <2>1
    <3>2. /\ LinkOK' /\ Links' /\ link'[u] = NoLink /\ \A v \in Ues : v # u => link'[v] = link[v]
          /\ route' \in [Teids -> Nat]
          /\ \A t \in Teids : route'[t] = IF route[t] = link[u].id THEN 0 ELSE route[t]
      BY ONLY <1>1, <3>1, Links, u \in Ues, DeleteLink
    <3>3. QED  BY ONLY <2>1, <3>2
  <2>2. CASE ~(sess[u].up /\ sess[u].tun # 0)
    <3>1. link' = link /\ route' = route  BY ONLY <1>2, <2>2
    <3>2. LinkOK' /\ Links'  BY <1>1, <3>1 DEF LinkOK, Links
    <3>3. QED  BY ONLY <1>1, <2>2, <3>1, <3>2
  <2>3. QED  BY ONLY <2>1, <2>2
<1>7. /\ RulesOK'
      /\ rules' = rules \/ (sess[u].up /\ sess[u].rule # 0 /\ RuleRemoved(Rule(u, sess[u].rule)))
  <2>1. CASE sess[u].up /\ sess[u].rule # 0
    <3>1. PICK t : t = sess[u].rule  OBVIOUS
    <3>2. PICK q : q = Without(u, t)  OBVIOUS
    <3>3. rules' = q  BY ONLY <1>2, <2>1, <3>1, <3>2, Zenon
    <3>4. q \in Seq(RuleRec) /\ Len(q) \in Nat /\ AllOf(q) /\ AllBut(q, Rule(u, t))
      BY ONLY <1>1, <3>2, Removed, Zenon
    <3>5. RulesOK' /\ RuleRemoved(Rule(u, t))
      BY ONLY <3>3, <3>4, Zenon DEF RulesOK, RuleRemoved, AllOf, AllBut
    <3>6. QED  BY ONLY <2>1, <3>1, <3>5, Zenon
  <2>2. CASE ~(sess[u].up /\ sess[u].rule # 0)
    <3>1. rules' = rules  BY ONLY <1>2, <2>2
    <3>2. QED  BY ONLY <1>1, <3>1 DEF RulesOK
  <2>3. QED  BY ONLY <2>1, <2>2
<1>8. vrf' \in [Ues -> Teids \cup {0}] /\ \A v \in Ues : v # u => vrf'[v] = vrf[v]
  <2>1. CASE sess[u].up /\ sess[u].vrf # 0
    <3>1. vrf' = [vrf EXCEPT ![u] = 0]  BY ONLY <1>2, <2>1
    <3>2. QED  BY ONLY <1>1, <3>1, u \in Ues
  <2>2. CASE ~(sess[u].up /\ sess[u].vrf # 0)
    <3>1. vrf' = vrf  BY ONLY <1>2, <2>2
    <3>2. QED  BY ONLY <1>1, <3>1
  <2>3. QED  BY ONLY <2>1, <2>2
<1>9. TypeOK'
  BY ONLY TypeOK, <1>2, <1>3, <1>4, <1>5, <1>6, <1>7, <1>8
     DEF TypeOK, PcOK, BoxesOK, NetOK, LinkOK, RulesOK, RuleRec
<1>10. Others(u)
  BY ONLY <1>2, <1>3, <1>4, <1>5, <1>6, <1>8 DEF Others, Same, OtherBoxes
<1>11. QED  BY ONLY <1>2, <1>3, <1>4, <1>5, <1>6, <1>7, <1>9, <1>10

LEMMA RestartEffect ==
    ASSUME TypeOK, NEW u \in Ues, Restart(u)
    PROVE  /\ TypeOK' /\ fate = "run" /\ mode \in Loop /\ pc[u] = "ended" /\ pc'[u] = "loop"
           /\ sess'[u] = NoSession /\ net'[u] = NetDown(u)
           /\ UNCHANGED <<fate, mode, active, used, nnet, inbox, cmd, link, vrf, rules, route>>
           /\ Others(u)
<1>1. PcOK /\ SessOK /\ NetOK /\ StopOK /\ Len(cmd) \in Nat  BY TypeParts
<1>2. /\ fate = "run" /\ mode \in Loop /\ pc[u] = "ended"
      /\ pc' = [pc EXCEPT ![u] = "loop"] /\ sess' = [sess EXCEPT ![u] = NoSession]
      /\ net' = [net EXCEPT ![u] = NetDown(u)]
      /\ UNCHANGED <<fate, mode, active, used, nnet, inbox, cmd, link, vrf, rules, route>>
  BY DEF Restart, hostVars
<1>3. PcOK' /\ pc'[u] = "loop" /\ \A v \in Ues : v # u => pc'[v] = pc[v]  BY <1>1, <1>2, SetPc
<1>4. SessOK' /\ sess'[u] = NoSession /\ OtherSess(u)  BY <1>1, <1>2, SetSess, Blank
<1>5. NetOK' /\ net'[u] = NetDown(u) /\ \A v \in Ues : v # u => net'[v] = net[v]
  <2>1. NetDown(u) \in NetRec  BY Nums DEF NetDown, NetRec
  <2>2. QED  BY <1>1, <1>2, <2>1 DEF NetOK
<1>6. StopOK'
  <2>1. sess'[u].stop \in 0..Len(cmd')  BY <1>1, <1>2, <1>4, Blank
  <2>2. QED  BY <1>1, <1>2, <1>4, <2>1, StopKept
<1>7. TypeOK'  BY <1>2, <1>3, <1>4, <1>5, <1>6 DEF TypeOK, PcOK, SessOK, NetOK, StopOK
<1>8. Others(u)  BY <1>2, <1>3, <1>4, <1>5 DEF Others, Same, OtherSess
<1>9. QED  BY <1>2, <1>3, <1>4, <1>5, <1>7, <1>8

LEMMA ListenEffect ==
    ASSUME TypeOK, NEW p \in Cmds, CmdAddListen(p)
    PROVE  /\ fate = "run" /\ cmd[p].at = "start"
           /\ \/ Fatal /\ Bound(cmd[p].gnb)
              \/ /\ TypeOK' /\ Moved(p, "bound")
                 /\ UNCHANGED <<fate, mode, active, net, used, nnet, inbox, pc, sess, link, vrf, rules, route>>
<1>1. CmdOK /\ StopOK  BY TypeParts
<1>2. fate = "run" /\ cmd[p].at = "start"  BY DEF CmdAddListen
<1>3. CASE Bound(cmd[p].gnb)  BY <1>2, <1>3 DEF CmdAddListen
<1>4. CASE ~Bound(cmd[p].gnb)
  <2>1. /\ Goes(p, "bound")
        /\ UNCHANGED <<fate, mode, active, net, used, nnet, inbox, pc, sess, link, vrf, rules, route>>
    BY <1>4 DEF CmdAddListen, netVars
  <2>2. CmdOK' /\ Moved(p, "bound")  BY <1>1, <2>1, MoveCmd
  <2>3. Len(cmd') = Len(cmd)  BY <2>2 DEF Moved
  <2>4. TypeOK'  BY ONLY TypeOK, <2>1, <2>2, <2>3 DEF TypeOK, CmdOK
  <2>5. QED  BY ONLY <1>2, <2>1, <2>2, <2>4
<1>5. QED  BY <1>3, <1>4

LEMMA CreateEffect ==
    ASSUME TypeOK, Links, NEW p \in Cmds, CmdAddCreate(p)
    PROVE  /\ fate = "run" /\ cmd[p].at = "bound" /\ cmd[p].ue \in Ues
           /\ \/ Fatal /\ link[cmd[p].ue].id # 0
              \/ /\ TypeOK' /\ Links' /\ Moved(p, "wait") /\ link[cmd[p].ue].id = 0
                 /\ link'[cmd[p].ue] = [id |-> p, rules |-> NoRules]
                 /\ \A v \in Ues : v # cmd[p].ue => link'[v] = link[v]
                 /\ UNCHANGED <<fate, mode, active, net, used, nnet, inbox, pc, sess, vrf, rules, route>>
<1>1. CmdOK /\ StopOK /\ LinkOK /\ Len(cmd) \in Nat  BY TypeParts
<1>2. fate = "run" /\ cmd[p].at = "bound"  BY DEF CmdAddCreate
<1>3. cmd[p] \in CmdRec /\ p \in Nat  BY <1>1 DEF CmdOK, Cmds
<1>4. PICK u \in Ues : u = cmd[p].ue  BY <1>3 DEF CmdRec
<1>5. CASE link[u].id # 0  BY <1>2, <1>4, <1>5 DEF CmdAddCreate
<1>6. CASE link[u].id = 0
  <2>1. /\ Goes(p, "wait") /\ link' = [link EXCEPT ![u] = [id |-> p, rules |-> NoRules]]
        /\ UNCHANGED <<fate, mode, active, net, used, nnet, inbox, pc, sess, vrf, rules, route>>
    BY <1>4, <1>6 DEF CmdAddCreate, netVars
  <2>2. CmdOK' /\ Moved(p, "wait")  BY ONLY <1>1, <2>1, p \in Cmds, MoveCmd
  <2>3. Len(cmd') = Len(cmd)  BY ONLY <2>2 DEF Moved
  <2>4. PICK l : l = [id |-> p, rules |-> NoRules]  OBVIOUS
  <2>5. DOMAIN link' = Ues /\ link'[u] = l /\ \A v \in Ues : v # u => link'[v] = link[v]
    BY ONLY <2>1, <2>4, <1>1, u \in Ues DEF LinkOK
  <2>6. LinkOK' /\ Links'
    <3>1. ASSUME NEW v \in Ues
          PROVE  link'[v].id \in Nat /\ \E j \in Nat : \E y : link'[v] = [id |-> j, rules |-> y]
      <4>1. CASE v = u
        <5>1. link'[v] = [id |-> p, rules |-> NoRules]  BY ONLY <4>1, <2>4, <2>5
        <5>2. link'[v].id \in Nat  BY ONLY <5>1, <1>3
        <5>3. \E j \in Nat : \E y : link'[v] = [id |-> j, rules |-> y]
          BY ONLY <5>1, <1>3, Zenon
        <5>4. QED  BY ONLY <5>2, <5>3, Zenon
      <4>2. CASE v # u  BY ONLY <4>2, <1>1, <2>5, Links, v \in Ues DEF LinkOK, Links
      <4>3. QED  BY ONLY <4>1, <4>2, Zenon
    <3>2. QED  BY ONLY <3>1, <2>5 DEF LinkOK, Links
  <2>7. TypeOK'  BY ONLY TypeOK, <2>1, <2>2, <2>3, <2>6 DEF TypeOK, CmdOK, LinkOK
  <2>8. QED  BY ONLY <1>2, <1>4, <1>6, <2>1, <2>2, <2>4, <2>5, <2>6, <2>7, Zenon
<1>7. QED  BY <1>4, <1>5, <1>6, Zenon

LEMMA ReturnEffect ==
    ASSUME TypeOK, NEW p \in Cmds, CmdAddReturn(p)
    PROVE  /\ TypeOK' /\ fate = "run" /\ cmd[p].at = "wait" /\ cmd[p].told = "yes"
           /\ Moved(p, "done")
           /\ UNCHANGED <<fate, mode, active, net, used, nnet, inbox, pc, sess, link, vrf, rules, route>>
<1>1. CmdOK /\ StopOK  BY TypeParts
<1>2. /\ fate = "run" /\ cmd[p].at = "wait" /\ cmd[p].told = "yes" /\ Goes(p, "done")
      /\ UNCHANGED <<fate, mode, active, net, used, nnet, inbox, pc, sess, link, vrf, rules, route>>
  BY DEF CmdAddReturn, netVars
<1>3. CmdOK' /\ Moved(p, "done")  BY <1>1, <1>2, MoveCmd
<1>4. Len(cmd') = Len(cmd)  BY <1>3 DEF Moved
<1>5. TypeOK'  BY ONLY TypeOK, <1>2, <1>3, <1>4 DEF TypeOK, CmdOK
<1>6. QED  BY ONLY <1>2, <1>3, <1>5

LEMMA StoppedEffect ==
    ASSUME TypeOK, NEW p \in Cmds, CmdAddStopped(p), NEW u, u = cmd[p].ue
    PROVE  /\ TypeOK' /\ u \in Ues /\ fate = "run" /\ cmd[p].at = "wait"
           /\ pc[u] = "stop" /\ sess[u].stop = p
           /\ Signalled(p) /\ pc'[u] = "loop" /\ sess'[u] = NoSession /\ Others(u)
           /\ UNCHANGED <<fate, mode, active, net, used, nnet, inbox, link, vrf, rules, route>>
<1>1. CmdOK /\ StopOK /\ PcOK /\ SessOK /\ Len(cmd) \in Nat  BY TypeParts
<1>2. cmd[p] \in CmdRec  BY <1>1 DEF CmdOK, Cmds
<1>3. u \in Ues  BY <1>2 DEF CmdRec
<1>4. /\ fate = "run" /\ cmd[p].at = "wait" /\ pc[u] = "stop" /\ sess[u].stop = p
      /\ cmd' = [cmd EXCEPT ![p].told = "yes"] /\ sess' = [sess EXCEPT ![u] = NoSession]
      /\ pc' = [pc EXCEPT ![u] = "loop"]
      /\ UNCHANGED <<fate, mode, active, net, used, nnet, inbox, link, vrf, rules, route>>
  BY DEF CmdAddStopped, netVars
<1>5. CmdOK' /\ Signalled(p)  BY ONLY <1>1, <1>4, p \in Cmds, CloseCmd
<1>6. Len(cmd') = Len(cmd)  BY ONLY <1>5 DEF Signalled
<1>7. PcOK' /\ pc'[u] = "loop" /\ \A v \in Ues : v # u => pc'[v] = pc[v]
  BY ONLY <1>1, <1>3, <1>4, SetPc
<1>8. SessOK' /\ sess'[u] = NoSession /\ OtherSess(u)
  BY ONLY <1>1, <1>3, <1>4, SetSess, Blank
<1>9. StopOK'
  <2>1. sess'[u].stop \in 0..Len(cmd')  BY <1>1, <1>6, <1>8, Blank
  <2>2. QED  BY ONLY <1>1, <1>3, <1>6, <1>8, <2>1, StopKept
<1>10. TypeOK'
  BY ONLY TypeOK, <1>4, <1>5, <1>7, <1>8, <1>9 DEF TypeOK, CmdOK, PcOK, SessOK, StopOK
<1>11. Others(u)  BY ONLY <1>4, <1>7, <1>8 DEF Others, Same, OtherSess
<1>12. QED  BY ONLY <1>3, <1>4, <1>5, <1>7, <1>8, <1>10, <1>11

-----------------------------------------------------------------------------
(* Type correctness.                                                       *)

LEMMA NamedKept ==
    ASSUME TypeInv, NEW v \in Ues, inbox'[v] = inbox[v],
           \/ pc'[v] = pc[v] /\ sess'[v] = sess[v]
           \/ pc'[v] \notin {"spawn", "rules"}
           \/ pc[v] = "spawn" /\ sess'[v].gnb = sess[v].gnb /\ sess'[v].ul = sess[v].ul
    PROVE  Named(v)'
<1>1. Named(v)  BY DEF TypeInv
<1>2. QED  BY <1>1 DEF Named, Msgs

\* Another message is sent to u, or the first one is taken.
LEMMA NamedSent ==
    ASSUME TypeInv, NEW u \in Ues, pc'[u] = pc[u], NEW m,
           SentOne(u, m) \/ Inserted(u, m),
           pc[u] \in {"spawn", "rules"} => sess'[u] = sess[u],
           Setup1(m) => m.gnb \in Gnbs /\ m.ul \in Teids
    PROVE  Named(u)'
<1>1. Named(u) /\ Len(inbox[u]) \in Nat  BY TypeParts DEF TypeInv
<1>2. CASE SentOne(u, m)  BY <1>1, <1>2 DEF Named, Msgs, SentOne
<1>3. CASE Inserted(u, m)
  <2>1. ASSUME NEW i \in 1..Len(inbox'[u]), Setup1(inbox'[u][i])
        PROVE  inbox'[u][i].gnb \in Gnbs /\ inbox'[u][i].ul \in Teids
    <3>1. CASE i = Len(inbox[u])  BY <3>1, <1>3, <2>1 DEF Inserted
    <3>2. CASE i = Len(inbox[u]) + 1  BY <3>2, <1>1, <1>3, <2>1 DEF Inserted, Named, Msgs
    <3>3. CASE i \in 1..Len(inbox[u]) - 1  BY <3>3, <1>1, <1>3, <2>1 DEF Inserted, Named, Msgs
    <3>4. QED  BY <3>1, <3>2, <3>3, <1>1, <1>3 DEF Inserted
  <2>2. QED  BY <2>1, <1>1 DEF Named, Msgs
<1>4. QED  BY <1>2, <1>3

LEMMA NamedTaken ==
    ASSUME TypeInv, NEW u \in Ues, Taken(u),
           pc'[u] = "spawn" => sess'[u].gnb \in Gnbs /\ sess'[u].ul \in Teids, pc'[u] # "rules"
    PROVE  Named(u)'
<1>1. Named(u) /\ Len(inbox[u]) \in Nat  BY TypeParts DEF TypeInv
<1>2. ASSUME NEW i \in 1..Len(inbox'[u]), Setup1(inbox'[u][i])
      PROVE  inbox'[u][i].gnb \in Gnbs /\ inbox'[u][i].ul \in Teids
  <2>1. i + 1 \in 1..Len(inbox[u]) /\ inbox'[u][i] = inbox[u][i + 1]  BY <1>1 DEF Taken
  <2>2. QED  BY <1>1, <1>2, <2>1 DEF Named, Msgs
<1>3. QED  BY <1>2 DEF Named, Msgs

LEMMA TypeUeStep ==
    ASSUME TypeInv, NEW u \in Ues,
           \/ InitPduSessionRequest(u) \/ SetupAgain(u) \/ SetupOther(u)
           \/ NetRelease(u) \/ UeStep(u) \/ Terminate(u) \/ Restart(u)
    PROVE  TypeInv'
<1>1. TypeOK /\ Links /\ \A v \in Ues : Named(v)  BY DEF TypeInv
<1>2. ASSUME TypeOK', Links', Others(u), Named(u)' PROVE TypeInv'
  <2>1. ASSUME NEW v \in Ues, v # u PROVE Named(v)'
    <3>1. Same(v)  BY <1>2, <2>1 DEF Others
    <3>2. QED  BY <3>1, NamedKept DEF Same
  <2>2. QED  BY <1>2, <2>1 DEF TypeInv
<1>3. Links /\ link' = link => Links'  BY DEF Links
<1>4. CASE InitPduSessionRequest(u)
  <2>1. PICK t \in Teids, q \in Qfi : SentTwo(u, Accept, Setup(1, net[u].gnb, t, q))
    BY <1>1, <1>4, InitEffect
  <2>2. TypeOK' /\ Others(u) /\ link' = link /\ pc[u] = "loop" /\ pc' = pc
    BY <1>1, <1>4, InitEffect
  <2>3. net[u].gnb \in Gnbs /\ Len(inbox[u]) \in Nat
    BY <1>1, TypeParts DEF NetOK, NetRec
  <2>4. Named(u)'
    <3>1. PICK m : m = Setup(1, net[u].gnb, t, q)  OBVIOUS
    <3>2. m.gnb \in Gnbs /\ m.ul \in Teids  BY <2>3, <3>1, Messages
    <3>3. ~Setup1(Accept)  BY Messages DEF Setup1
    <3>4. SentTwo(u, Accept, m)  BY <2>1, <3>1
    <3>5. Named(u)  BY <1>1
    <3>6. ASSUME NEW i \in 1..Len(inbox'[u]), Setup1(inbox'[u][i])
          PROVE  inbox'[u][i].gnb \in Gnbs /\ inbox'[u][i].ul \in Teids
      <4>1. CASE i \in 1..Len(inbox[u])  BY <4>1, <3>4, <3>5, <3>6 DEF SentTwo, Named, Msgs
      <4>2. CASE i = Len(inbox[u]) + 1  BY <4>2, <3>3, <3>4, <3>6 DEF SentTwo
      <4>3. CASE i = Len(inbox[u]) + 2  BY <4>3, <3>2, <3>4 DEF SentTwo
      <4>4. QED  BY <4>1, <4>2, <4>3, <2>3, <3>4 DEF SentTwo
    <3>7. QED  BY <3>6, <2>2 DEF Named, Msgs
  <2>5. QED  BY <1>1, <1>2, <1>3, <2>2, <2>4
<1>5. CASE SetupAgain(u)
  <2>1. PICK g \in Gnbs, t \in Teids, q \in Qfi : SentOne(u, Setup(1, g, t, q))
    BY <1>1, <1>5, AgainEffect
  <2>2. TypeOK' /\ Others(u) /\ link' = link /\ pc' = pc /\ sess' = sess
    BY <1>1, <1>5, AgainEffect
  <2>3. Setup(1, g, t, q).gnb \in Gnbs /\ Setup(1, g, t, q).ul \in Teids  BY Messages
  <2>4. Named(u)'  BY <2>1, <2>2, <2>3, NamedSent
  <2>5. QED  BY <1>1, <1>2, <1>3, <2>2, <2>4
<1>6. CASE SetupOther(u)
  <2>1. /\ TypeOK' /\ Others(u) /\ link' = link /\ pc' = pc /\ sess' = sess
        /\ net[u].gnb \in Gnbs /\ SentOne(u, Setup(2, net[u].gnb, 0, 0))
    BY <1>1, <1>6, OtherEffect
  <2>2. ~Setup1(Setup(2, net[u].gnb, 0, 0))  BY <2>1, Messages DEF Setup1
  <2>3. Named(u)'  BY <2>1, <2>2, NamedSent
  <2>4. QED  BY <1>1, <1>2, <1>3, <2>1, <2>3
<1>7. CASE NetRelease(u)
  <2>1. /\ TypeOK' /\ Others(u) /\ link' = link /\ pc' = pc /\ sess' = sess
        /\ SentOne(u, Release) \/ Inserted(u, Release)
    BY <1>1, <1>7, NetReleaseEffect
  <2>2. ~Setup1(Release)  BY Messages DEF Setup1
  <2>3. Named(u)'  BY <2>1, <2>2, NamedSent
  <2>4. QED  BY <1>1, <1>2, <1>3, <2>1, <2>3
<1>8. CASE HandleAccept(u)
  <2>1. TypeOK' /\ Others(u) /\ link' = link /\ pc' = pc /\ pc[u] = "loop" /\ Taken(u)
    BY <1>1, <1>8, AcceptEffect
  <2>2. Named(u)'  BY <2>1, NamedTaken
  <2>3. QED  BY <1>1, <1>2, <1>3, <2>1, <2>2
<1>9. CASE SetupSkipped(u)
  <2>1. TypeOK' /\ Others(u) /\ link' = link /\ pc' = pc /\ pc[u] = "loop" /\ Taken(u)
    BY <1>1, <1>9, SkippedEffect
  <2>2. Named(u)'  BY <2>1, NamedTaken
  <2>3. QED  BY <1>1, <1>2, <1>3, <2>1, <2>2
<1>10. CASE SetupGtpInterface(u)
  <2>1. /\ TypeOK' /\ Links' /\ Others(u) /\ pc'[u] = "spawn" /\ Taken(u) /\ Setup1(inbox[u][1])
        /\ sess'[u].gnb = inbox[u][1].gnb /\ sess'[u].ul = inbox[u][1].ul
    BY <1>1, <1>10, InterfaceEffect
  <2>2. 1 \in Msgs(u)
    <3>1. Len(inbox[u]) \in Nat  BY <1>1, TypeParts
    <3>2. QED  BY <2>1, <3>1 DEF Taken, Msgs
  <2>3. inbox[u][1].gnb \in Gnbs /\ inbox[u][1].ul \in Teids  BY <1>1, <2>1, <2>2 DEF Named
  <2>4. Named(u)'  BY <2>1, <2>3, NamedTaken
  <2>5. QED  BY <1>2, <2>1, <2>4
<1>11. CASE SetupStart(u)
  <2>1. /\ TypeOK' /\ Others(u) /\ link' = link /\ inbox' = inbox /\ pc[u] = "spawn"
        /\ sess'[u].gnb = sess[u].gnb /\ sess'[u].ul = sess[u].ul
    BY <1>1, <1>11, StartEffect
  <2>2. Named(u)'  BY <2>1, NamedKept
  <2>3. QED  BY <1>1, <1>2, <1>3, <2>1, <2>2
<1>12. CASE SetupRules(u)
  <2>1. CASE Fatal
    <3>1. /\ fate' = "fatal"
          /\ UNCHANGED <<mode, active, net, used, nnet, inbox, pc, sess, cmd, link, vrf, rules, route>>
      BY <2>1, FatalEffect
    <3>2. TypeOK'  BY <1>1, <3>1 DEF TypeOK
    <3>3. Others(u)  BY <3>1 DEF Others, Same
    <3>4. Named(u)'  BY <3>1, NamedKept
    <3>5. QED  BY <1>1, <1>2, <1>3, <3>1, <3>2, <3>3, <3>4
  <2>2. CASE TypeOK' /\ Links' /\ RulesWritten(u)
    <3>1. Others(u) /\ inbox' = inbox /\ pc'[u] = "loop"
      BY <2>2 DEF RulesWritten, Others, Same
    <3>2. Named(u)'  BY <3>1, NamedKept
    <3>3. QED  BY <1>2, <2>2, <3>1, <3>2
  <2>3. QED  BY <1>1, <1>12, <2>1, <2>2, RulesEffect
<1>13. CASE DeletePduSession(u)
  <2>1. TypeOK' /\ Others(u) /\ link' = link /\ pc'[u] \in {"stop", "loop"} /\ Taken(u)
    BY <1>1, <1>13, DeleteEffect
  <2>2. Named(u)'  BY <2>1, NamedTaken
  <2>3. QED  BY <1>1, <1>2, <1>3, <2>1, <2>2
<1>14. CASE Terminate(u)
  <2>1. TypeOK' /\ Links' /\ Others(u) /\ pc'[u] = "ended" /\ inbox'[u] = <<>>
    BY <1>1, <1>14, TerminateEffect
  <2>2. Named(u)'  BY <2>1 DEF Named, Msgs
  <2>3. QED  BY <1>2, <2>1, <2>2
<1>15. CASE Restart(u)
  <2>1. TypeOK' /\ Others(u) /\ link' = link /\ pc'[u] = "loop" /\ inbox' = inbox
    BY <1>1, <1>15, RestartEffect
  <2>2. Named(u)'  BY <2>1, NamedKept
  <2>3. QED  BY <1>1, <1>2, <1>3, <2>1, <2>2
<1>16. QED
  BY <1>4, <1>5, <1>6, <1>7, <1>8, <1>9, <1>10, <1>11, <1>12, <1>13, <1>14, <1>15 DEF UeStep

LEMMA TypeCmdStep ==
    ASSUME TypeInv, NEW p \in Cmds, CmdAdd(p)
    PROVE  TypeInv'
<1>1. TypeOK /\ Links /\ \A v \in Ues : Named(v)  BY DEF TypeInv
<1>2. ASSUME TypeOK', Links', inbox' = inbox, pc' = pc, sess' = sess PROVE TypeInv'
  <2>1. ASSUME NEW v \in Ues PROVE Named(v)'  BY <1>2, NamedKept
  <2>2. QED  BY <1>2, <2>1 DEF TypeInv
<1>3. link' = link => Links'  BY <1>1 DEF Links
<1>4. CASE Fatal
  <2>1. /\ fate' = "fatal"
        /\ UNCHANGED <<mode, active, net, used, nnet, inbox, pc, sess, cmd, link, vrf, rules, route>>
    BY <1>4, FatalEffect
  <2>2. TypeOK'  BY <1>1, <2>1 DEF TypeOK
  <2>3. QED  BY <1>2, <1>3, <2>1, <2>2
<1>5. CASE CmdAddListen(p) /\ ~Fatal  BY <1>1, <1>2, <1>3, <1>5, ListenEffect
<1>6. CASE CmdAddCreate(p) /\ ~Fatal  BY <1>1, <1>2, <1>6, CreateEffect
<1>7. CASE CmdAddReturn(p)  BY <1>1, <1>2, <1>3, <1>7, ReturnEffect
<1>8. CASE CmdAddStopped(p)
  <2>1. PICK u : u = cmd[p].ue  OBVIOUS
  <2>2. /\ TypeOK' /\ u \in Ues /\ pc'[u] = "loop" /\ Others(u)
        /\ inbox' = inbox /\ link' = link
    BY <1>1, <1>8, <2>1, StoppedEffect
  <2>3. ASSUME NEW v \in Ues PROVE Named(v)'
    <3>1. CASE v = u  BY <3>1, <2>2, NamedKept
    <3>2. CASE v # u  BY <3>2, <2>2, NamedKept DEF Others, Same
    <3>3. QED  BY <3>1, <3>2
  <2>4. QED  BY <1>3, <2>2, <2>3 DEF TypeInv
<1>9. QED  BY <1>4, <1>5, <1>6, <1>7, <1>8 DEF CmdAdd

LEMMA TypeNext == TypeInv /\ [Next]_vars => TypeInv'
<1> SUFFICES ASSUME TypeInv, [Next]_vars PROVE TypeInv'  OBVIOUS
<1>1. CASE Next
  <2>1. DOMAIN cmd = Cmds
    <3>1. cmd \in Seq(CmdRec)  BY TypeParts DEF TypeInv, CmdOK
    <3>2. QED  BY <3>1 DEF Cmds
  <2>2. QED  BY <1>1, <2>1, TypeUeStep, TypeCmdStep DEF Next
<1>2. CASE UNCHANGED vars
  <2>1. TypeOK' /\ Links'  BY <1>2 DEF vars, netVars, hostVars, TypeInv, TypeOK, Links
  <2>2. ASSUME NEW v \in Ues PROVE Named(v)'  BY <1>2, NamedKept DEF vars
  <2>3. QED  BY <2>1, <2>2 DEF TypeInv
<1>3. QED  BY <1>1, <1>2

LEMMA TypeInit == Init => TypeInv
<1> SUFFICES ASSUME Init PROVE TypeInv  OBVIOUS
<1>1. fate \in {"run", "fatal"} /\ mode \in Modes /\ active \subseteq Ues  BY DEF Init
<1>2. net \in [Ues -> NetRec] /\ used \subseteq Teids /\ nnet \in Nat
  BY Nums DEF Init, NetDown, NetRec
<1>3. inbox \in [Ues -> Seq(MsgRec)] /\ \A u \in Ues : Len(inbox[u]) = 0
  <2>1. <<>> \in Seq(MsgRec) /\ Len(<<>>) = 0  OBVIOUS
  <2>2. QED  BY <2>1 DEF Init
<1>4. pc \in [Ues -> {"loop", "spawn", "rules", "stop", "ended"}] /\ \A u \in Ues : pc[u] = "loop"
  BY DEF Init
<1>5. sess \in [Ues -> SessRec] /\ \A u \in Ues : sess[u].stop = 0  BY Blank DEF Init
<1>6. cmd \in Seq(CmdRec) /\ Len(cmd) = 0
  <2>1. <<>> \in Seq(CmdRec) /\ Len(<<>>) = 0  OBVIOUS
  <2>2. QED  BY <2>1 DEF Init
<1>7. DOMAIN link = Ues /\ \A u \in Ues : link[u] = [id |-> 0, rules |-> NoRules]
  BY DEF Init, NoLink
<1>8. \A u \in Ues : link[u].id \in Nat  BY <1>7
<1>9. Links
  <2>1. 0 \in Nat  OBVIOUS
  <2>2. QED  BY ONLY <1>7, <2>1, Zenon DEF Links
<1>10. vrf \in [Ues -> Teids \cup {0}] /\ route \in [Teids -> Nat]  BY DEF Init
<1>11. rules \in Seq([src : Ues, table : Teids])
  <2>1. rules = <<>>  BY DEF Init
  <2>2. QED  BY ONLY <2>1
<1>12. \A u \in Ues : sess[u].stop \in 0..Len(cmd)  BY <1>5, <1>6
<1>13. TypeOK  BY <1>1, <1>2, <1>3, <1>4, <1>5, <1>6, <1>7, <1>8, <1>10, <1>11, <1>12 DEF TypeOK
<1>14. \A u \in Ues : Named(u)  BY <1>3, <1>4 DEF Named, Msgs
<1>15. QED  BY <1>9, <1>13, <1>14 DEF TypeInv

\* The state has its type: in particular a stopSignal names a goroutine that was started, and
\* what SetupGtpInterface gives to CmdAdd and to the routing tables is an address and a TEID.
THEOREM TypeCorrect == Spec => []TypeOK
<1>1. TypeInv => TypeOK  BY DEF TypeInv
<1>2. QED  BY <1>1, TypeInit, TypeNext, PTL DEF Spec

-----------------------------------------------------------------------------
(* The goroutine a session can stop.                                       *)

CmdSame(v) == Mine(v)' = Mine(v) /\ \A p \in Mine(v) : cmd'[p] = cmd[p]

LEMMA CmdUnchanged == ASSUME cmd' = cmd, NEW v PROVE CmdSame(v)
BY DEF CmdSame, Mine, Cmds

LEMMA CmdOther ==
    ASSUME NEW p \in Cmds, Len(cmd) \in Nat, Len(cmd') = Len(cmd), OtherCmds(p),
           cmd'[p].ue = cmd[p].ue, NEW v, v # cmd[p].ue
    PROVE  CmdSame(v)
<1>1. Cmds' = Cmds  BY DEF Cmds
<1>2. ASSUME NEW q \in Cmds PROVE cmd'[q].ue = v <=> cmd[q].ue = v
  <2>1. CASE q = p  BY <2>1
  <2>2. CASE q # p  BY <2>2 DEF OtherCmds
  <2>3. QED  BY <2>1, <2>2
<1>3. Mine(v)' = Mine(v)  BY <1>1, <1>2 DEF Mine
<1>4. \A q \in Mine(v) : cmd'[q] = cmd[q]  BY DEF Mine, OtherCmds
<1>5. QED  BY <1>3, <1>4 DEF CmdSame

LEMMA CmdGrown ==
    ASSUME Len(cmd) \in Nat, NEW u, NEW g, Grown(u, g), NEW v, v # u
    PROVE  CmdSame(v)
<1>1. Cmds' = Cmds \cup {Len(cmd) + 1} /\ Len(cmd) + 1 \notin Cmds  BY DEF Cmds, Grown
<1>2. \A q \in Cmds : cmd'[q] = cmd[q]  BY DEF Grown
<1>3. cmd'[Len(cmd) + 1].ue # v  BY DEF Grown
<1>4. Mine(v)' = Mine(v)  BY <1>1, <1>2, <1>3 DEF Mine
<1>5. QED  BY <1>2, <1>4 DEF CmdSame, Mine

LEMMA HandledKept ==
    ASSUME NEW v \in Ues, Handled(v), CmdSame(v), mode' = mode,
           sess'[v].up = sess[v].up, sess'[v].stop = sess[v].stop,
           sess[v].up \/ sess'[v] = sess[v],
           \/ pc'[v] = pc[v]
           \/ pc'[v] = "ended"
           \/ pc[v] = "rules" /\ pc'[v] = "loop"
           \/ pc[v] = "loop" /\ pc'[v] = "stop" /\ sess[v].up /\ sess[v].stop # 0
    PROVE  Handled(v)'
<1>1. Place(v) /\ Stops(v) /\ Started(v)  BY DEF Handled
<1>2. mode = "disabled" /\ Mine(v) = {} => sess[v].stop = 0  BY <1>1 DEF Stops
<1>3. Place(v)'
  <2>1. (~sess[v].up => sess[v] = NoSession)'  BY <1>1 DEF Place
  <2>2. (pc[v] \in {"spawn", "rules", "stop"} => sess[v].up /\ mode # "disabled")'
    BY <1>1, <1>2 DEF Place, Started
  <2>3. (pc[v] \in {"rules", "stop"} => sess[v].stop # 0)'  BY <1>1 DEF Place
  <2>4. QED  BY <2>1, <2>2, <2>3 DEF Place
<1>4. Stops(v)'  BY <1>1 DEF Stops, CmdSame
<1>5. Started(v)'  BY <1>1 DEF Started, CmdSame
<1>6. QED  BY <1>3, <1>4, <1>5 DEF Handled

\* Sessions that begin and end while no goroutine of the UE is left to stop.
LEMMA HandledBlank ==
    ASSUME NEW v \in Ues, Handled(v), CmdSame(v), mode' = mode,
           sess'[v] = NoSession \/ sess'[v] = NewSession, pc'[v] = "loop", sess[v].stop = 0
    PROVE  Handled(v)'
<1>1. Place(v) /\ Stops(v) /\ Started(v)  BY DEF Handled
<1>2. sess'[v].stop = 0 /\ (~sess'[v].up => sess'[v] = NoSession)  BY Blank
<1>3. Place(v)' /\ Stops(v)'  BY <1>2 DEF Place, Stops
<1>4. Started(v)'  BY <1>1, <1>2 DEF Started, CmdSame
<1>5. QED  BY <1>3, <1>4 DEF Handled

\* A goroutine of the UE moves on.
LEMMA HandledMoved ==
    ASSUME TypeOK, NEW p \in Cmds, NEW a, Moved(p, a), NEW u \in Ues, u = cmd[p].ue, Handled(u),
           mode' = mode, sess'[u] = sess[u], pc'[u] = pc[u], cmd[p].at # "done",
           a # "done" \/ cmd[p].told = "yes"
    PROVE  Handled(u)'
<1>1. Place(u) /\ Stops(u) /\ Started(u)  BY DEF Handled
<1>2. Mine(u)' = Mine(u) /\ p \in Mine(u)
  <2>1. Cmds' = Cmds  BY DEF Cmds, Moved
  <2>2. \A q \in Cmds : cmd'[q].ue = cmd[q].ue  BY DEF Moved, OtherCmds
  <2>3. QED  BY <2>1, <2>2 DEF Mine
<1>3. \A q \in Mine(u) : cmd'[q].told = cmd[q].told /\ (q # p => cmd'[q] = cmd[q])
  BY DEF Mine, Moved, OtherCmds
<1>4. Place(u)'  BY <1>1 DEF Place
<1>5. Stops(u)'
  <2>1. cmd'[p].at = a  BY DEF Moved
  <2>2. (sess[u].stop # 0 => sess[u].stop \in Mine(u))'  BY <1>1, <1>2 DEF Stops
  <2>3. (sess[u].stop # 0 /\ pc[u] = "spawn" => cmd[sess[u].stop].told = "yes")'
    BY <1>1, <1>3 DEF Stops
  <2>4. (sess[u].stop # 0 /\ pc[u] \notin {"spawn", "ended"} =>
          cmd[sess[u].stop].told = "no" /\ cmd[sess[u].stop].at # "done")'
    <3>1. SUFFICES ASSUME sess[u].stop # 0, pc[u] \notin {"spawn", "ended"}
                   PROVE  cmd'[sess[u].stop].told = "no" /\ cmd'[sess[u].stop].at # "done"
      OBVIOUS
    <3>2. /\ sess[u].stop \in Mine(u) /\ cmd[sess[u].stop].told = "no"
          /\ cmd[sess[u].stop].at # "done"
      BY <1>1, <3>1 DEF Stops
    <3>3. CASE sess[u].stop = p  BY <3>2, <3>3, <1>3, <2>1
    <3>4. CASE sess[u].stop # p  BY <3>2, <3>4, <1>3
    <3>5. QED  BY <3>3, <3>4
  <2>5. QED  BY <2>2, <2>3, <2>4 DEF Stops
<1>6. Started(u)'
  <2>1. ASSUME NEW q \in Mine(u), cmd'[q].at # "done", cmd'[q].told = "no" PROVE sess[u].stop = q
    <3>1. cmd[q].told = "no"  BY <1>3, <2>1
    <3>2. cmd[q].at # "done"
      <4>1. CASE q = p  BY <4>1
      <4>2. CASE q # p  BY <4>2, <1>3, <2>1
      <4>3. QED  BY <4>1, <4>2
    <3>3. QED  BY <1>1, <3>1, <3>2 DEF Started
  <2>2. QED  BY <1>1, <1>2, <2>1 DEF Started
<1>7. QED  BY <1>4, <1>5, <1>6 DEF Handled

LEMMA HandledInterface ==
    ASSUME TypeOK, Links, NEW u \in Ues, Handled(u), SetupGtpInterface(u)
    PROVE  Handled(u)'
<1>1. Place(u) /\ Stops(u) /\ Started(u) /\ Len(cmd) \in Nat  BY TypeParts DEF Handled
<1>2. /\ pc[u] = "loop" /\ sess[u].up /\ mode # "disabled" /\ mode' = mode
      /\ sess'[u].up /\ sess'[u].stop = sess[u].stop /\ pc'[u] = "spawn"
      /\ IF sess[u].stop = 0 THEN cmd' = cmd ELSE Signalled(sess[u].stop)
  BY InterfaceEffect DEF SameSess
<1>3. Place(u)'  BY <1>2 DEF Place
<1>4. CASE sess[u].stop = 0
  <2>1. cmd' = cmd  BY <1>2, <1>4
  <2>2. Stops(u)'  BY <1>2, <1>4 DEF Stops
  <2>3. Started(u)'  BY <1>1, <1>2, <2>1 DEF Started, Mine, Cmds
  <2>4. QED  BY <1>3, <2>2, <2>3 DEF Handled
<1>5. CASE sess[u].stop # 0
  <2>1. PICK p \in Mine(u) : p = sess[u].stop  BY <1>1, <1>5 DEF Stops
  <2>2. Signalled(p)  BY <1>2, <1>5, <2>1
  <2>3. Mine(u)' = Mine(u)
    <3>1. Cmds' = Cmds  BY <2>2 DEF Cmds, Signalled
    <3>2. \A q \in Cmds : cmd'[q].ue = cmd[q].ue  BY <2>2 DEF Signalled, OtherCmds
    <3>3. QED  BY <3>1, <3>2 DEF Mine
  <2>4. cmd'[p].told = "yes" /\ \A q \in Mine(u) : q # p => cmd'[q] = cmd[q]
    BY <2>2 DEF Signalled, OtherCmds, Mine
  <2>5. Stops(u)'  BY <1>2, <2>1, <2>3, <2>4 DEF Stops
  <2>6. Started(u)'  BY <1>1, <1>2, <2>1, <2>3, <2>4 DEF Started
  <2>7. QED  BY <1>3, <2>5, <2>6 DEF Handled
<1>6. QED  BY <1>4, <1>5

LEMMA HandledStart ==
    ASSUME TypeOK, Links, NEW u \in Ues, Named(u), Handled(u), SetupStart(u)
    PROVE  Handled(u)'
<1>1. Place(u) /\ Stops(u) /\ Started(u) /\ Len(cmd) \in Nat  BY TypeParts DEF Handled
<1>2. /\ pc[u] = "spawn" /\ pc'[u] = "rules" /\ mode' = mode /\ Grown(u, sess[u].gnb)
      /\ sess'[u].up = sess[u].up /\ sess'[u].stop = Len(cmd) + 1
  BY StartEffect DEF SameSess
<1>3. sess[u].up /\ mode # "disabled"  BY <1>1, <1>2 DEF Place
<1>4. Place(u)'  BY <1>1, <1>2, <1>3 DEF Place
<1>5. Mine(u)' = Mine(u) \cup {Len(cmd) + 1} /\ \A q \in Mine(u) : cmd'[q] = cmd[q] /\ q # Len(cmd) + 1
  <2>1. Cmds' = Cmds \cup {Len(cmd) + 1} /\ Len(cmd) + 1 \notin Cmds  BY <1>1, <1>2 DEF Cmds, Grown
  <2>2. \A q \in Cmds : cmd'[q] = cmd[q]  BY <1>2 DEF Grown
  <2>3. cmd'[Len(cmd) + 1].ue = u  BY <1>2 DEF Grown
  <2>4. QED  BY <2>1, <2>2, <2>3 DEF Mine
<1>6. cmd'[Len(cmd) + 1].told = "no" /\ cmd'[Len(cmd) + 1].at # "done"  BY <1>2 DEF Grown
<1>7. Stops(u)'  BY <1>1, <1>2, <1>5, <1>6 DEF Stops
<1>8. Started(u)'
  <2>1. ASSUME NEW q \in Mine(u)', cmd'[q].at # "done", cmd'[q].told = "no"
        PROVE  q = Len(cmd) + 1
    <3>1. SUFFICES ASSUME q \in Mine(u) PROVE FALSE  BY <1>5
    <3>2. cmd[q].at # "done" /\ cmd[q].told = "no"  BY <1>5, <2>1, <3>1
    <3>3. sess[u].stop = q /\ q # 0  BY <1>1, <3>1, <3>2 DEF Started, Mine, Cmds
    <3>4. cmd[q].told = "yes"  BY <1>1, <1>2, <3>3 DEF Stops
    <3>5. QED  BY <3>2, <3>4
  <2>2. QED  BY <1>2, <1>3, <2>1 DEF Started
<1>9. QED  BY <1>4, <1>7, <1>8 DEF Handled

LEMMA HandledStopped ==
    ASSUME TypeOK, NEW p \in Cmds, NEW u \in Ues, u = cmd[p].ue, Handled(u), CmdAddStopped(p)
    PROVE  Handled(u)'
<1>1. Place(u) /\ Stops(u) /\ Started(u)  BY DEF Handled
<1>2. /\ pc[u] = "stop" /\ sess[u].stop = p /\ Signalled(p) /\ pc'[u] = "loop"
      /\ sess'[u] = NoSession /\ mode' = mode
  BY StoppedEffect
<1>3. sess'[u].stop = 0 /\ ~sess'[u].up  BY <1>2, Blank
<1>4. Place(u)' /\ Stops(u)'  BY <1>2, <1>3 DEF Place, Stops
<1>5. Mine(u)' = Mine(u)
  <2>1. Cmds' = Cmds  BY <1>2 DEF Cmds, Signalled
  <2>2. \A q \in Cmds : cmd'[q].ue = cmd[q].ue  BY <1>2 DEF Signalled, OtherCmds
  <2>3. QED  BY <2>1, <2>2 DEF Mine
<1>6. ASSUME NEW q \in Mine(u), cmd'[q].at # "done", cmd'[q].told = "no" PROVE FALSE
  <2>1. q # p  BY <1>2, <1>6 DEF Signalled
  <2>2. cmd'[q] = cmd[q]  BY <1>2, <2>1 DEF Signalled, OtherCmds, Mine
  <2>3. sess[u].stop = q  BY <1>1, <1>6, <2>2 DEF Started
  <2>4. QED  BY <1>2, <2>1, <2>3
<1>7. Started(u)'  BY <1>1, <1>2, <1>5, <1>6 DEF Started
<1>8. QED  BY <1>4, <1>7 DEF Handled

\* A step of one UE, or of one of its goroutines, does not touch another UE.
Step(u) == \/ InitPduSessionRequest(u) \/ SetupAgain(u) \/ SetupOther(u)
           \/ NetRelease(u) \/ UeStep(u) \/ Terminate(u) \/ Restart(u)
Elsewhere(u) ==
    /\ mode' = mode /\ active' = active
    /\ \A v \in Ues : v # u => Same(v) /\ CmdSame(v)

LEMMA Parts ==
    ASSUME OrphanInv
    PROVE  /\ TypeInv /\ TypeOK /\ Links /\ CmdOK /\ Len(cmd) \in Nat
           /\ \A v \in Ues : Named(v) /\ Handled(v) /\ Place(v) /\ Stops(v) /\ Started(v)
                             /\ Len(inbox[v]) \in Nat /\ sess[v] \in SessRec /\ net[v] \in NetRec
<1>1. TypeInv /\ TypeOK /\ Links /\ \A v \in Ues : Named(v) /\ Handled(v)
  BY DEF OrphanInv, TypeInv
<1>2. CmdOK /\ Len(cmd) \in Nat /\ SessOK /\ NetOK /\ \A v \in Ues : Len(inbox[v]) \in Nat
  BY <1>1, TypeParts
<1>3. \A v \in Ues : sess[v] \in SessRec /\ net[v] \in NetRec  BY <1>2 DEF SessOK, NetOK
<1>4. QED  BY <1>1, <1>2, <1>3 DEF Handled

LEMMA ElsewhereUe ==
    ASSUME OrphanInv, NEW u \in Ues, Step(u)
    PROVE  Elsewhere(u)
<1>1. TypeOK /\ Links /\ Named(u) /\ Len(cmd) \in Nat /\ Stops(u)  BY Parts
<1>2. Others(u) /\ cmd' = cmd /\ mode' = mode /\ active' = active => Elsewhere(u)
  BY CmdUnchanged DEF Elsewhere, Others
<1>3. CASE InitPduSessionRequest(u)  BY <1>1, <1>2, <1>3, InitEffect
<1>4. CASE SetupAgain(u)  BY <1>1, <1>2, <1>4, AgainEffect
<1>5. CASE SetupOther(u)  BY <1>1, <1>2, <1>5, OtherEffect
<1>6. CASE NetRelease(u)  BY <1>1, <1>2, <1>6, NetReleaseEffect
<1>7. CASE HandleAccept(u)  BY <1>1, <1>2, <1>7, AcceptEffect
<1>8. CASE SetupSkipped(u)  BY <1>1, <1>2, <1>8, SkippedEffect
<1>9. CASE SetupGtpInterface(u)
  <2>1. /\ Others(u) /\ mode' = mode /\ active' = active
        /\ IF sess[u].stop = 0 THEN cmd' = cmd ELSE Signalled(sess[u].stop)
    BY <1>1, <1>9, InterfaceEffect
  <2>2. CASE sess[u].stop = 0  BY <1>2, <2>1, <2>2
  <2>3. CASE sess[u].stop # 0
    <3>1. PICK p \in Cmds : p = sess[u].stop /\ cmd[p].ue = u  BY <1>1, <2>3 DEF Stops, Mine
    <3>2. Signalled(p)  BY <2>1, <2>3, <3>1
    <3>3. \A v \in Ues : v # u => CmdSame(v)  BY <1>1, <3>1, <3>2, CmdOther DEF Signalled
    <3>4. QED  BY <2>1, <3>3 DEF Elsewhere, Others
  <2>4. QED  BY <2>2, <2>3
<1>10. CASE SetupStart(u)
  <2>1. Others(u) /\ mode' = mode /\ active' = active /\ Grown(u, sess[u].gnb)
    BY <1>1, <1>10, StartEffect
  <2>2. \A v \in Ues : v # u => CmdSame(v)  BY <1>1, <2>1, CmdGrown
  <2>3. QED  BY <2>1, <2>2 DEF Elsewhere, Others
<1>11. CASE SetupRules(u)
  <2>1. CASE Fatal  BY <1>2, <2>1, FatalEffect DEF Others, Same
  <2>2. CASE RulesWritten(u)  BY <1>2, <2>2 DEF RulesWritten, Others, Same
  <2>3. QED  BY <1>1, <1>11, <2>1, <2>2, RulesEffect
<1>12. CASE DeletePduSession(u)  BY <1>1, <1>2, <1>12, DeleteEffect
<1>13. CASE Terminate(u)  BY <1>1, <1>2, <1>13, TerminateEffect
<1>14. CASE Restart(u)  BY <1>1, <1>2, <1>14, RestartEffect
<1>15. QED
  BY <1>3, <1>4, <1>5, <1>6, <1>7, <1>8, <1>9, <1>10, <1>11, <1>12, <1>13, <1>14 DEF Step, UeStep

LEMMA ElsewhereCmd ==
    ASSUME OrphanInv, NEW p \in Cmds, CmdAdd(p), NEW u, u = cmd[p].ue
    PROVE  Elsewhere(u) /\ u \in Ues
<1>1. TypeOK /\ Links /\ CmdOK /\ Len(cmd) \in Nat  BY Parts
<1>2. u \in Ues
  <2>1. cmd[p] \in CmdRec  BY <1>1 DEF CmdOK, Cmds
  <2>2. QED  BY <2>1 DEF CmdRec
<1>3. ASSUME Signalled(p) \/ \E a : Moved(p, a) PROVE \A v \in Ues : v # u => CmdSame(v)
  BY <1>1, <1>3, CmdOther DEF Moved, Signalled
<1>4. CASE Fatal
  <2>1. UNCHANGED <<mode, active, net, inbox, pc, sess, cmd, link, vrf>>  BY <1>4, FatalEffect
  <2>2. \A v \in Ues : Same(v) /\ CmdSame(v)  BY <2>1, CmdUnchanged DEF Same
  <2>3. QED  BY <1>2, <2>1, <2>2 DEF Elsewhere
<1>5. CASE CmdAddListen(p) /\ ~Fatal
  <2>1. Moved(p, "bound") /\ UNCHANGED <<mode, active, net, inbox, pc, sess, link, vrf>>
    BY <1>1, <1>5, ListenEffect
  <2>2. \A v \in Ues : Same(v)  BY <2>1 DEF Same
  <2>3. QED  BY <1>2, <1>3, <2>1, <2>2 DEF Elsewhere
<1>6. CASE CmdAddCreate(p) /\ ~Fatal
  <2>1. /\ Moved(p, "wait") /\ UNCHANGED <<mode, active, net, inbox, pc, sess, vrf>>
        /\ \A v \in Ues : v # u => link'[v] = link[v]
    BY <1>1, <1>6, CreateEffect
  <2>2. \A v \in Ues : v # u => Same(v)  BY <2>1 DEF Same
  <2>3. QED  BY <1>2, <1>3, <2>1, <2>2 DEF Elsewhere
<1>7. CASE CmdAddReturn(p)
  <2>1. Moved(p, "done") /\ UNCHANGED <<mode, active, net, inbox, pc, sess, link, vrf>>
    BY <1>1, <1>7, ReturnEffect
  <2>2. \A v \in Ues : Same(v)  BY <2>1 DEF Same
  <2>3. QED  BY <1>2, <1>3, <2>1, <2>2 DEF Elsewhere
<1>8. CASE CmdAddStopped(p)
  <2>1. Signalled(p) /\ Others(u) /\ UNCHANGED <<mode, active>>  BY <1>1, <1>8, StoppedEffect
  <2>2. QED  BY <1>2, <1>3, <2>1 DEF Elsewhere, Others
<1>9. QED  BY <1>4, <1>5, <1>6, <1>7, <1>8 DEF CmdAdd

LEMMA OrphanUeStep ==
    ASSUME NoTunnelLoop, OrphanInv, NEW u \in Ues, Step(u)
    PROVE  OrphanInv'
<1>1. TypeOK /\ Links /\ Named(u) /\ Handled(u) /\ Place(u) /\ Stops(u) /\ Started(u) /\ TypeInv
  BY Parts
<1>2. TypeInv'  BY <1>1, TypeUeStep DEF Step
<1>3. Elsewhere(u)  BY ElsewhereUe
<1>4. ASSUME NEW v \in Ues, v # u PROVE Handled(v)'
  <2>1. Handled(v)  BY Parts
  <2>2. /\ CmdSame(v) /\ mode' = mode /\ sess'[v] = sess[v] /\ pc'[v] = pc[v]
    BY <1>3, <1>4 DEF Elsewhere, Same
  <2>3. QED  BY <2>1, <2>2, HandledKept
<1>5. mode' = mode  BY <1>3 DEF Elsewhere
<1>6. cmd' = cmd => CmdSame(u)  BY CmdUnchanged
<1>7. ~sess[u].up => sess[u].stop = 0  BY <1>1, Blank DEF Place
<1>8. Handled(u)'
  <2>1. CASE InitPduSessionRequest(u)
    <3>1. cmd' = cmd /\ pc' = pc /\ pc[u] = "loop" /\ ~sess[u].up /\ sess'[u] = NewSession
      BY <1>1, <2>1, InitEffect
    <3>2. QED  BY <1>1, <1>5, <1>6, <1>7, <3>1, HandledBlank
  <2>2. CASE SetupAgain(u)
    <3>1. cmd' = cmd /\ pc' = pc /\ sess' = sess  BY <1>1, <2>2, AgainEffect
    <3>2. QED  BY <1>1, <1>5, <1>6, <3>1, HandledKept
  <2>3. CASE SetupOther(u)
    <3>1. cmd' = cmd /\ pc' = pc /\ sess' = sess  BY <1>1, <2>3, OtherEffect
    <3>2. QED  BY <1>1, <1>5, <1>6, <3>1, HandledKept
  <2>4. CASE NetRelease(u)
    <3>1. cmd' = cmd /\ pc' = pc /\ sess' = sess  BY <1>1, <2>4, NetReleaseEffect
    <3>2. QED  BY <1>1, <1>5, <1>6, <3>1, HandledKept
  <2>5. CASE HandleAccept(u)
    <3>1. /\ cmd' = cmd /\ pc' = pc /\ sess'[u].up = sess[u].up /\ sess'[u].stop = sess[u].stop
          /\ ~sess[u].up => sess'[u] = sess[u]
      BY <1>1, <2>5, AcceptEffect
    <3>2. sess[u].up \in BOOLEAN  BY Parts DEF SessRec
    <3>3. QED  BY <1>1, <1>5, <1>6, <3>1, <3>2, HandledKept
  <2>6. CASE SetupSkipped(u)
    <3>1. /\ cmd' = cmd /\ pc' = pc /\ SameSess(u) /\ sess'[u].stop = sess[u].stop
          /\ sess[u].up \/ sess'[u] = sess[u]
      BY <1>1, <2>6, SkippedEffect
    <3>2. QED  BY <1>1, <1>5, <1>6, <3>1, HandledKept DEF SameSess
  <2>7. CASE SetupGtpInterface(u)  BY <1>1, <2>7, HandledInterface
  <2>8. CASE SetupStart(u)  BY <1>1, <2>8, HandledStart
  <2>9. CASE SetupRules(u)
    <3>1. CASE Fatal
      <4>1. cmd' = cmd /\ pc' = pc /\ sess' = sess  BY <3>1, FatalEffect
      <4>2. QED  BY <1>1, <1>5, <1>6, <4>1, HandledKept
    <3>2. CASE RulesWritten(u)
      <4>1. pc[u] = "rules" /\ sess[u].up  BY <1>1, <2>9, RulesEffect DEF Place
      <4>2. /\ cmd' = cmd /\ pc'[u] = "loop" /\ sess'[u].up = sess[u].up
            /\ sess'[u].stop = sess[u].stop
        BY <3>2 DEF RulesWritten
      <4>3. QED  BY <1>1, <1>5, <1>6, <4>1, <4>2, HandledKept
    <3>3. QED  BY <1>1, <2>9, <3>1, <3>2, RulesEffect
  <2>10. CASE DeletePduSession(u)
    <3>1. /\ cmd' = cmd /\ pc[u] = "loop"
          /\ \/ sess[u].up /\ sess[u].stop # 0 /\ pc'[u] = "stop" /\ sess'[u] = sess[u]
             \/ ~(sess[u].up /\ sess[u].stop # 0) /\ pc'[u] = "loop" /\ sess'[u] = NoSession
      BY <1>1, <2>10, DeleteEffect
    <3>2. CASE sess[u].up /\ sess[u].stop # 0 /\ pc'[u] = "stop" /\ sess'[u] = sess[u]
      BY <1>1, <1>5, <1>6, <3>1, <3>2, HandledKept
    <3>3. CASE ~(sess[u].up /\ sess[u].stop # 0) /\ pc'[u] = "loop" /\ sess'[u] = NoSession
      BY <1>1, <1>5, <1>6, <1>7, <3>1, <3>3, HandledBlank
    <3>4. QED  BY <3>1, <3>2, <3>3
  <2>11. CASE Terminate(u)
    <3>1. cmd' = cmd /\ pc'[u] = "ended" /\ sess' = sess  BY <1>1, <2>11, TerminateEffect
    <3>2. QED  BY <1>1, <1>5, <1>6, <3>1, HandledKept
  <2>12. CASE Restart(u)
    <3>1. cmd' = cmd /\ mode \in Loop /\ pc'[u] = "loop" /\ sess'[u] = NoSession
      BY <1>1, <2>12, RestartEffect
    <3>2. mode = "disabled"  BY <3>1 DEF NoTunnelLoop
    <3>3. sess[u].stop = 0  BY <1>1, <3>2 DEF Started, Stops
    <3>4. QED  BY <1>1, <1>5, <1>6, <3>1, <3>3, HandledBlank
  <2>13. QED
    BY <2>1, <2>2, <2>3, <2>4, <2>5, <2>6, <2>7, <2>8, <2>9, <2>10, <2>11, <2>12 DEF Step, UeStep
<1>9. QED  BY <1>2, <1>4, <1>8 DEF OrphanInv

LEMMA OrphanCmdStep ==
    ASSUME OrphanInv, NEW p \in Cmds, CmdAdd(p)
    PROVE  OrphanInv'
<1>1. TypeOK /\ Links /\ TypeInv /\ \A v \in Ues : Handled(v)  BY Parts
<1>2. TypeInv'  BY <1>1, TypeCmdStep
<1>3. PICK u : u = cmd[p].ue  OBVIOUS
<1>4. Elsewhere(u) /\ u \in Ues  BY <1>3, ElsewhereCmd
<1>5. mode' = mode  BY <1>4 DEF Elsewhere
<1>6. ASSUME NEW v \in Ues, v # u PROVE Handled(v)'
  <2>1. CmdSame(v) /\ sess'[v] = sess[v] /\ pc'[v] = pc[v]  BY <1>4, <1>6 DEF Elsewhere, Same
  <2>2. QED  BY <1>1, <1>5, <2>1, HandledKept
<1>7. Handled(u)'
  <2>1. CASE Fatal
    <3>1. cmd' = cmd /\ pc' = pc /\ sess' = sess  BY <2>1, FatalEffect
    <3>2. QED  BY <1>1, <1>4, <1>5, <3>1, CmdUnchanged, HandledKept
  <2>2. CASE CmdAddListen(p) /\ ~Fatal
    <3>1. cmd[p].at = "start" /\ Moved(p, "bound") /\ pc' = pc /\ sess' = sess
      BY <1>1, <2>2, ListenEffect
    <3>2. QED  BY <1>1, <1>3, <1>4, <1>5, <3>1, HandledMoved
  <2>3. CASE CmdAddCreate(p) /\ ~Fatal
    <3>1. cmd[p].at = "bound" /\ Moved(p, "wait") /\ pc' = pc /\ sess' = sess
      BY <1>1, <2>3, CreateEffect
    <3>2. QED  BY <1>1, <1>3, <1>4, <1>5, <3>1, HandledMoved
  <2>4. CASE CmdAddReturn(p)
    <3>1. /\ cmd[p].at = "wait" /\ cmd[p].told = "yes" /\ Moved(p, "done")
          /\ pc' = pc /\ sess' = sess
      BY <1>1, <2>4, ReturnEffect
    <3>2. QED  BY <1>1, <1>3, <1>4, <1>5, <3>1, HandledMoved
  <2>5. CASE CmdAddStopped(p)  BY <1>1, <1>3, <1>4, <2>5, HandledStopped
  <2>6. QED  BY <2>1, <2>2, <2>3, <2>4, <2>5 DEF CmdAdd
<1>8. QED  BY <1>2, <1>6, <1>7 DEF OrphanInv

LEMMA OrphanNext ==
    ASSUME NoTunnelLoop, OrphanInv, [Next]_vars
    PROVE  OrphanInv'
<1>1. CASE Next
  <2>1. DOMAIN cmd = Cmds
    <3>1. cmd \in Seq(CmdRec)  BY Parts DEF CmdOK
    <3>2. QED  BY <3>1 DEF Cmds
  <2>2. QED  BY <1>1, <2>1, OrphanUeStep, OrphanCmdStep DEF Next, Step
<1>2. CASE UNCHANGED vars
  <2>1. TypeInv'  BY <1>2, TypeNext, Parts
  <2>2. ASSUME NEW v \in Ues PROVE Handled(v)'
    <3>1. cmd' = cmd /\ pc' = pc /\ sess' = sess /\ mode' = mode  BY <1>2 DEF vars, hostVars
    <3>2. QED  BY <3>1, Parts, CmdUnchanged, HandledKept
  <2>3. QED  BY <2>1, <2>2 DEF OrphanInv
<1>3. QED  BY <1>1, <1>2

LEMMA OrphanInit == Init => OrphanInv
<1> SUFFICES ASSUME Init PROVE OrphanInv  OBVIOUS
<1>1. TypeInv  BY TypeInit
<1>2. ASSUME NEW u \in Ues PROVE Handled(u)
  <2>1. pc[u] = "loop" /\ sess[u] = NoSession /\ cmd = <<>>  BY DEF Init
  <2>2. Cmds = {}  BY <2>1 DEF Cmds
  <2>3. QED  BY <2>1, <2>2, Blank DEF Handled, Place, Stops, Started, Mine
<1>3. QED  BY <1>1, <1>2 DEF OrphanInv

LEMMA OrphanSafe == OrphanInv => NoOrphan
<1> SUFFICES ASSUME OrphanInv PROVE NoOrphan  OBVIOUS
<1>1. CmdOK /\ \A v \in Ues : Stops(v) /\ Started(v)  BY Parts
<1>2. DOMAIN cmd = Cmds /\ \A p \in Cmds : cmd[p].ue \in Ues /\ p \in Mine(cmd[p].ue)
  <2>1. DOMAIN cmd = Cmds /\ \A p \in Cmds : cmd[p] \in CmdRec  BY <1>1 DEF CmdOK, Cmds
  <2>2. QED  BY <2>1 DEF CmdRec, Mine
<1>3. \A p \in DOMAIN cmd : (cmd[p].at # "done" /\ cmd[p].told = "no") => sess[cmd[p].ue].stop = p
  BY <1>1, <1>2 DEF Started
<1>4. \A u \in Ues : (sess[u].stop # 0 /\ pc[u] \notin {"spawn", "ended"}) =>
        /\ cmd[sess[u].stop].ue = u /\ cmd[sess[u].stop].told = "no"
        /\ cmd[sess[u].stop].at # "done"
  BY <1>1 DEF Stops, Mine
<1>5. QED  BY <1>3, <1>4 DEF NoOrphan

\* Whatever the order in which goroutines run, and however slow they are: the goroutine of a
\* tunnel that nobody has told to stop is the one at the other end of the stopSignal of the
\* session of its UE, so that the next setup or the release of the session reaches it, and
\* no stopSignal is closed twice or sent on after its goroutine has ended.
THEOREM NoGoroutineIsOrphaned ==
    ASSUME NoTunnelLoop
    PROVE  Spec => []NoOrphan
<1>1. OrphanInv /\ [Next]_vars => OrphanInv'  BY OrphanNext
<1>2. QED  BY <1>1, OrphanInit, OrphanSafe, PTL DEF Spec

-----------------------------------------------------------------------------
(* No setup ends the process.                                              *)

\* The commands of a session that was accepted parse.
LEMMA CommandsParse ==
    ASSUME NEW s \in SessRec, NEW u, s.ip = Ipv4(u)
    PROVE  Commands(TRUE, s)
<1>1. s.qfi \in 0..63 /\ s.ip.kind = "ipv4"
  <2>1. s.qfi \in Qfi \cup {0}  BY DEF SessRec
  <2>2. Ipv4(u).kind = "ipv4"  BY DEF Ipv4
  <2>3. s.qfi \in 0..63
    <3>1. Qfi \subseteq 0..63  BY Nums
    <3>2. CASE s.qfi \in Qfi  BY ONLY <3>1, <3>2
    <3>3. CASE s.qfi = 0  BY ONLY <3>3
    <3>4. QED  BY ONLY <2>1, <3>2, <3>3
  <2>4. s.ip.kind = "ipv4"  BY ONLY <2>2, s.ip = Ipv4(u), Zenon
  <2>5. QED  BY ONLY <2>3, <2>4
<1>2. \A n \in 0..255 : Parses(<<"u8">>, <<Num(n)>>)
  BY DEF Parses, Accepts, Num, Below
<1>3. \A n : Parses(<<"u32">>, <<Num(n)>>)  BY DEF Parses, Accepts, Num
<1>4. Parses(<<"ipv4">>, <<s.ip>>)  BY <1>1 DEF Parses, Accepts
<1>5. Parses(<<"bit">>, <<Num(0)>>)  BY DEF Parses, Accepts, Num, Below
<1>6. Parses(<<"u16", "u32", "ipv4", "u16">>, <<Num(0), Num(s.ul), Ipv4(0), Num(2152)>>)
  BY DEF Parses, Accepts, Num, Ipv4, Below
<1>7. Parses(<<"u32", "ipv4">>, <<Num(1), Ipv4(s.gnb)>>)
  BY DEF Parses, Accepts, Num, Ipv4
<1> DEFINE Fits(o) == Parses(PDRTypes(o.name), o.args)
<1>8. ParseFAROptions(Far1)
  <2>1. Parses(FARTypes("--action"), <<Num(2)>>)  BY <1>2 DEF FARTypes
  <2>2. QED  BY <2>1 DEF ParseFAROptions, Far1, Option
<1>9. ParseFAROptions(Far2(s))
  <2>1. Parses(FARTypes("--action"), <<Num(2)>>)  BY <1>2 DEF FARTypes
  <2>2. Parses(FARTypes("--hdr-creation"), <<Num(0), Num(s.ul), Ipv4(0), Num(2152)>>)
    BY <1>6 DEF FARTypes
  <2>3. QED  BY <2>1, <2>2 DEF ParseFAROptions, Far2, Option
<1>10. /\ \A n : Fits(Option("--pcd", <<Num(n)>>)) /\ Fits(Option("--far-id", <<Num(n)>>))
                 /\ Fits(Option("--qer-id", <<Num(n)>>))
       /\ Fits(Option("--hdr-rm", <<Num(0)>>)) /\ Fits(Option("--ue-ipv4", <<s.ip>>))
       /\ Fits(Option("--f-teid", <<Num(1), Ipv4(s.gnb)>>))
       /\ Fits(Option("--source-interface", <<Num(0)>>))
  <2>1. /\ PDRTypes("--pcd") = <<"u32">> /\ PDRTypes("--far-id") = <<"u32">>
        /\ PDRTypes("--qer-id") = <<"u32">>
    BY DEF PDRTypes
  <2>2. PDRTypes("--hdr-rm") = <<"u8">> /\ PDRTypes("--ue-ipv4") = <<"ipv4">>
    BY DEF PDRTypes
  <2>3. PDRTypes("--f-teid") = <<"u32", "ipv4">> /\ PDRTypes("--source-interface") = <<"bit">>
    BY DEF PDRTypes
  <2>4. ASSUME NEW n, NEW a, Parses(PDRTypes(n), a) PROVE Fits(Option(n, a))
    BY <2>4 DEF Option
  <2> HIDE DEF Fits
  <2>5. Parses(<<"u8">>, <<Num(0)>>)  BY <1>2
  <2>6. \A n : Fits(Option("--pcd", <<Num(n)>>)) /\ Fits(Option("--far-id", <<Num(n)>>))
                /\ Fits(Option("--qer-id", <<Num(n)>>))
    BY ONLY <1>3, <2>1, <2>4, Zenon
  <2>7. Fits(Option("--hdr-rm", <<Num(0)>>)) /\ Fits(Option("--ue-ipv4", <<s.ip>>))
    BY ONLY <1>4, <2>2, <2>4, <2>5, Zenon
  <2>8. /\ Fits(Option("--f-teid", <<Num(1), Ipv4(s.gnb)>>))
        /\ Fits(Option("--source-interface", <<Num(0)>>))
    BY ONLY <1>5, <1>7, <2>3, <2>4, Zenon
  <2>9. QED  BY ONLY <2>6, <2>7, <2>8, Zenon
<1> HIDE DEF Fits
<1>11. ParsePDROptions(Pdr1(s))
  <2>1. PICK a, b, c, d, e :
          /\ a = Option("--pcd", <<Num(1)>>) /\ b = Option("--hdr-rm", <<Num(0)>>)
          /\ c = Option("--ue-ipv4", <<s.ip>>) /\ d = Option("--f-teid", <<Num(1), Ipv4(s.gnb)>>)
          /\ e = Option("--far-id", <<Num(1)>>)
    OBVIOUS
  <2>2. Pdr1(s) = <<a, b, c, d, e>>  BY <2>1, Zenon DEF Pdr1
  <2>3. Fits(a) /\ Fits(b) /\ Fits(c) /\ Fits(d) /\ Fits(e)  BY ONLY <1>10, <2>1, Zenon
  <2>4. \A i \in DOMAIN Pdr1(s) : Fits(Pdr1(s)[i])  BY ONLY <2>2, <2>3
  <2>5. QED  BY ONLY <2>4 DEF ParsePDROptions, Fits
<1>12. ParsePDROptions(Pdr2(s))
  <2>1. PICK a, b, c, d, e :
          /\ a = Option("--pcd", <<Num(2)>>) /\ b = Option("--ue-ipv4", <<s.ip>>)
          /\ c = Option("--far-id", <<Num(2)>>) /\ d = Option("--source-interface", <<Num(0)>>)
          /\ e = Option("--qer-id", <<Num(1)>>)
    OBVIOUS
  <2>2. Pdr2(s) = <<a, b, c, d>> \o IF s.qfi > 0 THEN <<e>> ELSE <<>>  BY <2>1, Zenon DEF Pdr2
  <2>3. Fits(a) /\ Fits(b) /\ Fits(c) /\ Fits(d) /\ Fits(e)  BY ONLY <1>10, <2>1, Zenon
  <2>4. \A i \in DOMAIN Pdr2(s) : Fits(Pdr2(s)[i])
    <3>1. CASE s.qfi > 0
      <4>1. Pdr2(s) = <<a, b, c, d>> \o <<e>>  BY ONLY <2>2, <3>1, Zenon
      <4>2. PICK S : S = {a, b, c, d, e}  OBVIOUS
      <4>3. <<a, b, c, d>> \in Seq(S) /\ e \in S  BY ONLY <4>2
      <4>4. Pdr2(s) \in Seq(S)  BY ONLY <4>1, <4>3, AddOne
      <4>5. \A i \in DOMAIN Pdr2(s) : Pdr2(s)[i] \in S  BY ONLY <4>4
      <4>6. QED  BY ONLY <4>2, <4>5, <2>3
    <3>2. CASE ~(s.qfi > 0)
      <4>1. Pdr2(s) = <<a, b, c, d>> \o <<>>  BY ONLY <2>2, <3>2, Zenon
      <4>2. Pdr2(s) = <<a, b, c, d>>
        <5>1. <<a, b, c, d>> \in Seq({a, b, c, d})  OBVIOUS
        <5>2. QED  BY ONLY <4>1, <5>1, ConcatEmptySeq
      <4>3. QED  BY ONLY <4>2, <2>3
    <3>3. QED  BY <3>1, <3>2
  <2>5. QED  BY ONLY <2>4 DEF ParsePDROptions, Fits
<1>13. ParseQEROptions(Qer1(s))
  <2>1. Parses(QERTypes("--qfi"), <<Num(s.qfi)>>)
    <3>1. QERTypes("--qfi") = <<"u8">>  BY DEF QERTypes
    <3>2. s.qfi \in 0..255  BY <1>1
    <3>3. QED  BY <1>2, <3>1, <3>2
  <2>2. QED  BY <2>1 DEF ParseQEROptions, Qer1, Option
<1>14. QED
  BY <1>8, <1>9, <1>11, <1>12, <1>13 DEF Commands, CmdAddFAR, CmdAddPDR, CmdAddQER

\* The goroutines of u are where they were.
Steady(u) ==
    /\ Mine(u)' = Mine(u)
    /\ \A q \in Mine(u) : /\ cmd'[q].gnb = cmd[q].gnb /\ cmd'[q].at = cmd[q].at
                          /\ cmd[q].told = "yes" => cmd'[q].told = "yes"

LEMMA SteadySame == ASSUME NEW u, CmdSame(u) PROVE Steady(u)
BY DEF CmdSame, Steady

LEMMA MineKept ==
    ASSUME NEW p \in Cmds, Len(cmd') = Len(cmd), OtherCmds(p), cmd'[p].ue = cmd[p].ue, NEW u
    PROVE  Mine(u)' = Mine(u) /\ \A q \in Mine(u) : q # p => cmd'[q] = cmd[q]
<1>1. Cmds' = Cmds  BY DEF Cmds
<1>2. \A q \in Cmds : cmd'[q].ue = cmd[q].ue  BY DEF OtherCmds
<1>3. Mine(u)' = Mine(u)  BY <1>1, <1>2 DEF Mine
<1>4. QED  BY <1>3 DEF Mine, OtherCmds

LEMMA SteadySignalled == ASSUME NEW p \in Cmds, Signalled(p), NEW u PROVE Steady(u)
<1>1. Mine(u)' = Mine(u) /\ \A q \in Mine(u) : q # p => cmd'[q] = cmd[q]  BY MineKept DEF Signalled
<1>2. cmd'[p].gnb = cmd[p].gnb /\ cmd'[p].at = cmd[p].at /\ cmd'[p].told = "yes"
  BY DEF Signalled
<1>3. QED  BY <1>1, <1>2 DEF Steady

LEMMA SoundSteady ==
    ASSUME OrphanInv, NEW u \in Ues, Sound(u), Steady(u), active' = active,
           sess'[u].stop = sess[u].stop,
           \/ pc'[u] = pc[u] /\ link'[u].id = link[u].id
           \/ /\ pc[u] \notin {"rules", "spawn"} /\ pc'[u] \in {"loop", "stop", "ended"}
              /\ link'[u].id \in {link[u].id, 0}
           \/ pc[u] = "loop" /\ pc'[u] = "spawn" /\ link'[u].id = 0,
           Local(u, net'[u].gnb),
           pc'[u] \in {"spawn", "rules"} => Local(u, sess'[u].gnb),
           Heard(u)', Accepted(u)', Inactive(u)'
    PROVE  Sound(u)'
<1>1. Address(u) /\ Alive(u) /\ Linked(u)  BY DEF Sound
<1>2. Stops(u) /\ Place(u)  BY Parts
<1>3. \A g : Local(u, g) => Local(u, g)'  BY DEF Local
<1>4. Address(u)'
  <2>1. \A q \in Mine(u) : Local(u, cmd'[q].gnb)  BY <1>1 DEF Address, Steady
  <2>2. QED  BY <2>1 DEF Address, Steady, Local
<1>5. Alive(u)'
  <2>1. ASSUME NEW q \in Mine(u)
        PROVE  /\ cmd'[q].at # "done" =>
                     sess'[u].stop = q \/ (cmd'[q].told = "yes" /\ pc'[u] # "rules")
               /\ cmd'[q].at \in {"start", "bound"} => pc'[u] = "rules" /\ link'[u].id = 0
    BY <1>1 DEF Alive, Steady
  <2>2. QED  BY <2>1 DEF Alive, Steady
<1>6. Linked(u)'
  <2>1. link'[u].id # 0 => link'[u].id \in Mine(u)  BY <1>1 DEF Linked
  <2>2. pc'[u] = "spawn" => link'[u].id = 0  BY <1>1 DEF Linked
  <2>3. pc'[u] = "rules" /\ cmd'[sess[u].stop].at = "wait" => link'[u].id = sess[u].stop
    <3>1. SUFFICES ASSUME pc'[u] = "rules", cmd'[sess[u].stop].at = "wait"
                   PROVE  link'[u].id = sess[u].stop
      OBVIOUS
    <3>2. pc[u] = "rules" /\ link'[u].id = link[u].id  BY <3>1
    <3>3. sess[u].stop \in Mine(u)  BY <1>2, <3>2 DEF Stops, Place
    <3>4. cmd[sess[u].stop].at = "wait"  BY <3>1, <3>3 DEF Steady
    <3>5. QED  BY <1>1, <3>2, <3>4 DEF Linked
  <2>4. QED  BY <2>1, <2>2, <2>3 DEF Linked, Steady
<1>7. QED  BY <1>4, <1>5, <1>6 DEF Sound

LEMMA SoundKept ==
    ASSUME OrphanInv, NEW v \in Ues, Sound(v), Same(v), CmdSame(v), active' = active
    PROVE  Sound(v)'
<1>1. Inactive(v) /\ Address(v) /\ Heard(v) /\ Accepted(v)  BY DEF Sound
<1>2. Inactive(v)'  BY <1>1 DEF Inactive, Same, CmdSame
<1>3. Heard(v)'  BY <1>1 DEF Heard, Same, Local, Msgs
<1>4. Accepted(v)'  BY <1>1 DEF Accepted, Same
<1>5. Local(v, net'[v].gnb) /\ (pc'[v] \in {"spawn", "rules"} => Local(v, sess'[v].gnb))
  BY <1>1 DEF Address, Same
<1>6. QED  BY <1>2, <1>3, <1>4, <1>5, SteadySame, SoundSteady DEF Same

LEMMA HeardSent ==
    ASSUME OrphanInv, NEW u \in Ues, Heard(u), active' = active, NEW m,
           SentOne(u, m) \/ Inserted(u, m), Setup1(m) => Local(u, m.gnb)
    PROVE  Heard(u)'
<1>1. Len(inbox[u]) \in Nat  BY Parts
<1>2. \A i \in 1..Len(inbox[u]) : Setup1(inbox[u][i]) => Local(u, inbox[u][i].gnb)
  BY DEF Heard, Msgs
<1>3. ASSUME NEW i \in 1..Len(inbox'[u]), Setup1(inbox'[u][i])
      PROVE  Local(u, inbox'[u][i].gnb)
  <2>1. CASE SentOne(u, m) /\ i = Len(inbox[u]) + 1  BY <2>1, <1>3 DEF SentOne
  <2>2. CASE SentOne(u, m) /\ i # Len(inbox[u]) + 1
    <3>1. i \in 1..Len(inbox[u]) /\ inbox'[u][i] = inbox[u][i]  BY <1>1, <2>2 DEF SentOne, Msgs
    <3>2. QED  BY <1>2, <1>3, <3>1
  <2>3. CASE Inserted(u, m) /\ i = Len(inbox[u])  BY <2>3, <1>3 DEF Inserted
  <2>4. CASE Inserted(u, m) /\ i = Len(inbox[u]) + 1
    <3>1. Len(inbox[u]) \in 1..Len(inbox[u]) /\ inbox'[u][i] = inbox[u][Len(inbox[u])]
      BY <1>1, <2>4 DEF Inserted
    <3>2. QED  BY <1>2, <1>3, <3>1
  <2>5. CASE Inserted(u, m) /\ i \notin {Len(inbox[u]), Len(inbox[u]) + 1}
    <3>1. i \in 1..Len(inbox[u]) /\ inbox'[u][i] = inbox[u][i]  BY <1>1, <2>5 DEF Inserted
    <3>2. QED  BY <1>2, <1>3, <3>1
  <2>6. QED  BY <2>1, <2>2, <2>3, <2>4, <2>5
<1>4. QED  BY <1>3 DEF Heard, Msgs, Local

LEMMA HeardTaken ==
    ASSUME OrphanInv, NEW u \in Ues, Heard(u), active' = active, Taken(u)
    PROVE  Heard(u)' /\ (Setup1(inbox[u][1]) => Local(u, inbox[u][1].gnb))
<1>1. Len(inbox[u]) \in Nat  BY Parts
<1>2. \A i \in 1..Len(inbox[u]) : Setup1(inbox[u][i]) => Local(u, inbox[u][i].gnb)
  BY DEF Heard, Msgs
<1>3. ASSUME NEW i \in 1..Len(inbox'[u]), Setup1(inbox'[u][i])
      PROVE  Local(u, inbox'[u][i].gnb)
  <2>1. i + 1 \in 1..Len(inbox[u]) /\ inbox'[u][i] = inbox[u][i + 1]  BY <1>1 DEF Taken
  <2>2. QED  BY <1>2, <1>3, <2>1
<1>4. Heard(u)'  BY <1>3 DEF Heard, Msgs, Local
<1>5. 1 \in 1..Len(inbox[u])  BY <1>1 DEF Taken
<1>6. QED  BY <1>2, <1>4, <1>5

LEMMA AcceptedSent ==
    ASSUME OrphanInv, NEW u \in Ues, Accepted(u), NEW m, SentOne(u, m) \/ Inserted(u, m),
           pc'[u] = pc[u], sess'[u] = sess[u]
    PROVE  Accepted(u)'
<1>1. Len(inbox[u]) \in Nat  BY Parts
<1>2. CASE ~(sess[u].up /\ pc[u] # "ended") \/ sess[u].ip = Ipv4(u)  BY <1>2 DEF Accepted
<1>3. CASE pc[u] = "loop" /\ Len(inbox[u]) >= 1 /\ inbox[u][1].type = "accept"
  <2>1. CASE SentOne(u, m)
    <3>1. Len(inbox'[u]) >= 1 /\ inbox'[u][1] = inbox[u][1]  BY <1>1, <1>3, <2>1 DEF SentOne, Msgs
    <3>2. QED  BY <1>3, <3>1 DEF Accepted
  <2>2. CASE Inserted(u, m)
    <3>1. Len(inbox[u]) # 1  BY <1>3, <2>2 DEF Inserted
    <3>2. Len(inbox'[u]) >= 1 /\ inbox'[u][1] = inbox[u][1]
      BY <1>1, <1>3, <2>2, <3>1 DEF Inserted
    <3>3. QED  BY <1>3, <3>2 DEF Accepted
  <2>3. QED  BY <2>1, <2>2
<1>4. QED  BY <1>2, <1>3 DEF Accepted

\* Neither a slow goroutine nor a handover to the gNodeB of another UE.
NoRaces == Races = {}

LEMMA SoundStart ==
    ASSUME NoRaces, OrphanInv, NEW u \in Ues, Sound(u), SetupStart(u)
    PROVE  Sound(u)'
<1>1. /\ TypeOK /\ Links /\ Named(u) /\ Stops(u) /\ Place(u) /\ Len(cmd) \in Nat /\ CmdOK
  BY Parts
<1>2. Inactive(u) /\ Address(u) /\ Heard(u) /\ Alive(u) /\ Linked(u) /\ Accepted(u)  BY DEF Sound
<1>3. /\ pc[u] = "spawn" /\ pc'[u] = "rules" /\ ~Closing(u)
      /\ active' = active /\ net' = net /\ inbox' = inbox /\ link' = link
      /\ Grown(u, sess[u].gnb) /\ SameSess(u) /\ sess'[u].gnb = sess[u].gnb
      /\ sess'[u].stop = Len(cmd) + 1
  BY <1>1, StartEffect DEF NoRaces
<1>4. /\ Mine(u)' = Mine(u) \cup {Len(cmd) + 1}
      /\ \A q \in Mine(u) : cmd'[q] = cmd[q] /\ q # Len(cmd) + 1
  <2>1. Cmds' = Cmds \cup {Len(cmd) + 1} /\ Len(cmd) + 1 \notin Cmds  BY <1>1, <1>3 DEF Cmds, Grown
  <2>2. \A q \in Cmds : cmd'[q] = cmd[q]  BY <1>3 DEF Grown
  <2>3. cmd'[Len(cmd) + 1].ue = u  BY <1>3 DEF Grown
  <2>4. QED  BY <2>1, <2>2, <2>3 DEF Mine
<1>5. \A q \in Mine(u) : cmd[q].at = "done"
  <2>1. SUFFICES ASSUME NEW q \in Mine(u), cmd[q].at # "done" PROVE FALSE  OBVIOUS
  <2>2. q # 0 /\ q \in Cmds /\ cmd[q].ue = u  BY <2>1 DEF Mine, Cmds
  <2>3. cmd[q].told = "yes"
    <3>1. CASE sess[u].stop = q  BY <1>1, <1>3, <2>2, <3>1 DEF Stops
    <3>2. CASE sess[u].stop # q  BY <1>2, <2>1, <3>2 DEF Alive
    <3>3. QED  BY <3>1, <3>2
  <2>4. DOMAIN cmd = Cmds  BY <1>1 DEF CmdOK, Cmds
  <2>5. QED  BY <1>3, <2>1, <2>2, <2>3, <2>4 DEF Closing
<1>6. cmd'[Len(cmd) + 1].at = "start" /\ cmd'[Len(cmd) + 1].gnb = sess[u].gnb  BY <1>3 DEF Grown
<1>7. link[u].id = 0 /\ Local(u, sess[u].gnb)  BY <1>2, <1>3 DEF Linked, Address
<1>8. Inactive(u)'  BY <1>2, <1>3 DEF Inactive
<1>9. Address(u)'
  <2>1. ASSUME NEW q \in Mine(u)' PROVE Local(u, cmd'[q].gnb)
    <3>1. CASE q = Len(cmd) + 1  BY <3>1, <1>6, <1>7
    <3>2. CASE q \in Mine(u)  BY <3>2, <1>2, <1>4 DEF Address
    <3>3. QED  BY <3>1, <3>2, <1>4
  <2>2. QED  BY <1>2, <1>3, <1>7, <2>1 DEF Address, Local
<1>10. Heard(u)'  BY <1>2, <1>3 DEF Heard, Msgs, Local
<1>11. Alive(u)'
  <2>1. ASSUME NEW q \in Mine(u)', cmd'[q].at # "done"
        PROVE  q = Len(cmd) + 1
    BY <1>4, <1>5, <2>1
  <2>2. QED  BY <1>3, <1>7, <2>1 DEF Alive
<1>12. Linked(u)'  BY <1>3, <1>6, <1>7 DEF Linked
<1>13. Accepted(u)'  BY <1>2, <1>3 DEF Accepted, SameSess
<1>14. QED  BY <1>8, <1>9, <1>10, <1>11, <1>12, <1>13 DEF Sound

\* SetupRules: its goroutine waits, so that the link is there; and the session was accepted.
LEMMA RulesSucceed ==
    ASSUME NoRaces, OrphanInv, NEW u \in Ues, Sound(u), SetupRules(u)
    PROVE  /\ pc[u] = "rules" /\ TypeOK' /\ Links' /\ RulesWritten(u) /\ ~Fatal
           /\ sess[u].stop \in Mine(u) /\ cmd[sess[u].stop].at = "wait"
           /\ link[u].id = sess[u].stop /\ sess[u].stop # 0 /\ sess[u].ip = Ipv4(u)
<1>1. TypeOK /\ Links /\ Named(u) /\ Stops(u) /\ Place(u) /\ sess[u] \in SessRec  BY Parts
<1>2. Linked(u) /\ Accepted(u)  BY DEF Sound
<1>3. /\ pc[u] = "rules" /\ cmd[sess[u].stop].at \in {"wait", "done"}
      /\ \/ Fatal /\ ~Commands(link[u].id # 0, sess[u])
         \/ TypeOK' /\ Links' /\ RulesWritten(u)
  BY <1>1, RulesEffect DEF NoRaces
<1>4. sess[u].stop # 0 /\ sess[u].stop \in Mine(u) /\ sess[u].up  BY <1>1, <1>3 DEF Place, Stops
<1>5. cmd[sess[u].stop].at = "wait"  BY <1>1, <1>3, <1>4 DEF Stops
<1>6. link[u].id = sess[u].stop  BY <1>2, <1>3, <1>5 DEF Linked
<1>7. sess[u].ip = Ipv4(u)  BY <1>2, <1>3, <1>4 DEF Accepted
<1>8. Commands(link[u].id # 0, sess[u])
  <2>1. Commands(TRUE, sess[u])  BY <1>1, <1>7, CommandsParse
  <2>2. (link[u].id # 0) = TRUE  BY <1>4, <1>6
  <2>3. QED  BY <2>1, <2>2, Zenon
<1>9. TypeOK' /\ Links' /\ RulesWritten(u)  BY <1>3, <1>8
<1>10. ~Fatal
  <2>1. pc'[u] = "loop"  BY <1>9 DEF RulesWritten
  <2>2. QED  BY <1>3, <2>1, FatalEffect
<1>11. QED  BY <1>3, <1>4, <1>5, <1>6, <1>7, <1>9, <1>10

LEMMA SoundRules ==
    ASSUME NoRaces, OrphanInv, NEW u \in Ues, Sound(u), SetupRules(u)
    PROVE  Sound(u)'
<1>1. /\ pc[u] = "rules" /\ RulesWritten(u) /\ sess[u].stop \in Mine(u)
      /\ cmd[sess[u].stop].at = "wait" /\ link[u].id = sess[u].stop /\ sess[u].ip = Ipv4(u)
  BY RulesSucceed
<1>2. Inactive(u) /\ Address(u) /\ Heard(u) /\ Alive(u) /\ Linked(u) /\ Accepted(u)  BY DEF Sound
<1>3. /\ pc'[u] = "loop" /\ active' = active /\ net' = net /\ inbox' = inbox /\ cmd' = cmd
      /\ link'[u].id = link[u].id /\ sess'[u].up = sess[u].up /\ sess'[u].ip = sess[u].ip
      /\ sess'[u].stop = sess[u].stop
  BY <1>1 DEF RulesWritten
<1>4. Mine(u)' = Mine(u)  BY <1>3 DEF Mine, Cmds
<1>5. Inactive(u)'  BY <1>1, <1>2, <1>3 DEF Inactive
<1>6. Address(u)'  BY <1>2, <1>3, <1>4 DEF Address, Local
<1>7. Heard(u)'  BY <1>2, <1>3 DEF Heard, Msgs, Local
<1>8. Alive(u)'
  <2>1. ASSUME NEW q \in Mine(u), cmd[q].at # "done" PROVE sess[u].stop = q /\ cmd[q].at = "wait"
    BY <1>1, <1>2, <2>1 DEF Alive
  <2>2. QED  BY <1>3, <1>4, <2>1 DEF Alive
<1>9. Linked(u)'  BY <1>2, <1>3, <1>4 DEF Linked
<1>10. Accepted(u)'  BY <1>1, <1>3 DEF Accepted
<1>11. QED  BY <1>5, <1>6, <1>7, <1>8, <1>9, <1>10 DEF Sound

LEMMA SoundUeStep ==
    ASSUME NoRaces, NoTunnelLoop, OrphanInv, NEW u \in Ues, Sound(u), Step(u)
    PROVE  Sound(u)'
<1>1. /\ TypeOK /\ Links /\ Named(u) /\ Stops(u) /\ Place(u) /\ Started(u)
      /\ Len(inbox[u]) \in Nat /\ sess[u] \in SessRec /\ net[u] \in NetRec
  BY Parts
<1>2. Inactive(u) /\ Address(u) /\ Heard(u) /\ Alive(u) /\ Linked(u) /\ Accepted(u)  BY DEF Sound
<1>3. active' = active  BY ElsewhereUe DEF Elsewhere
<1>4. cmd' = cmd => Steady(u)  BY CmdUnchanged, SteadySame
<1>5. Local(u, net[u].gnb) /\ Home[u] \in Gnbs /\ Local(u, Home[u])
  BY <1>2, Nums DEF Address, Local
<1>6. u \in active => Inactive(u)'  BY <1>3 DEF Inactive
<1>7. inbox[u] # <<>> => u \in active  BY <1>2 DEF Inactive
<1>8. Taken(u) => u \in active
  <2>1. Taken(u) => inbox[u] # <<>>  BY DEF Taken
  <2>2. QED  BY <1>7, <2>1
<1>9. CASE InitPduSessionRequest(u)
  <2>1. /\ u \in active /\ pc[u] = "loop" /\ ~sess[u].up /\ inbox[u] = <<>>
        /\ pc' = pc /\ cmd' = cmd /\ link' = link /\ sess'[u] = NewSession
        /\ \E t \in Teids, q \in Qfi :
             /\ net'[u] = NetUp(net[u].gnb, t)
             /\ SentTwo(u, Accept, Setup(1, net[u].gnb, t, q))
    BY <1>1, <1>9, InitEffect DEF NoRaces
  <2>2. PICK t \in Teids, q \in Qfi :
          /\ net'[u] = NetUp(net[u].gnb, t) /\ SentTwo(u, Accept, Setup(1, net[u].gnb, t, q))
    BY <2>1
  <2>3. net[u].gnb \in Gnbs  BY <1>5 DEF Local
  <2>4. net'[u].gnb = net[u].gnb  BY <2>2, <2>3, Networks
  <2>5. Len(inbox[u]) = 0  BY <2>1
  <2>6. PICK m : m = Setup(1, net[u].gnb, t, q)  OBVIOUS
  <2>7. Len(inbox'[u]) = 2 /\ inbox'[u][1] = Accept /\ inbox'[u][2] = m
    BY <2>2, <2>5, <2>6 DEF SentTwo
  <2>8. m.gnb = net[u].gnb /\ ~Setup1(Accept) /\ Accept.type = "accept"
    BY <2>3, <2>6, Messages DEF Setup1
  <2>9. Heard(u)'
    <3>1. ASSUME NEW i \in 1..2, Setup1(inbox'[u][i]) PROVE Local(u, inbox'[u][i].gnb)
      <4>1. i = 1 \/ i = 2  OBVIOUS
      <4>2. QED  BY <1>5, <2>7, <2>8, <3>1, <4>1
    <3>2. QED  BY <1>3, <2>7, <3>1 DEF Heard, Msgs, Local
  <2>10. Accepted(u)'  BY <2>1, <2>7, <2>8 DEF Accepted
  <2>11. sess'[u].stop = sess[u].stop  BY <1>1, <2>1, Blank DEF Place
  <2>12. QED  BY <1>3, <1>4, <1>5, <1>6, <2>1, <2>4, <2>9, <2>10, <2>11, SoundSteady
<1>10. CASE SetupAgain(u)
  <2>1. u \in active /\ pc' = pc /\ cmd' = cmd /\ link' = link /\ sess' = sess
    BY <1>1, <1>10, AgainEffect
  <2>2. PICK g \in Gnbs, t \in Teids, q \in Qfi :
          MaySwitch(u, g) /\ net'[u] = NetUp(g, t) /\ SentOne(u, Setup(1, g, t, q))
    BY <1>1, <1>10, AgainEffect
  <2>3. Local(u, g)  BY <1>5, <2>2 DEF MaySwitch, Local, NoRaces
  <2>4. net'[u].gnb = g /\ Setup(1, g, t, q).gnb = g  BY <2>2, Networks, Messages
  <2>5. Heard(u)'  BY <1>2, <1>3, <2>2, <2>3, <2>4, HeardSent
  <2>6. Accepted(u)'  BY <1>2, <2>1, <2>2, AcceptedSent
  <2>7. pc'[u] \in {"spawn", "rules"} => Local(u, sess'[u].gnb)  BY <1>2, <2>1 DEF Address
  <2>8. QED  BY <1>3, <1>4, <1>6, <2>1, <2>3, <2>4, <2>5, <2>6, <2>7, SoundSteady
<1>11. CASE SetupOther(u)
  <2>1. /\ u \in active /\ pc' = pc /\ cmd' = cmd /\ link' = link /\ sess' = sess /\ net' = net
        /\ net[u].gnb \in Gnbs /\ SentOne(u, Setup(2, net[u].gnb, 0, 0))
    BY <1>1, <1>11, OtherEffect
  <2>2. ~Setup1(Setup(2, net[u].gnb, 0, 0))  BY <2>1, Messages DEF Setup1
  <2>3. Heard(u)'  BY <1>2, <1>3, <2>1, <2>2, HeardSent
  <2>4. Accepted(u)'  BY <1>2, <2>1, AcceptedSent
  <2>5. pc'[u] \in {"spawn", "rules"} => Local(u, sess'[u].gnb)  BY <1>2, <2>1 DEF Address
  <2>6. QED  BY <1>3, <1>4, <1>5, <1>6, <2>1, <2>3, <2>4, <2>5, SoundSteady
<1>12. CASE NetRelease(u)
  <2>1. /\ u \in active /\ pc' = pc /\ cmd' = cmd /\ link' = link /\ sess' = sess
        /\ net'[u].gnb = net[u].gnb /\ (SentOne(u, Release) \/ Inserted(u, Release))
    BY <1>1, <1>12, NetReleaseEffect
  <2>2. ~Setup1(Release)  BY Messages DEF Setup1
  <2>3. Heard(u)'  BY <1>2, <1>3, <2>1, <2>2, HeardSent
  <2>4. Accepted(u)'  BY <1>2, <2>1, AcceptedSent
  <2>5. pc'[u] \in {"spawn", "rules"} => Local(u, sess'[u].gnb)  BY <1>2, <2>1 DEF Address
  <2>6. QED  BY <1>3, <1>4, <1>5, <1>6, <2>1, <2>3, <2>4, <2>5, SoundSteady
<1>13. CASE HandleAccept(u)
  <2>1. /\ pc' = pc /\ pc[u] = "loop" /\ cmd' = cmd /\ link' = link /\ net' = net /\ Taken(u)
        /\ sess'[u].stop = sess[u].stop /\ sess'[u].up = sess[u].up
        /\ sess[u].up => sess'[u].ip = Ipv4(u)
    BY <1>1, <1>13, AcceptEffect
  <2>2. Heard(u)'  BY <1>2, <1>3, <2>1, HeardTaken
  <2>3. Accepted(u)'  BY <2>1 DEF Accepted
  <2>4. QED  BY <1>3, <1>4, <1>5, <1>6, <1>8, <2>1, <2>2, <2>3, SoundSteady
<1>14. CASE SetupSkipped(u)
  <2>1. /\ pc' = pc /\ pc[u] = "loop" /\ cmd' = cmd /\ link' = link /\ net' = net /\ Taken(u)
        /\ sess'[u].stop = sess[u].stop /\ SameSess(u) /\ inbox[u][1].type = "setup"
    BY <1>1, <1>14, SkippedEffect
  <2>2. Heard(u)'  BY <1>2, <1>3, <2>1, HeardTaken
  <2>3. Accepted(u)'  BY <1>2, <2>1 DEF Accepted, SameSess
  <2>4. QED  BY <1>3, <1>4, <1>5, <1>6, <1>8, <2>1, <2>2, <2>3, SoundSteady
<1>15. CASE SetupGtpInterface(u)
  <2>1. /\ pc[u] = "loop" /\ pc'[u] = "spawn" /\ net' = net /\ Taken(u) /\ link'[u] = NoLink
        /\ sess'[u].stop = sess[u].stop /\ SameSess(u) /\ Setup1(inbox[u][1])
        /\ sess'[u].gnb = inbox[u][1].gnb
        /\ IF sess[u].stop = 0 THEN cmd' = cmd ELSE Signalled(sess[u].stop)
    BY <1>1, <1>15, InterfaceEffect
  <2>2. Heard(u)' /\ Local(u, sess'[u].gnb)  BY <1>2, <1>3, <2>1, HeardTaken
  <2>3. Accepted(u)'  BY <1>2, <2>1 DEF Accepted, SameSess, Setup1
  <2>4. Steady(u)
    <3>1. CASE sess[u].stop = 0  BY <1>4, <2>1, <3>1
    <3>2. CASE sess[u].stop # 0
      <4>1. PICK p \in Cmds : p = sess[u].stop  BY <1>1, <3>2 DEF Stops, Mine
      <4>2. QED  BY <2>1, <3>2, <4>1, SteadySignalled
    <3>3. QED  BY <3>1, <3>2
  <2>5. link'[u].id = 0  BY <2>1 DEF NoLink
  <2>6. QED  BY <1>3, <1>5, <1>6, <1>8, <2>1, <2>2, <2>3, <2>4, <2>5, SoundSteady
<1>16. CASE SetupStart(u)  BY <1>16, SoundStart
<1>17. CASE SetupRules(u)  BY <1>17, SoundRules
<1>18. CASE DeletePduSession(u)
  <2>1. /\ pc[u] = "loop" /\ cmd' = cmd /\ link' = link /\ net' = net /\ Taken(u)
        /\ inbox[u][1].type = "release"
        /\ \/ sess[u].up /\ sess[u].stop # 0 /\ pc'[u] = "stop" /\ sess'[u] = sess[u]
           \/ ~(sess[u].up /\ sess[u].stop # 0) /\ pc'[u] = "loop" /\ sess'[u] = NoSession
    BY <1>1, <1>18, DeleteEffect
  <2>2. Heard(u)'  BY <1>2, <1>3, <2>1, HeardTaken
  <2>3. Accepted(u)'  BY <1>2, <2>1, Blank DEF Accepted
  <2>4. sess'[u].stop = sess[u].stop  BY <1>1, <2>1, Blank DEF Place
  <2>5. pc'[u] \in {"loop", "stop"}  BY <2>1
  <2>6. QED  BY <1>3, <1>4, <1>5, <1>6, <1>8, <2>1, <2>2, <2>3, <2>4, <2>5, SoundSteady
<1>19. CASE Terminate(u)
  <2>1. /\ u \in active /\ pc[u] = "loop" /\ pc'[u] = "ended" /\ inbox'[u] = <<>>
        /\ sess' = sess /\ cmd' = cmd /\ (net'[u] = net[u] \/ net'[u] = NetDown(u))
        /\ link'[u] = NoLink \/ link'[u] = link[u]
    BY <1>1, <1>19, TerminateEffect
  <2>2. Heard(u)'  BY <2>1 DEF Heard, Msgs
  <2>3. Accepted(u)'  BY <2>1 DEF Accepted
  <2>4. Local(u, net'[u].gnb)
    <3>1. NetDown(u).gnb = Home[u]  BY DEF NetDown
    <3>2. QED  BY <1>5, <2>1, <3>1
  <2>5. link'[u].id \in {link[u].id, 0}  BY <2>1 DEF NoLink
  <2>6. QED  BY <1>3, <1>4, <1>6, <2>1, <2>2, <2>3, <2>4, <2>5, SoundSteady
<1>20. CASE Restart(u)
  <2>1. /\ mode \in Loop /\ pc[u] = "ended" /\ pc'[u] = "loop" /\ sess'[u] = NoSession
        /\ net'[u] = NetDown(u) /\ inbox' = inbox /\ cmd' = cmd /\ link' = link
    BY <1>1, <1>20, RestartEffect
  <2>2. u \in active  BY <1>2, <2>1 DEF Inactive
  <2>3. Heard(u)'  BY <1>2, <1>3, <2>1 DEF Heard, Msgs, Local
  <2>4. Accepted(u)'  BY <2>1, Blank DEF Accepted
  <2>5. Local(u, net'[u].gnb)
    <3>1. NetDown(u).gnb = Home[u]  BY DEF NetDown
    <3>2. QED  BY <1>5, <2>1, <3>1
  <2>6. sess'[u].stop = sess[u].stop
    <3>1. mode = "disabled"  BY <2>1 DEF NoTunnelLoop
    <3>2. sess[u].stop = 0  BY <1>1, <3>1 DEF Started, Stops
    <3>3. QED  BY <2>1, <3>2, Blank
  <2>7. QED  BY <1>3, <1>4, <1>6, <2>1, <2>2, <2>3, <2>4, <2>5, <2>6, SoundSteady
<1>21. QED
  BY <1>9, <1>10, <1>11, <1>12, <1>13, <1>14, <1>15, <1>16, <1>17, <1>18, <1>19, <1>20
     DEF Step, UeStep

\* The goroutine of a tunnel finds the address of its gNodeB and the name of its link free.
LEMMA CmdSucceeds ==
    ASSUME AliveInv, NEW p \in Cmds, CmdAdd(p)
    PROVE  ~Fatal
<1>1. OrphanInv /\ \A v \in Ues : Sound(v)  BY DEF AliveInv
<1>2. TypeOK /\ Links /\ CmdOK  BY <1>1, Parts
<1>3. DOMAIN cmd = Cmds /\ \A q \in Cmds : cmd[q].ue \in Ues /\ q \in Mine(cmd[q].ue)
  <2>1. DOMAIN cmd = Cmds /\ \A q \in Cmds : cmd[q] \in CmdRec  BY <1>2 DEF CmdOK, Cmds
  <2>2. QED  BY <2>1 DEF CmdRec, Mine
<1>4. PICK u \in Ues : u = cmd[p].ue /\ p \in Mine(u)  BY <1>3
<1>5. Sound(u) /\ Alive(u) /\ Address(u) /\ Inactive(u)  BY <1>1 DEF Sound
<1>6. SUFFICES ASSUME Fatal PROVE FALSE  OBVIOUS
<1>7. fate' = "fatal" /\ pc' = pc /\ cmd' = cmd  BY <1>6, FatalEffect
<1>8. ASSUME Moved(p, "bound") \/ Moved(p, "wait") \/ Moved(p, "done"),
             cmd[p].at \in {"start", "bound", "wait"}, fate' = "run"
      PROVE  FALSE
  BY <1>7, <1>8
<1>9. CASE CmdAddListen(p)
  <2>1. cmd[p].at = "start"  BY <1>2, <1>9, ListenEffect
  <2>2. CASE Bound(cmd[p].gnb)
    <3>1. PICK q \in Cmds : cmd[q].gnb = cmd[p].gnb /\ cmd[q].at \in {"bound", "wait"}
      BY <1>3, <2>2 DEF Bound
    <3>2. PICK v \in Ues : v = cmd[q].ue /\ q \in Mine(v)  BY <1>3
    <3>3. Alive(v) /\ Address(v) /\ Inactive(v)  BY <1>1 DEF Sound
    <3>4. u \in active /\ v \in active  BY <1>4, <1>5, <3>2, <3>3 DEF Inactive
    <3>5. Local(u, cmd[p].gnb) /\ Local(v, cmd[p].gnb)  BY <1>4, <1>5, <3>1, <3>2, <3>3 DEF Address
    <3>6. u = v
      <4>1. CASE active = {u} \/ active = {v}  BY <3>4, <4>1
      <4>2. CASE ~(active = {u} \/ active = {v})
        <5>1. Home[u] = cmd[p].gnb /\ Home[v] = cmd[p].gnb  BY <3>5, <4>2 DEF Local
        <5>2. QED  BY <5>1, HomeAssumption
      <4>3. QED  BY <4>1, <4>2
    <3>7. sess[u].stop = p /\ sess[u].stop = q  BY <1>4, <1>5, <2>1, <3>1, <3>2, <3>6 DEF Alive
    <3>8. QED  BY <2>1, <3>1, <3>7
  <2>3. CASE ~Bound(cmd[p].gnb)  BY <1>7, <1>9, <2>3 DEF CmdAddListen
  <2>4. QED  BY <2>2, <2>3
<1>10. CASE CmdAddCreate(p)
  <2>1. cmd[p].at = "bound"  BY <1>2, <1>10, CreateEffect
  <2>2. link[u].id = 0  BY <1>4, <1>5, <2>1 DEF Alive
  <2>3. fate' = fate /\ fate = "run"  BY <1>4, <1>10, <2>2 DEF CmdAddCreate
  <2>4. QED  BY <1>7, <2>3
<1>11. CASE CmdAddReturn(p)
  <2>1. fate' = fate /\ fate = "run"  BY <1>11 DEF CmdAddReturn
  <2>2. QED  BY <1>7, <2>1
<1>12. CASE CmdAddStopped(p)
  <2>1. fate' = fate /\ fate = "run"  BY <1>12 DEF CmdAddStopped
  <2>2. QED  BY <1>7, <2>1
<1>13. QED  BY <1>9, <1>10, <1>11, <1>12 DEF CmdAdd

\* A goroutine of the UE moves on: what that leaves to be shown.
LEMMA SoundMoved ==
    ASSUME OrphanInv, NEW u \in Ues, Sound(u), NEW p \in Cmds, u = cmd[p].ue, NEW a, Moved(p, a),
           active' = active, net' = net, inbox' = inbox,
           pc'[u] = pc[u] \/ pc'[u] = "loop", Accepted(u)',
           pc'[u] \in {"spawn", "rules"} => sess'[u].gnb = sess[u].gnb
    PROVE  /\ Inactive(u)' /\ Address(u)' /\ Heard(u)'
           /\ p \in Mine(u) /\ Mine(u)' = Mine(u) /\ cmd'[p].at = a
           /\ \A q \in Mine(u) : q # p => cmd'[q] = cmd[q]
<1>1. Inactive(u) /\ Address(u) /\ Heard(u)  BY DEF Sound
<1>2. Mine(u)' = Mine(u) /\ \A q \in Mine(u) : q # p => cmd'[q] = cmd[q]  BY MineKept DEF Moved
<1>3. p \in Mine(u)  BY DEF Mine
<1>4. cmd'[p].at = a /\ cmd'[p].gnb = cmd[p].gnb  BY DEF Moved
<1>5. Inactive(u)'  BY <1>1, <1>2, <1>3 DEF Inactive
<1>6. Address(u)'
  <2>1. \A q \in Mine(u) : cmd'[q].gnb = cmd[q].gnb  BY <1>2, <1>4
  <2>2. QED  BY <1>1, <1>2, <2>1 DEF Address, Local
<1>7. Heard(u)'  BY <1>1 DEF Heard, Msgs, Local
<1>8. QED  BY <1>2, <1>3, <1>4, <1>5, <1>6, <1>7

LEMMA SoundCmdStep ==
    ASSUME OrphanInv, NEW p \in Cmds, NEW u \in Ues, u = cmd[p].ue, Sound(u), CmdAdd(p), ~Fatal
    PROVE  Sound(u)'
<1>1. TypeOK /\ Links /\ Stops(u) /\ Place(u) /\ Len(inbox[u]) \in Nat  BY Parts
<1>2. Inactive(u) /\ Address(u) /\ Heard(u) /\ Alive(u) /\ Linked(u) /\ Accepted(u)  BY DEF Sound
<1>3. p \in Mine(u) /\ p # 0  BY DEF Mine, Cmds
<1>4. ASSUME NEW q \in Mine(u), cmd[q].at # "done", pc[u] = "rules" PROVE sess[u].stop = q
  BY <1>2, <1>4 DEF Alive
<1>5. CASE CmdAddListen(p)
  <2>1. /\ cmd[p].at = "start" /\ Moved(p, "bound") /\ active' = active /\ net' = net
        /\ inbox' = inbox /\ pc' = pc /\ sess' = sess /\ link' = link
    BY <1>1, <1>5, ListenEffect
  <2>2. Accepted(u)'  BY <1>2, <2>1 DEF Accepted
  <2>3. /\ Inactive(u)' /\ Address(u)' /\ Heard(u)' /\ Mine(u)' = Mine(u) /\ cmd'[p].at = "bound"
        /\ \A q \in Mine(u) : q # p => cmd'[q] = cmd[q]
    BY <2>1, <2>2, SoundMoved
  <2>4. sess[u].stop = p /\ pc[u] = "rules" /\ link[u].id = 0  BY <1>2, <1>3, <2>1 DEF Alive
  <2>5. Alive(u)'  BY <1>2, <2>1, <2>3, <2>4 DEF Alive
  <2>6. Linked(u)'  BY <2>1, <2>3, <2>4 DEF Linked
  <2>7. QED  BY <2>2, <2>3, <2>5, <2>6 DEF Sound
<1>6. CASE CmdAddCreate(p)
  <2>1. /\ cmd[p].at = "bound" /\ Moved(p, "wait") /\ active' = active /\ net' = net
        /\ inbox' = inbox /\ pc' = pc /\ sess' = sess
        /\ link'[u] = [id |-> p, rules |-> NoRules]
    BY <1>1, <1>6, CreateEffect
  <2>2. Accepted(u)'  BY <1>2, <2>1 DEF Accepted
  <2>3. /\ Inactive(u)' /\ Address(u)' /\ Heard(u)' /\ Mine(u)' = Mine(u) /\ cmd'[p].at = "wait"
        /\ \A q \in Mine(u) : q # p => cmd'[q] = cmd[q]
    BY <2>1, <2>2, SoundMoved
  <2>4. sess[u].stop = p /\ pc[u] = "rules"  BY <1>2, <1>3, <2>1 DEF Alive
  <2>5. link'[u].id = p  BY <2>1
  <2>6. \A q \in Mine(u) : q # p => cmd[q].at = "done"  BY <1>4, <2>4
  <2>7. Alive(u)'
    <3>1. ASSUME NEW q \in Mine(u), cmd'[q].at # "done" PROVE q = p  BY <2>3, <2>6, <3>1
    <3>2. QED  BY <2>1, <2>3, <2>4, <3>1 DEF Alive
  <2>8. Linked(u)'  BY <1>3, <2>1, <2>3, <2>4, <2>5 DEF Linked
  <2>9. QED  BY <2>2, <2>3, <2>7, <2>8 DEF Sound
<1>7. CASE CmdAddReturn(p)
  <2>1. /\ cmd[p].at = "wait" /\ cmd[p].told = "yes" /\ Moved(p, "done") /\ active' = active
        /\ net' = net /\ inbox' = inbox /\ pc' = pc /\ sess' = sess /\ link' = link
    BY <1>1, <1>7, ReturnEffect
  <2>2. Accepted(u)'  BY <1>2, <2>1 DEF Accepted
  <2>3. /\ Inactive(u)' /\ Address(u)' /\ Heard(u)' /\ Mine(u)' = Mine(u) /\ cmd'[p].at = "done"
        /\ \A q \in Mine(u) : q # p => cmd'[q] = cmd[q]
    BY <2>1, <2>2, SoundMoved
  <2>4. pc[u] # "rules"
    <3>1. SUFFICES ASSUME pc[u] = "rules" PROVE FALSE  OBVIOUS
    <3>2. sess[u].stop = p  BY <1>3, <1>4, <2>1, <3>1
    <3>3. QED  BY <1>1, <1>3, <2>1, <3>1, <3>2 DEF Stops
  <2>5. Alive(u)'  BY <1>2, <2>1, <2>3 DEF Alive
  <2>6. Linked(u)'  BY <1>2, <2>1, <2>3, <2>4 DEF Linked
  <2>7. QED  BY <2>2, <2>3, <2>5, <2>6 DEF Sound
<1>8. CASE CmdAddStopped(p)
  <2>1. /\ cmd[p].at = "wait" /\ sess[u].stop = p /\ Signalled(p) /\ active' = active
        /\ net' = net /\ inbox' = inbox /\ pc'[u] = "loop" /\ sess'[u] = NoSession /\ link' = link
        /\ pc[u] = "stop"
    BY <1>1, <1>8, StoppedEffect
  <2>2. Accepted(u)'  BY <2>1, Blank DEF Accepted
  <2>3. Steady(u) /\ cmd'[p].told = "yes"  BY <2>1, SteadySignalled DEF Signalled
  <2>4. Inactive(u)'  BY <1>2, <1>3, <2>1 DEF Inactive
  <2>5. Address(u)'
    <3>1. \A q \in Mine(u) : Local(u, cmd'[q].gnb)  BY <1>2, <2>3 DEF Address, Steady
    <3>2. QED  BY <1>2, <2>1, <2>3, <3>1 DEF Address, Steady, Local
  <2>6. Heard(u)'  BY <1>2, <2>1 DEF Heard, Msgs, Local
  <2>7. Alive(u)'
    <3>1. ASSUME NEW q \in Mine(u)
          PROVE  /\ cmd'[q].at # "done" => cmd'[q].told = "yes"
                 /\ cmd'[q].at \notin {"start", "bound"}
      <4>1. cmd'[q].at = cmd[q].at /\ (cmd[q].told = "yes" => cmd'[q].told = "yes")
        BY <2>3 DEF Steady
      <4>2. CASE q = p  BY <2>1, <2>3, <4>1, <4>2
      <4>3. CASE q # p  BY <1>2, <2>1, <4>1, <4>3 DEF Alive
      <4>4. QED  BY <4>2, <4>3
    <3>2. QED  BY <2>1, <2>3, <3>1 DEF Alive, Steady
  <2>8. Linked(u)'  BY <1>2, <2>1, <2>3 DEF Linked, Steady
  <2>9. QED  BY <2>2, <2>4, <2>5, <2>6, <2>7, <2>8 DEF Sound
<1>9. QED  BY <1>5, <1>6, <1>7, <1>8 DEF CmdAdd

LEMMA ExpectedKept ==
    ASSUME NEW v \in Ues, Same(v), Expected(v) PROVE Expected(v)'
BY DEF Expected, Same, Msgs

LEMMA ExpectedSent ==
    ASSUME OrphanInv, NEW u \in Ues, Expected(u), NEW m, SentOne(u, m) \/ Inserted(u, m),
           m.type # "accept", pc'[u] = pc[u], sess'[u] = sess[u]
    PROVE  Expected(u)'
<1>1. Len(inbox[u]) \in Nat  BY Parts
<1>2. SUFFICES ASSUME NEW i \in 1..Len(inbox'[u]), inbox'[u][i].type = "accept"
               PROVE  i = 1 /\ sess[u].up /\ pc[u] = "loop"
  BY DEF Expected, Msgs
<1>3. \A j \in 1..Len(inbox[u]) : inbox[u][j].type = "accept" => j = 1 /\ sess[u].up /\ pc[u] = "loop"
  BY DEF Expected, Msgs
<1>4. CASE SentOne(u, m)
  <2>1. i # Len(inbox[u]) + 1  BY <1>2, <1>4 DEF SentOne
  <2>2. i \in 1..Len(inbox[u]) /\ inbox'[u][i] = inbox[u][i]
    BY <1>1, <1>4, <2>1 DEF SentOne, Msgs
  <2>3. QED  BY <1>2, <1>3, <2>2
<1>5. CASE Inserted(u, m)
  <2>1. i # Len(inbox[u])  BY <1>2, <1>5 DEF Inserted
  <2>2. i # Len(inbox[u]) + 1  BY <1>1, <1>2, <1>5 DEF Inserted
  <2>3. i \in 1..Len(inbox[u]) /\ inbox'[u][i] = inbox[u][i]
    BY <1>1, <1>5, <2>1, <2>2 DEF Inserted
  <2>4. QED  BY <1>2, <1>3, <2>3
<1>6. QED  BY <1>4, <1>5

LEMMA ExpectedTaken ==
    ASSUME OrphanInv, NEW u \in Ues, Expected(u), Taken(u)
    PROVE  Expected(u)' /\ (inbox[u][1].type = "accept" => sess[u].up)
<1>1. Len(inbox[u]) \in Nat  BY Parts
<1>2. \A j \in 1..Len(inbox[u]) : inbox[u][j].type = "accept" => j = 1 /\ sess[u].up
  BY DEF Expected, Msgs
<1>3. ASSUME NEW i \in 1..Len(inbox'[u]) PROVE inbox'[u][i].type # "accept"
  <2>1. i + 1 \in 1..Len(inbox[u]) /\ inbox'[u][i] = inbox[u][i + 1] /\ i + 1 # 1
    BY <1>1 DEF Taken
  <2>2. QED  BY <1>2, <2>1
<1>4. 1 \in 1..Len(inbox[u])  BY <1>1 DEF Taken
<1>5. QED  BY <1>2, <1>3, <1>4 DEF Expected, Msgs

\* An accept stays first in its channel until it is handled, and its session is there.
LEMMA ExpectedUeStep ==
    ASSUME NoRaces, OrphanInv, NEW u \in Ues, Expected(u), Step(u)
    PROVE  Expected(u)'
<1>1. TypeOK /\ Links /\ Named(u) /\ Len(inbox[u]) \in Nat  BY Parts
<1>2. Taken(u) => Expected(u)'  BY ExpectedTaken
<1>3. pc[u] # "loop" => \A i \in Msgs(u) : inbox[u][i].type # "accept"  BY DEF Expected
<1>4. ASSUME pc[u] # "loop", inbox' = inbox PROVE Expected(u)'  BY <1>3, <1>4 DEF Expected, Msgs
<1>5. CASE InitPduSessionRequest(u)
  <2>1. PICK t \in Teids, q \in Qfi :
          /\ pc[u] = "loop" /\ inbox[u] = <<>> /\ pc' = pc /\ sess'[u] = NewSession
          /\ SentTwo(u, Accept, Setup(1, net[u].gnb, t, q))
    BY <1>1, <1>5, InitEffect DEF NoRaces
  <2>2. PICK m : m = Setup(1, net[u].gnb, t, q)  OBVIOUS
  <2>3. Len(inbox'[u]) = 2 /\ inbox'[u][2] = m  BY <2>1, <2>2 DEF SentTwo
  <2>4. m.type = "setup"  BY <2>2 DEF Setup
  <2>5. sess'[u].up  BY <2>1, Blank
  <2>6. ASSUME NEW i \in 1..2, inbox'[u][i].type = "accept" PROVE i = 1
    BY <2>3, <2>4, <2>6
  <2>7. QED  BY <2>1, <2>3, <2>5, <2>6 DEF Expected, Msgs
<1>6. CASE SetupAgain(u)
  <2>1. PICK g \in Gnbs, t \in Teids, q \in Qfi :
          pc' = pc /\ sess' = sess /\ SentOne(u, Setup(1, g, t, q))
    BY <1>1, <1>6, AgainEffect
  <2>2. Setup(1, g, t, q).type # "accept"  BY DEF Setup
  <2>3. QED  BY <2>1, <2>2, ExpectedSent
<1>7. CASE SetupOther(u)
  <2>1. pc' = pc /\ sess' = sess /\ SentOne(u, Setup(2, net[u].gnb, 0, 0))
    BY <1>1, <1>7, OtherEffect
  <2>2. Setup(2, net[u].gnb, 0, 0).type # "accept"  BY DEF Setup
  <2>3. QED  BY <2>1, <2>2, ExpectedSent
<1>8. CASE NetRelease(u)
  <2>1. pc' = pc /\ sess' = sess /\ (SentOne(u, Release) \/ Inserted(u, Release))
    BY <1>1, <1>8, NetReleaseEffect
  <2>2. Release.type # "accept"  BY DEF Release
  <2>3. QED  BY <2>1, <2>2, ExpectedSent
<1>9. CASE HandleAccept(u)  BY <1>1, <1>2, <1>9, AcceptEffect
<1>10. CASE SetupSkipped(u)  BY <1>1, <1>2, <1>10, SkippedEffect
<1>11. CASE SetupGtpInterface(u)  BY <1>1, <1>2, <1>11, InterfaceEffect
<1>12. CASE DeletePduSession(u)  BY <1>1, <1>2, <1>12, DeleteEffect
<1>13. CASE SetupStart(u)
  <2>1. pc[u] = "spawn" /\ inbox' = inbox  BY <1>1, <1>13, StartEffect
  <2>2. QED  BY <1>4, <2>1
<1>14. CASE SetupRules(u)
  <2>1. pc[u] = "rules" /\ inbox' = inbox
    BY <1>1, <1>14, RulesEffect, FatalEffect DEF RulesWritten
  <2>2. QED  BY <1>4, <2>1
<1>15. CASE Terminate(u)
  <2>1. inbox'[u] = <<>>  BY <1>1, <1>15, TerminateEffect
  <2>2. QED  BY <2>1 DEF Expected, Msgs
<1>16. CASE Restart(u)
  <2>1. pc[u] = "ended" /\ inbox' = inbox  BY <1>1, <1>16, RestartEffect
  <2>2. QED  BY <1>4, <2>1
<1>17. QED
  BY <1>5, <1>6, <1>7, <1>8, <1>9, <1>10, <1>11, <1>12, <1>13, <1>14, <1>15, <1>16
     DEF Step, UeStep

LEMMA ExpectedCmdStep ==
    ASSUME OrphanInv, NEW p \in Cmds, NEW u \in Ues, u = cmd[p].ue, Expected(u), CmdAdd(p), ~Fatal
    PROVE  Expected(u)'
<1>1. TypeOK /\ Links  BY Parts
<1>2. CASE CmdAddStopped(p)
  <2>1. pc[u] = "stop" /\ inbox' = inbox  BY <1>1, <1>2, StoppedEffect
  <2>2. QED  BY <2>1 DEF Expected, Msgs
<1>3. ASSUME pc' = pc, sess' = sess, inbox' = inbox PROVE Expected(u)'
  BY <1>3 DEF Expected, Msgs
<1>4. CASE CmdAddListen(p)  BY <1>1, <1>3, <1>4, ListenEffect
<1>5. CASE CmdAddCreate(p)  BY <1>1, <1>3, <1>5, CreateEffect
<1>6. CASE CmdAddReturn(p)  BY <1>1, <1>3, <1>6, ReturnEffect
<1>7. QED  BY <1>2, <1>4, <1>5, <1>6 DEF CmdAdd

\* A step of a UE does not end the process.
LEMMA StepSucceeds ==
    ASSUME NoRaces, OrphanInv, NoFatal, NEW u \in Ues, Sound(u), Expected(u), Step(u)
    PROVE  fate' = "run"
<1>1. TypeOK /\ Links /\ Named(u)  BY Parts
<1>2. fate = "run"  BY DEF NoFatal
<1>3. CASE SetupRules(u)
  <2>1. RulesWritten(u)  BY <1>3, RulesSucceed
  <2>2. QED  BY <1>2, <2>1 DEF RulesWritten
<1>4. CASE InitPduSessionRequest(u)  BY <1>1, <1>2, <1>4, InitEffect
<1>5. CASE SetupAgain(u)  BY <1>1, <1>2, <1>5, AgainEffect
<1>6. CASE SetupOther(u)  BY <1>1, <1>2, <1>6, OtherEffect
<1>7. CASE NetRelease(u)  BY <1>1, <1>2, <1>7, NetReleaseEffect
<1>8. CASE HandleAccept(u)
  <2>1. /\ Taken(u) /\ inbox[u][1].type = "accept"
        /\ fate' = IF sess[u].up THEN fate ELSE "fatal"
    BY <1>1, <1>8, AcceptEffect
  <2>2. QED  BY <1>2, <2>1, ExpectedTaken
<1>9. CASE SetupSkipped(u)  BY <1>1, <1>2, <1>9, SkippedEffect
<1>10. CASE SetupGtpInterface(u)  BY <1>1, <1>2, <1>10, InterfaceEffect
<1>11. CASE SetupStart(u)  BY <1>1, <1>2, <1>11, StartEffect
<1>12. CASE DeletePduSession(u)  BY <1>1, <1>2, <1>12, DeleteEffect
<1>13. CASE Terminate(u)  BY <1>1, <1>2, <1>13, TerminateEffect
<1>14. CASE Restart(u)  BY <1>1, <1>2, <1>14, RestartEffect
<1>15. QED
  BY <1>3, <1>4, <1>5, <1>6, <1>7, <1>8, <1>9, <1>10, <1>11, <1>12, <1>13, <1>14 DEF Step, UeStep

LEMMA AliveUeStep ==
    ASSUME NoRaces, NoTunnelLoop, AliveInv, NEW u \in Ues, Step(u)
    PROVE  AliveInv'
<1>1. OrphanInv /\ NoFatal /\ \A v \in Ues : Sound(v) /\ Expected(v)  BY DEF AliveInv
<1>2. OrphanInv'  BY <1>1, OrphanUeStep
<1>3. NoFatal'  BY <1>1, StepSucceeds DEF NoFatal
<1>4. Sound(u)' /\ Expected(u)'  BY <1>1, SoundUeStep, ExpectedUeStep
<1>5. Elsewhere(u)  BY <1>1, ElsewhereUe
<1>6. ASSUME NEW v \in Ues, v # u PROVE Sound(v)' /\ Expected(v)'
  <2>1. Same(v) /\ CmdSame(v) /\ active' = active  BY <1>5, <1>6 DEF Elsewhere
  <2>2. QED  BY <1>1, <2>1, SoundKept, ExpectedKept
<1>7. QED  BY <1>2, <1>3, <1>4, <1>6 DEF AliveInv

LEMMA AliveCmdStep ==
    ASSUME AliveInv, NEW p \in Cmds, CmdAdd(p)
    PROVE  AliveInv'
<1>1. OrphanInv /\ NoFatal /\ \A v \in Ues : Sound(v) /\ Expected(v)  BY DEF AliveInv
<1>2. OrphanInv'  BY <1>1, OrphanCmdStep
<1>3. ~Fatal /\ TypeOK /\ Links  BY <1>1, CmdSucceeds, Parts
<1>4. NoFatal'
  <2>1. fate = "run"  BY <1>1 DEF NoFatal
  <2>2. CASE CmdAddListen(p)  BY <1>3, <2>1, <2>2, ListenEffect DEF NoFatal
  <2>3. CASE CmdAddCreate(p)  BY <1>3, <2>1, <2>3, CreateEffect DEF NoFatal
  <2>4. CASE CmdAddReturn(p)  BY <1>3, <2>1, <2>4, ReturnEffect DEF NoFatal
  <2>5. CASE CmdAddStopped(p)  BY <1>3, <2>1, <2>5, StoppedEffect DEF NoFatal
  <2>6. QED  BY <2>2, <2>3, <2>4, <2>5 DEF CmdAdd
<1>5. PICK u : u = cmd[p].ue  OBVIOUS
<1>6. Elsewhere(u) /\ u \in Ues  BY <1>1, <1>5, ElsewhereCmd
<1>7. Sound(u)' /\ Expected(u)'  BY <1>1, <1>3, <1>5, <1>6, SoundCmdStep, ExpectedCmdStep
<1>8. ASSUME NEW v \in Ues, v # u PROVE Sound(v)' /\ Expected(v)'
  <2>1. Same(v) /\ CmdSame(v) /\ active' = active  BY <1>6, <1>8 DEF Elsewhere
  <2>2. QED  BY <1>1, <2>1, SoundKept, ExpectedKept
<1>9. QED  BY <1>2, <1>4, <1>7, <1>8 DEF AliveInv

LEMMA Stutter ==
    ASSUME UNCHANGED vars
    PROVE  UNCHANGED <<fate, mode, active, net, used, inbox, pc, sess, cmd, link, vrf, rules, route>>
BY DEF vars, hostVars, netVars

LEMMA AliveNext ==
    ASSUME NoRaces, NoTunnelLoop, AliveInv, [Next]_vars
    PROVE  AliveInv'
<1>1. OrphanInv /\ NoFatal /\ \A v \in Ues : Sound(v) /\ Expected(v)  BY DEF AliveInv
<1>2. CASE Next
  <2>1. DOMAIN cmd = Cmds
    <3>1. cmd \in Seq(CmdRec)  BY <1>1, Parts DEF CmdOK
    <3>2. QED  BY <3>1 DEF Cmds
  <2>2. QED  BY <1>2, <2>1, AliveUeStep, AliveCmdStep DEF Next, Step
<1>3. CASE UNCHANGED vars
  <2>1. OrphanInv'  BY <1>1, <1>3, OrphanNext
  <2>2. UNCHANGED <<fate, mode, active, net, used, inbox, pc, sess, cmd, link, vrf, rules, route>>
    BY <1>3, Stutter
  <2>3. ASSUME NEW v \in Ues PROVE Sound(v)' /\ Expected(v)'
    <3>1. Same(v) /\ CmdSame(v)  BY <2>2, CmdUnchanged DEF Same
    <3>2. QED  BY <1>1, <2>2, <3>1, SoundKept, ExpectedKept
  <2>4. QED  BY <1>1, <2>1, <2>2, <2>3 DEF AliveInv, NoFatal
<1>4. QED  BY <1>2, <1>3

LEMMA AliveInit == Init => AliveInv
<1> SUFFICES ASSUME Init PROVE AliveInv  OBVIOUS
<1>1. OrphanInv  BY OrphanInit
<1>2. ASSUME NEW u \in Ues PROVE Sound(u) /\ Expected(u)
  <2>1. /\ pc[u] = "loop" /\ sess[u] = NoSession /\ cmd = <<>> /\ inbox[u] = <<>>
        /\ net[u] = NetDown(u) /\ link[u] = NoLink
    BY DEF Init
  <2>2. Mine(u) = {} /\ Msgs(u) = {}  BY <2>1 DEF Cmds, Mine, Msgs
  <2>3. link[u].id = 0 /\ ~sess[u].up /\ net[u].gnb = Home[u]  BY <2>1, Blank DEF NoLink, NetDown
  <2>4. Local(u, Home[u])  BY HomeAssumption DEF Local
  <2>5. Inactive(u) /\ Heard(u) /\ Alive(u) /\ Accepted(u)
    BY <2>1, <2>2, <2>3 DEF Inactive, Heard, Alive, Accepted
  <2>6. Address(u) /\ Linked(u)  BY <2>1, <2>2, <2>3, <2>4 DEF Address, Linked
  <2>7. Expected(u)  BY <2>2 DEF Expected
  <2>8. QED  BY <2>5, <2>6, <2>7 DEF Sound
<1>3. QED  BY <1>1, <1>2 DEF AliveInv, NoFatal, Init

\* As long as a goroutine needs no more than the second its UE gives it and no UE moves to
\* the gNodeB of another, no setup ends the process, whatever the order of sessions, setups,
\* handovers and releases: the N3 address is free when CmdAdd binds it (--dedicatedGnb), the
\* name val<msin> when it creates the link, and the commands of SetupGtpInterface find the
\* link and a session whose address the accept has set.
THEOREM SetupsSucceed ==
    ASSUME NoRaces, NoTunnelLoop
    PROVE  Spec => []NoFatal
<1>1. AliveInv /\ [Next]_vars => AliveInv'  BY AliveNext
<1>2. AliveInv => NoFatal  BY DEF AliveInv
<1>3. QED  BY <1>1, <1>2, AliveInit, PTL DEF Spec

-----------------------------------------------------------------------------
(* The tunnel is the one the network expects.                              *)

LEMMA ArgOf ==
    ASSUME NEW opts, NEW i \in DOMAIN opts, NEW x, x = opts[i], NEW o, x.name = o,
           \A j \in DOMAIN opts : opts[j].name = o => opts[j] = x
    PROVE  \A n : Arg(opts, o, n) = x.args[n].val
<1>1. PICK y : y = CHOOSE z \in {opts[j] : j \in DOMAIN opts} : z.name = o  OBVIOUS
<1>2. x \in {opts[j] : j \in DOMAIN opts}  OBVIOUS
<1>3. y \in {opts[j] : j \in DOMAIN opts} /\ y.name = o  BY <1>1, <1>2
<1>4. y = x  BY <1>3
<1>5. QED  BY <1>1, <1>4, Zenon DEF Arg

\* The rules encapsulate with the TEID of the session and listen at its gNodeB.
LEMMA Encapsulates ==
    ASSUME NEW s
    PROVE  /\ Arg(Forwarding(s).far[2], "--hdr-creation", 2) = s.ul
           /\ Arg(Forwarding(s).pdr[1], "--f-teid", 2) = s.gnb
<1>1. Forwarding(s).far[2] = Far2(s) /\ Forwarding(s).pdr[1] = Pdr1(s)
  <2>1. PICK a, b, c, d, e :
          a = Far1 /\ b = Far2(s) /\ c = Pdr1(s) /\ d = Pdr2(s)
          /\ e = IF s.qfi > 0 THEN <<Qer1(s)>> ELSE <<>>
    OBVIOUS
  <2>2. Forwarding(s) = [far |-> <<a, b>>, pdr |-> <<c, d>>, qer |-> e]
    BY <2>1, Zenon DEF Forwarding
  <2>3. Forwarding(s).far = <<a, b>> /\ Forwarding(s).pdr = <<c, d>>  BY ONLY <2>2
  <2>4. <<a, b>>[2] = b /\ <<c, d>>[1] = c  OBVIOUS
  <2>5. QED  BY ONLY <2>1, <2>3, <2>4, Zenon
<1>2. Arg(Far2(s), "--hdr-creation", 2) = s.ul
  <2>1. PICK a, b : /\ a = Option("--action", <<Num(2)>>)
                    /\ b = Option("--hdr-creation", <<Num(0), Num(s.ul), Ipv4(0), Num(2152)>>)
    OBVIOUS
  <2>2. Far2(s) = <<a, b>>  BY ONLY <2>1 DEF Far2
  <2>3. a.name = "--action" /\ b.name = "--hdr-creation" /\ b.args[2].val = s.ul
    BY <2>1 DEF Option, Num
  <2>4. PICK q : q = <<a, b>>  OBVIOUS
  <2>5. DOMAIN q = 1..2 /\ q[1] = a /\ q[2] = b  BY <2>4
  <2>6. 2 \in DOMAIN q /\ \A j \in DOMAIN q : q[j].name = "--hdr-creation" => q[j] = b
    BY ONLY <2>3, <2>5
  <2>7. \A n : Arg(q, "--hdr-creation", n) = b.args[n].val  BY ONLY <2>3, <2>5, <2>6, ArgOf
  <2>8. QED  BY ONLY <2>2, <2>3, <2>4, <2>7
<1>3. Arg(Pdr1(s), "--f-teid", 2) = s.gnb
  <2>1. PICK a, b, c, d, e :
          /\ a = Option("--pcd", <<Num(1)>>) /\ b = Option("--hdr-rm", <<Num(0)>>)
          /\ c = Option("--ue-ipv4", <<s.ip>>) /\ d = Option("--f-teid", <<Num(1), Ipv4(s.gnb)>>)
          /\ e = Option("--far-id", <<Num(1)>>)
    OBVIOUS
  <2>2. Pdr1(s) = <<a, b, c, d, e>>  BY <2>1, Zenon DEF Pdr1
  <2>3. /\ a.name = "--pcd" /\ b.name = "--hdr-rm" /\ c.name = "--ue-ipv4"
        /\ d.name = "--f-teid" /\ e.name = "--far-id" /\ d.args[2].val = s.gnb
    BY <2>1 DEF Option, Ipv4
  <2>4. PICK q : q = <<a, b, c, d, e>>  OBVIOUS
  <2>5. DOMAIN q = 1..5 /\ q[1] = a /\ q[2] = b /\ q[3] = c /\ q[4] = d /\ q[5] = e  BY <2>4
  <2>6. 4 \in DOMAIN q /\ \A j \in DOMAIN q : q[j].name = "--f-teid" => q[j] = d
    BY ONLY <2>3, <2>5
  <2>7. \A n : Arg(q, "--f-teid", n) = d.args[n].val  BY ONLY <2>3, <2>5, <2>6, ArgOf
  <2>8. QED  BY ONLY <2>2, <2>3, <2>4, <2>7
<1>4. QED  BY ONLY <1>1, <1>2, <1>3, Zenon

LEMMA ToldKept ==
    ASSUME NEW u, Told(u), mode' = mode, net'[u] = net[u], inbox'[u] = inbox[u],
           sess'[u].up = sess[u].up, sess'[u].gnb = sess[u].gnb, sess'[u].ul = sess[u].ul,
           pc'[u] = pc[u] \/ pc[u] # "ended", pc'[u] = pc[u] \/ pc'[u] # "stop"
    PROVE  Told(u)'
<1>1. CASE ~(net[u].up /\ pc'[u] # "ended")  BY <1>1 DEF Told
<1>2. CASE net[u].up /\ pc'[u] # "ended"
  <2>1. Hears(u)  BY <1>2 DEF Told
  <2>2. Hears(u)'
    <3>1. Msgs(u)' = Msgs(u) /\ \A i : IsLast(u, i)' <=> IsLast(u, i)  BY DEF Msgs, IsLast
    <3>2. sess'[u].up /\ pc'[u] # "stop" /\ \A i \in Msgs(u)' : inbox'[u][i].type # "release"
      BY <2>1, <3>1 DEF Hears
    <3>3. \A i \in Msgs(u)' : IsLast(u, i)' =>
             inbox'[u][i].gnb = net'[u].gnb /\ inbox'[u][i].ul = net'[u].ul
      BY <2>1, <3>1 DEF Hears
    <3>4. (mode' # "disabled" /\ \A i \in Msgs(u)' : ~Setup1(inbox'[u][i])) =>
             sess'[u].gnb = net'[u].gnb /\ sess'[u].ul = net'[u].ul
      BY <2>1, <3>1 DEF Hears
    <3>5. QED  BY <3>2, <3>3, <3>4 DEF Hears, Setup1
  <2>3. QED  BY <2>2 DEF Told
<1>3. QED  BY <1>1, <1>2

LEMMA ToldTaken ==
    ASSUME NEW u, Len(inbox[u]) \in Nat, Told(u), Taken(u), mode' = mode, net'[u] = net[u],
           pc[u] = "loop", pc'[u] # "stop", sess'[u].up = sess[u].up,
           (mode # "disabled" /\ sess[u].up) =>
               \/ /\ Setup1(inbox[u][1])
                  /\ sess'[u].gnb = inbox[u][1].gnb /\ sess'[u].ul = inbox[u][1].ul
               \/ /\ ~Setup1(inbox[u][1])
                  /\ sess'[u].gnb = sess[u].gnb /\ sess'[u].ul = sess[u].ul
    PROVE  Told(u)'
<1>1. CASE ~net[u].up  BY <1>1 DEF Told
<1>2. CASE net[u].up
  <2>1. Hears(u)  BY <1>2 DEF Told
  <2>2. PICK n \in Nat : n = Len(inbox[u]) /\ n >= 1 /\ Len(inbox'[u]) = n - 1  BY DEF Taken
  <2>3. \A i \in 1..n - 1 : inbox'[u][i] = inbox[u][i + 1] /\ i + 1 \in 1..n
    BY <2>2 DEF Taken
  <2>4. Msgs(u)' = 1..n - 1 /\ Msgs(u) = 1..n  BY <2>2 DEF Msgs
  <2>5. sess'[u].up /\ pc'[u] # "stop" /\ \A i \in Msgs(u)' : inbox'[u][i].type # "release"
    BY <2>1, <2>3, <2>4 DEF Hears
  <2>6. ASSUME NEW i \in 1..n - 1, IsLast(u, i)'
        PROVE  inbox'[u][i].gnb = net'[u].gnb /\ inbox'[u][i].ul = net'[u].ul
    <3>1. Setup1(inbox'[u][i]) /\ \A j \in i + 1..n - 1 : ~Setup1(inbox'[u][j])
      BY <2>2, <2>6 DEF IsLast, Setup1
    <3>2. Setup1(inbox[u][i + 1])  BY <2>3, <3>1
    <3>3. ASSUME NEW j \in i + 1 + 1..n PROVE ~Setup1(inbox[u][j])
      <4>1. j - 1 \in i + 1..n - 1 /\ j - 1 \in 1..n - 1 /\ (j - 1) + 1 = j  BY <2>2
      <4>2. QED  BY <2>3, <3>1, <4>1
    <3>4. IsLast(u, i + 1)  BY <2>2, <3>2, <3>3 DEF IsLast
    <3>5. QED  BY <2>1, <2>3, <2>4, <3>4 DEF Hears
  <2>7. ASSUME mode # "disabled", \A i \in 1..n - 1 : ~Setup1(inbox'[u][i])
        PROVE  sess'[u].gnb = net'[u].gnb /\ sess'[u].ul = net'[u].ul
    <3>1. ASSUME NEW j \in 2..n PROVE ~Setup1(inbox[u][j])
      <4>1. j - 1 \in 1..n - 1 /\ (j - 1) + 1 = j  BY <2>2
      <4>2. QED  BY <2>3, <2>7, <4>1
    <3>2. 1 \in 1..n  BY <2>2
    <3>3. sess[u].up  BY <2>1 DEF Hears
    <3>4. CASE Setup1(inbox[u][1])
      <4>1. IsLast(u, 1)  BY <2>2, <3>1, <3>4 DEF IsLast
      <4>2. inbox[u][1].gnb = net[u].gnb /\ inbox[u][1].ul = net[u].ul
        BY <2>1, <2>4, <3>2, <4>1 DEF Hears
      <4>3. QED  BY <2>7, <3>3, <3>4, <4>2
    <3>5. CASE ~Setup1(inbox[u][1])
      <4>1. \A j \in 1..n : ~Setup1(inbox[u][j])
        <5>1. \A j \in 1..n : j = 1 \/ j \in 2..n  BY <2>2
        <5>2. QED  BY <3>1, <3>5, <5>1
      <4>2. sess[u].gnb = net[u].gnb /\ sess[u].ul = net[u].ul  BY <2>1, <2>4, <2>7, <4>1 DEF Hears
      <4>3. QED  BY <2>7, <3>3, <3>5, <4>2
    <3>6. QED  BY <3>4, <3>5
  <2>8. Hears(u)'  BY <2>4, <2>5, <2>6, <2>7 DEF Hears, Setup1
  <2>9. QED  BY <2>8 DEF Told
<1>3. QED  BY <1>1, <1>2

\* A message of another session.
LEMMA ToldOther ==
    ASSUME NEW u, Len(inbox[u]) \in Nat, Told(u), NEW m, SentOne(u, m), ~Setup1(m),
           m.type # "release", mode' = mode, net'[u] = net[u], pc'[u] = pc[u], sess'[u] = sess[u]
    PROVE  Told(u)'
<1>1. CASE ~(net[u].up /\ pc[u] # "ended")  BY <1>1 DEF Told
<1>2. CASE net[u].up /\ pc[u] # "ended"
  <2>1. Hears(u)  BY <1>2 DEF Told
  <2>2. PICK n \in Nat : n = Len(inbox[u]) /\ Len(inbox'[u]) = n + 1 /\ inbox'[u][n + 1] = m
    BY DEF SentOne
  <2>3. \A i \in 1..n : inbox'[u][i] = inbox[u][i]  BY <2>2 DEF SentOne, Msgs
  <2>4. Msgs(u)' = 1..n + 1 /\ Msgs(u) = 1..n  BY <2>2 DEF Msgs
  <2>5. \A i \in 1..n + 1 : i \in 1..n \/ i = n + 1  BY <2>2
  <2>6. \A i \in Msgs(u)' : inbox'[u][i].type # "release"
    BY <2>1, <2>2, <2>3, <2>4, <2>5 DEF Hears
  <2>7. ASSUME NEW i \in 1..n + 1, IsLast(u, i)'
        PROVE  inbox'[u][i].gnb = net'[u].gnb /\ inbox'[u][i].ul = net'[u].ul
    <3>1. Setup1(inbox'[u][i]) /\ \A j \in i + 1..n + 1 : ~Setup1(inbox'[u][j])
      BY <2>2, <2>7 DEF IsLast, Setup1
    <3>2. i \in 1..n  BY <2>2, <2>5, <3>1
    <3>3. \A j \in i + 1..n : j \in 1..n /\ j \in i + 1..n + 1  BY <2>2, <3>2
    <3>4. IsLast(u, i)
      <4>1. Setup1(inbox[u][i])  BY <2>3, <3>1, <3>2
      <4>2. \A j \in i + 1..n : ~Setup1(inbox[u][j])  BY <2>3, <3>1, <3>3
      <4>3. QED  BY <2>2, <4>1, <4>2 DEF IsLast
    <3>5. QED  BY <2>1, <2>3, <2>4, <3>2, <3>4 DEF Hears
  <2>8. ASSUME mode # "disabled", \A i \in 1..n + 1 : ~Setup1(inbox'[u][i])
        PROVE  sess'[u].gnb = net'[u].gnb /\ sess'[u].ul = net'[u].ul
    <3>1. \A j \in 1..n : j \in 1..n + 1  BY <2>2
    <3>2. \A j \in 1..n : ~Setup1(inbox[u][j])  BY <2>3, <2>8, <3>1
    <3>3. QED  BY <2>1, <2>4, <2>8, <3>2 DEF Hears
  <2>9. sess'[u].up /\ pc'[u] # "stop"  BY <2>1 DEF Hears
  <2>10. Hears(u)'  BY <2>4, <2>6, <2>7, <2>8, <2>9 DEF Hears, Setup1
  <2>11. QED  BY <2>10 DEF Told
<1>3. QED  BY <1>1, <1>2

\* The network has said where the tunnel ends now: its setup is the last of the inbox.
LEMMA ToldAgain ==
    ASSUME NEW u, NEW n \in Nat, NEW m, Setup1(m), Len(inbox'[u]) = n + 1, inbox'[u][n + 1] = m,
           \A i \in 1..n : inbox'[u][i].type # "release",
           m.gnb = net'[u].gnb, m.ul = net'[u].ul, sess'[u].up, pc'[u] # "stop"
    PROVE  Told(u)'
<1>1. Msgs(u)' = 1..n + 1 /\ n + 1 \in 1..n + 1 /\ \A i \in 1..n + 1 : i \in 1..n \/ i = n + 1
  BY DEF Msgs
<1>2. m.type # "release"  BY DEF Setup1
<1>3. \A i \in Msgs(u)' : inbox'[u][i].type # "release"  BY <1>1, <1>2
<1>4. ASSUME NEW i \in 1..n + 1, IsLast(u, i)' PROVE i = n + 1
  <2>1. \A j \in i + 1..n + 1 : ~Setup1(inbox'[u][j])  BY <1>4 DEF IsLast, Setup1
  <2>2. i < n + 1 => n + 1 \in i + 1..n + 1  OBVIOUS
  <2>3. QED  BY <2>1, <2>2
<1>5. Hears(u)'  BY <1>1, <1>3, <1>4 DEF Hears, Setup1
<1>6. QED  BY <1>5 DEF Told

LEMMA ToldStep ==
    ASSUME NoRaces, AliveInv, NEW u \in Ues, Told(u), Step(u)
    PROVE  Told(u)'
<1>1. OrphanInv /\ Sound(u)  BY DEF AliveInv
<1>2. TypeOK /\ Links /\ Named(u) /\ Len(inbox[u]) \in Nat /\ net[u].gnb \in Gnbs
  BY <1>1, Parts DEF NetRec
<1>3. CASE InitPduSessionRequest(u)
  <2>1. /\ inbox[u] = <<>> /\ pc[u] = "loop" /\ pc' = pc /\ sess'[u] = NewSession
        /\ \E t \in Teids, q \in Qfi :
             net'[u] = NetUp(net[u].gnb, t) /\ SentTwo(u, Accept, Setup(1, net[u].gnb, t, q))
    BY <1>2, <1>3, InitEffect DEF NoRaces
  <2>2. PICK t \in Teids, q \in Qfi :
          net'[u] = NetUp(net[u].gnb, t) /\ SentTwo(u, Accept, Setup(1, net[u].gnb, t, q))
    BY <2>1
  <2>3. PICK m : m = Setup(1, net[u].gnb, t, q)  OBVIOUS
  <2>4. m.gnb = net[u].gnb /\ m.ul = t /\ Setup1(m) /\ Accept.type # "release"
    BY <1>2, <2>3, Messages
  <2>5. net'[u].gnb = net[u].gnb /\ net'[u].ul = t  BY <1>2, <2>2, Networks
  <2>6. Len(inbox'[u]) = 1 + 1 /\ inbox'[u][1 + 1] = m /\ inbox'[u][1] = Accept
    <3>1. Len(inbox[u]) = 0  BY <2>1
    <3>2. QED  BY <2>2, <2>3, <3>1 DEF SentTwo
  <2>7. \A i \in 1..1 : inbox'[u][i].type # "release"  BY <2>4, <2>6
  <2>8. sess'[u].up /\ pc'[u] # "stop"  BY <2>1, Blank
  <2>9. QED  BY <2>4, <2>5, <2>6, <2>7, <2>8, ToldAgain
<1>4. CASE SetupAgain(u)
  <2>1. pc[u] # "ended" /\ net[u].up /\ pc' = pc /\ sess' = sess  BY <1>2, <1>4, AgainEffect
  <2>2. PICK g \in Gnbs, t \in Teids, q \in Qfi :
          net'[u] = NetUp(g, t) /\ SentOne(u, Setup(1, g, t, q))
    BY <1>2, <1>4, AgainEffect
  <2>3. PICK m : m = Setup(1, g, t, q)  OBVIOUS
  <2>4. m.gnb = g /\ m.ul = t /\ Setup1(m)  BY <2>3, Messages
  <2>5. net'[u].gnb = g /\ net'[u].ul = t  BY <1>2, <2>2, Networks
  <2>6. Hears(u)  BY <2>1 DEF Told
  <2>7. sess'[u].up /\ pc'[u] # "stop"  BY <2>1, <2>6 DEF Hears
  <2>8. \A i \in 1..Len(inbox[u]) : inbox'[u][i].type # "release"
    BY <2>2, <2>6 DEF Hears, SentOne, Msgs
  <2>9. Len(inbox'[u]) = Len(inbox[u]) + 1 /\ inbox'[u][Len(inbox[u]) + 1] = m
    BY <2>2, <2>3 DEF SentOne
  <2>10. QED  BY <1>2, <2>4, <2>5, <2>7, <2>8, <2>9, ToldAgain
<1>5. CASE SetupOther(u)
  <2>1. /\ pc' = pc /\ sess' = sess /\ net' = net /\ mode' = mode
        /\ SentOne(u, Setup(2, net[u].gnb, 0, 0))
    BY <1>2, <1>5, OtherEffect
  <2>2. ~Setup1(Setup(2, net[u].gnb, 0, 0)) /\ Setup(2, net[u].gnb, 0, 0).type # "release"
    BY <1>2, Messages DEF Setup1
  <2>3. QED  BY <1>2, <2>1, <2>2, ToldOther
<1>6. CASE NetRelease(u)
  <2>1. ~net'[u].up  BY <1>2, <1>6, NetReleaseEffect
  <2>2. QED  BY <2>1 DEF Told
<1>7. CASE HandleAccept(u)
  <2>1. /\ pc[u] = "loop" /\ pc' = pc /\ net' = net /\ mode' = mode /\ Taken(u)
        /\ sess'[u].up = sess[u].up /\ sess'[u].gnb = sess[u].gnb /\ sess'[u].ul = sess[u].ul
        /\ inbox[u][1].type = "accept"
    BY <1>2, <1>7, AcceptEffect
  <2>2. ~Setup1(inbox[u][1])  BY <2>1 DEF Setup1
  <2>3. QED  BY <1>2, <2>1, <2>2, ToldTaken
<1>8. CASE SetupSkipped(u)
  <2>1. /\ pc[u] = "loop" /\ pc' = pc /\ net' = net /\ mode' = mode /\ Taken(u)
        /\ SameSess(u) /\ sess'[u].gnb = sess[u].gnb /\ ~TunnelWanted(u, inbox[u][1])
        /\ \/ sess'[u] = sess[u] /\ ~(sess[u].up /\ inbox[u][1].id = 1)
           \/ sess[u].up /\ inbox[u][1].id = 1 /\ sess'[u].ul = inbox[u][1].ul
    BY <1>2, <1>8, SkippedEffect
  <2>2. mode # "disabled" /\ sess[u].up => sess'[u] = sess[u] /\ ~Setup1(inbox[u][1])
    BY <2>1 DEF TunnelWanted, Setup1
  <2>3. sess'[u].up = sess[u].up  BY <2>1 DEF SameSess
  <2>4. QED  BY <1>2, <2>1, <2>2, <2>3, ToldTaken
<1>9. CASE SetupGtpInterface(u)
  <2>1. /\ pc[u] = "loop" /\ pc'[u] = "spawn" /\ net' = net /\ mode' = mode /\ Taken(u)
        /\ SameSess(u) /\ sess'[u].gnb = inbox[u][1].gnb /\ sess'[u].ul = inbox[u][1].ul
        /\ Setup1(inbox[u][1])
    BY <1>2, <1>9, InterfaceEffect
  <2>2. sess'[u].up = sess[u].up  BY <2>1 DEF SameSess
  <2>3. QED  BY <1>2, <2>1, <2>2, ToldTaken
<1>10. CASE SetupStart(u)
  <2>1. /\ pc[u] = "spawn" /\ pc'[u] = "rules" /\ net' = net /\ mode' = mode /\ inbox' = inbox
        /\ SameSess(u) /\ sess'[u].gnb = sess[u].gnb /\ sess'[u].ul = sess[u].ul
    BY <1>2, <1>10, StartEffect
  <2>2. QED  BY <2>1, ToldKept DEF SameSess
<1>11. CASE SetupRules(u)
  <2>1. RulesWritten(u) /\ pc[u] = "rules"  BY <1>1, <1>11, RulesSucceed
  <2>2. QED  BY <2>1, ToldKept DEF RulesWritten
<1>12. CASE DeletePduSession(u)
  <2>1. pc[u] = "loop" /\ net' = net /\ Taken(u) /\ inbox[u][1].type = "release"
    BY <1>2, <1>12, DeleteEffect
  <2>2. 1 \in Msgs(u)  BY <1>2, <2>1 DEF Taken, Msgs
  <2>3. ~net[u].up  BY <2>1, <2>2 DEF Told, Hears
  <2>4. QED  BY <2>1, <2>3 DEF Told
<1>13. CASE Terminate(u)
  <2>1. pc'[u] = "ended"  BY <1>2, <1>13, TerminateEffect
  <2>2. QED  BY <2>1 DEF Told
<1>14. CASE Restart(u)
  <2>1. net'[u] = NetDown(u)  BY <1>2, <1>14, RestartEffect
  <2>2. ~net'[u].up  BY <2>1 DEF NetDown
  <2>3. QED  BY <2>2 DEF Told
<1>15. QED
  BY <1>3, <1>4, <1>5, <1>6, <1>7, <1>8, <1>9, <1>10, <1>11, <1>12, <1>13, <1>14 DEF Step, UeStep

\* The tunnel of u is as it was; its goroutine may have left the loop.
SameGnbs(u) == \A q \in Mine(u) : cmd'[q].gnb = cmd[q].gnb
LEMMA BuiltSteady ==
    ASSUME NEW u \in Ues, Stops(u), Built(u), SameGnbs(u), sess'[u].stop = sess[u].stop,
           sess'[u].gnb = sess[u].gnb, pc'[u] = pc[u] \/ (pc[u] = "loop" /\ pc'[u] # "spawn"),
           pc'[u] = "loop" /\ sess[u].stop # 0 => sess'[u].ul = sess[u].ul /\ link'[u] = link[u]
    PROVE  Built(u)'
<1>1. (sess[u].gnb # 0 /\ pc[u] # "spawn" => sess[u].stop # 0)'  BY DEF Built
<1>2. (sess[u].stop # 0 /\ pc[u] # "spawn" => cmd[sess[u].stop].gnb = sess[u].gnb)'
  BY DEF Built, Stops, SameGnbs
<1>3. (sess[u].stop # 0 /\ pc[u] = "loop" =>
          /\ link[u].id = sess[u].stop
          /\ Arg(link[u].rules.far[2], "--hdr-creation", 2) = sess[u].ul
          /\ Arg(link[u].rules.pdr[1], "--f-teid", 2) = sess[u].gnb)'
  BY DEF Built
<1>4. QED  BY <1>1, <1>2, <1>3 DEF Built

LEMMA BuiltBlank == ASSUME NEW u, sess'[u].stop = 0, sess'[u].gnb = 0 PROVE Built(u)'
BY DEF Built

LEMMA BuiltRules ==
    ASSUME NoRaces, AliveInv, NEW u \in Ues, Built(u), SetupRules(u)
    PROVE  Built(u)'
<1>1. OrphanInv /\ Sound(u)  BY DEF AliveInv
<1>2. pc[u] = "rules" /\ RulesWritten(u) /\ sess[u].stop \in Mine(u) /\ link[u].id = sess[u].stop
  BY <1>1, RulesSucceed
<1>3. /\ cmd' = cmd /\ sess'[u].stop = sess[u].stop /\ sess'[u].gnb = sess[u].gnb
      /\ sess'[u].ul = sess[u].ul /\ pc'[u] = "loop" /\ sess[u].stop # 0
  BY <1>2 DEF RulesWritten, Mine, Cmds
<1>4. PICK l, r : r = Forwarding(sess[u]) /\ l = link'[u] /\ l = [id |-> link[u].id, rules |-> r]
  BY <1>2 DEF RulesWritten
<1>5. l.id = link[u].id /\ l.rules = r  BY ONLY <1>4
<1>6. /\ Arg(r.far[2], "--hdr-creation", 2) = sess[u].ul
      /\ Arg(r.pdr[1], "--f-teid", 2) = sess[u].gnb
  BY ONLY <1>4, Encapsulates
<1>7. /\ link'[u].id = sess'[u].stop
      /\ Arg(link'[u].rules.far[2], "--hdr-creation", 2) = sess'[u].ul
      /\ Arg(link'[u].rules.pdr[1], "--f-teid", 2) = sess'[u].gnb
  BY ONLY <1>2, <1>3, <1>4, <1>5, <1>6
<1>8. cmd[sess[u].stop].gnb = sess[u].gnb  BY <1>2, <1>3 DEF Built
<1>9. cmd'[sess'[u].stop].gnb = sess'[u].gnb  BY <1>3, <1>8
<1>10. QED  BY <1>3, <1>7, <1>9 DEF Built

LEMMA BuiltStep ==
    ASSUME NoRaces, AliveInv, NEW u \in Ues, Built(u), Step(u)
    PROVE  Built(u)'
<1>1. OrphanInv /\ Sound(u)  BY DEF AliveInv
<1>2. TypeOK /\ Links /\ Named(u) /\ Stops(u) /\ Started(u) /\ Len(cmd) \in Nat  BY <1>1, Parts
<1>3. cmd' = cmd => SameGnbs(u)  BY DEF SameGnbs
<1>4. CASE InitPduSessionRequest(u)
  <2>1. sess'[u] = NewSession  BY <1>2, <1>4, InitEffect
  <2>2. QED  BY <2>1, Blank, BuiltBlank
<1>5. CASE SetupAgain(u)  BY <1>2, <1>3, <1>5, AgainEffect, BuiltSteady
<1>6. CASE SetupOther(u)  BY <1>2, <1>3, <1>6, OtherEffect, BuiltSteady
<1>7. CASE NetRelease(u)  BY <1>2, <1>3, <1>7, NetReleaseEffect, BuiltSteady
<1>8. CASE HandleAccept(u)  BY <1>2, <1>3, <1>8, AcceptEffect, BuiltSteady
<1>9. CASE SetupSkipped(u)
  <2>1. /\ cmd' = cmd /\ pc' = pc /\ link' = link /\ sess'[u].stop = sess[u].stop
        /\ sess'[u].gnb = sess[u].gnb /\ ~TunnelWanted(u, inbox[u][1])
        /\ \/ sess'[u] = sess[u]
           \/ sess[u].up /\ inbox[u][1].id = 1
    BY <1>2, <1>9, SkippedEffect
  <2>2. mode = "disabled" => sess[u].stop = 0  BY <1>2 DEF Started, Stops
  <2>3. sess[u].stop # 0 => sess'[u].ul = sess[u].ul  BY <2>1, <2>2 DEF TunnelWanted
  <2>4. QED  BY <1>2, <1>3, <2>1, <2>3, BuiltSteady
<1>10. CASE SetupGtpInterface(u)
  <2>1. pc'[u] = "spawn"  BY <1>2, <1>10, InterfaceEffect
  <2>2. QED  BY <2>1 DEF Built
<1>11. CASE SetupStart(u)
  <2>1. /\ pc'[u] = "rules" /\ Grown(u, sess[u].gnb) /\ sess'[u].gnb = sess[u].gnb
        /\ sess'[u].stop = Len(cmd) + 1
    BY <1>2, <1>11, StartEffect
  <2>2. cmd'[Len(cmd) + 1].gnb = sess[u].gnb  BY <2>1 DEF Grown
  <2>3. QED  BY <1>2, <2>1, <2>2 DEF Built
<1>12. CASE SetupRules(u)  BY <1>12, BuiltRules
<1>13. CASE DeletePduSession(u)
  <2>1. /\ pc[u] = "loop" /\ cmd' = cmd /\ link' = link
        /\ \/ pc'[u] = "stop" /\ sess'[u] = sess[u]
           \/ sess'[u] = NoSession
    BY <1>2, <1>13, DeleteEffect
  <2>2. CASE sess'[u] = NoSession  BY <2>2, Blank, BuiltBlank
  <2>3. CASE pc'[u] = "stop" /\ sess'[u] = sess[u]  BY <1>2, <1>3, <2>1, <2>3, BuiltSteady
  <2>4. QED  BY <2>1, <2>2, <2>3
<1>14. CASE Terminate(u)
  <2>1. pc[u] = "loop" /\ pc'[u] = "ended" /\ cmd' = cmd /\ sess' = sess
    BY <1>2, <1>14, TerminateEffect
  <2>2. QED  BY <1>2, <1>3, <2>1, BuiltSteady
<1>15. CASE Restart(u)
  <2>1. sess'[u] = NoSession  BY <1>2, <1>15, RestartEffect
  <2>2. QED  BY <2>1, Blank, BuiltBlank
<1>16. QED
  BY <1>4, <1>5, <1>6, <1>7, <1>8, <1>9, <1>10, <1>11, <1>12, <1>13, <1>14, <1>15 DEF Step, UeStep

LEMMA CurrentCmdStep ==
    ASSUME AliveInv, NEW p \in Cmds, NEW u \in Ues, u = cmd[p].ue, Told(u), Built(u), CmdAdd(p)
    PROVE  Told(u)' /\ Built(u)'
<1>1. OrphanInv /\ Sound(u) /\ ~Fatal  BY CmdSucceeds DEF AliveInv
<1>2. TypeOK /\ Links /\ Stops(u) /\ p \in Mine(u)  BY <1>1, Parts DEF Mine
<1>3. ASSUME NEW a, Moved(p, a) PROVE SameGnbs(u)
  BY <1>3 DEF Moved, OtherCmds, SameGnbs, Mine
<1>4. CASE CmdAddListen(p)
  <2>1. Moved(p, "bound") /\ UNCHANGED <<mode, net, inbox, pc, sess, link>>
    BY <1>1, <1>2, <1>4, ListenEffect
  <2>2. QED  BY <1>2, <1>3, <2>1, ToldKept, BuiltSteady
<1>5. CASE CmdAddCreate(p)
  <2>1. cmd[p].at = "bound" /\ Moved(p, "wait") /\ UNCHANGED <<mode, net, inbox, pc, sess>>
    BY <1>1, <1>2, <1>5, CreateEffect
  <2>2. pc[u] = "rules"  BY <1>1, <1>2, <2>1 DEF Sound, Alive
  <2>3. QED  BY <1>2, <1>3, <2>1, <2>2, ToldKept, BuiltSteady
<1>6. CASE CmdAddReturn(p)
  <2>1. Moved(p, "done") /\ UNCHANGED <<mode, net, inbox, pc, sess, link>>
    BY <1>2, <1>6, ReturnEffect
  <2>2. QED  BY <1>2, <1>3, <2>1, ToldKept, BuiltSteady
<1>7. CASE CmdAddStopped(p)
  <2>1. pc[u] = "stop" /\ sess'[u] = NoSession /\ net' = net  BY <1>2, <1>7, StoppedEffect
  <2>2. ~net[u].up  BY <2>1 DEF Told, Hears
  <2>3. QED  BY <2>1, <2>2, Blank, BuiltBlank DEF Told
<1>8. QED  BY <1>4, <1>5, <1>6, <1>7 DEF CmdAdd

LEMMA CurrentKept ==
    ASSUME OrphanInv, NEW v \in Ues, Told(v), Built(v), Same(v), CmdSame(v), mode' = mode
    PROVE  Told(v)' /\ Built(v)'
<1>1. Stops(v)  BY Parts
<1>2. SameGnbs(v)  BY DEF SameGnbs, CmdSame
<1>3. QED  BY <1>1, <1>2, ToldKept, BuiltSteady DEF Same

LEMMA CurrentUeStep ==
    ASSUME NoRaces, NoTunnelLoop, CurrentInv, NEW u \in Ues, Step(u)
    PROVE  CurrentInv'
<1>1. AliveInv /\ OrphanInv /\ \A v \in Ues : Told(v) /\ Built(v)  BY DEF CurrentInv, AliveInv
<1>2. AliveInv'  BY <1>1, AliveUeStep
<1>3. Told(u)' /\ Built(u)'  BY <1>1, ToldStep, BuiltStep
<1>4. Elsewhere(u)  BY <1>1, ElsewhereUe
<1>5. ASSUME NEW v \in Ues, v # u PROVE Told(v)' /\ Built(v)'
  <2>1. Same(v) /\ CmdSame(v) /\ mode' = mode  BY <1>4, <1>5 DEF Elsewhere
  <2>2. QED  BY <1>1, <2>1, CurrentKept
<1>6. QED  BY <1>2, <1>3, <1>5 DEF CurrentInv

LEMMA CurrentGoStep ==
    ASSUME CurrentInv, NEW p \in Cmds, CmdAdd(p)
    PROVE  CurrentInv'
<1>1. AliveInv /\ OrphanInv /\ \A v \in Ues : Told(v) /\ Built(v)  BY DEF CurrentInv, AliveInv
<1>2. AliveInv'  BY <1>1, AliveCmdStep
<1>3. PICK u : u = cmd[p].ue  OBVIOUS
<1>4. Elsewhere(u) /\ u \in Ues  BY <1>1, <1>3, ElsewhereCmd
<1>5. Told(u)' /\ Built(u)'  BY <1>1, <1>3, <1>4, CurrentCmdStep
<1>6. ASSUME NEW v \in Ues, v # u PROVE Told(v)' /\ Built(v)'
  <2>1. Same(v) /\ CmdSame(v) /\ mode' = mode  BY <1>4, <1>6 DEF Elsewhere
  <2>2. QED  BY <1>1, <2>1, CurrentKept
<1>7. QED  BY <1>2, <1>5, <1>6 DEF CurrentInv

LEMMA CurrentNext ==
    ASSUME NoRaces, NoTunnelLoop, CurrentInv, [Next]_vars
    PROVE  CurrentInv'
<1>1. AliveInv /\ OrphanInv /\ \A v \in Ues : Told(v) /\ Built(v)  BY DEF CurrentInv, AliveInv
<1>2. CASE Next
  <2>1. DOMAIN cmd = Cmds
    <3>1. cmd \in Seq(CmdRec)  BY <1>1, Parts DEF CmdOK
    <3>2. QED  BY <3>1 DEF Cmds
  <2>2. QED  BY <1>2, <2>1, CurrentUeStep, CurrentGoStep DEF Next, Step
<1>3. CASE UNCHANGED vars
  <2>1. AliveInv'  BY <1>1, <1>3, AliveNext
  <2>2. UNCHANGED <<fate, mode, active, net, used, inbox, pc, sess, cmd, link, vrf, rules, route>>
    BY <1>3, Stutter
  <2>3. ASSUME NEW v \in Ues PROVE Told(v)' /\ Built(v)'
    <3>1. Same(v) /\ CmdSame(v)  BY <2>2, CmdUnchanged DEF Same
    <3>2. QED  BY <1>1, <2>2, <3>1, CurrentKept
  <2>4. QED  BY <2>1, <2>3 DEF CurrentInv
<1>4. QED  BY <1>2, <1>3

LEMMA CurrentInit == Init => CurrentInv
<1> SUFFICES ASSUME Init PROVE CurrentInv  OBVIOUS
<1>1. AliveInv  BY AliveInit
<1>2. ASSUME NEW u \in Ues PROVE Told(u) /\ Built(u)
  <2>1. sess[u] = NoSession /\ net[u] = NetDown(u)  BY DEF Init
  <2>2. ~net[u].up  BY <2>1 DEF NetDown
  <2>3. sess[u].stop = 0 /\ sess[u].gnb = 0  BY <2>1, Blank
  <2>4. QED  BY <2>2, <2>3 DEF Told, Built
<1>3. QED  BY <1>1, <1>2 DEF CurrentInv

LEMMA CurrentSafe == CurrentInv => TunnelCurrent
<1> SUFFICES ASSUME CurrentInv PROVE TunnelCurrent  OBVIOUS
<1>1. OrphanInv /\ \A v \in Ues : Told(v) /\ Built(v) /\ Sound(v)  BY DEF CurrentInv, AliveInv
<1>2. ASSUME NEW u \in Ues, mode # "disabled", pc[u] = "loop", inbox[u] = <<>>, net[u].up
      PROVE  /\ link[u].id # 0 /\ cmd[link[u].id].ue = u /\ cmd[link[u].id].gnb = net[u].gnb
             /\ cmd[link[u].id].at = "wait" /\ cmd[link[u].id].told = "no"
             /\ Arg(link[u].rules.far[2], "--hdr-creation", 2) = net[u].ul
             /\ Arg(link[u].rules.pdr[1], "--f-teid", 2) = net[u].gnb
  <2>1. CmdOK /\ Stops(u) /\ Built(u) /\ net[u] \in NetRec /\ Alive(u)  BY <1>1, Parts DEF Sound
  <2>2. Hears(u)  BY <1>1, <1>2 DEF Told
  <2>3. Msgs(u) = {}  BY <1>2 DEF Msgs
  <2>4. sess[u].gnb = net[u].gnb /\ sess[u].ul = net[u].ul  BY <1>2, <2>2, <2>3 DEF Hears
  <2>5. sess[u].gnb # 0
    <3>1. net[u].gnb \in Gnbs  BY <2>1 DEF NetRec
    <3>2. QED  BY <2>4, <3>1, Nums
  <2>6. /\ sess[u].stop # 0 /\ link[u].id = sess[u].stop /\ cmd[sess[u].stop].gnb = sess[u].gnb
        /\ Arg(link[u].rules.far[2], "--hdr-creation", 2) = sess[u].ul
        /\ Arg(link[u].rules.pdr[1], "--f-teid", 2) = sess[u].gnb
    BY <1>2, <2>1, <2>5 DEF Built
  <2>7. /\ sess[u].stop \in Mine(u) /\ cmd[sess[u].stop].at # "done"
        /\ cmd[sess[u].stop].told = "no"
    BY <1>2, <2>1, <2>6 DEF Stops
  <2>8. cmd[sess[u].stop].at \notin {"start", "bound"}  BY <1>2, <2>1, <2>7 DEF Alive
  <2>9. cmd[sess[u].stop].at = "wait" /\ cmd[sess[u].stop].ue = u
    <3>1. cmd[sess[u].stop] \in CmdRec  BY <2>1, <2>7 DEF CmdOK, Mine, Cmds
    <3>2. QED  BY <2>7, <2>8, <3>1 DEF CmdRec, Mine
  <2>10. QED  BY <2>4, <2>6, <2>7, <2>9
<1>3. QED  BY <1>2 DEF TunnelCurrent

\* Under the same conditions, and for any sequence of sessions, handovers, setups of other
\* sessions and releases that overtake a setup: once a UE has handled all that its gNodeB
\* sent, its tunnel is a link whose goroutine holds the socket of the gNodeB that serves it
\* now, and whose rules encapsulate with the TEID the UPF gave last.
THEOREM TunnelsFollowTheNetwork ==
    ASSUME NoRaces, NoTunnelLoop
    PROVE  Spec => []TunnelCurrent
<1>1. CurrentInv /\ [Next]_vars => CurrentInv'  BY CurrentNext
<1>2. QED  BY <1>1, CurrentInit, CurrentSafe, PTL DEF Spec

-----------------------------------------------------------------------------
(* The traffic of a UE leaves by its own link.                             *)

\* In tun mode the UPF gives no TEID twice.
NoTunReuse == "tun" \notin Reuse

\* The UE v claims no TEID that it did not claim before, but for those of S.
Gains(v, S) == \A s \in Teids \ S : Claims(v, s)' => Claims(v, s)
SameRules == mode' = mode /\ rules' = rules

LEMMA RuledSame == ASSUME SameRules PROVE \A v, s : Ruled(v, s)' <=> Ruled(v, s)
BY DEF SameRules, Ruled, Rule

LEMMA GainsNothing ==
    ASSUME NEW v, SameRules, NEW S, \A s \in Teids \ S : Has(v, s)' => Has(v, s)
    PROVE  Gains(v, S)
<1>1. ASSUME NEW s \in Teids \ S, Claims(v, s)' PROVE Claims(v, s)
  <2>1. Has(v, s)' \/ (mode = "tun" /\ Ruled(v, s)')  BY <1>1 DEF Claims, SameRules
  <2>2. QED  BY <2>1, RuledSame DEF Claims
<1>2. QED  BY <1>1 DEF Gains

LEMMA GainsSame == ASSUME NEW v, SameRules, Same(v) PROVE Gains(v, {})
<1>1. \A s : Has(v, s)' => Has(v, s)  BY DEF Has, Same, Msgs
<1>2. QED  BY <1>1, GainsNothing

\* A free TEID is nobody's.
LEMMA FreshIsFree ==
    ASSUME NoTunReuse, TypeOK, OneOwner, NEW t \in Teids, Fresh(t), NEW v \in Ues
    PROVE  ~Claims(v, t)
<1>1. Claims(v, t) => t \in used  BY DEF OneOwner
<1>2. CASE t \notin used  BY <1>1, <1>2
<1>3. CASE t \in used
  <2>1. mode \in Reuse /\ ~Held(t)  BY <1>3 DEF Fresh
  <2>2. mode # "tun"  BY <2>1 DEF NoTunReuse
  <2>3. inbox[v] \in Seq(MsgRec)  BY DEF TypeOK
  <2>4. DOMAIN inbox[v] = Msgs(v)  BY <2>3 DEF Msgs
  <2>5. ~Has(v, t)  BY <2>1, <2>4 DEF Held, Has
  <2>6. QED  BY <2>2, <2>5 DEF Claims
<1>4. QED  BY <1>2, <1>3

LEMMA OwnerKept ==
    ASSUME OneOwner, used \subseteq used', \A v \in Ues : Gains(v, {})
    PROVE  OneOwner'
<1>1. \A v \in Ues, s \in Teids : Claims(v, s)' => Claims(v, s)  BY DEF Gains
<1>2. QED  BY <1>1 DEF OneOwner

LEMMA OwnerGiven ==
    ASSUME OneOwner, NEW u \in Ues, NEW t \in Teids, used' = used \cup {t}, Gains(u, {t}),
           \A v \in Ues : v # u => Gains(v, {}) /\ ~Claims(v, t)
    PROVE  OneOwner'
<1>1. ASSUME NEW v \in Ues, NEW s \in Teids, Claims(v, s)'
      PROVE  Claims(v, s) \/ (v = u /\ s = t)
  BY <1>1 DEF Gains
<1>2. ASSUME NEW v \in Ues, NEW s \in Teids, Claims(v, s)' PROVE s \in used'
  BY <1>1, <1>2 DEF OneOwner
<1>3. ASSUME NEW v \in Ues, NEW w \in Ues, NEW s \in Teids, Claims(v, s)', Claims(w, s)' PROVE v = w
  <2>1. CASE Claims(v, s) /\ Claims(w, s)  BY <2>1 DEF OneOwner
  <2>2. CASE s = t /\ (v = u \/ w = u)
    <3>1. \A x \in Ues : Claims(x, t)' => x = u  BY <1>1
    <3>2. QED  BY <1>3, <2>2, <3>1
  <2>3. QED  BY <1>1, <1>3, <2>1, <2>2
<1>4. QED  BY <1>2, <1>3 DEF OneOwner

LEMMA HasTaken ==
    ASSUME NEW u, Len(inbox[u]) \in Nat, Taken(u), net'[u].ul = net[u].ul,
           \/ ~sess'[u].up
           \/ sess'[u].up /\ sess[u].up /\ sess'[u].ul = sess[u].ul
           \/ sess'[u].up /\ sess'[u].ul = inbox[u][1].ul
    PROVE  \A s : Has(u, s)' => Has(u, s)
<1>1. PICK n \in Nat : n = Len(inbox[u]) /\ n >= 1 /\ Len(inbox'[u]) = n - 1  BY DEF Taken
<1>2. \A i \in 1..n - 1 : inbox'[u][i] = inbox[u][i + 1] /\ i + 1 \in 1..n  BY <1>1 DEF Taken
<1>3. Msgs(u)' = 1..n - 1 /\ Msgs(u) = 1..n /\ 1 \in 1..n  BY <1>1 DEF Msgs
<1>4. QED  BY <1>2, <1>3 DEF Has

LEMMA HasSent ==
    ASSUME NEW u, Len(inbox[u]) \in Nat, NEW m, SentOne(u, m) \/ Inserted(u, m), sess'[u] = sess[u]
    PROVE  \A s : Has(u, s)' => Has(u, s) \/ s = m.ul \/ s = net'[u].ul
<1>1. PICK n \in Nat : n = Len(inbox[u]) /\ Len(inbox'[u]) = n + 1  BY DEF SentOne, Inserted
<1>2. Msgs(u)' = 1..n + 1 /\ Msgs(u) = 1..n  BY <1>1 DEF Msgs
<1>3. ASSUME NEW i \in 1..n + 1 PROVE inbox'[u][i] = m \/ \E j \in 1..n : inbox'[u][i] = inbox[u][j]
  <2>1. CASE SentOne(u, m)
    <3>1. i = n + 1 \/ i \in 1..n  BY <1>1
    <3>2. QED  BY <1>1, <1>2, <2>1, <3>1 DEF SentOne
  <2>2. CASE Inserted(u, m)
    <3>1. n > 0 /\ inbox'[u][n] = m /\ inbox'[u][n + 1] = inbox[u][n]  BY <1>1, <2>2 DEF Inserted
    <3>2. n \in 1..n  BY <3>1
    <3>3. i = n + 1 \/ i = n \/ (i \in 1..n - 1 /\ i \in 1..n)  BY <1>1
    <3>4. CASE i \in 1..n - 1 /\ i \in 1..n  BY <1>1, <2>2, <3>4 DEF Inserted
    <3>5. QED  BY <3>1, <3>2, <3>3, <3>4
  <2>3. QED  BY <2>1, <2>2
<1>4. QED  BY <1>2, <1>3 DEF Has

\* What u itself claims after a step of it other than the ones that write rules.
LEMMA OwnerStep ==
    ASSUME NoTunReuse, RouteInv, NEW u \in Ues, Step(u), ~SetupRules(u), ~Terminate(u)
    PROVE  OneOwner'
<1>1. AliveInv /\ OrphanInv /\ OneOwner  BY DEF RouteInv, CurrentInv, AliveInv
<1>2. /\ TypeOK /\ Links /\ Named(u) /\ Place(u) /\ Len(inbox[u]) \in Nat /\ net[u] \in NetRec
      /\ net[u].gnb \in Gnbs
  BY <1>1, Parts DEF NetRec
<1>3. ASSUME SameRules, Others(u), used' = used, \A s \in Teids : Has(u, s)' => Has(u, s)
      PROVE  OneOwner'
  <2>1. Gains(u, {})  BY <1>3, GainsNothing
  <2>2. \A v \in Ues : v # u => Gains(v, {})  BY <1>3, GainsSame DEF Others
  <2>3. \A v \in Ues : Gains(v, {})  BY <2>1, <2>2
  <2>4. QED  BY <1>1, <1>3, <2>3, OwnerKept
<1>4. ASSUME NEW t \in Teids, SameRules, Others(u), used' = used \cup {t},
             Fresh(t) \/ Claims(u, t), \A s \in Teids \ {t} : Has(u, s)' => Has(u, s)
      PROVE  OneOwner'
  <2>1. Gains(u, {t})  BY <1>4, GainsNothing
  <2>2. ASSUME NEW v \in Ues, v # u PROVE Gains(v, {}) /\ ~Claims(v, t)
    <3>1. Gains(v, {})  BY <1>4, <2>2, GainsSame DEF Others
    <3>2. CASE Fresh(t)  BY <1>1, <1>2, <3>1, <3>2, FreshIsFree
    <3>3. CASE Claims(u, t)  BY <1>1, <2>2, <3>1, <3>3 DEF OneOwner
    <3>4. QED  BY <1>4, <3>2, <3>3
  <2>3. QED  BY <1>1, <1>4, <2>1, <2>2, OwnerGiven
<1>5. CASE InitPduSessionRequest(u)
  <2>1. SameRules /\ Others(u) /\ sess'[u] = NewSession  BY <1>2, <1>5, InitEffect DEF SameRules
  <2>2. PICK t \in Teids, q \in Qfi :
          /\ Fresh(t) /\ used' = used \cup {t} /\ net'[u] = NetUp(net[u].gnb, t)
          /\ SentTwo(u, Accept, Setup(1, net[u].gnb, t, q))
    BY <1>2, <1>5, InitEffect
  <2>3. PICK m : m = Setup(1, net[u].gnb, t, q)  OBVIOUS
  <2>4. net'[u].ul = t /\ m.ul = t /\ Accept.ul = 0 /\ sess'[u].ul = 0
    BY <1>2, <2>1, <2>2, <2>3, Networks, Messages, Blank DEF Accept
  <2>5. ASSUME NEW s \in Teids \ {t}, Has(u, s)' PROVE Has(u, s)
    <3>1. s # 0  BY <2>5, Nums
    <3>2. PICK n \in Nat : n = Len(inbox[u]) /\ Len(inbox'[u]) = n + 2  BY <1>2, <2>2 DEF SentTwo
    <3>3. inbox'[u][n + 1] = Accept /\ inbox'[u][n + 2] = m  BY <2>2, <2>3, <3>2 DEF SentTwo
    <3>4. PICK i \in 1..n + 2 : inbox'[u][i].ul = s
      BY <2>4, <2>5, <3>1, <3>2 DEF Has, Msgs
    <3>5. i \in 1..n
      <4>1. i \in 1..n \/ i = n + 1 \/ i = n + 2  BY <3>2
      <4>2. QED  BY <2>4, <2>5, <3>1, <3>3, <3>4, <4>1
    <3>6. QED  BY <2>2, <3>2, <3>4, <3>5 DEF SentTwo, Has, Msgs
  <2>6. QED  BY <1>4, <2>1, <2>2, <2>5
<1>6. CASE SetupAgain(u)
  <2>1. SameRules /\ Others(u) /\ sess' = sess  BY <1>2, <1>6, AgainEffect DEF SameRules
  <2>2. PICK g \in Gnbs, t \in Teids, q \in Qfi :
          /\ (t = net[u].ul \/ Fresh(t)) /\ used' = used \cup {t} /\ net'[u] = NetUp(g, t)
          /\ SentOne(u, Setup(1, g, t, q))
    BY <1>2, <1>6, AgainEffect
  <2>3. net'[u].ul = t /\ Setup(1, g, t, q).ul = t  BY <1>2, <2>2, Networks, Messages
  <2>4. \A s \in Teids \ {t} : Has(u, s)' => Has(u, s)  BY <1>2, <2>1, <2>2, <2>3, HasSent
  <2>5. t = net[u].ul => Claims(u, t)  BY DEF Claims, Has
  <2>6. QED  BY <1>4, <2>1, <2>2, <2>4, <2>5
<1>7. CASE SetupOther(u)
  <2>1. /\ SameRules /\ Others(u) /\ sess' = sess /\ net' = net /\ used' = used
        /\ SentOne(u, Setup(2, net[u].gnb, 0, 0))
    BY <1>2, <1>7, OtherEffect DEF SameRules
  <2>2. Setup(2, net[u].gnb, 0, 0).ul = 0  BY <1>2, Messages
  <2>3. \A s \in Teids : Has(u, s)' => Has(u, s)
    <3>1. \A s : Has(u, s)' => Has(u, s) \/ s = 0 \/ s = net[u].ul
      BY <1>2, <2>1, <2>2, HasSent
    <3>2. \A s \in Teids : s # 0  BY Nums
    <3>3. QED  BY <3>1, <3>2 DEF Has
  <2>4. QED  BY <1>3, <2>1, <2>3
<1>8. CASE NetRelease(u)
  <2>1. /\ SameRules /\ Others(u) /\ sess' = sess /\ net'[u].ul = 0 /\ used' = used
        /\ SentOne(u, Release) \/ Inserted(u, Release)
    BY <1>2, <1>8, NetReleaseEffect DEF SameRules
  <2>2. Release.ul = 0  BY DEF Release
  <2>3. \A s \in Teids : Has(u, s)' => Has(u, s)
    <3>1. \A s : Has(u, s)' => Has(u, s) \/ s = 0  BY <1>2, <2>1, <2>2, HasSent
    <3>2. \A s \in Teids : s # 0  BY Nums
    <3>3. QED  BY <3>1, <3>2
  <2>4. QED  BY <1>3, <2>1, <2>3
<1>9. CASE HandleAccept(u)
  <2>1. /\ SameRules /\ Others(u) /\ net' = net /\ used' = used /\ Taken(u)
        /\ sess'[u].up = sess[u].up /\ sess'[u].ul = sess[u].ul
    BY <1>2, <1>9, AcceptEffect DEF SameRules
  <2>2. \A s : Has(u, s)' => Has(u, s)
    <3>1. sess[u].up \in BOOLEAN  BY <1>1, Parts DEF SessRec
    <3>2. CASE sess[u].up  BY <1>2, <2>1, <3>2, HasTaken
    <3>3. CASE ~sess[u].up  BY <1>2, <2>1, <3>3, HasTaken
    <3>4. QED  BY <3>2, <3>3
  <2>3. QED  BY <1>3, <2>1, <2>2
<1>10. CASE SetupSkipped(u)
  <2>1. /\ SameRules /\ Others(u) /\ net' = net /\ used' = used /\ Taken(u) /\ SameSess(u)
        /\ \/ sess'[u] = sess[u]
           \/ sess[u].up /\ sess'[u].ul = inbox[u][1].ul
    BY <1>2, <1>10, SkippedEffect DEF SameRules
  <2>2. sess'[u].up = sess[u].up  BY <2>1 DEF SameSess
  <2>3. \A s : Has(u, s)' => Has(u, s)
    <3>1. CASE sess[u].up  BY <1>2, <2>1, <2>2, <3>1, HasTaken
    <3>2. CASE ~sess[u].up  BY <1>2, <2>1, <2>2, <3>2, HasTaken
    <3>3. QED  BY <3>1, <3>2
  <2>4. QED  BY <1>3, <2>1, <2>3
<1>11. CASE SetupGtpInterface(u)
  <2>1. /\ SameRules /\ Others(u) /\ net' = net /\ used' = used /\ Taken(u) /\ SameSess(u)
        /\ sess[u].up /\ sess'[u].ul = inbox[u][1].ul
    BY <1>2, <1>11, InterfaceEffect DEF SameRules
  <2>2. sess'[u].up = sess[u].up  BY <2>1 DEF SameSess
  <2>3. \A s : Has(u, s)' => Has(u, s)  BY <1>2, <2>1, <2>2, HasTaken
  <2>4. QED  BY <1>3, <2>1, <2>3
<1>12. CASE SetupStart(u)
  <2>1. /\ SameRules /\ Others(u) /\ net' = net /\ used' = used /\ inbox' = inbox /\ SameSess(u)
        /\ sess'[u].ul = sess[u].ul
    BY <1>2, <1>12, StartEffect DEF SameRules
  <2>2. sess'[u].up = sess[u].up  BY <2>1 DEF SameSess
  <2>3. \A s : Has(u, s)' => Has(u, s)  BY <2>1, <2>2 DEF Has, Msgs
  <2>4. QED  BY <1>3, <2>1, <2>3
<1>13. CASE DeletePduSession(u)
  <2>1. /\ SameRules /\ Others(u) /\ net' = net /\ used' = used /\ Taken(u)
        /\ (sess'[u] = sess[u] /\ sess[u].up) \/ sess'[u] = NoSession
    BY <1>2, <1>13, DeleteEffect DEF SameRules
  <2>2. ~NoSession.up  BY Blank
  <2>3. \A s : Has(u, s)' => Has(u, s)  BY <1>2, <2>1, <2>2, HasTaken
  <2>4. QED  BY <1>3, <2>1, <2>3
<1>14. CASE Restart(u)
  <2>1. /\ SameRules /\ Others(u) /\ net'[u] = NetDown(u) /\ used' = used /\ inbox' = inbox
        /\ sess'[u] = NoSession
    BY <1>2, <1>14, RestartEffect DEF SameRules
  <2>2. ~sess'[u].up /\ net'[u].ul = 0  BY <2>1, Blank DEF NetDown
  <2>3. \A s \in Teids : s # 0  BY Nums
  <2>4. \A s \in Teids : Has(u, s)' => Has(u, s)  BY <2>1, <2>2, <2>3 DEF Has, Msgs
  <2>5. QED  BY <1>3, <2>1, <2>4
<1>15. QED
  BY <1>5, <1>6, <1>7, <1>8, <1>9, <1>10, <1>11, <1>12, <1>13, <1>14 DEF Step, UeStep

LEMMA RuleIs == \A u, v, s, t : Rule(u, s) = Rule(v, t) => u = v /\ s = t
BY DEF Rule

LEMMA OwnerRules ==
    ASSUME OneOwner, NEW u \in Ues, RulesWritten(u), sess[u].up
    PROVE  OneOwner'
<1>1. /\ mode' = mode /\ used' = used /\ net' = net /\ inbox' = inbox
      /\ sess'[u].up = sess[u].up /\ sess'[u].ul = sess[u].ul
      /\ \A v \in Ues : v # u => sess'[v] = sess[v]
      /\ IF mode = "tun" THEN RuleAdded(Rule(u, sess[u].ul)) ELSE rules' = rules
  BY DEF RulesWritten
<1>2. \A v \in Ues : \A s : Has(v, s)' => Has(v, s)  BY <1>1 DEF Has, Msgs
<1>3. Has(u, sess[u].ul)  BY DEF Has
<1>4. ASSUME NEW v \in Ues PROVE Gains(v, {})
  <2>1. CASE mode # "tun"  BY <1>1, <1>2, <2>1, GainsNothing DEF SameRules
  <2>2. CASE mode = "tun"
    <3>1. ASSUME NEW s \in Teids, Ruled(v, s)' PROVE Claims(v, s)
      <4>1. PICK i \in 1..Len(rules') : rules'[i] = Rule(v, s)  BY <3>1 DEF Ruled, Rule
      <4>2. RuleAdded(Rule(u, sess[u].ul))  BY <1>1, <2>2
      <4>3. rules'[i] = Rule(u, sess[u].ul) \/ \E j \in 1..Len(rules) : rules[j] = rules'[i]
        BY <4>2 DEF RuleAdded
      <4>4. CASE rules'[i] = Rule(u, sess[u].ul)
        <5>1. Rule(v, s) = Rule(u, sess[u].ul)  BY <4>1, <4>4
        <5>2. v = u /\ s = sess[u].ul  BY ONLY <5>1 DEF Rule
        <5>3. QED  BY <1>3, <5>2 DEF Claims
      <4>5. CASE \E j \in 1..Len(rules) : rules[j] = rules'[i]
        <5>1. Ruled(v, s)  BY <4>1, <4>5 DEF Ruled
        <5>2. QED  BY <2>2, <5>1 DEF Claims
      <4>6. QED  BY <4>3, <4>4, <4>5
    <3>2. QED  BY <1>2, <3>1 DEF Gains, Claims
  <2>3. QED  BY <2>1, <2>2
<1>5. QED  BY <1>1, <1>4, OwnerKept

LEMMA OwnerTerminate ==
    ASSUME TypeOK, Links, OneOwner, NEW u \in Ues, Terminate(u)
    PROVE  OneOwner'
<1>1. /\ mode' = mode /\ used' = used /\ inbox'[u] = <<>> /\ sess' = sess /\ Others(u)
      /\ net'[u] = net[u] \/ net'[u] = NetDown(u)
      /\ rules' = rules \/ (sess[u].up /\ sess[u].rule # 0 /\ RuleRemoved(Rule(u, sess[u].rule)))
  BY TerminateEffect
<1>2. \A v \in Ues, s \in Teids : Has(v, s)' => Has(v, s)
  <2>1. \A s \in Teids : s # 0 /\ NetDown(u).ul = 0  BY Nums DEF NetDown
  <2>2. Msgs(u)' = {}  BY <1>1 DEF Msgs
  <2>3. \A s \in Teids : Has(u, s)' => Has(u, s)  BY <1>1, <2>1, <2>2 DEF Has
  <2>4. ASSUME NEW v \in Ues, v # u PROVE \A s : Has(v, s)' => Has(v, s)
    <3>1. Same(v)  BY <1>1, <2>4 DEF Others
    <3>2. QED  BY <3>1 DEF Has, Same, Msgs
  <2>5. QED  BY <2>3, <2>4
<1>3. \A v, s : Ruled(v, s)' => Ruled(v, s)
  <2>1. CASE rules' = rules  BY <2>1 DEF Ruled, Rule
  <2>2. CASE RuleRemoved(Rule(u, sess[u].rule))
    <3>1. ASSUME NEW v, NEW s, Ruled(v, s)' PROVE Ruled(v, s)
      <4>1. PICK i \in 1..Len(rules') : rules'[i] = Rule(v, s)  BY <3>1 DEF Ruled, Rule
      <4>2. \E j \in 1..Len(rules) : rules[j] = rules'[i]  BY <2>2 DEF RuleRemoved
      <4>3. QED  BY <4>1, <4>2 DEF Ruled
    <3>2. QED  BY <3>1
  <2>3. QED  BY <1>1, <2>1, <2>2
<1>4. \A v \in Ues : Gains(v, {})  BY <1>1, <1>2, <1>3 DEF Gains, Claims
<1>5. QED  BY <1>1, <1>4, OwnerKept

LEMMA OwnerCmd ==
    ASSUME AliveInv, OneOwner, NEW p \in Cmds, CmdAdd(p)
    PROVE  OneOwner'
<1>1. OrphanInv /\ TypeOK /\ Links /\ ~Fatal  BY CmdSucceeds, Parts DEF AliveInv
<1>2. PICK u : u = cmd[p].ue  OBVIOUS
<1>3. u \in Ues  BY <1>1, <1>2, ElsewhereCmd
<1>4. ASSUME SameRules, used' = used, net' = net, inbox' = inbox,
             \A v \in Ues : sess'[v] = sess[v] \/ ~sess'[v].up
      PROVE  OneOwner'
  <2>1. ASSUME NEW v \in Ues PROVE Gains(v, {})
    <3>1. \A s : Has(v, s)' => Has(v, s)  BY <1>4 DEF Has, Msgs
    <3>2. QED  BY <1>4, <3>1, GainsNothing
  <2>2. QED  BY <1>4, <2>1, OwnerKept
<1>5. CASE CmdAddListen(p)
  <2>1. UNCHANGED <<mode, used, net, inbox, sess, rules>>  BY <1>1, <1>5, ListenEffect
  <2>2. QED  BY <1>4, <2>1 DEF SameRules
<1>6. CASE CmdAddCreate(p)
  <2>1. UNCHANGED <<mode, used, net, inbox, sess, rules>>  BY <1>1, <1>6, CreateEffect
  <2>2. QED  BY <1>4, <2>1 DEF SameRules
<1>7. CASE CmdAddReturn(p)
  <2>1. UNCHANGED <<mode, used, net, inbox, sess, rules>>  BY <1>1, <1>7, ReturnEffect
  <2>2. QED  BY <1>4, <2>1 DEF SameRules
<1>8. CASE CmdAddStopped(p)
  <2>1. /\ UNCHANGED <<mode, used, net, inbox, rules>> /\ Others(u) /\ sess'[u] = NoSession
    BY <1>1, <1>2, <1>8, StoppedEffect
  <2>2. \A v \in Ues : sess'[v] = sess[v] \/ ~sess'[v].up  BY <2>1, Blank DEF Others, Same
  <2>3. QED  BY <1>4, <2>1, <2>2 DEF SameRules
<1>9. QED  BY <1>5, <1>6, <1>7, <1>8 DEF CmdAdd

\* The links of two UEs are not the same one.
LEMMA LinksDiffer ==
    ASSUME AliveInv, NEW u \in Ues, NEW v \in Ues, u # v, link[u].id # 0
    PROVE  link[u].id # link[v].id
<1>1. Linked(u) /\ Linked(v)  BY DEF AliveInv, Sound
<1>2. QED  BY <1>1 DEF Linked, Mine

\* The routes, when the ids of the links and the rules are as they were.
LEMMA RoutesKept ==
    ASSUME Routes, SameRules, route' = route, \A u \in Ues : link'[u].id = link[u].id
    PROVE  Routes'
<1>1. ASSUME NEW t \in Teids, route[t] # 0
      PROVE  \E u \in Ues : route[t] = link'[u].id /\ (mode = "tun" => Ruled(u, t)')
  <2>1. PICK u \in Ues : route[t] = link[u].id /\ (mode = "tun" => Ruled(u, t))
    BY <1>1 DEF Routes
  <2>2. QED  BY <2>1, RuledSame
<1>2. QED  BY <1>1 DEF Routes, SameRules

\* The link of u is deleted with its routes, and with at most one rule of u.
LEMMA RoutesDeleted ==
    ASSUME Routes, NEW u \in Ues, mode' = mode,
           \A t \in Teids : route'[t] = IF route[t] = link[u].id THEN 0 ELSE route[t],
           \A v \in Ues : v # u => link'[v] = link[v],
           \A v \in Ues, t \in Teids : v # u /\ Ruled(v, t) => Ruled(v, t)'
    PROVE  Routes'
<1>1. ASSUME NEW t \in Teids, route'[t] # 0
      PROVE  \E v \in Ues : route'[t] = link'[v].id /\ (mode = "tun" => Ruled(v, t)')
  <2>1. route'[t] = route[t] /\ route[t] # link[u].id  BY <1>1
  <2>2. PICK v \in Ues : route[t] = link[v].id /\ (mode = "tun" => Ruled(v, t))
    BY <1>1, <2>1 DEF Routes
  <2>3. v # u  BY <2>1, <2>2
  <2>4. QED  BY <2>1, <2>2, <2>3
<1>2. QED  BY <1>1 DEF Routes

\* The rules that Terminate leaves: those of the other UEs are among them.
LEMMA TerminateRules ==
    ASSUME TypeOK, Links, NEW u \in Ues, Terminate(u)
    PROVE  \A v \in Ues, t \in Teids : v # u /\ Ruled(v, t) => Ruled(v, t)'
<1>1. rules' = rules \/ RuleRemoved(Rule(u, sess[u].rule))  BY TerminateEffect
<1>2. ASSUME NEW v \in Ues, NEW t \in Teids, v # u, Ruled(v, t) PROVE Ruled(v, t)'
  <2>1. CASE rules' = rules  BY <1>2, <2>1 DEF Ruled, Rule
  <2>2. CASE RuleRemoved(Rule(u, sess[u].rule))
    <3>1. PICK j \in 1..Len(rules) : rules[j] = Rule(v, t)  BY <1>2 DEF Ruled
    <3>2. rules[j] # Rule(u, sess[u].rule)  BY <1>2, <3>1, RuleIs
    <3>3. \E i \in 1..Len(rules') : rules'[i] = rules[j]  BY <2>2, <3>2 DEF RuleRemoved
    <3>4. QED  BY <3>1, <3>3 DEF Ruled, Rule
  <2>3. QED  BY <1>1, <2>1, <2>2
<1>3. QED  BY <1>2

LEMMA AddedRules ==
    ASSUME NEW u, NEW t, RuleAdded(Rule(u, t))
    PROVE  Ruled(u, t)' /\ \A v, s : Ruled(v, s) => Ruled(v, s)'
<1>1. Ruled(u, t)'  BY DEF RuleAdded, Ruled, Rule
<1>2. ASSUME NEW v, NEW s, Ruled(v, s) PROVE Ruled(v, s)'
  <2>1. PICK j \in 1..Len(rules) : rules[j] = Rule(v, s)  BY <1>2 DEF Ruled
  <2>2. \E i \in 1..Len(rules') : rules'[i] = rules[j]  BY DEF RuleAdded
  <2>3. QED  BY <2>1, <2>2 DEF Ruled, Rule
<1>3. QED  BY <1>1, <1>2

LEMMA RoutesWritten ==
    ASSUME Routes, NEW u \in Ues, RulesWritten(u)
    PROVE  Routes'
<1>1. /\ mode' = mode /\ sess[u].ul \in Teids
      /\ \A t \in Teids : route'[t] = IF t = sess[u].ul THEN link[u].id ELSE route[t]
      /\ \A v \in Ues : v # u => link'[v] = link[v]
      /\ IF mode = "tun" THEN RuleAdded(Rule(u, sess[u].ul)) ELSE rules' = rules
  BY DEF RulesWritten
<1>2. link'[u].id = link[u].id  BY DEF RulesWritten
<1>3. PICK x : x = sess[u].ul /\ (mode = "tun" => Ruled(u, x)' /\ \A v, s : Ruled(v, s) => Ruled(v, s)')
  <2>1. PICK x : x = sess[u].ul  OBVIOUS
  <2>2. mode = "tun" => RuleAdded(Rule(u, x))  BY <1>1, <2>1
  <2>3. QED  BY <2>1, <2>2, AddedRules
<1>4. ASSUME NEW t \in Teids, route'[t] # 0
      PROVE  \E v \in Ues : route'[t] = link'[v].id /\ (mode = "tun" => Ruled(v, t)')
  <2>1. CASE t = sess[u].ul  BY <1>1, <1>2, <1>3, <2>1
  <2>2. CASE t # sess[u].ul
    <3>1. PICK v \in Ues : route[t] = link[v].id /\ (mode = "tun" => Ruled(v, t))
      BY <1>1, <1>4, <2>2 DEF Routes
    <3>2. route'[t] = route[t] /\ link'[v].id = link[v].id  BY <1>1, <1>2, <2>2
    <3>3. QED  BY <1>3, <3>1, <3>2
  <2>3. QED  BY <2>1, <2>2
<1>5. QED  BY <1>1, <1>4 DEF Routes

LEMMA RoutesStep ==
    ASSUME NoRaces, RouteInv, NEW u \in Ues, Step(u)
    PROVE  Routes'
<1>1. AliveInv /\ OrphanInv /\ Sound(u) /\ Routes /\ Reached(u)
  BY DEF RouteInv, CurrentInv, AliveInv
<1>2. TypeOK /\ Links /\ Named(u)  BY <1>1, Parts
<1>3. ASSUME UNCHANGED <<mode, link, rules, route>> PROVE Routes'
  BY <1>1, <1>3, RoutesKept DEF SameRules
<1>4. CASE InitPduSessionRequest(u)  BY <1>2, <1>3, <1>4, InitEffect
<1>5. CASE SetupAgain(u)  BY <1>2, <1>3, <1>5, AgainEffect
<1>6. CASE SetupOther(u)  BY <1>2, <1>3, <1>6, OtherEffect
<1>7. CASE NetRelease(u)  BY <1>2, <1>3, <1>7, NetReleaseEffect
<1>8. CASE HandleAccept(u)  BY <1>2, <1>3, <1>8, AcceptEffect
<1>9. CASE SetupSkipped(u)  BY <1>2, <1>3, <1>9, SkippedEffect
<1>10. CASE SetupGtpInterface(u)
  <2>1. /\ SameRules /\ Others(u)
        /\ \A t \in Teids : route'[t] = IF route[t] = link[u].id THEN 0 ELSE route[t]
    BY <1>2, <1>10, InterfaceEffect DEF SameRules
  <2>2. \A v \in Ues : v # u => link'[v] = link[v]  BY <2>1 DEF Others, Same
  <2>3. \A v \in Ues, t \in Teids : v # u /\ Ruled(v, t) => Ruled(v, t)'  BY <2>1, RuledSame
  <2>4. QED  BY <1>1, <2>1, <2>2, <2>3, RoutesDeleted DEF SameRules
<1>11. CASE SetupStart(u)  BY <1>2, <1>3, <1>11, StartEffect
<1>12. CASE SetupRules(u)
  <2>1. RulesWritten(u)  BY <1>1, <1>12, RulesSucceed
  <2>2. QED  BY <1>1, <2>1, RoutesWritten
<1>13. CASE DeletePduSession(u)  BY <1>2, <1>3, <1>13, DeleteEffect
<1>14. CASE Terminate(u)
  <2>1. mode' = mode /\ Others(u)  BY <1>2, <1>14, TerminateEffect
  <2>2. \A v \in Ues : v # u => link'[v] = link[v]  BY <2>1 DEF Others, Same
  <2>3. \A v \in Ues, t \in Teids : v # u /\ Ruled(v, t) => Ruled(v, t)'
    BY <1>2, <1>14, TerminateRules
  <2>4. CASE sess[u].up /\ sess[u].tun # 0
    <3>1. \A t \in Teids : route'[t] = IF route[t] = link[u].id THEN 0 ELSE route[t]
      BY <1>2, <1>14, <2>4, TerminateEffect
    <3>2. QED  BY <1>1, <2>1, <2>2, <2>3, <3>1, RoutesDeleted
  <2>5. CASE ~(sess[u].up /\ sess[u].tun # 0)
    <3>1. link'[u] = link[u] /\ route' = route  BY <1>2, <1>14, <2>5, TerminateEffect
    <3>2. ~(sess[u].up /\ sess[u].rule # 0)  BY <1>1, <2>5 DEF Reached
    <3>3. rules' = rules  BY <1>2, <1>14, <3>2, TerminateEffect
    <3>4. \A v \in Ues : link'[v].id = link[v].id  BY <2>2, <3>1
    <3>5. QED  BY <1>1, <2>1, <3>1, <3>3, <3>4, RoutesKept DEF SameRules
  <2>6. QED  BY <2>4, <2>5
<1>15. CASE Restart(u)  BY <1>2, <1>3, <1>15, RestartEffect
<1>16. QED
  BY <1>4, <1>5, <1>6, <1>7, <1>8, <1>9, <1>10, <1>11, <1>12, <1>13, <1>14, <1>15 DEF Step, UeStep

LEMMA RoutesCmd ==
    ASSUME AliveInv, Routes, NEW p \in Cmds, CmdAdd(p)
    PROVE  Routes'
<1>1. OrphanInv /\ TypeOK /\ Links /\ ~Fatal  BY CmdSucceeds, Parts DEF AliveInv
<1>2. ASSUME UNCHANGED <<mode, link, rules, route>> PROVE Routes'
  BY <1>2, RoutesKept DEF SameRules
<1>3. CASE CmdAddListen(p)  BY <1>1, <1>2, <1>3, ListenEffect
<1>4. CASE CmdAddCreate(p)
  <2>1. PICK u \in Ues : u = cmd[p].ue  BY <1>1, <1>4, CreateEffect
  <2>2. /\ link[u].id = 0 /\ \A v \in Ues : v # u => link'[v] = link[v]
        /\ SameRules /\ route' = route
    BY <1>1, <1>4, <2>1, CreateEffect DEF SameRules
  <2>3. ASSUME NEW t \in Teids, route[t] # 0
        PROVE  \E v \in Ues : route[t] = link'[v].id /\ (mode = "tun" => Ruled(v, t)')
    <3>1. PICK v \in Ues : route[t] = link[v].id /\ (mode = "tun" => Ruled(v, t))
      BY <2>3 DEF Routes
    <3>2. v # u  BY <2>2, <2>3, <3>1
    <3>3. QED  BY <2>2, <3>1, <3>2, RuledSame
  <2>4. QED  BY <2>2, <2>3 DEF Routes, SameRules
<1>5. CASE CmdAddReturn(p)  BY <1>1, <1>2, <1>5, ReturnEffect
<1>6. CASE CmdAddStopped(p)
  <2>1. PICK u : u = cmd[p].ue  OBVIOUS
  <2>2. QED  BY <1>1, <1>2, <1>6, <2>1, StoppedEffect
<1>7. QED  BY <1>3, <1>4, <1>5, <1>6 DEF CmdAdd

\* The table of the session of v, as long as it has a tunnel in use, is as it was.
TableKept(v) ==
    \A x \in Teids : (sess[v].ul = x /\ sess[v].tun # 0 /\ pc[v] = "loop") =>
        route'[x] = route[x] /\ (Ruled(v, x) => Ruled(v, x)')

LEMMA ReachedKept ==
    ASSUME NEW v, Reached(v), mode' = mode, sess'[v].tun = sess[v].tun,
           sess'[v].rule = sess[v].rule, sess'[v].stop = sess[v].stop,
           \/ pc'[v] # "loop"
           \/ /\ pc[v] = "loop" /\ link'[v].id = link[v].id /\ vrf'[v] = vrf[v]
              /\ sess[v].tun # 0 => sess'[v].ul = sess[v].ul
              /\ TableKept(v)
    PROVE  Reached(v)'
<1>1. (sess[v].tun # 0 => mode # "disabled" /\ sess[v].stop # 0)'  BY DEF Reached
<1>2. (sess[v].rule # 0 => sess[v].tun # 0)'  BY DEF Reached
<1>3. CASE pc'[v] # "loop" \/ sess'[v].tun = 0  BY <1>1, <1>2, <1>3 DEF Reached
<1>4. CASE pc'[v] = "loop" /\ sess'[v].tun # 0
  <2>1. pc[v] = "loop" /\ sess[v].tun # 0 /\ sess'[v].ul = sess[v].ul /\ TableKept(v)  BY <1>4
  <2>2. PICK x : x = sess[v].ul  OBVIOUS
  <2>3. /\ sess[v].tun = sess[v].stop /\ x \in Teids /\ route[x] = link[v].id
        /\ mode = "tun" => Ruled(v, x)
        /\ mode = "vrf" => vrf[v] = x
    BY <2>1, <2>2 DEF Reached
  <2>4. route'[x] = route[x] /\ (Ruled(v, x) => Ruled(v, x)')  BY <2>1, <2>2, <2>3 DEF TableKept
  <2>5. sess'[v].ul = x  BY <2>1, <2>2
  <2>6. mode' = "tun" => Ruled(v, sess[v].ul)'
    <3>1. Ruled(v, x)' => Ruled(v, sess[v].ul)'  BY <2>5 DEF Ruled, Rule
    <3>2. QED  BY <2>3, <2>4, <3>1
  <2>7. /\ sess'[v].tun = sess'[v].stop /\ sess'[v].ul \in Teids
        /\ route'[sess'[v].ul] = link'[v].id /\ (mode' = "vrf" => vrf'[v] = sess'[v].ul)
    BY <1>4, <2>1, <2>3, <2>4, <2>5
  <2>8. QED  BY <1>1, <1>2, <2>6, <2>7 DEF Reached
<1>5. QED  BY <1>3, <1>4

LEMMA ReachedBlank == ASSUME NEW u, sess'[u].tun = 0, sess'[u].rule = 0 PROVE Reached(u)'
BY DEF Reached

LEMMA ReachedWritten ==
    ASSUME NEW u \in Ues, RulesWritten(u), mode # "disabled", link[u].id = sess[u].stop,
           sess[u].stop # 0
    PROVE  Reached(u)'
<1>1. PICK x \in Teids : x = sess[u].ul  BY DEF RulesWritten
<1>2. /\ mode' = mode /\ route'[x] = link[u].id /\ sess'[u].ul = x
      /\ sess'[u].stop = sess[u].stop /\ sess'[u].tun = link[u].id
      /\ mode = "tun" => RuleAdded(Rule(u, x))
      /\ mode = "vrf" => vrf'[u] = x
  BY <1>1 DEF RulesWritten
<1>3. link'[u].id = link[u].id  BY DEF RulesWritten
<1>4. mode' = "tun" => Ruled(u, sess[u].ul)'
  <2>1. mode = "tun" => Ruled(u, x)'  BY <1>2, AddedRules
  <2>2. Ruled(u, x)' => Ruled(u, sess[u].ul)'  BY <1>2 DEF Ruled, Rule
  <2>3. QED  BY <1>2, <2>1, <2>2
<1>5. QED  BY <1>2, <1>3, <1>4 DEF Reached

LEMMA ReachedStep ==
    ASSUME NoRaces, RouteInv, NEW u \in Ues, Step(u)
    PROVE  Reached(u)'
<1>1. AliveInv /\ OrphanInv /\ Sound(u) /\ Reached(u)  BY DEF RouteInv, CurrentInv, AliveInv
<1>2. TypeOK /\ Links /\ Named(u) /\ Place(u) /\ Stops(u) /\ Len(cmd) \in Nat  BY <1>1, Parts
<1>3. UNCHANGED <<mode, rules, route>> => TableKept(u)  BY RuledSame DEF TableKept, SameRules
<1>4. CASE InitPduSessionRequest(u)
  <2>1. sess'[u] = NewSession  BY <1>2, <1>4, InitEffect
  <2>2. QED  BY <2>1, Blank, ReachedBlank
<1>5. CASE SetupAgain(u)
  <2>1. UNCHANGED <<mode, pc, sess, link, vrf, rules, route>>  BY <1>2, <1>5, AgainEffect
  <2>2. QED  BY <1>1, <1>3, <2>1, ReachedKept
<1>6. CASE SetupOther(u)
  <2>1. UNCHANGED <<mode, pc, sess, link, vrf, rules, route>>  BY <1>2, <1>6, OtherEffect
  <2>2. QED  BY <1>1, <1>3, <2>1, ReachedKept
<1>7. CASE NetRelease(u)
  <2>1. UNCHANGED <<mode, pc, sess, link, vrf, rules, route>>  BY <1>2, <1>7, NetReleaseEffect
  <2>2. QED  BY <1>1, <1>3, <2>1, ReachedKept
<1>8. CASE HandleAccept(u)
  <2>1. /\ UNCHANGED <<mode, pc, link, vrf, rules, route>> /\ pc[u] = "loop"
        /\ sess'[u].ul = sess[u].ul /\ sess'[u].stop = sess[u].stop
        /\ sess'[u].tun = sess[u].tun /\ sess'[u].rule = sess[u].rule
    BY <1>2, <1>8, AcceptEffect
  <2>2. QED  BY <1>1, <1>3, <2>1, ReachedKept
<1>9. CASE SetupSkipped(u)
  <2>1. /\ UNCHANGED <<mode, pc, link, vrf, rules, route>> /\ pc[u] = "loop"
        /\ sess'[u].stop = sess[u].stop /\ sess'[u].tun = sess[u].tun /\ SameSess(u)
        /\ ~TunnelWanted(u, inbox[u][1])
        /\ \/ sess'[u] = sess[u]
           \/ sess[u].up /\ inbox[u][1].id = 1
    BY <1>2, <1>9, SkippedEffect
  <2>2. sess[u].tun # 0 => sess'[u].ul = sess[u].ul  BY <1>1, <2>1 DEF Reached, TunnelWanted
  <2>3. QED  BY <1>1, <1>3, <2>1, <2>2, ReachedKept DEF SameSess
<1>10. CASE SetupGtpInterface(u)
  <2>1. /\ mode' = mode /\ pc'[u] = "spawn" /\ sess'[u].stop = sess[u].stop
        /\ sess'[u].tun = sess[u].tun /\ SameSess(u)
    BY <1>2, <1>10, InterfaceEffect
  <2>2. QED  BY <1>1, <2>1, ReachedKept DEF SameSess
<1>11. CASE SetupStart(u)
  <2>1. /\ mode' = mode /\ pc'[u] = "rules" /\ sess'[u].stop = Len(cmd) + 1
        /\ sess'[u].tun = sess[u].tun /\ SameSess(u)
    BY <1>2, <1>11, StartEffect
  <2>2. sess'[u].stop # 0 /\ sess'[u].rule = sess[u].rule  BY <1>2, <2>1 DEF SameSess
  <2>3. QED  BY <1>1, <2>1, <2>2 DEF Reached
<1>12. CASE SetupRules(u)
  <2>1. /\ RulesWritten(u) /\ pc[u] = "rules" /\ link[u].id = sess[u].stop
    BY <1>1, <1>12, RulesSucceed
  <2>2. mode # "disabled" /\ sess[u].stop # 0  BY <1>2, <2>1 DEF Place
  <2>3. QED  BY <2>1, <2>2, ReachedWritten
<1>13. CASE DeletePduSession(u)
  <2>1. mode' = mode /\ ((pc'[u] = "stop" /\ sess'[u] = sess[u]) \/ sess'[u] = NoSession)
    BY <1>2, <1>13, DeleteEffect
  <2>2. CASE sess'[u] = NoSession  BY <2>2, Blank, ReachedBlank
  <2>3. CASE pc'[u] = "stop" /\ sess'[u] = sess[u]  BY <1>1, <2>1, <2>3, ReachedKept
  <2>4. QED  BY <2>1, <2>2, <2>3
<1>14. CASE Terminate(u)
  <2>1. mode' = mode /\ pc'[u] = "ended" /\ sess' = sess  BY <1>2, <1>14, TerminateEffect
  <2>2. QED  BY <1>1, <2>1, ReachedKept
<1>15. CASE Restart(u)
  <2>1. sess'[u] = NoSession  BY <1>2, <1>15, RestartEffect
  <2>2. QED  BY <2>1, Blank, ReachedBlank
<1>16. QED
  BY <1>4, <1>5, <1>6, <1>7, <1>8, <1>9, <1>10, <1>11, <1>12, <1>13, <1>14, <1>15 DEF Step, UeStep

\* A step of u leaves the tables of the other UEs alone.
LEMMA TablesApart ==
    ASSUME NoRaces, RouteInv, NEW u \in Ues, Step(u), NEW v \in Ues, v # u
    PROVE  TableKept(v)
<1>1. AliveInv /\ OrphanInv /\ Sound(u) /\ Built(v) /\ Reached(v) /\ OneOwner
  BY DEF RouteInv, CurrentInv, AliveInv
<1>2. TypeOK /\ Links /\ Named(u) /\ Place(u) /\ Place(v)  BY <1>1, Parts
<1>3. UNCHANGED <<mode, rules, route>> => TableKept(v)  BY RuledSame DEF TableKept, SameRules
<1>4. ASSUME \A t \in Teids : route'[t] = IF route[t] = link[u].id THEN 0 ELSE route[t],
             \A t \in Teids : Ruled(v, t) => Ruled(v, t)'
      PROVE  TableKept(v)
  <2>1. ASSUME NEW x \in Teids, sess[v].ul = x, sess[v].tun # 0, pc[v] = "loop"
        PROVE  route'[x] = route[x]
    <3>1. route[x] = link[v].id /\ sess[v].stop # 0  BY <1>1, <2>1 DEF Reached
    <3>2. link[v].id = sess[v].stop  BY <1>1, <2>1, <3>1 DEF Built
    <3>3. link[v].id # link[u].id  BY <1>1, <3>1, <3>2, LinksDiffer
    <3>4. QED  BY <1>4, <3>1, <3>3
  <2>2. QED  BY <1>4, <2>1 DEF TableKept
<1>5. CASE InitPduSessionRequest(u)  BY <1>2, <1>3, <1>5, InitEffect
<1>6. CASE SetupAgain(u)  BY <1>2, <1>3, <1>6, AgainEffect
<1>7. CASE SetupOther(u)  BY <1>2, <1>3, <1>7, OtherEffect
<1>8. CASE NetRelease(u)  BY <1>2, <1>3, <1>8, NetReleaseEffect
<1>9. CASE HandleAccept(u)  BY <1>2, <1>3, <1>9, AcceptEffect
<1>10. CASE SetupSkipped(u)  BY <1>2, <1>3, <1>10, SkippedEffect
<1>11. CASE SetupGtpInterface(u)
  <2>1. /\ SameRules
        /\ \A t \in Teids : route'[t] = IF route[t] = link[u].id THEN 0 ELSE route[t]
    BY <1>2, <1>11, InterfaceEffect DEF SameRules
  <2>2. QED  BY <1>4, <2>1, RuledSame
<1>12. CASE SetupStart(u)  BY <1>2, <1>3, <1>12, StartEffect
<1>13. CASE SetupRules(u)
  <2>1. RulesWritten(u) /\ pc[u] = "rules"  BY <1>1, <1>13, RulesSucceed
  <2>2. PICK t \in Teids : t = sess[u].ul  BY <2>1 DEF RulesWritten
  <2>3. /\ mode' = mode /\ \A x \in Teids : x # t => route'[x] = route[x]
        /\ IF mode = "tun" THEN RuleAdded(Rule(u, t)) ELSE rules' = rules
    BY <2>1, <2>2 DEF RulesWritten
  <2>4. \A x : Ruled(v, x) => Ruled(v, x)'
    <3>1. CASE mode = "tun"  BY <2>3, <3>1, AddedRules
    <3>2. CASE mode # "tun"  BY <2>3, <3>2, RuledSame DEF SameRules
    <3>3. QED  BY <3>1, <3>2
  <2>5. ASSUME NEW x \in Teids, sess[v].ul = x, sess[v].tun # 0 PROVE x # t
    <3>1. sess[v].stop # 0  BY <1>1, <2>5 DEF Reached
    <3>2. sess[v].up /\ sess[u].up  BY <1>2, <2>1, <3>1, Blank DEF Place
    <3>3. x = t => Claims(v, t) /\ Claims(u, t)  BY <2>2, <2>5, <3>2 DEF Claims, Has
    <3>4. QED  BY <1>1, <3>3 DEF OneOwner
  <2>6. QED  BY <2>3, <2>4, <2>5 DEF TableKept
<1>14. CASE DeletePduSession(u)  BY <1>2, <1>3, <1>14, DeleteEffect
<1>15. CASE Terminate(u)
  <2>1. \A t \in Teids : Ruled(v, t) => Ruled(v, t)'  BY <1>2, <1>15, TerminateRules
  <2>2. CASE sess[u].up /\ sess[u].tun # 0
    <3>1. \A t \in Teids : route'[t] = IF route[t] = link[u].id THEN 0 ELSE route[t]
      BY <1>2, <1>15, <2>2, TerminateEffect
    <3>2. QED  BY <1>4, <2>1, <3>1
  <2>3. CASE ~(sess[u].up /\ sess[u].tun # 0)
    <3>1. route' = route  BY <1>2, <1>15, <2>3, TerminateEffect
    <3>2. QED  BY <2>1, <3>1 DEF TableKept
  <2>4. QED  BY <2>2, <2>3
<1>16. CASE Restart(u)  BY <1>2, <1>3, <1>16, RestartEffect
<1>17. QED
  BY <1>5, <1>6, <1>7, <1>8, <1>9, <1>10, <1>11, <1>12, <1>13, <1>14, <1>15, <1>16 DEF Step, UeStep

LEMMA ReachedSame ==
    ASSUME NEW v, Reached(v), Same(v), mode' = mode, TableKept(v)
    PROVE  Reached(v)'
<1>1. CASE pc[v] = "loop"  BY <1>1, ReachedKept DEF Same
<1>2. CASE pc[v] # "loop"  BY <1>2, ReachedKept DEF Same
<1>3. QED  BY <1>1, <1>2

LEMMA RouteUeStep ==
    ASSUME NoRaces, NoTunnelLoop, NoTunReuse, RouteInv, NEW u \in Ues, Step(u)
    PROVE  RouteInv'
<1>1. /\ CurrentInv /\ AliveInv /\ OrphanInv /\ OneOwner /\ Sound(u)
      /\ \A v \in Ues : Reached(v)
  BY DEF RouteInv, CurrentInv, AliveInv
<1>2. TypeOK /\ Links /\ Place(u)  BY <1>1, Parts
<1>3. CurrentInv'  BY <1>1, CurrentUeStep
<1>4. OneOwner'
  <2>1. CASE SetupRules(u)
    <3>1. RulesWritten(u) /\ pc[u] = "rules"  BY <1>1, <2>1, RulesSucceed
    <3>2. sess[u].up  BY <1>2, <3>1 DEF Place
    <3>3. QED  BY <1>1, <3>1, <3>2, OwnerRules
  <2>2. CASE Terminate(u)  BY <1>1, <1>2, <2>2, OwnerTerminate
  <2>3. CASE ~SetupRules(u) /\ ~Terminate(u)  BY <2>3, OwnerStep
  <2>4. QED  BY <2>1, <2>2, <2>3
<1>5. Routes' /\ Reached(u)'  BY RoutesStep, ReachedStep
<1>6. Elsewhere(u)  BY <1>1, ElsewhereUe
<1>7. ASSUME NEW v \in Ues, v # u PROVE Reached(v)'
  <2>1. Same(v) /\ mode' = mode  BY <1>6, <1>7 DEF Elsewhere
  <2>2. TableKept(v)  BY <1>7, TablesApart
  <2>3. QED  BY <1>1, <2>1, <2>2, ReachedSame
<1>8. QED  BY <1>3, <1>4, <1>5, <1>7 DEF RouteInv

LEMMA RouteCmdStep ==
    ASSUME RouteInv, NEW p \in Cmds, CmdAdd(p)
    PROVE  RouteInv'
<1>1. CurrentInv /\ AliveInv /\ OrphanInv /\ OneOwner /\ Routes /\ \A v \in Ues : Reached(v)
  BY DEF RouteInv, CurrentInv, AliveInv
<1>2. TypeOK /\ Links /\ ~Fatal  BY <1>1, CmdSucceeds, Parts
<1>3. CurrentInv' /\ OneOwner' /\ Routes'  BY <1>1, CurrentGoStep, OwnerCmd, RoutesCmd
<1>4. PICK u : u = cmd[p].ue  OBVIOUS
<1>5. Elsewhere(u) /\ u \in Ues  BY <1>1, <1>4, ElsewhereCmd
<1>6. \A v : UNCHANGED <<mode, rules, route>> => TableKept(v)
  BY RuledSame DEF TableKept, SameRules
<1>7. mode' = mode /\ rules' = rules /\ route' = route
  <2>1. CASE CmdAddListen(p)  BY <1>2, <2>1, ListenEffect
  <2>2. CASE CmdAddCreate(p)  BY <1>2, <2>2, CreateEffect
  <2>3. CASE CmdAddReturn(p)  BY <1>2, <2>3, ReturnEffect
  <2>4. CASE CmdAddStopped(p)  BY <1>2, <1>4, <2>4, StoppedEffect
  <2>5. QED  BY <2>1, <2>2, <2>3, <2>4 DEF CmdAdd
<1>8. ASSUME NEW v \in Ues, v # u PROVE Reached(v)'
  <2>1. Same(v)  BY <1>5, <1>8 DEF Elsewhere
  <2>2. QED  BY <1>1, <1>6, <1>7, <2>1, ReachedSame
<1>9. Reached(u)'
  <2>1. CASE CmdAddListen(p)
    <3>1. UNCHANGED <<pc, sess, link, vrf, net, inbox>>  BY <1>2, <2>1, ListenEffect
    <3>2. QED  BY <1>1, <1>5, <1>6, <1>7, <3>1, ReachedSame DEF Same
  <2>2. CASE CmdAddCreate(p)
    <3>1. pc' = pc /\ sess' = sess /\ cmd[p].at = "bound"  BY <1>2, <2>2, CreateEffect
    <3>2. pc[u] = "rules"
      <4>1. Alive(u) /\ p \in Mine(u)  BY <1>1, <1>4, <1>5 DEF AliveInv, Sound, Mine
      <4>2. QED  BY <3>1, <4>1 DEF Alive
    <3>3. QED  BY <1>1, <1>5, <1>7, <3>1, <3>2, ReachedKept
  <2>3. CASE CmdAddReturn(p)
    <3>1. UNCHANGED <<pc, sess, link, vrf, net, inbox>>  BY <1>2, <2>3, ReturnEffect
    <3>2. QED  BY <1>1, <1>5, <1>6, <1>7, <3>1, ReachedSame DEF Same
  <2>4. CASE CmdAddStopped(p)
    <3>1. sess'[u] = NoSession  BY <1>2, <1>4, <2>4, StoppedEffect
    <3>2. QED  BY <3>1, Blank, ReachedBlank
  <2>5. QED  BY <2>1, <2>2, <2>3, <2>4 DEF CmdAdd
<1>10. QED  BY <1>3, <1>8, <1>9 DEF RouteInv

LEMMA RouteNext ==
    ASSUME NoRaces, NoTunnelLoop, NoTunReuse, RouteInv, [Next]_vars
    PROVE  RouteInv'
<1>1. CurrentInv /\ OrphanInv /\ OneOwner /\ Routes /\ \A v \in Ues : Reached(v)
  BY DEF RouteInv, CurrentInv, AliveInv
<1>2. CASE Next
  <2>1. DOMAIN cmd = Cmds
    <3>1. cmd \in Seq(CmdRec)  BY <1>1, Parts DEF CmdOK
    <3>2. QED  BY <3>1 DEF Cmds
  <2>2. QED  BY <1>2, <2>1, RouteUeStep, RouteCmdStep DEF Next, Step
<1>3. CASE UNCHANGED vars
  <2>1. CurrentInv'  BY <1>1, <1>3, CurrentNext
  <2>2. UNCHANGED <<fate, mode, active, net, used, inbox, pc, sess, cmd, link, vrf, rules, route>>
    BY <1>3, Stutter
  <2>3. \A v : Same(v) /\ TableKept(v)  BY <2>2, RuledSame DEF Same, TableKept, SameRules
  <2>4. \A v \in Ues : Reached(v)'  BY <1>1, <2>2, <2>3, ReachedSame
  <2>5. Routes'  BY <1>1, <2>2, RoutesKept DEF SameRules
  <2>6. \A v \in Ues : Gains(v, {})  BY <2>2, <2>3, GainsSame DEF SameRules
  <2>7. OneOwner'  BY <1>1, <2>2, <2>6, OwnerKept
  <2>8. QED  BY <2>1, <2>4, <2>5, <2>7 DEF RouteInv
<1>4. QED  BY <1>2, <1>3

LEMMA RouteInit == Init => RouteInv
<1> SUFFICES ASSUME Init PROVE RouteInv  OBVIOUS
<1>1. CurrentInv  BY CurrentInit
<1>2. rules = <<>> /\ \A t \in Teids : route[t] = 0  BY DEF Init
<1>3. \A u \in Ues : sess[u] = NoSession /\ net[u] = NetDown(u) /\ inbox[u] = <<>>  BY DEF Init
<1>4. \A u \in Ues, t \in Teids : ~Claims(u, t)
  <2>1. \A u, t : ~Ruled(u, t)  BY <1>2 DEF Ruled
  <2>2. ASSUME NEW u \in Ues PROVE ~sess[u].up /\ net[u].ul = 0 /\ Msgs(u) = {}
    <3>1. ~sess[u].up  BY <1>3, Blank
    <3>2. net[u].ul = 0
      <4>1. net[u] = [up |-> FALSE, gnb |-> Home[u], ul |-> 0]  BY <1>3, Zenon DEF NetDown
      <4>2. QED  BY ONLY <4>1
    <3>3. Msgs(u) = {}  BY <1>3 DEF Msgs
    <3>4. QED  BY <3>1, <3>2, <3>3
  <2>3. \A t \in Teids : t # 0  BY Nums
  <2>4. QED  BY <2>1, <2>2, <2>3 DEF Claims, Has
<1>5. \A u \in Ues : Reached(u)  BY <1>3, Blank DEF Reached
<1>6. QED  BY <1>1, <1>2, <1>4, <1>5 DEF RouteInv, OneOwner, Routes

LEMMA RouteSafe == RouteInv => UplinkRouted
<1> SUFFICES ASSUME RouteInv PROVE UplinkRouted  OBVIOUS
<1>1. OrphanInv /\ OneOwner /\ Routes /\ \A v \in Ues : Reached(v) /\ Built(v)
  BY DEF RouteInv, CurrentInv, AliveInv
<1>2. mode \in Modes /\ rules \in Seq([src : Ues, table : Teids])  BY <1>1, Parts DEF TypeOK
<1>3. ASSUME NEW u \in Ues, pc[u] = "loop", sess[u].up, sess[u].tun # 0
      PROVE  Egress(u) = link[u].id /\ link[u].id = sess[u].tun
  <2>1. PICK x : x = sess[u].ul  OBVIOUS
  <2>2. /\ mode # "disabled" /\ sess[u].stop # 0 /\ sess[u].tun = sess[u].stop /\ x \in Teids
        /\ route[x] = link[u].id
        /\ mode = "tun" => Ruled(u, x)
        /\ mode = "vrf" => vrf[u] = x
    BY <1>1, <1>3, <2>1 DEF Reached
  <2>3. link[u].id = sess[u].stop  BY <1>1, <1>3, <2>2 DEF Built
  <2>4. mode = "tun" \/ mode = "vrf"  BY <1>2, <2>2, ModeAssumption
  <2>5. CASE mode = "vrf"
    <3>1. vrf[u] = x /\ x # 0  BY <2>2, <2>5, Nums
    <3>2. Egress(u) = route[x]  BY <2>5, <3>1 DEF Egress
    <3>3. QED  BY <2>2, <2>3, <3>2
  <2>6. CASE mode = "tun"
    <3>1. /\ DOMAIN rules = 1..Len(rules)
          /\ \A j \in 1..Len(rules) : rules[j] \in [src : Ues, table : Teids]
      <4>1. PICK S : S = [src : Ues, table : Teids]  OBVIOUS
      <4>2. rules \in Seq(S)  BY <1>2, <4>1
      <4>3. DOMAIN rules = 1..Len(rules) /\ \A j \in 1..Len(rules) : rules[j] \in S  BY ONLY <4>2
      <4>4. QED  BY ONLY <4>1, <4>3
    <3>2. Matching(u) \subseteq Nat  BY <3>1 DEF Matching
    <3>3. PICK i \in 1..Len(rules) : rules[i] = Rule(u, x)  BY <2>2, <2>6 DEF Ruled
    <3>4. rules[i].src = u /\ rules[i].table = x  BY <3>3 DEF Rule
    <3>5. i \in Matching(u)  BY <2>2, <2>3, <3>1, <3>4 DEF Matching
    <3>6. \E k \in Matching(u) : \A j \in Matching(u) : k <= j  BY <3>2, <3>5, Least
    <3>7. PICK k : k = CHOOSE j \in Matching(u) : \A l \in Matching(u) : j <= l  OBVIOUS
    <3>8. k \in Matching(u)  BY <3>6, <3>7
    <3>9. Egress(u) = route[rules[k].table]
      <4>1. mode # "vrf" /\ Matching(u) # {}  BY <2>6, <3>5
      <4>2. QED  BY <3>7, <4>1 DEF Egress
    <3>10. PICK t : t = rules[k].table  OBVIOUS
    <3>11. k \in 1..Len(rules) /\ rules[k].src = u /\ route[t] # 0 /\ t \in Teids
      BY <3>1, <3>8, <3>10 DEF Matching
    <3>12. Ruled(u, t)
      <4>1. rules[k] \in [src : Ues, table : Teids]  BY <3>1, <3>11
      <4>2. rules[k] = Rule(u, t)  BY <3>10, <3>11, <4>1 DEF Rule
      <4>3. QED  BY <3>11, <4>2 DEF Ruled
    <3>13. PICK v \in Ues : route[t] = link[v].id /\ Ruled(v, t)
      BY <1>1, <2>6, <3>11 DEF Routes
    <3>14. Claims(u, t) /\ Claims(v, t)  BY <2>6, <3>12, <3>13 DEF Claims
    <3>15. u = v  BY <1>1, <3>11, <3>14 DEF OneOwner
    <3>16. QED  BY <2>2, <2>3, <3>9, <3>10, <3>13, <3>15
  <2>7. QED  BY <2>4, <2>5, <2>6
<1>4. QED  BY <1>3 DEF UplinkRouted

\* As long as, in addition, the UPF gives no TEID twice when tunnels are steered by rules:
\* the traffic of a UE with a tunnel leaves by the link of that UE.  The rules, routes and
\* VRF devices that a DeletePduSession or a handover leaves behind lead to no other UE,
\* although RuleDel and Terminate take out no more than the rule of the last setup.
THEOREM UplinksAreRouted ==
    ASSUME NoRaces, NoTunnelLoop, NoTunReuse
    PROVE  Spec => []UplinkRouted
<1>1. RouteInv /\ [Next]_vars => RouteInv'  BY RouteNext
<1>2. QED  BY <1>1, RouteInit, RouteSafe, PTL DEF Spec

=============================================================================
