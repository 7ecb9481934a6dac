--------------------------- MODULE GnbPoolProofs ---------------------------
(***************************************************************************)
(* The pools of a gNodeB agree, a channel is not used after it was closed, *)
(* and a UE whose channel is open is served and found.  Every step is      *)
(* first brought to one of a few shapes: the contexts keep what the pools  *)
(* and channels depend on, one is deleted, one takes new channels over, or *)
(* one is made.                                                            *)
(***************************************************************************)
EXTENDS GnbContextProofs

-----------------------------------------------------------------------------
(* The shapes.                                                             *)

Same(x, y) == y.gnb = x.gnb /\ y.ran = x.ran /\ y.pr = x.pr /\ y.rx = x.rx /\ y.tx = x.tx

Keep == /\ nctx' = nctx /\ \A d \in Live : Same(ctx[d], ctx'[d])
        /\ UNCHANGED <<uePool, prUePool, idUeGenerator, txOpen>>

Drop(c) ==
    /\ nctx' = nctx /\ UNCHANGED idUeGenerator
    /\ \A d \in Live : /\ ctx'[d].gnb = ctx[d].gnb /\ ctx'[d].ran = ctx[d].ran
                       /\ ctx'[d].pr = ctx[d].pr /\ ctx'[d].rx = ctx[d].rx
                       /\ ctx'[d].tx = IF d = c THEN Nil ELSE ctx[d].tx
    /\ uePool' = [uePool EXCEPT ![ctx[c].gnb][ctx[c].ran] = Nil]
    /\ RemovePr(c, prUePool[ctx[c].gnb][ctx[c].pr] # c)
    /\ txOpen' = IF ctx[c].tx = Nil THEN txOpen ELSE [txOpen EXCEPT ![ctx[c].tx] = FALSE]

Grow(g, u, r, n) == NewGnBUe(g, u, r, n) /\ n \in CtxRec /\ n.gnb = g /\ n.ran = r /\ n.pr = u

Quiet == UNCHANGED <<nconn, inbound>>
Ask(g, q) == /\ nconn < MaxConn /\ inbound[g] = Nil /\ nconn' = nconn + 1
             /\ inbound' = [inbound EXCEPT ![g] = q] /\ q.conn = nconn + 1
Asks == Quiet \/ \E g \in Gnb, q \in ReqRec : Ask(g, q)

\* A step ends the program on a closed channel only where some context holds one.
Calm == fate' = "closedChannel" => fate = "closedChannel" \/ \E c \in Live : SendPanics(c)

LEMMA SameSelf == ASSUME NEW x PROVE Same(x, x)
  BY DEF Same
LEMMA KeepFrame == UNCHANGED <<ctx, nctx, uePool, prUePool, idUeGenerator, txOpen>> => Keep
  BY DEF Keep, Same
LEMMA KeepGnb == UNCHANGED <<gnbVars, txOpen>> => Keep
  BY KeepFrame DEF gnbVars

LEMMA KeepCtx ==
  ASSUME GnbTypeOK, NEW c \in Live, NEW n, Same(ctx[c], n), ctx' = [ctx EXCEPT ![c] = n],
         UNCHANGED <<nctx, uePool, prUePool, idUeGenerator, txOpen>>
  PROVE  Keep
<1>1. Live \subseteq Ctx /\ ctx \in [Ctx -> CtxRec]
  BY LiveCtx DEF GnbTypeOK
<1>2. \A d \in Live : Same(ctx[d], ctx'[d])
  BY <1>1, SameSelf
<1> QED BY <1>2 DEF Keep

LEMMA SameHo == ASSUME NEW x \in CtxRec, NEW g PROVE Same(x, [x EXCEPT !.ho = g])
  BY DEF CtxRec, Same
LEMMA SameAmf == ASSUME NEW x \in CtxRec PROVE Same(x, [x EXCEPT !.amf = TRUE])
  BY DEF CtxRec, Same
LEMMA SameState == ASSUME NEW x \in CtxRec, NEW v PROVE Same(x, [x EXCEPT !.state = v])
  BY DEF CtxRec, Same
LEMMA SameSess == ASSUME NEW x \in CtxRec, NEW f PROVE Same(x, [x EXCEPT !.amf = TRUE, !.sess = f])
  BY DEF CtxRec, Same
LEMMA SameIcs ==
  ASSUME NEW x \in CtxRec, NEW f PROVE Same(x, [x EXCEPT !.amf = TRUE, !.nssai = TRUE, !.sess = f])
  BY DEF CtxRec, Same
LEMMA SameSetup ==
  ASSUME NEW x \in CtxRec, NEW v, NEW f
  PROVE  Same(x, [x EXCEPT !.amf = TRUE, !.state = v, !.sess = f])
  BY DEF CtxRec, Same

\* DeleteGnBUe of a context the pools may or may not still hold.
LEMMA DropShape ==
  ASSUME GnbTypeOK, NEW c \in Live, NEW new \in [Ctx -> CtxRec],
         \A d \in Live : Same(ctx[d], new[d]),
         DeleteGnBUe(c, new), UNCHANGED <<nctx, idUeGenerator>>
  PROVE  Drop(c) /\ Calm
<1>1. c \in Ctx /\ Live \subseteq Ctx
  BY LiveCtx
<1>2. ctx' = [new EXCEPT ![c] = [new[c] EXCEPT !.tx = Nil]]
  BY <1>1 DEF DeleteGnBUe
<1>3. new[c] \in CtxRec
  BY <1>1
<1> DEFINE n == [new[c] EXCEPT !.tx = Nil]
<1>4. n.gnb = new[c].gnb /\ n.ran = new[c].ran /\ n.pr = new[c].pr /\ n.rx = new[c].rx /\ n.tx = Nil
  BY <1>3 DEF CtxRec
<1>5. ctx' = [new EXCEPT ![c] = n]
  BY <1>2
<1> HIDE DEF n
<1>6. \A d \in Live : /\ ctx'[d].gnb = ctx[d].gnb /\ ctx'[d].ran = ctx[d].ran
                      /\ ctx'[d].pr = ctx[d].pr /\ ctx'[d].rx = ctx[d].rx
                      /\ ctx'[d].tx = IF d = c THEN Nil ELSE ctx[d].tx
  BY <1>1, <1>4, <1>5 DEF Same
<1>7. Drop(c)
  BY <1>6 DEF Drop, DeleteGnBUe, RemoveIds, CloseTx
<1>8. Calm
  BY DEF Calm, DeleteGnBUe, CloseTx
<1> QED BY <1>7, <1>8

LEMMA SameAll == ASSUME GnbTypeOK PROVE ctx \in [Ctx -> CtxRec] /\ \A d \in Live : Same(ctx[d], ctx[d])
  BY SameSelf DEF GnbTypeOK

\* A step that orders no handover: what it may add to sends is content for a UE.
NoOrder == \A o \in sends' : o[2] \in Conn => o \in sends
LEMMA TellNoOrder == ASSUME NEW c, TellUe(c) \/ sends' \subseteq sends PROVE NoOrder
<1>1. Nil \notin Conn
  BY ConstAssumption DEF Conn
<1> QED BY <1>1 DEF TellUe, NoOrder

LEMMA HandleNgapShape ==
  ASSUME TypeOK, NEW m \in n2, HandleNgap(m)
  PROVE  /\ (Keep \/ (Quiet /\ NoOrder /\ \E c \in Live : Drop(c)))
         /\ Calm
         /\ \/ Asks /\ m.type = "handoverCommand"
            \/ Quiet /\ NoOrder
<1> USE DEF TypeOK
<1> DEFINE c == uePool[m.gnb][m.ran]
<1>1. m \in NgapRec /\ m.gnb \in Gnb /\ m.ran \in Ran /\ m.sess \subseteq SessId
  BY DEF AmfTypeOK, NgapRec
<1>2. c \in Live \cup {Nil} /\ Live \subseteq Ctx /\ ctx \in [Ctx -> CtxRec]
  BY <1>1, LiveCtx DEF GnbTypeOK
<1>4. UNCHANGED <<nctx, idUeGenerator>>
  BY DEF HandleNgap
<1>5. CASE c = Nil
  BY <1>4, <1>5, KeepFrame, TellNoOrder DEF HandleNgap, Calm, Quiet
<1>6. ASSUME c # Nil, HandlerDownlinkNasTransport(m, c)
      PROVE  Keep /\ Calm /\ Quiet /\ NoOrder
  <2>1. /\ UNCHANGED <<uePool, prUePool, nconn, txOpen, inbound>> /\ Calm /\ NoOrder
        /\ ctx' = [ctx EXCEPT ![c] = [ctx[c] EXCEPT !.amf = TRUE]]
    BY <1>2, <1>6, TellNoOrder DEF HandlerDownlinkNasTransport, Calm
  <2>2. Keep
    BY <1>2, <1>4, <1>6, <2>1, SameAmf, KeepCtx
  <2> QED BY <2>1, <2>2 DEF Quiet
<1>7. ASSUME c # Nil, HandlerPduSessionReleaseCommand(m, c)
      PROVE  Keep /\ Calm /\ Quiet /\ NoOrder
  <2> DEFINE f == [s \in SessId |-> IF s \in m.sess THEN 0 ELSE ctx[c].sess[s]]
             n == [ctx[c] EXCEPT !.amf = TRUE, !.sess = f]
  <2>1. /\ UNCHANGED <<uePool, prUePool, nconn, txOpen, inbound>> /\ Calm /\ NoOrder
        /\ ctx' = [ctx EXCEPT ![c] = n]
    BY <1>2, <1>7, TellNoOrder DEF HandlerPduSessionReleaseCommand, Calm
  <2>2. Same(ctx[c], n)
    <3> HIDE DEF f
    <3> QED BY <1>2, <1>7, SameSess
  <2>3. Keep
    <3> HIDE DEF n
    <3> QED BY <1>2, <1>4, <1>7, <2>1, <2>2, KeepCtx
  <2> QED BY <2>1, <2>3 DEF Quiet
<1>8. ASSUME c # Nil, HandlerUeContextReleaseCommand(m, c)
      PROVE  c \in Live /\ Drop(c) /\ Calm /\ Quiet /\ NoOrder
  <2>1. DeleteGnBUe(c, ctx) /\ UNCHANGED <<amfUe, nconn, inbound, sends>>
    BY <1>8 DEF HandlerUeContextReleaseCommand
  <2>2. Drop(c) /\ Calm
    BY <1>2, <1>4, <1>8, <2>1, SameAll, DropShape
  <2> QED BY <1>2, <1>8, <2>1, <2>2, TellNoOrder DEF Quiet
<1>9. ASSUME c # Nil, HandlerPathSwitchRequestAcknowledge(m, c)
      PROVE  Keep /\ Calm /\ Quiet /\ NoOrder
  <2>1. /\ UNCHANGED <<uePool, prUePool, nconn, txOpen, inbound>> /\ Calm /\ NoOrder
        /\ ctx' = [ctx EXCEPT ![c] = [ctx[c] EXCEPT !.amf = TRUE]]
    BY <1>2, <1>9, TellNoOrder DEF HandlerPathSwitchRequestAcknowledge, Calm
  <2>2. Keep
    BY <1>2, <1>4, <1>9, <2>1, SameAmf, KeepCtx
  <2> QED BY <2>1, <2>2 DEF Quiet
<1>10. ASSUME c # Nil, HandlerHandoverCommand(m, c)
       PROVE  Keep /\ Calm /\ Asks /\ m.type = "handoverCommand"
  <2> DEFINE target == ctx[c].ho
  <2>1. /\ UNCHANGED <<uePool, prUePool, txOpen, fate>> /\ m.type = "handoverCommand"
        /\ ctx' = [ctx EXCEPT ![c] = [ctx[c] EXCEPT !.amf = TRUE]]
    BY <1>2, <1>10 DEF HandlerHandoverCommand
  <2>2. Keep /\ Calm
    BY <1>2, <1>4, <1>10, <2>1, SameAmf, KeepCtx DEF Calm
  <2>3. ASSUME target # Nil PROVE Asks
    <3>1. /\ nconn < MaxConn /\ inbound[target] = Nil /\ nconn' = nconn + 1
          /\ inbound' = [inbound EXCEPT ![target] = Request(nconn + 1, ctx[c].pr, TRUE, Nil)]
      BY <1>10, <2>3 DEF HandlerHandoverCommand
    <3>2. target \in Gnb /\ ctx[c].pr \in UE
      BY <1>2, <1>10, <2>3 DEF CtxRec, GnbTypeOK
    <3>3. nconn + 1 \in Conn
      BY <3>1, ConstAssumption DEF ChanTypeOK, Conn
    <3>4. /\ Request(nconn + 1, ctx[c].pr, TRUE, Nil) \in ReqRec
          /\ Request(nconn + 1, ctx[c].pr, TRUE, Nil).conn = nconn + 1
      BY <3>2, <3>3 DEF Request, ReqRec
    <3>5. Ask(target, Request(nconn + 1, ctx[c].pr, TRUE, Nil))
      BY <3>1, <3>4 DEF Ask
    <3> QED BY <3>2, <3>4, <3>5 DEF Asks
  <2>4. ASSUME target = Nil PROVE Asks
    BY <1>10, <2>4 DEF HandlerHandoverCommand, Asks, Quiet
  <2> QED BY <2>1, <2>2, <2>3, <2>4
<1> HIDE DEF c
<1> QED BY <1>5, <1>6, <1>7, <1>8, <1>9, <1>10 DEF HandleNgap, c

LEMMA HandoverRequestShape ==
  ASSUME TypeOK, NEW d \in disp, HandlerHandoverRequest(d)
  PROVE  /\ d.msg.type = "handoverRequest" /\ Calm
         /\ \E g \in Gnb, u \in UE, n \in CtxRec : Grow(g, u, d.ran, n) /\ n.tx = Nil
<1> USE DEF TypeOK
<1> DEFINE m == d.msg
           g == m.gnb
           new == [Blank EXCEPT !.gnb = g, !.ran = d.ran, !.pr = m.pr, !.sctp = amfActive[g]]
           f == CreatePduSession(NoSess, TRUE, d.teid, m.sess)
           new2 == [new EXCEPT !.amf = TRUE, !.nssai = TRUE, !.sess = f]
<1>1. /\ m \in NgapRec /\ d.ran \in Nat \ {0} /\ d.teid \in Nat \ {0} /\ g \in Gnb /\ m.pr \in UE
      /\ m.sess \in SUBSET SessId
  BY DEF TaskTypeOK, NgapRec
<1>2. Calm /\ d.msg.type = "handoverRequest"
  BY DEF HandlerHandoverRequest, Calm
<1>3. ASSUME d.ran \in Ran
      PROVE  new \in CtxRec /\ new.gnb = g /\ new.ran = d.ran /\ new.pr = m.pr /\ new.tx = Nil
  <2>1. new.tx = Nil /\ new.gnb = g /\ new.ran = d.ran /\ new.pr = m.pr
    BY DEF Blank
  <2>2. new \in CtxRec
    BY <1>1, <1>3, BlankType DEF CtxRec, TaskTypeOK
  <2> QED BY <2>1, <2>2
<1>4. CASE amfActive[g]
  <2>1. NewGnBUe(g, m.pr, d.ran, new2) /\ GetUeTeid(g, nctx + 1, d.teid, m.sess)
    BY <1>4 DEF HandlerHandoverRequest
  <2>2. Live \subseteq Live' /\ nctx + 1 \in Live' /\ d.ran \in Ran
    BY <2>1, NewLive
  <2>3. d.teid + Cardinality(m.sess) - 1 <= MaxTeid
    BY <2>1 DEF GetUeTeid
  <2>4. f \in [SessId -> Teid \cup {0}]
    BY <1>1, <2>3, CreateType DEF NoSess
  <2>5. new2 \in CtxRec /\ new2.gnb = g /\ new2.ran = d.ran /\ new2.pr = m.pr /\ new2.tx = Nil
    <3> HIDE DEF new, f
    <3> QED BY <1>3, <2>2, <2>4 DEF CtxRec
  <2> HIDE DEF new2
  <2>6. Grow(g, m.pr, d.ran, new2)
    BY <2>1, <2>5 DEF Grow
  <2> QED BY <1>1, <1>2, <2>5, <2>6
<1>5. CASE ~amfActive[g]
  <2>1. NewGnBUe(g, m.pr, d.ran, new)
    BY <1>5 DEF HandlerHandoverRequest
  <2>2. new \in CtxRec /\ new.gnb = g /\ new.ran = d.ran /\ new.pr = m.pr /\ new.tx = Nil
    <3>1. d.ran \in Ran
      <4> HIDE DEF new
      <4> QED BY <2>1 DEF NewGnBUe
    <3> QED BY <1>3, <3>1
  <2> HIDE DEF new
  <2>3. Grow(g, m.pr, d.ran, new)
    BY <2>1, <2>2 DEF Grow
  <2> QED BY <1>1, <1>2, <2>2, <2>3
<1> QED BY <1>4, <1>5

LEMMA IcsShape ==
  ASSUME TypeOK, NEW d \in disp, HandlerInitialContextSetupRequest(d), UNCHANGED txOpen
  PROVE  Keep /\ Calm
<1> USE DEF TypeOK
<1> DEFINE m == d.msg
           c == uePool[m.gnb][m.ran]
           f == CreatePduSession(ctx[c].sess, TRUE, d.teid, m.sess)
           n == [ctx[c] EXCEPT !.amf = TRUE, !.nssai = TRUE, !.sess = f]
<1>1. m \in NgapRec /\ m.gnb \in Gnb /\ m.ran \in Ran
  BY DEF TaskTypeOK, NgapRec
<1>2. c \in Live \cup {Nil} /\ Live \subseteq Ctx /\ ctx \in [Ctx -> CtxRec]
  BY <1>1, LiveCtx DEF GnbTypeOK
<1>3. UNCHANGED <<nctx, uePool, prUePool, idUeGenerator>>
  BY DEF HandlerInitialContextSetupRequest
<1>4. CASE c = Nil
  BY <1>3, <1>4, KeepFrame DEF HandlerInitialContextSetupRequest, Calm
<1>5. CASE c # Nil
  <2>1. ctx' = [ctx EXCEPT ![c] = n]
    BY <1>2, <1>5 DEF HandlerInitialContextSetupRequest
  <2>2. Calm
    BY <1>2, <1>5 DEF HandlerInitialContextSetupRequest, Calm
  <2>3. Same(ctx[c], n)
    <3> HIDE DEF f
    <3> QED BY <1>2, <1>5, SameIcs
  <2> HIDE DEF n
  <2> QED BY <1>2, <1>3, <1>5, <2>1, <2>2, <2>3, KeepCtx
<1> QED BY <1>4, <1>5

LEMMA SetupShape ==
  ASSUME TypeOK, NEW d \in disp, HandlerPduSessionResourceSetupRequest(d), UNCHANGED txOpen
  PROVE  Keep /\ Calm
<1> USE DEF TypeOK
<1> DEFINE m == d.msg
           c == uePool[m.gnb][m.ran]
           ok == ctx[c].nssai /\ \A s \in m.sess : ctx[c].sess[s] = 0
           v == IF ok THEN "Ready" ELSE ctx[c].state
           f == CreatePduSession(ctx[c].sess, ctx[c].nssai, d.teid, m.sess)
           n == [ctx[c] EXCEPT !.amf = TRUE, !.state = v, !.sess = f]
<1>1. m \in NgapRec /\ m.gnb \in Gnb /\ m.ran \in Ran
  BY DEF TaskTypeOK, NgapRec
<1>2. c \in Live \cup {Nil} /\ Live \subseteq Ctx /\ ctx \in [Ctx -> CtxRec]
  BY <1>1, LiveCtx DEF GnbTypeOK
<1>3. UNCHANGED <<nctx, uePool, prUePool, idUeGenerator>>
  BY DEF HandlerPduSessionResourceSetupRequest
<1>4. CASE c = Nil
  BY <1>3, <1>4, KeepFrame DEF HandlerPduSessionResourceSetupRequest, Calm
<1>5. CASE c # Nil
  <2>1. ctx' = [ctx EXCEPT ![c] = n]
    BY <1>2, <1>5 DEF HandlerPduSessionResourceSetupRequest
  <2>2. fate' \in {"setupNil", fate} \/ SendPanics(c)
    BY <1>5 DEF HandlerPduSessionResourceSetupRequest
  <2>3. Calm
    BY <1>2, <1>5, <2>2 DEF Calm
  <2>4. Same(ctx[c], n)
    <3> HIDE DEF f, v
    <3> QED BY <1>2, <1>5, SameSetup
  <2> HIDE DEF n
  <2> QED BY <1>2, <1>3, <1>5, <2>1, <2>3, <2>4, KeepCtx
<1> QED BY <1>4, <1>5

LEMMA HandleAllocatingShape ==
  ASSUME TypeOK, NEW d \in disp, HandleAllocating(d)
  PROVE  /\ Calm /\ Quiet /\ UNCHANGED txOpen
         /\ NoOrder
         /\ \/ Keep
            \/ /\ d.msg.type = "handoverRequest"
               /\ \E g \in Gnb, u \in UE, n \in CtxRec : Grow(g, u, d.ran, n) /\ n.tx = Nil
<1>2. NoOrder
  <2>1. HandlerHandoverRequest(d) => NoOrder
    BY TellNoOrder DEF HandlerHandoverRequest
  <2>2. HandlerInitialContextSetupRequest(d) => NoOrder
    BY TellNoOrder DEF HandlerInitialContextSetupRequest
  <2>3. HandlerPduSessionResourceSetupRequest(d) => NoOrder
    BY TellNoOrder DEF HandlerPduSessionResourceSetupRequest
  <2> QED BY <2>1, <2>2, <2>3 DEF HandleAllocating
<1>1. Quiet /\ UNCHANGED txOpen
  BY DEF HandleAllocating, Quiet, chanVars
<1> QED BY <1>1, <1>2, HandoverRequestShape, IcsShape, SetupShape DEF HandleAllocating

LEMMA ProcessingConnShape ==
  ASSUME TypeOK, NEW c, NEW k, <<c, k>> \in proc, ProcessingConn(c, k)
  PROVE  /\ Keep \/ Drop(c)
         /\ Calm /\ c \in Live
<1> USE DEF TypeOK
<1> DEFINE gc == uePool[ctx[c].gnb][ctx[c].ran]
           down == [ctx EXCEPT ![gc].state = "Down"]
<1>1. c \in Live /\ k \in Conn /\ Live \subseteq Ctx /\ ctx \in [Ctx -> CtxRec]
  BY LiveCtx DEF TaskTypeOK, GnbTypeOK
<1>2. ctx[c] \in CtxRec /\ ctx[c].gnb \in Gnb /\ ctx[c].ran \in Ran /\ ctx[c].pr \in UE
  BY <1>1 DEF GnbTypeOK
<1>3. gc \in Live \cup {Nil}
  BY <1>2 DEF GnbTypeOK
<1>4. UNCHANGED <<nctx, idUeGenerator>>
  BY DEF ProcessingConn
<1>5. ASSUME ProcessNas(c) PROVE Keep /\ Calm
  <2>1. UNCHANGED <<uePool, prUePool, txOpen, fate>>
    BY <1>5 DEF ProcessNas
  <2>2. CASE ctx[c].state = "Initialized"
    <3>1. ctx' = [ctx EXCEPT ![c] = [ctx[c] EXCEPT !.state = "Ongoing"]]
      BY <1>5, <2>2 DEF ProcessNas
    <3> QED BY <1>1, <1>2, <1>4, <2>1, <3>1, SameState, KeepCtx DEF Calm
  <2>3. CASE ctx[c].state # "Initialized"
    BY <1>4, <1>5, <2>1, <2>3, KeepFrame DEF ProcessNas, Calm
  <2> QED BY <2>2, <2>3
<1>6. ASSUME gc # Nil PROVE /\ down \in [Ctx -> CtxRec]
                            /\ \A d \in Live : Same(ctx[d], down[d])
                            /\ down = [ctx EXCEPT ![gc] = [ctx[gc] EXCEPT !.state = "Down"]]
                            /\ Same(ctx[gc], [ctx[gc] EXCEPT !.state = "Down"])
  <2>1. SameRec(ctx[gc], [ctx[gc] EXCEPT !.state = "Down"]) /\ Same(ctx[gc], [ctx[gc] EXCEPT !.state = "Down"])
    BY <1>1, <1>3, <1>6, RecState, SameState
  <2>2. \A d \in Live : Same(ctx[d], ctx[d])
    BY SameSelf
  <2>3. down = [ctx EXCEPT ![gc] = [ctx[gc] EXCEPT !.state = "Down"]]
    OBVIOUS
  <2>4. down \in [Ctx -> CtxRec]
    BY <1>1, <2>1, <2>3 DEF SameRec
  <2>5. \A d \in Live : Same(ctx[d], down[d])
    BY <1>1, <2>1, <2>2, <2>3
  <2> QED BY <2>1, <2>3, <2>4, <2>5
<1>7. ASSUME gc # Nil, ctx' = down, UNCHANGED <<uePool, prUePool, txOpen, fate>> PROVE Keep /\ Calm
  <2> HIDE DEF down
  <2> QED BY <1>3, <1>4, <1>6, <1>7, KeepCtx DEF Calm
<1>8. ASSUME gc # Nil, ProcessConnectionClosed(c, gc) PROVE (Keep \/ Drop(c)) /\ Calm
  <2>1. CASE ctx[gc].ho = Nil
    <3>1. DeleteGnBUe(c, down)
      BY <1>8, <2>1 DEF ProcessConnectionClosed
    <3> HIDE DEF down
    <3> QED BY <1>1, <1>4, <1>6, <1>8, <3>1, DropShape
  <2>2. CASE ctx[gc].ho # Nil
    BY <1>7, <1>8, <2>2 DEF ProcessConnectionClosed
  <2> QED BY <2>1, <2>2
<1>9. ASSUME UNCHANGED <<ctx, uePool, prUePool, txOpen, fate>> PROVE Keep /\ Calm
  BY <1>4, <1>9, KeepFrame DEF Calm
<1> HIDE DEF down, gc
<1> QED BY <1>1, <1>5, <1>7, <1>8, <1>9 DEF ProcessingConn, ProcessIdle, down, gc

Known(g, m, c) ==
    /\ m.ho /\ c \in Live /\ nctx' = nctx /\ UNCHANGED <<uePool, prUePool, idUeGenerator, txOpen>>
    /\ \A d \in Live : /\ ctx'[d].gnb = ctx[d].gnb /\ ctx'[d].ran = ctx[d].ran
                       /\ ctx'[d].pr = ctx[d].pr
                       /\ d # c => ctx'[d].tx = ctx[d].tx
    /\ ctx'[c].tx = m.conn
New(g, m, n) == /\ idUeGenerator' = [idUeGenerator EXCEPT ![g] = @ + 1]
                /\ Grow(g, m.pr, idUeGenerator[g], n) /\ n.tx = m.conn /\ n.rx = m.conn

LEMMA GnbListenShape ==
  ASSUME TypeOK, NEW g \in Gnb, GnbListen(g)
  PROVE  /\ inbound[g] \in ReqRec /\ inbound' = [inbound EXCEPT ![g] = Nil]
         /\ UNCHANGED <<nconn, disp>> /\ Calm
         /\ \/ Known(g, inbound[g], prUePool[g][inbound[g].pr])
            \/ /\ ~(inbound[g].ho /\ prUePool[g][inbound[g].pr] # Nil)
               /\ \E n \in CtxRec : New(g, inbound[g], n)
               /\ amfActive[g] => UNCHANGED txOpen
<1> USE DEF TypeOK
<1>m. PICK m : m = inbound[g]
  OBVIOUS
<1> DEFINE c == prUePool[g][m.pr]
<1>1. m \in ReqRec /\ m.conn \in Conn /\ m.pr \in UE /\ m.from \in Live \cup {Nil}
  BY <1>m DEF GnbListen, TaskTypeOK, ReqRec
<1>2. c \in Live \cup {Nil} /\ Live \subseteq Ctx /\ ctx \in [Ctx -> CtxRec]
  BY <1>1, LiveCtx DEF GnbTypeOK
<1>3. /\ UNCHANGED <<disp, nconn>> /\ inbound' = [inbound EXCEPT ![g] = Nil]
      /\ ListenKnownUe(g, m, c) \/ ListenNewUe(g, m, c)
  BY <1>m DEF GnbListen
<1>4. ASSUME ListenKnownUe(g, m, c) PROVE Known(g, m, c) /\ Calm
  <2> DEFINE n == [ctx[c] EXCEPT !.rx = m.conn, !.tx = m.conn, !.state = "Ready"]
  <2>1. /\ c \in Live /\ ctx' = [ctx EXCEPT ![c] = n] /\ m.ho
        /\ UNCHANGED <<nctx, uePool, prUePool, idUeGenerator, txOpen>> /\ Calm
    BY <1>2, <1>4 DEF ListenKnownUe, Calm
  <2>2. n.gnb = ctx[c].gnb /\ n.ran = ctx[c].ran /\ n.pr = ctx[c].pr /\ n.tx = m.conn
    BY <1>2, <2>1 DEF CtxRec
  <2> HIDE DEF n
  <2> QED BY <1>2, <2>1, <2>2 DEF Known
<1>5. ASSUME ListenNewUe(g, m, c)
      PROVE  /\ ~(m.ho /\ c # Nil) /\ \E n \in CtxRec : New(g, m, n)
             /\ amfActive[g] => UNCHANGED txOpen
             /\ Calm
  <2> DEFINE r   == idUeGenerator[g]
             old == ctx[m.from]
             new == [Blank EXCEPT !.gnb = g, !.ran = r, !.pr = m.pr,
                             !.tx = m.conn, !.rx = m.conn, !.sctp = amfActive[g]]
             xn  == [new EXCEPT !.state = "Ready", !.amf = old.amf,
                                !.nssai = old.nssai, !.sess = old.sess]
  <2>1. idUeGenerator' = [idUeGenerator EXCEPT ![g] = @ + 1] /\ Calm /\ ~(m.ho /\ c # Nil)
    BY <1>5 DEF ListenNewUe, getRanUeId, Calm
  <2>2. ASSUME r \in Ran
        PROVE  new \in CtxRec /\ new.gnb = g /\ new.ran = r /\ new.pr = m.pr /\ new.tx = m.conn /\ new.rx = m.conn
    <3>1. new.gnb = g /\ new.ran = r /\ new.pr = m.pr /\ new.tx = m.conn /\ new.rx = m.conn
      BY DEF Blank
    <3>2. new \in CtxRec
      BY <1>1, <2>2, BlankType DEF CtxRec, TaskTypeOK
    <3> QED BY <3>1, <3>2
  <2>3. ASSUME NEW n, NewGnBUe(g, m.pr, r, n) PROVE r \in Ran
    BY <2>3 DEF NewGnBUe
  <2>4. ASSUME NewGnBUe(g, m.pr, r, new) PROVE \E n \in CtxRec : New(g, m, n)
    <3>1. new \in CtxRec /\ new.gnb = g /\ new.ran = r /\ new.pr = m.pr /\ new.tx = m.conn /\ new.rx = m.conn
      BY <2>2, <2>3, <2>4
    <3> HIDE DEF new
    <3> QED BY <2>1, <2>4, <3>1 DEF New, Grow
  <2>5. ASSUME NewGnBUe(g, m.pr, r, xn), m.from # Nil PROVE \E n \in CtxRec : New(g, m, n)
    <3>1. r \in Ran
      <4> HIDE DEF xn
      <4> QED BY <2>3, <2>5
    <3>2. xn \in CtxRec /\ xn.gnb = g /\ xn.ran = r /\ xn.pr = m.pr /\ xn.tx = m.conn /\ xn.rx = m.conn
      <4>1. old \in CtxRec
        BY <1>1, <1>2, <2>5
      <4> HIDE DEF new, old
      <4> QED BY <2>2, <3>1, <4>1 DEF CtxRec
    <3> HIDE DEF xn
    <3> QED BY <2>1, <2>5, <3>2 DEF New, Grow
  <2>6. NewGnBUe(g, m.pr, r, new) \/ (m.from # Nil /\ NewGnBUe(g, m.pr, r, xn))
    BY <1>5 DEF ListenNewUe
  <2>7. amfActive[g] => UNCHANGED txOpen
    BY <1>5 DEF ListenNewUe
  <2> QED BY <2>1, <2>4, <2>5, <2>6, <2>7
<1> HIDE DEF c
<1> QED BY <1>m, <1>1, <1>3, <1>4, <1>5 DEF c

-----------------------------------------------------------------------------
(* Without NGAP handovers every context gets a RAN id of its own.          *)

\* No message of an NGAP handover is on its way or being handled.
NoN2 == /\ \A m \in n2 : m.type \notin {"handoverRequest", "handoverCommand"}
        /\ \A d \in disp : d.msg.type # "handoverRequest"

\* A RAN id was given out before the generator passed it, and to one context.
IdInv == /\ \A c \in Live : ctx[c].ran < idUeGenerator[ctx[c].gnb]
         /\ \A c, d \in Live : ctx[c].gnb = ctx[d].gnb /\ ctx[c].ran = ctx[d].ran => c = d

\* Each pool holds a context under its own ids, and prUePool only what uePool holds.
PoolInv ==
    /\ \A g \in Gnb, r \in Ran : uePool[g][r] # Nil =>
           ctx[uePool[g][r]].gnb = g /\ ctx[uePool[g][r]].ran = r
    /\ \A g \in Gnb, u \in UE : prUePool[g][u] # Nil =>
           /\ ctx[prUePool[g][u]].gnb = g /\ ctx[prUePool[g][u]].pr = u
           /\ uePool[g][ctx[prUePool[g][u]].ran] = prUePool[g][u]

LEMMA KeepPools == ASSUME TypeOK, Keep, IdInv, PoolInv PROVE IdInv' /\ PoolInv'
<1> USE DEF TypeOK
<1>1. Live' = Live
  BY DEF Live, Keep
<1>2. \A d \in Live : ctx'[d].gnb = ctx[d].gnb /\ ctx'[d].ran = ctx[d].ran /\ ctx'[d].pr = ctx[d].pr
  BY DEF Keep, Same
<1>3. UNCHANGED <<uePool, prUePool, idUeGenerator>>
  BY DEF Keep
<1>4. IdInv'
  BY <1>1, <1>2, <1>3 DEF IdInv
<1>5. \A g \in Gnb : /\ \A r \in Ran : uePool[g][r] \in Live \cup {Nil}
                     /\ \A u \in UE : prUePool[g][u] \in Live \cup {Nil}
  BY DEF GnbTypeOK
<1>6. PoolInv'
  BY <1>2, <1>3, <1>5 DEF PoolInv
<1> QED BY <1>4, <1>6

LEMMA DropPools == ASSUME TypeOK, NEW c \in Live, Drop(c), IdInv, PoolInv PROVE IdInv' /\ PoolInv'
<1> USE DEF TypeOK
<1>1. Live' = Live
  BY DEF Live, Drop
<1>2. \A d \in Live : ctx'[d].gnb = ctx[d].gnb /\ ctx'[d].ran = ctx[d].ran /\ ctx'[d].pr = ctx[d].pr
  BY DEF Drop
<1>3. IdInv'
  BY <1>1, <1>2 DEF IdInv, Drop
<1>g. PICK g0 \in Gnb, r0 \in Ran, u0 \in UE : g0 = ctx[c].gnb /\ r0 = ctx[c].ran /\ u0 = ctx[c].pr
  BY DEF GnbTypeOK
<1>4. \A g \in Gnb : /\ \A r \in Ran : uePool[g][r] \in Live \cup {Nil}
                     /\ \A u \in UE : prUePool[g][u] \in Live \cup {Nil}
  BY DEF GnbTypeOK
<1>5. \A g \in Gnb, r \in Ran : uePool'[g][r] = IF g = g0 /\ r = r0 THEN Nil ELSE uePool[g][r]
  BY <1>g DEF Drop, GnbTypeOK
<1>6. \A g \in Gnb, u \in UE :
          prUePool'[g][u] = IF g = g0 /\ u = u0 /\ prUePool[g][u] = c THEN Nil ELSE prUePool[g][u]
  BY <1>g DEF Drop, RemovePr, GnbTypeOK
<1>7. \A g \in Gnb, r \in Ran : uePool'[g][r] # Nil =>
           ctx'[uePool'[g][r]].gnb = g /\ ctx'[uePool'[g][r]].ran = r
  BY <1>2, <1>4, <1>5 DEF PoolInv
<1>8. ASSUME NEW g \in Gnb, NEW u \in UE, prUePool'[g][u] # Nil
      PROVE  /\ ctx'[prUePool'[g][u]].gnb = g /\ ctx'[prUePool'[g][u]].pr = u
             /\ uePool'[g][ctx'[prUePool'[g][u]].ran] = prUePool'[g][u]
  <2>d. PICK d : d = prUePool[g][u]
    OBVIOUS
  <2>1. prUePool'[g][u] = d /\ d \in Live /\ d # Nil /\ ~(g = g0 /\ u = u0 /\ d = c)
    BY <1>4, <1>6, <1>8, <2>d
  <2>2. ctx[d].gnb = g /\ ctx[d].pr = u /\ uePool[g][ctx[d].ran] = d
    BY <2>1, <2>d DEF PoolInv
  <2>3. d # c
    BY <2>1, <2>2, <1>g
  <2>4. ctx[d].ran \in Ran /\ ~(g = g0 /\ ctx[d].ran = r0)
    BY <2>1, <2>2, <2>3, <1>g DEF IdInv, GnbTypeOK
  <2> QED BY <1>2, <1>5, <2>1, <2>2, <2>4
<1> QED BY <1>3, <1>7, <1>8 DEF PoolInv

LEMMA NewPools ==
  ASSUME TypeOK, NEW g \in Gnb, NEW m \in ReqRec, NEW n, New(g, m, n), IdInv, PoolInv
  PROVE  /\ IdInv' /\ PoolInv' /\ uePool[g][idUeGenerator[g]] = Nil
         /\ uePool' = [uePool EXCEPT ![g][idUeGenerator[g]] = nctx + 1]
<1> USE DEF TypeOK
<1>r. PICK r : r = idUeGenerator[g]
  OBVIOUS
<1>u. PICK u0 \in UE : u0 = m.pr
  BY DEF ReqRec
<1>c. PICK c : c = nctx + 1
  OBVIOUS
<1>1. /\ idUeGenerator' = [idUeGenerator EXCEPT ![g] = r + 1] /\ NewGnBUe(g, u0, r, n)
      /\ n.gnb = g /\ n.ran = r /\ n.pr = u0
  BY <1>r, <1>u DEF New, Grow
<1>2. Live' = Live \cup {c} /\ c \notin Live /\ c \in Ctx /\ r \in Ran /\ Live \subseteq Ctx
  BY <1>1, <1>c, NewLive, LiveCtx
<1>3. ctx' = [ctx EXCEPT ![c] = n] /\ ctx \in [Ctx -> CtxRec]
  BY <1>1, <1>c DEF NewGnBUe, GnbTypeOK
<1>4. ctx'[c] = n /\ \A d \in Live : ctx'[d] = ctx[d] /\ d # c
  BY <1>2, <1>3
<1>5. \A h \in Gnb : idUeGenerator[h] \in Nat /\ idUeGenerator'[h] = IF h = g THEN r + 1 ELSE idUeGenerator[h]
  BY <1>1 DEF GnbTypeOK
<1>6. \A d \in Live : ctx[d].gnb \in Gnb /\ ctx[d].ran \in Ran /\ ctx[d].pr \in UE
  BY DEF GnbTypeOK
<1>7. r \in Nat /\ \A x \in Ran : x \in Int
  BY <1>5, <1>r DEF Ran
<1>8. \A d \in Live : ctx[d].gnb = g => ctx[d].ran < r
  BY <1>r DEF IdInv
<1>9. IdInv'
  <2>1. ASSUME NEW d \in Live' PROVE ctx'[d].ran < idUeGenerator'[ctx'[d].gnb]
    <3>1. CASE d = c
      BY <1>1, <1>4, <1>5, <1>7, <3>1
    <3>2. CASE d \in Live
      <4>1. ctx[d].ran < idUeGenerator[ctx[d].gnb]
        BY <3>2 DEF IdInv
      <4> QED BY <1>4, <1>5, <1>6, <1>7, <1>8, <3>2, <4>1
    <3> QED BY <1>2, <3>1, <3>2
  <2>2. ASSUME NEW d \in Live', NEW e \in Live', ctx'[d].gnb = ctx'[e].gnb, ctx'[d].ran = ctx'[e].ran
        PROVE  d = e
    <3>1. CASE d \in Live /\ e \in Live
      BY <1>4, <2>2, <3>1 DEF IdInv
    <3>2. ASSUME NEW x \in Live PROVE ~(ctx[x].gnb = n.gnb /\ ctx[x].ran = n.ran)
      BY <1>1, <1>7, <1>8, <1>6
    <3> QED BY <1>2, <1>4, <2>2, <3>1, <3>2
  <2> QED BY <2>1, <2>2 DEF IdInv
<1>10. \A h \in Gnb : /\ \A x \in Ran : uePool[h][x] \in Live \cup {Nil}
                      /\ \A u \in UE : prUePool[h][u] \in Live \cup {Nil}
  BY DEF GnbTypeOK
<1>11. uePool' = [uePool EXCEPT ![g][r] = c]
  BY <1>1, <1>c DEF NewGnBUe
<1>12. \A h \in Gnb, x \in Ran : uePool'[h][x] = IF h = g /\ x = r THEN c ELSE uePool[h][x]
  BY <1>11 DEF GnbTypeOK
<1>13. \A h \in Gnb, u \in UE : prUePool'[h][u] = IF h = g /\ u = u0 THEN c ELSE prUePool[h][u]
  BY <1>1, <1>c DEF NewGnBUe, GnbTypeOK
<1>14. \A h \in Gnb, x \in Ran : uePool'[h][x] # Nil =>
           ctx'[uePool'[h][x]].gnb = h /\ ctx'[uePool'[h][x]].ran = x
  BY <1>1, <1>4, <1>10, <1>12 DEF PoolInv
<1>15. ASSUME NEW h \in Gnb, NEW u \in UE, prUePool'[h][u] # Nil
       PROVE  /\ ctx'[prUePool'[h][u]].gnb = h /\ ctx'[prUePool'[h][u]].pr = u
              /\ uePool'[h][ctx'[prUePool'[h][u]].ran] = prUePool'[h][u]
  <2>1. CASE h = g /\ u = u0
    BY <1>1, <1>2, <1>4, <1>12, <1>13, <2>1
  <2>2. CASE ~(h = g /\ u = u0)
    <3>d. PICK d : d = prUePool[h][u]
      OBVIOUS
    <3>1. prUePool'[h][u] = d /\ d \in Live /\ d # Nil
      BY <1>10, <1>13, <1>15, <2>2, <3>d
    <3>2. ctx[d].gnb = h /\ ctx[d].pr = u /\ uePool[h][ctx[d].ran] = d /\ ctx'[d] = ctx[d]
      BY <1>4, <3>1, <3>d DEF PoolInv
    <3>3. ctx[d].ran \in Ran /\ ~(h = g /\ ctx[d].ran = r)
      BY <1>6, <1>7, <1>8, <3>1, <3>2
    <3> QED BY <1>12, <3>1, <3>2, <3>3
  <2> QED BY <2>1, <2>2
<1>16. PoolInv'
  BY <1>14, <1>15 DEF PoolInv
<1>17. uePool[g][r] = Nil
  <2>1. ASSUME uePool[g][r] # Nil PROVE FALSE
    <3>d. PICK d : d = uePool[g][r]
      OBVIOUS
    <3>1. d \in Live /\ ctx[d].gnb = g /\ ctx[d].ran = r
      BY <1>2, <1>10, <2>1, <3>d DEF PoolInv
    <3> QED BY <1>7, <1>8, <3>1
  <2> QED BY <2>1
<1> QED BY <1>9, <1>11, <1>16, <1>17, <1>r, <1>c

LEMMA UeShape ==
  ASSUME NEW u \in UE
  PROVE  /\ UeReceive(u) => Keep /\ Quiet /\ UNCHANGED <<fate, n2, disp, amfActive>>
         /\ UeTerminate(u) => Keep /\ Quiet /\ UNCHANGED <<fate, n2, disp, amfActive>>
         /\ \A m \in {"nas", "idle"} : UeSend(u, m) => Keep /\ Quiet /\ UNCHANGED <<fate, n2, disp, amfActive>>
         /\ AmfSend(u) => Keep /\ Quiet /\ UNCHANGED <<fate, disp, amfActive>>
         /\ InitConn(u) => Keep /\ UNCHANGED <<fate, n2, disp, amfActive>>
         /\ TriggerXnHandover(u) => Keep /\ UNCHANGED <<n2, disp, amfActive>>
<1>1. UeReceive(u) => Keep /\ Quiet /\ UNCHANGED <<fate, n2, disp, amfActive>>
  BY KeepGnb DEF UeReceive, Quiet
<1>2. UeTerminate(u) => Keep /\ Quiet /\ UNCHANGED <<fate, n2, disp, amfActive>>
  BY KeepGnb DEF UeTerminate, Quiet
<1>3. \A m \in {"nas", "idle"} : UeSend(u, m) => Keep /\ Quiet /\ UNCHANGED <<fate, n2, disp, amfActive>>
  BY KeepGnb DEF UeSend, Quiet
<1>4. AmfSend(u) => Keep /\ Quiet /\ UNCHANGED <<fate, disp, amfActive>>
  BY KeepGnb DEF AmfSend, Quiet, chanVars
<1>5. InitConn(u) => Keep /\ UNCHANGED <<fate, n2, disp, amfActive>>
  BY KeepGnb DEF InitConn
<1>6. TriggerXnHandover(u) => Keep /\ UNCHANGED <<n2, disp, amfActive>>
  BY KeepGnb DEF TriggerXnHandover
<1> QED BY <1>1, <1>2, <1>3, <1>4, <1>5, <1>6

LEMMA OtherShape ==
  /\ \A g : AmfStatus(g) => Keep /\ Quiet /\ AmfMayFail /\ UNCHANGED <<fate, n2, disp>>
  /\ \A m : ReadGenerators(m) => Keep /\ Quiet /\ UNCHANGED <<fate, amfActive>>
  /\ \A o : SendToUe(o) => Keep /\ Quiet /\ UNCHANGED <<n2, disp, amfActive>>
<1>1. \A g : AmfStatus(g) => Keep /\ Quiet /\ AmfMayFail /\ UNCHANGED <<fate, n2, disp>>
  BY KeepGnb DEF AmfStatus, Quiet, chanVars
<1>2. \A m : ReadGenerators(m) => Keep /\ Quiet /\ UNCHANGED <<fate, amfActive>>
  BY KeepGnb DEF ReadGenerators, Quiet, chanVars
<1>3. \A o : SendToUe(o) => Keep /\ Quiet /\ UNCHANGED <<n2, disp, amfActive>>
  BY KeepGnb DEF SendToUe, Quiet
<1> QED BY <1>1, <1>2, <1>3

LEMMA TriggerNgapShape ==
  ASSUME TypeOK, NEW u \in UE, TriggerNgapHandover(u)
  PROVE  Keep /\ Quiet /\ Calm /\ "n2" \in Timers /\ UNCHANGED <<disp, amfActive>>
<1> USE DEF TypeOK
<1> DEFINE c == prUePool[cell[u]][u]
           target == NextGnb[cell[u]]
<1>1. c \in Live \cup {Nil} /\ Live \subseteq Ctx /\ ctx \in [Ctx -> CtxRec]
  BY LiveCtx DEF GnbTypeOK, UeTypeOK
<1>2. Quiet /\ UNCHANGED <<nctx, uePool, prUePool, idUeGenerator, txOpen, disp, amfActive>> /\ Calm
  BY DEF TriggerNgapHandover, Quiet, chanVars, Calm
<1>3. "n2" \in Timers
  BY DEF TriggerNgapHandover, Fire, UeTypeOK
<1>4. Keep
  <2>1. CASE c = Nil
    BY <1>2, <2>1, KeepFrame DEF TriggerNgapHandover
  <2>2. CASE c # Nil
    <3>1. ctx' = [ctx EXCEPT ![c] = [ctx[c] EXCEPT !.ho = target]]
      BY <2>2 DEF TriggerNgapHandover
    <3> QED BY <1>1, <1>2, <2>2, <3>1, SameHo, KeepCtx
  <2> QED BY <2>1, <2>2
<1> QED BY <1>2, <1>3, <1>4

\* Only HandlerHandoverRequest and TriggerNgapHandover send a message of an NGAP
\* handover.
LEMMA NgapTypeField ==
  ASSUME NEW t, NEW g, NEW r, NEW u, NEW S PROVE Ngap(t, g, r, u, S).type = t
  BY DEF Ngap
LEMMA ReleaseOldKind == ASSUME NEW u, NEW m \in ReleaseOld(u) PROVE m.type = "release"
  BY NgapTypeField DEF ReleaseOld

LEMMA NextNoN2 == ASSUME TypeOK, NoN2, Next, "n2" \notin Timers PROVE NoN2'
<1> DEFINE Fine(M) == \A m \in M : m.type \notin {"handoverRequest", "handoverCommand"}
<1>a. ASSUME disp' \subseteq disp, n2' \subseteq n2 PROVE NoN2'
  BY <1>a DEF NoN2
<1>b. ASSUME disp' \subseteq disp, NEW M, Fine(M), n2' = n2 \cup M PROVE NoN2'
  BY <1>b DEF NoN2
<1>c. ASSUME NEW t \in {"downlinkNas", "ics", "setup", "sessRelease", "release", "pathSwitchAck"},
             NEW g, NEW r, NEW u, NEW S
      PROVE  Fine({Ngap(t, g, r, u, S)})
  BY <1>c, NgapTypeField
<1>d. ASSUME NEW u PROVE Fine(ReleaseOld(u))
  BY ReleaseOldKind
<1>1. ASSUME NEW u \in UE, AmfSend(u) PROVE NoN2'
  <2>1. disp' \subseteq disp
    BY <1>1 DEF AmfSend
  <2>t. PICK t \in {"downlinkNas", "ics", "setup", "sessRelease", "release"} :
            \E g, r, S : n2' = n2 \cup {Ngap(t, g, r, u, S)}
    BY <1>1 DEF AmfSend
  <2>2. PICK g, r, S : n2' = n2 \cup {Ngap(t, g, r, u, S)}
    BY <2>t
  <2>3. Fine({Ngap(t, g, r, u, S)})
    BY <1>c
  <2> HIDE DEF Fine
  <2> QED BY <1>b, <2>1, <2>2, <2>3
<1>2. ASSUME NEW u \in UE, InitConn(u) \/ UeReceive(u) \/ UeTerminate(u) \/ TriggerXnHandover(u) PROVE NoN2'
  BY <1>2, <1>a, UeShape
<1>3. ASSUME NEW u \in UE, NEW m \in {"nas", "idle"}, UeSend(u, m) PROVE NoN2'
  BY <1>3, <1>a, UeShape
<1>4. ASSUME NEW u \in UE, TriggerNgapHandover(u) PROVE FALSE
  BY <1>4, TriggerNgapShape
<1>5. ASSUME NEW g \in Gnb, GnbListen(g) PROVE NoN2'
  <2>1. disp' \subseteq disp
    BY <1>5 DEF GnbListen
  <2>2. \/ UNCHANGED n2
        \/ \E u : n2' = n2 \cup ReleaseOld(u)
        \/ \E r, u, S : n2' = n2 \cup {Ngap("pathSwitchAck", g, r, u, S)}
    BY <1>5 DEF GnbListen, ListenKnownUe, ListenNewUe, AmfHandoverNotify, AmfPathSwitch
  <2>3. CASE UNCHANGED n2
    BY <1>a, <2>1, <2>3
  <2>4. ASSUME NEW u, n2' = n2 \cup ReleaseOld(u) PROVE NoN2'
    <3>1. Fine(ReleaseOld(u))
      BY <1>d
    <3> HIDE DEF Fine
    <3> QED BY <1>b, <2>1, <2>4, <3>1
  <2>5. ASSUME NEW r, NEW u, NEW S, n2' = n2 \cup {Ngap("pathSwitchAck", g, r, u, S)} PROVE NoN2'
    <3>1. Fine({Ngap("pathSwitchAck", g, r, u, S)})
      BY <1>c
    <3> HIDE DEF Fine
    <3> QED BY <1>b, <2>1, <2>5, <3>1
  <2> QED BY <2>2, <2>3, <2>4, <2>5
<1>6. ASSUME NEW g \in Gnb, AmfStatus(g) PROVE NoN2'
  BY <1>6, <1>a, OtherShape
<1>7. ASSUME NEW c, NEW k, ProcessingConn(c, k) PROVE NoN2'
  <2>1. disp' \subseteq disp
    BY <1>7 DEF ProcessingConn
  <2>2. \/ UNCHANGED n2
        \/ \E u : n2' = n2 \cup ReleaseOld(u)
        \/ \E g, r, u, S : n2' = n2 \cup {Ngap("release", g, r, u, S)}
    <3>1. ProcessNas(c) => UNCHANGED n2 \/ n2' = n2 \cup ReleaseOld(ctx[c].pr)
      BY DEF ProcessNas, AmfInitialUe
    <3>2. ProcessIdle(c) => n2' = n2 \cup {Ngap("release", ctx[c].gnb, ctx[c].ran, ctx[c].pr, {})}
      BY DEF ProcessIdle, AmfReleaseRequest
    <3>3. \A gc : ProcessConnectionClosed(c, gc) => UNCHANGED n2
      BY DEF ProcessConnectionClosed
    <3>4. UNCHANGED n2 \/ ProcessNas(c) \/ ProcessIdle(c)
      BY <1>7, <3>3 DEF ProcessingConn
    <3> QED BY <3>1, <3>2, <3>4
  <2>3. CASE UNCHANGED n2
    BY <1>a, <2>1, <2>3
  <2>4. ASSUME NEW u, n2' = n2 \cup ReleaseOld(u) PROVE NoN2'
    <3>1. Fine(ReleaseOld(u))
      BY <1>d
    <3> HIDE DEF Fine
    <3> QED BY <1>b, <2>1, <2>4, <3>1
  <2>5. ASSUME NEW g, NEW r, NEW u, NEW S, n2' = n2 \cup {Ngap("release", g, r, u, S)} PROVE NoN2'
    <3>1. Fine({Ngap("release", g, r, u, S)})
      BY <1>c
    <3> HIDE DEF Fine
    <3> QED BY <1>b, <2>1, <2>5, <3>1
  <2> QED BY <2>2, <2>3, <2>4, <2>5
<1>8. ASSUME NEW m \in n2, ReadGenerators(m) PROVE NoN2'
  BY <1>8 DEF ReadGenerators, NoN2
<1>9. ASSUME NEW m \in n2, HandleNgap(m) PROVE NoN2'
  BY <1>9, <1>a DEF HandleNgap
<1>10. ASSUME NEW d \in disp, HandleAllocating(d) PROVE NoN2'
  <2>1. disp' \subseteq disp /\ d.msg.type # "handoverRequest"
    BY <1>10 DEF HandleAllocating, NoN2
  <2>2. UNCHANGED n2
    BY <1>10, <2>1 DEF HandleAllocating, HandlerHandoverRequest, HandlerInitialContextSetupRequest,
                       HandlerPduSessionResourceSetupRequest
  <2> QED BY <1>a, <2>1, <2>2
<1>11. ASSUME NEW o \in sends, SendToUe(o) PROVE NoN2'
  BY <1>11, <1>a, OtherShape
<1> QED BY <1>1, <1>2, <1>3, <1>4, <1>5, <1>6, <1>7, <1>8, <1>9, <1>10, <1>11 DEF Next

\* What a step does to uePool: entries disappear or appear, and never change.
NoOverwriteStep == \A g \in Gnb, r \in Ran :
    uePool[g][r] # Nil => uePool'[g][r] \in {uePool[g][r], Nil}

LEMMA DropNoOverwrite == ASSUME TypeOK, NEW c \in Live, Drop(c) PROVE NoOverwriteStep
  BY DEF NoOverwriteStep, Drop, TypeOK, GnbTypeOK

LEMMA NewNoOverwrite ==
  ASSUME TypeOK, NEW g \in Gnb, NEW r, NEW c, uePool[g][r] = Nil, uePool' = [uePool EXCEPT ![g][r] = c]
  PROVE  NoOverwriteStep
  BY DEF NoOverwriteStep, TypeOK, GnbTypeOK

\* In NGAP handover free scenarios, every step is one of three shapes.
LEMMA NextShape ==
  ASSUME TypeOK, NoN2, Next, "n2" \notin Timers
  PROVE  \/ Keep
         \/ \E c \in Live : Drop(c)
         \/ \E g \in Gnb : GnbListen(g)
<1>1. ASSUME NEW p \in proc, ProcessingConn(p[1], p[2]) PROVE Keep \/ \E c \in Live : Drop(c)
  <2>1. p = <<p[1], p[2]>>
    BY DEF TypeOK, TaskTypeOK
  <2> QED BY <1>1, <2>1, ProcessingConnShape
<1>2. ASSUME NEW u \in UE, InitConn(u) \/ UeReceive(u) \/ UeTerminate(u) \/ AmfSend(u) \/ TriggerXnHandover(u)
      PROVE  Keep
  BY <1>2, UeShape
<1>3. ASSUME NEW u \in UE, NEW m \in {"nas", "idle"}, UeSend(u, m) PROVE Keep
  BY <1>3, UeShape
<1>4. ASSUME NEW d \in disp, HandleAllocating(d) PROVE Keep
  <2>1. d.msg.type # "handoverRequest"
    BY DEF NoN2
  <2> QED BY <1>4, <2>1, HandleAllocatingShape
<1>5. ASSUME NEW m \in n2, HandleNgap(m) PROVE Keep \/ \E c \in Live : Drop(c)
  BY <1>5, HandleNgapShape
<1>6. ASSUME NEW u \in UE, TriggerNgapHandover(u) PROVE Keep
  BY <1>6, TriggerNgapShape
<1> QED BY <1>1, <1>2, <1>3, <1>4, <1>5, <1>6, OtherShape DEF Next

PInv == TypeOK /\ NoN2 /\ IdInv /\ PoolInv

LEMMA InitPools == Init => PInv
<1> SUFFICES ASSUME Init PROVE PInv
  OBVIOUS
<1>1. Live = {}
  BY DEF Init, Live
<1>2. IdInv
  BY <1>1 DEF IdInv
<1>3. PoolInv
  BY DEF PoolInv, Init
<1>4. NoN2
  BY DEF NoN2, Init
<1> QED BY <1>2, <1>3, <1>4, InitType DEF PInv

LEMMA NextPools ==
  ASSUME PInv, [Next]_vars, "n2" \notin Timers PROVE PInv' /\ NoOverwriteStep
<1> USE DEF PInv
<1>1. TypeOK'
  BY NextType
<1>2. ASSUME Keep PROVE IdInv' /\ PoolInv' /\ NoOverwriteStep
  BY <1>2, KeepPools DEF NoOverwriteStep, Keep
<1>3. CASE UNCHANGED vars
  <2>1. Keep
    BY <1>3, KeepGnb DEF vars, chanVars
  <2>2. NoN2'
    BY <1>3 DEF NoN2, vars
  <2> QED BY <1>1, <1>2, <2>1, <2>2
<1>4. CASE Next
  <2>1. NoN2'
    BY <1>4, NextNoN2
  <2>2. ASSUME NEW c \in Live, Drop(c) PROVE IdInv' /\ PoolInv' /\ NoOverwriteStep
    BY <2>2, DropPools, DropNoOverwrite
  <2>3. ASSUME NEW g \in Gnb, GnbListen(g) PROVE IdInv' /\ PoolInv' /\ NoOverwriteStep
    <3>1. CASE Known(g, inbound[g], prUePool[g][inbound[g].pr])
      <4>1. /\ nctx' = nctx /\ UNCHANGED <<uePool, prUePool, idUeGenerator>>
            /\ \A d \in Live : ctx'[d].gnb = ctx[d].gnb /\ ctx'[d].ran = ctx[d].ran /\ ctx'[d].pr = ctx[d].pr
        BY <3>1 DEF Known
      <4>2. Live' = Live
        BY <4>1 DEF Live
      <4>3. IdInv'
        BY <4>1, <4>2 DEF IdInv
      <4>4. \A h \in Gnb : /\ \A r \in Ran : uePool[h][r] \in Live \cup {Nil}
                           /\ \A u \in UE : prUePool[h][u] \in Live \cup {Nil}
        BY DEF TypeOK, GnbTypeOK
      <4>5. PoolInv'
        BY <4>1, <4>4 DEF PoolInv
      <4> QED BY <4>1, <4>3, <4>5 DEF NoOverwriteStep
    <3>2. ASSUME NEW n, New(g, inbound[g], n) PROVE IdInv' /\ PoolInv' /\ NoOverwriteStep
      <4>1. inbound[g] \in ReqRec
        BY <2>3, GnbListenShape
      <4> QED BY <3>2, <4>1, NewPools, NewNoOverwrite
    <3> QED BY <2>3, <3>1, <3>2, GnbListenShape
  <2> QED BY <1>1, <1>2, <1>4, <2>1, <2>2, <2>3, NextShape
<1> QED BY <1>3, <1>4

\* The UE pool and the PacketRusher pool of a gNodeB agree as long as no UE makes
\* an NGAP handover, for any number of gNodeBs, UEs and sessions and whether or not
\* the AMFs fail: only HandlerHandoverRequest reads the id generator apart from the
\* step that stores the context.
THEOREM PoolsAgreeProved == ASSUME "n2" \notin Timers PROVE Spec => []PoolsAgree
<1>1. PInv /\ [Next]_vars => PInv'
  BY NextPools
<1>2. PInv => PoolsAgree
  BY DEF PInv, PoolInv, PoolsAgree
<1> QED BY InitPools, <1>1, <1>2, PTL DEF Spec

\* Under the same assumption a RAN UE NGAP id in use is never given to another
\* context.
THEOREM NoOverwriteProved == ASSUME "n2" \notin Timers PROVE Spec => NoOverwrite
<1>1. PInv /\ [Next]_vars => PInv'
  BY NextPools
<1>2. PInv /\ [Next]_vars => [NoOverwriteStep]_vars
  BY NextPools
<1> QED BY InitPools, <1>1, <1>2, PTL DEF Spec, NoOverwrite, NoOverwriteStep

-----------------------------------------------------------------------------
(* With AMFs that stay active, a channel that a context or a request holds *)
(* is open and held once.                                                  *)

HeldTx == \A c \in Live : ctx[c].tx # Nil => ctx[c].tx <= nconn /\ txOpen[ctx[c].tx]
OneTx  == \A c, d \in Live : ctx[c].tx # Nil /\ ctx[c].tx = ctx[d].tx => c = d
HeldRq == \A g \in Gnb : inbound[g] # Nil => inbound[g].conn <= nconn /\ txOpen[inbound[g].conn]
OneRq  == \A g, h \in Gnb : inbound[g] # Nil /\ inbound[h] # Nil /\ inbound[g].conn = inbound[h].conn
                               => g = h
Apart  == \A g \in Gnb, c \in Live : inbound[g] # Nil => ctx[c].tx # inbound[g].conn
Fresh  == \A k \in Conn : k > nconn => txOpen[k]
TxInv  == HeldTx /\ OneTx /\ HeldRq /\ OneRq /\ Apart /\ Fresh
Active == \A g \in Gnb : amfActive[g]

LEMMA TxTypes ==
  ASSUME TypeOK
  PROVE  /\ \A c \in Live : ctx[c].tx \in Conn \cup {Nil}
         /\ \A g \in Gnb : inbound[g] # Nil => inbound[g].conn \in Conn
         /\ nconn \in Nat /\ \A k \in Conn : k \in Nat /\ k # Nil
<1>1. \A c \in Live : ctx[c].tx \in Conn \cup {Nil}
  BY LiveCtx DEF TypeOK, GnbTypeOK, CtxRec
<1>2. \A g \in Gnb : inbound[g] # Nil => inbound[g].conn \in Conn
  BY DEF TypeOK, TaskTypeOK, ReqRec
<1>3. nconn \in Nat /\ \A k \in Conn : k \in Nat /\ k # Nil
  BY ConstAssumption DEF TypeOK, ChanTypeOK, Conn
<1> QED BY <1>1, <1>2, <1>3

LEMMA TxCalm == ASSUME HeldTx, Calm, fate # "closedChannel" PROVE fate' # "closedChannel"
  BY DEF HeldTx, Calm, SendPanics

\* The contexts keep their channels and no request is made.
LEMMA TxKeep == ASSUME TypeOK, TxInv, Keep, Quiet PROVE TxInv'
<1>1. Live' = Live
  BY DEF Live, Keep
<1>2. UNCHANGED <<txOpen, nconn, inbound>> /\ \A d \in Live : ctx'[d].tx = ctx[d].tx
  BY DEF Keep, Same, Quiet
<1>3. HeldTx' /\ OneTx'
  BY <1>1, <1>2 DEF TxInv, HeldTx, OneTx
<1>4. HeldRq' /\ OneRq' /\ Fresh'
  BY <1>2 DEF TxInv, HeldRq, OneRq, Fresh
<1>5. Apart'
  BY <1>1, <1>2 DEF TxInv, Apart
<1> QED BY <1>3, <1>4, <1>5 DEF TxInv

\* A request brings a channel nobody holds.
LEMMA TxAsk ==
  ASSUME TypeOK, TxInv, Keep, NEW g \in Gnb, NEW q \in ReqRec, Ask(g, q) PROVE TxInv'
<1>1. Live' = Live
  BY DEF Live, Keep
<1>2. UNCHANGED txOpen /\ \A d \in Live : ctx'[d].tx = ctx[d].tx
  BY DEF Keep, Same
<1>3. /\ nconn' = nconn + 1 /\ q.conn = nconn + 1 /\ nconn + 1 \in Conn /\ inbound[g] = Nil
      /\ \A h \in Gnb : inbound'[h] = IF h = g THEN q ELSE inbound[h]
  BY DEF Ask, TypeOK, TaskTypeOK, ReqRec
<1>4. nconn \in Nat /\ \A k \in Conn : k \in Nat
  BY TxTypes
<1>5. \A d \in Live : ctx[d].tx # Nil => ctx[d].tx \in Conn /\ ctx[d].tx <= nconn /\ txOpen[ctx[d].tx]
  BY TxTypes DEF TxInv, HeldTx
<1>6. \A h \in Gnb : inbound[h] # Nil =>
         inbound[h].conn \in Conn /\ inbound[h].conn <= nconn /\ txOpen[inbound[h].conn]
  BY TxTypes DEF TxInv, HeldRq
<1>7. txOpen[nconn + 1]
  BY <1>3, <1>4 DEF TxInv, Fresh
<1>8. HeldTx' /\ OneTx'
  <2>1. \A d \in Live : ctx[d].tx # Nil => ctx[d].tx <= nconn + 1
    BY <1>4, <1>5
  <2> QED BY <1>1, <1>2, <1>3, <1>5, <2>1 DEF TxInv, HeldTx, OneTx
<1>9. HeldRq'
  BY <1>2, <1>3, <1>4, <1>6, <1>7 DEF HeldRq
<1>10. OneRq'
  <2>1. ASSUME NEW h \in Gnb, inbound[h] # Nil PROVE inbound[h].conn # nconn + 1
    BY <2>1, <1>4, <1>6
  <2> QED BY <1>3, <2>1 DEF TxInv, OneRq
<1>11. Apart'
  <2>1. ASSUME NEW d \in Live PROVE ctx[d].tx # nconn + 1
    BY <1>4, <1>5, <1>3, TxTypes
  <2> QED BY <1>1, <1>2, <1>3, <2>1 DEF TxInv, Apart
<1>12. Fresh'
  BY <1>2, <1>3, <1>4 DEF TxInv, Fresh
<1> QED BY <1>8, <1>9, <1>10, <1>11, <1>12 DEF TxInv

\* A context is deleted: its channel is closed, and it held it alone.
LEMMA TxDrop == ASSUME TypeOK, TxInv, NEW c \in Live, Drop(c), Quiet PROVE TxInv'
<1>1. Live' = Live /\ UNCHANGED <<nconn, inbound>>
  BY DEF Live, Drop, Quiet
<1>k. PICK k : k = ctx[c].tx
  OBVIOUS
<1>2. \A d \in Live : ctx'[d].tx = IF d = c THEN Nil ELSE ctx[d].tx
  BY DEF Drop
<1>3. \A j \in Conn : txOpen'[j] = IF j = k /\ k # Nil THEN FALSE ELSE txOpen[j]
  BY <1>k DEF Drop, TypeOK, ChanTypeOK
<1>4. \A d \in Live : d # c /\ ctx[d].tx # Nil => ctx[d].tx # k /\ ctx[d].tx \in Conn
  BY <1>k, TxTypes DEF TxInv, OneTx
<1>5. \A h \in Gnb : inbound[h] # Nil => inbound[h].conn # k /\ inbound[h].conn \in Conn
  BY <1>k, TxTypes DEF TxInv, Apart
<1>6. HeldTx'
  BY <1>1, <1>2, <1>3, <1>4 DEF TxInv, HeldTx
<1>7. OneTx'
  BY <1>1, <1>2 DEF TxInv, OneTx
<1>8. HeldRq' /\ OneRq'
  BY <1>1, <1>3, <1>5 DEF TxInv, HeldRq, OneRq
<1>9. Apart'
  BY <1>1, <1>2, TxTypes DEF TxInv, Apart
<1>10. Fresh'
  <2>1. k # Nil => k \in Nat /\ k <= nconn
    BY <1>k, TxTypes DEF TxInv, HeldTx
  <2>2. \A j \in Conn : j > nconn => ~(j = k /\ k # Nil)
    BY <2>1, TxTypes
  <2> QED BY <1>1, <1>3, <2>2 DEF TxInv, Fresh
<1> QED BY <1>6, <1>7, <1>8, <1>9, <1>10 DEF TxInv

\* A known context takes the channel of a request over.
LEMMA TxKnown ==
  ASSUME TypeOK, TxInv, NEW g \in Gnb, inbound[g] # Nil, NEW c, Known(g, inbound[g], c),
         inbound' = [inbound EXCEPT ![g] = Nil], UNCHANGED nconn
  PROVE  TxInv'
<1>k. PICK k \in Conn : k = inbound[g].conn
  BY TxTypes
<1>1. Live' = Live /\ c \in Live /\ UNCHANGED txOpen
  BY DEF Live, Known
<1>2. \A d \in Live : ctx'[d].tx = IF d = c THEN k ELSE ctx[d].tx
  BY <1>k DEF Known
<1>3. \A h \in Gnb : inbound'[h] = IF h = g THEN Nil ELSE inbound[h]
  BY DEF TypeOK, TaskTypeOK
<1>4. k <= nconn /\ txOpen[k]
  BY <1>k DEF TxInv, HeldRq
<1>5. \A d \in Live : ctx[d].tx # k
  BY <1>k DEF TxInv, Apart
<1>6. HeldTx' /\ OneTx'
  <2>1. HeldTx'
    BY <1>1, <1>2, <1>4 DEF TxInv, HeldTx
  <2>2. OneTx'
    BY <1>1, <1>2, <1>5 DEF TxInv, OneTx
  <2> QED BY <2>1, <2>2
<1>7. HeldRq' /\ OneRq' /\ Fresh'
  BY <1>1, <1>3 DEF TxInv, HeldRq, OneRq, Fresh
<1>8. Apart'
  <2>1. \A h \in Gnb : h # g /\ inbound[h] # Nil => inbound[h].conn # k
    BY <1>k DEF TxInv, OneRq
  <2> QED BY <1>1, <1>2, <1>3, <2>1 DEF TxInv, Apart
<1> QED BY <1>6, <1>7, <1>8 DEF TxInv

\* A new context, with the channel of a request or without one.
LEMMA GrowTx ==
  ASSUME TypeOK, NEW g, NEW u, NEW r, NEW n, Grow(g, u, r, n)
  PROVE  /\ Live' = Live \cup {nctx + 1} /\ nctx + 1 \notin Live
         /\ ctx'[nctx + 1] = n /\ \A d \in Live : ctx'[d] = ctx[d]
<1>1. NewGnBUe(g, u, r, n) /\ GnbTypeOK
  BY DEF Grow, TypeOK
<1>2. Live' = Live \cup {nctx + 1} /\ nctx + 1 \notin Live /\ nctx + 1 \in Ctx /\ Live \subseteq Ctx
  BY <1>1, NewLive, LiveCtx
<1>3. ctx' = [ctx EXCEPT ![nctx + 1] = n] /\ ctx \in [Ctx -> CtxRec]
  BY <1>1 DEF NewGnBUe, GnbTypeOK
<1> QED BY <1>2, <1>3

LEMMA TxNew ==
  ASSUME TypeOK, TxInv, NEW g \in Gnb, inbound[g] # Nil, NEW n, New(g, inbound[g], n),
         inbound' = [inbound EXCEPT ![g] = Nil], UNCHANGED <<nconn, txOpen>>
  PROVE  TxInv'
<1>k. PICK k \in Conn : k = inbound[g].conn
  BY TxTypes
<1>c. PICK c : c = nctx + 1
  OBVIOUS
<1>1. Live' = Live \cup {c} /\ c \notin Live /\ ctx'[c].tx = k /\ \A d \in Live : ctx'[d].tx = ctx[d].tx
  BY <1>k, <1>c, GrowTx DEF New
<1>3. \A h \in Gnb : inbound'[h] = IF h = g THEN Nil ELSE inbound[h]
  BY DEF TypeOK, TaskTypeOK
<1>4. k <= nconn /\ txOpen[k]
  BY <1>k DEF TxInv, HeldRq
<1>5. \A d \in Live : ctx[d].tx # k
  BY <1>k DEF TxInv, Apart
<1>6. HeldTx'
  BY <1>1, <1>4 DEF TxInv, HeldTx
<1>7. OneTx'
  BY <1>1, <1>5 DEF TxInv, OneTx
<1>8. HeldRq' /\ OneRq' /\ Fresh'
  BY <1>3 DEF TxInv, HeldRq, OneRq, Fresh
<1>9. Apart'
  <2>1. \A h \in Gnb : h # g /\ inbound[h] # Nil => inbound[h].conn # k
    BY <1>k DEF TxInv, OneRq
  <2> QED BY <1>1, <1>3, <2>1 DEF TxInv, Apart
<1> QED BY <1>6, <1>7, <1>8, <1>9 DEF TxInv

LEMMA TxPrep ==
  ASSUME TypeOK, TxInv, NEW g, NEW u, NEW r, NEW n, Grow(g, u, r, n), n.tx = Nil,
         Quiet, UNCHANGED txOpen
  PROVE  TxInv'
<1>c. PICK c : c = nctx + 1
  OBVIOUS
<1>1. Live' = Live \cup {c} /\ c \notin Live /\ ctx'[c].tx = Nil /\ \A d \in Live : ctx'[d].tx = ctx[d].tx
  BY <1>c, GrowTx
<1>2. UNCHANGED <<nconn, inbound>>
  BY DEF Quiet
<1>3. HeldTx'
  BY <1>1, <1>2 DEF TxInv, HeldTx
<1>4. OneTx'
  BY <1>1 DEF TxInv, OneTx
<1>5. HeldRq' /\ OneRq' /\ Fresh'
  BY <1>2 DEF TxInv, HeldRq, OneRq, Fresh
<1>6. Apart'
  BY <1>1, <1>2, TxTypes DEF TxInv, Apart
<1> QED BY <1>3, <1>4, <1>5, <1>6 DEF TxInv

LEMMA InitConnAsk ==
  ASSUME TypeOK, NEW u \in UE, InitConn(u)
  PROVE  /\ Request(nconn + 1, u, FALSE, Nil) \in ReqRec
         /\ Ask(ueGnb[u], Request(nconn + 1, u, FALSE, Nil)) /\ ueGnb[u] \in Gnb
<1>1. nconn + 1 \in Conn /\ ueGnb[u] \in Gnb
  BY ConstAssumption DEF InitConn, TypeOK, ChanTypeOK, Conn, UeTypeOK
<1>2. /\ Request(nconn + 1, u, FALSE, Nil) \in ReqRec
      /\ Request(nconn + 1, u, FALSE, Nil).conn = nconn + 1
  BY <1>1 DEF Request, ReqRec
<1> QED BY <1>1, <1>2 DEF InitConn, Ask

LEMMA TriggerXnAsk ==
  ASSUME TypeOK, NEW u \in UE, TriggerXnHandover(u)
  PROVE  \/ /\ Quiet /\ UNCHANGED sends
            /\ fate' = "fatal" /\ prUePool[cell[u]][u] = Nil
         \/ LET c == prUePool[cell[u]][u]
                target == NextGnb[cell[u]]
                q == Request(nconn + 1, u, TRUE, c)
            IN /\ c \in Live /\ c # Nil /\ target \in Gnb /\ q \in ReqRec /\ Ask(target, q)
               /\ sends' = sends \cup {<<c, nconn + 1, target>>} /\ UNCHANGED fate
<1> USE DEF TypeOK
<1> DEFINE c == prUePool[cell[u]][u]
           target == NextGnb[cell[u]]
           q == Request(nconn + 1, u, TRUE, c)
<1>1. c \in Live \cup {Nil} /\ target \in Gnb
  BY ConstAssumption DEF GnbTypeOK, UeTypeOK
<1>2. CASE c = Nil
  BY <1>2 DEF TriggerXnHandover, Quiet
<1>3. CASE c # Nil
  <2>1. /\ nconn < MaxConn /\ inbound[target] = Nil /\ nconn' = nconn + 1
        /\ inbound' = [inbound EXCEPT ![target] = q]
        /\ sends' = sends \cup {<<c, nconn + 1, target>>} /\ UNCHANGED fate
    BY <1>3 DEF TriggerXnHandover
  <2>2. nconn + 1 \in Conn
    BY <2>1, ConstAssumption DEF ChanTypeOK, Conn
  <2>3. q \in ReqRec /\ q.conn = nconn + 1
    BY <1>1, <2>2 DEF Request, ReqRec
  <2>4. Ask(target, q)
    BY <2>1, <2>3 DEF Ask
  <2> QED BY <1>1, <1>3, <2>1, <2>3, <2>4
<1> QED BY <1>2, <1>3

LEMMA TxAsks == ASSUME TypeOK, TxInv, Keep, Asks PROVE TxInv'
  BY TxKeep, TxAsk DEF Asks

CInv == TypeOK /\ Active /\ TxInv /\ fate # "closedChannel"

LEMMA NextClosed ==
  ASSUME CInv, [Next]_vars, AmfMayFail = FALSE PROVE CInv'
<1> USE DEF CInv
<1>1. TypeOK'
  BY NextType
<1>c. HeldTx
  BY DEF TxInv
<1>d. ASSUME UNCHANGED amfActive, Calm, TxInv' PROVE CInv'
  BY <1>1, <1>c, <1>d, TxCalm DEF Active
<1>e. ASSUME UNCHANGED fate PROVE Calm
  BY <1>e DEF Calm
<1>2. CASE UNCHANGED vars
  <2>1. Keep /\ Quiet /\ UNCHANGED <<amfActive, fate>>
    BY <1>2, KeepGnb DEF vars, chanVars, Quiet
  <2> QED BY <1>d, <1>e, <2>1, TxKeep
<1>3. ASSUME NEW u \in UE, UeReceive(u) \/ UeTerminate(u) \/ AmfSend(u) PROVE CInv'
  BY <1>3, <1>d, <1>e, UeShape, TxKeep
<1>4. ASSUME NEW u \in UE, NEW m \in {"nas", "idle"}, UeSend(u, m) PROVE CInv'
  BY <1>4, <1>d, <1>e, UeShape, TxKeep
<1>5. ASSUME NEW u \in UE, InitConn(u) PROVE CInv'
  <2>1. PICK g \in Gnb, q \in ReqRec : Ask(g, q)
    BY <1>5, InitConnAsk
  <2> QED BY <1>5, <1>d, <1>e, <2>1, UeShape, TxAsk
<1>6. ASSUME NEW u \in UE, TriggerXnHandover(u) PROVE CInv'
  <2>1. Keep /\ UNCHANGED amfActive
    BY <1>6, UeShape
  <2>2. Asks /\ Calm
    BY <1>6, TriggerXnAsk DEF Asks, Calm
  <2> QED BY <1>d, <2>1, <2>2, TxAsks
<1>7. ASSUME NEW u \in UE, TriggerNgapHandover(u) PROVE CInv'
  BY <1>7, <1>d, TriggerNgapShape, TxKeep
<1>8. ASSUME NEW g \in Gnb, GnbListen(g) PROVE CInv'
  <2>1. /\ inbound[g] # Nil /\ UNCHANGED <<amfActive, nconn>>
        /\ inbound' = [inbound EXCEPT ![g] = Nil] /\ Calm
    BY <1>8, GnbListenShape DEF GnbListen
  <2>2. CASE Known(g, inbound[g], prUePool[g][inbound[g].pr])
    BY <1>d, <2>1, <2>2, TxKnown
  <2>3. ASSUME NEW n, New(g, inbound[g], n), amfActive[g] => UNCHANGED txOpen PROVE CInv'
    <3>1. UNCHANGED txOpen
      BY <2>3 DEF Active
    <3> QED BY <1>d, <2>1, <2>3, <3>1, TxNew
  <2> QED BY <1>8, <2>2, <2>3, GnbListenShape
<1>9. ASSUME NEW g \in Gnb, AmfStatus(g) PROVE FALSE
  BY <1>9, OtherShape
<1>10. ASSUME NEW p \in proc, ProcessingConn(p[1], p[2]) PROVE CInv'
  <2>1. <<p[1], p[2]>> \in proc
    BY DEF TypeOK, TaskTypeOK
  <2>2. Quiet /\ UNCHANGED amfActive
    BY <1>10 DEF ProcessingConn, Quiet
  <2>3. (Keep \/ Drop(p[1])) /\ Calm /\ p[1] \in Live
    BY <1>10, <2>1, ProcessingConnShape
  <2> QED BY <1>d, <2>2, <2>3, TxKeep, TxDrop
<1>11. ASSUME NEW m \in n2, ReadGenerators(m) PROVE CInv'
  BY <1>11, <1>d, <1>e, OtherShape, TxKeep
<1>12. ASSUME NEW m \in n2, HandleNgap(m) PROVE CInv'
  <2>1. UNCHANGED amfActive
    BY <1>12 DEF HandleNgap
  <2>2. (Keep /\ Asks) \/ (Quiet /\ \E c \in Live : Drop(c))
    BY <1>12, HandleNgapShape DEF Asks
  <2>3. Calm
    BY <1>12, HandleNgapShape
  <2> QED BY <1>d, <2>1, <2>2, <2>3, TxAsks, TxDrop
<1>13. ASSUME NEW d \in disp, HandleAllocating(d) PROVE CInv'
  <2>1. UNCHANGED amfActive
    BY <1>13 DEF HandleAllocating
  <2>2. Calm /\ Quiet /\ UNCHANGED txOpen
    BY <1>13, HandleAllocatingShape
  <2>3. Keep \/ \E g \in Gnb, u \in UE, n \in CtxRec : Grow(g, u, d.ran, n) /\ n.tx = Nil
    BY <1>13, HandleAllocatingShape
  <2> QED BY <1>d, <2>1, <2>2, <2>3, TxKeep, TxPrep
<1>14. ASSUME NEW o \in sends, SendToUe(o) PROVE CInv'
  <2>1. Calm
    <3>1. o[1] \in Live
      BY DEF TypeOK, TaskTypeOK, SendRec
    <3> QED BY <1>14, <3>1 DEF SendToUe, Calm
  <2> QED BY <1>14, <1>d, <2>1, OtherShape, TxKeep
<1> QED
  BY <1>2, <1>3, <1>4, <1>5, <1>6, <1>7, <1>8, <1>9, <1>10, <1>11, <1>12, <1>13, <1>14 DEF Next

LEMMA InitClosed == Init => CInv
<1> SUFFICES ASSUME Init PROVE CInv
  OBVIOUS
<1>1. Live = {}
  BY DEF Init, Live
<1>2. Active /\ fate # "closedChannel"
  BY DEF Init, Active
<1>3. HeldTx /\ OneTx /\ Apart
  BY <1>1 DEF HeldTx, OneTx, Apart
<1>4. HeldRq /\ OneRq /\ Fresh
  BY DEF Init, HeldRq, OneRq, Fresh
<1> QED BY <1>2, <1>3, <1>4, InitType DEF CInv, TxInv

\* As long as the AMFs stay active no goroutine sends on, or closes, a channel that
\* is closed, with both kinds of handover and for any number of gNodeBs, UEs and
\* sessions: a channel is held by one context or one request, and the step that
\* closes it also makes its context forget it.
THEOREM NoClosedSendProved == ASSUME AmfMayFail = FALSE PROVE Spec => []NoClosedSend
<1>1. CInv /\ [Next]_vars => CInv'
  BY NextClosed
<1>2. CInv => NoClosedSend
  BY DEF CInv, NoClosedSend
<1> QED BY InitClosed, <1>1, <1>2, PTL DEF Spec

-----------------------------------------------------------------------------
(* A UE whose channel is open is served and found.  Each channel belongs   *)
(* to one UE at one gNodeB: the request that brings it, later the context  *)
(* that was made for the request, name them.                               *)

\* The scenario of the theorems below: AMFs that stay active, idle periods and
\* terminations at any time, Xn handovers or none; a handover goes to another gNodeB
\* (the templates start at least two for it, test-multi-ues-in-queue.go:43).
XnScenario == /\ "n2" \notin Timers /\ AmfMayFail = FALSE
              /\ "xn" \in Timers => \A g \in Gnb : NextGnb[g] # g

Away(u) == NextGnb[HomeGnb[u]]
Owner(u, g, k) ==
    \/ \E c \in Live : ctx[c].rx = k /\ ctx[c].pr = u /\ ctx[c].gnb = g
    \/ inbound[g] # Nil /\ inbound[g].conn = k /\ inbound[g].pr = u

RxHeld  == \A c \in Live : /\ ctx[c].rx \in Conn /\ ctx[c].rx <= nconn
                           /\ ctx[c].tx \in {ctx[c].rx, Nil}
RxOne   == \A c, d \in Live : ctx[c].rx = ctx[d].rx => c = d
RxApart == \A g \in Gnb, c \in Live : inbound[g] # Nil => ctx[c].rx # inbound[g].conn
RxInv   == RxHeld /\ RxOne /\ RxApart

\* The owners of a step: as before, or with the channel of a new request as well.
OwnSame == \A u \in UE, g \in Gnb, k \in Conn : Owner(u, g, k)' <=> Owner(u, g, k)
OwnGain(h, q) == \A u \in UE, g \in Gnb, k \in Conn :
    Owner(u, g, k)' <=> Owner(u, g, k) \/ (u = q.pr /\ g = h /\ k = nconn + 1)

LEMMA OwnerOne ==
  ASSUME TypeOK, TxInv, RxInv, NEW u, NEW v, NEW g \in Gnb, NEW h \in Gnb, NEW k,
         Owner(u, g, k), Owner(v, h, k)
  PROVE  u = v /\ g = h
  BY DEF Owner, TxInv, OneRq, RxInv, RxOne, RxApart

LEMMA OwnerOld ==
  ASSUME TypeOK, TxInv, RxInv, NEW u, NEW g \in Gnb, NEW k, Owner(u, g, k)
  PROVE  k \in Conn /\ k <= nconn
  BY TxTypes DEF Owner, TxInv, HeldRq, RxInv, RxHeld

\* What both shapes have in common that leave the contexts and the requests there.
Still == /\ Live' = Live /\ UNCHANGED <<nconn, inbound>>
         /\ \A d \in Live : /\ ctx'[d].gnb = ctx[d].gnb /\ ctx'[d].ran = ctx[d].ran
                            /\ ctx'[d].pr = ctx[d].pr /\ ctx'[d].rx = ctx[d].rx
                            /\ ctx'[d].tx \in {ctx[d].tx, Nil}

LEMMA KeepStill == Keep /\ Quiet => Still
  BY DEF Keep, Quiet, Still, Same, Live
LEMMA DropStill == ASSUME NEW c, Drop(c), Quiet PROVE Still
  BY DEF Drop, Quiet, Still, Live

LEMMA StillOwn == ASSUME TypeOK, Still PROVE OwnSame
  BY DEF OwnSame, Owner, Still
LEMMA StillRx == ASSUME TypeOK, Still, RxInv PROVE RxInv'
<1>1. RxHeld' /\ RxOne'
  BY DEF Still, RxInv, RxHeld, RxOne
<1>2. RxApart'
  BY DEF Still, RxInv, RxApart
<1> QED BY <1>1, <1>2 DEF RxInv

LEMMA ReqNotNil == ASSUME TypeOK, NEW q \in ReqRec PROVE q # Nil
<1>1. /\ q = Request(q.conn, q.pr, q.ho, q.from) /\ q.conn \in Conn /\ q.pr \in UE
      /\ q.ho \in BOOLEAN /\ q.from \in Live \cup {Nil}
  BY DEF ReqRec, Request
<1>2. q.from \in Ctx \cup {Nil}
  BY <1>1, LiveCtx DEF TypeOK
<1> QED BY <1>1, <1>2, NilAssumption

LEMMA AskOwn ==
  ASSUME TypeOK, Keep, NEW h \in Gnb, NEW q \in ReqRec, Ask(h, q) PROVE OwnGain(h, q)
<1>1. Live' = Live /\ \A d \in Live : Same(ctx[d], ctx'[d])
  BY DEF Keep, Live
<1>2. /\ inbound[h] = Nil /\ q.conn = nconn + 1 /\ q # Nil
      /\ \A g \in Gnb : inbound'[g] = IF g = h THEN q ELSE inbound[g]
  BY ReqNotNil DEF Ask, TypeOK, TaskTypeOK
<1> QED BY <1>1, <1>2 DEF OwnGain, Owner, Same

LEMMA AskRx ==
  ASSUME TypeOK, Keep, NEW h \in Gnb, NEW q \in ReqRec, Ask(h, q), RxInv PROVE RxInv'
<1>1. Live' = Live /\ \A d \in Live : ctx'[d].rx = ctx[d].rx /\ ctx'[d].tx = ctx[d].tx
  BY DEF Keep, Live, Same
<1>2. /\ nconn' = nconn + 1 /\ q.conn = nconn + 1
      /\ \A g \in Gnb : inbound'[g] = IF g = h THEN q ELSE inbound[g]
  BY DEF Ask, TypeOK, TaskTypeOK
<1>3. nconn \in Nat /\ \A k \in Conn : k \in Nat
  BY TxTypes
<1>4. \A d \in Live : ctx[d].rx \in Conn /\ ctx[d].rx <= nconn /\ ctx[d].rx # nconn + 1 /\ ctx[d].rx <= nconn + 1
  BY <1>3 DEF RxInv, RxHeld
<1>5. RxHeld'
  BY <1>1, <1>2, <1>4 DEF RxInv, RxHeld
<1>6. RxOne' /\ RxApart'
  BY <1>1, <1>2, <1>4 DEF RxInv, RxOne, RxApart
<1> QED BY <1>5, <1>6 DEF RxInv

\* A request becomes a context that belongs to the same UE at the same gNodeB.
LEMMA NewOwn ==
  ASSUME TypeOK, NEW g \in Gnb, inbound[g] \in ReqRec, NEW n, New(g, inbound[g], n),
         inbound' = [inbound EXCEPT ![g] = Nil]
  PROVE  OwnSame
<1>c. PICK c : c = nctx + 1
  OBVIOUS
<1>m. PICK m : m = inbound[g]
  OBVIOUS
<1>1. /\ Live' = Live \cup {c} /\ ctx'[c].rx = m.conn /\ ctx'[c].pr = m.pr /\ ctx'[c].gnb = g
      /\ c \notin Live /\ \A d \in Live : ctx'[d] = ctx[d]
  BY <1>c, <1>m, GrowTx DEF New, Grow
<1>2. \A h \in Gnb : inbound'[h] = IF h = g THEN Nil ELSE inbound[h]
  BY DEF TypeOK, TaskTypeOK
<1>3. m # Nil
  BY <1>m, ReqNotNil
<1> QED BY <1>1, <1>2, <1>3, <1>m DEF OwnSame, Owner

LEMMA NewRx ==
  ASSUME TypeOK, TxInv, NEW g \in Gnb, inbound[g] \in ReqRec, NEW n, New(g, inbound[g], n),
         inbound' = [inbound EXCEPT ![g] = Nil], UNCHANGED nconn, RxInv
  PROVE  RxInv'
<1>c. PICK c : c = nctx + 1
  OBVIOUS
<1>k. PICK k : k = inbound[g].conn
  OBVIOUS
<1>1. /\ Live' = Live \cup {c} /\ ctx'[c].rx = k /\ ctx'[c].tx = k
      /\ c \notin Live /\ \A d \in Live : ctx'[d] = ctx[d]
  BY <1>c, <1>k, GrowTx DEF New
<1>2. \A h \in Gnb : inbound'[h] = IF h = g THEN Nil ELSE inbound[h]
  BY DEF TypeOK, TaskTypeOK
<1>3. inbound[g] # Nil /\ k \in Conn /\ k <= nconn
  BY <1>k, ReqNotNil, TxTypes DEF TxInv, HeldRq
<1>4. \A d \in Live : ctx[d].rx # k
  BY <1>k, <1>3 DEF RxInv, RxApart
<1>5. RxHeld'
  BY <1>1, <1>3 DEF RxInv, RxHeld
<1>6. RxOne'
  BY <1>1, <1>4 DEF RxInv, RxOne
<1>7. RxApart'
  <2>1. \A h \in Gnb : h # g /\ inbound[h] # Nil => inbound[h].conn # k
    BY <1>k, <1>3 DEF TxInv, OneRq
  <2> QED BY <1>1, <1>2, <2>1 DEF RxInv, RxApart
<1> QED BY <1>5, <1>6, <1>7 DEF RxInv

\* A handover of u to gNodeB h with channel k that was really started.
Ordered(u, k, h) == h = Away(u) /\ Owner(u, Away(u), k) /\ "xn" \in Timers \ timers[u]
Elems(s) == {s[i] : i \in 1..Len(s)}

\* Until its handover a UE and all its contexts are at its first gNodeB.
HomeInv ==
    /\ \A u \in UE : "xn" \in timers[u] => cell[u] = HomeGnb[u] /\ ueGnb[u] = HomeGnb[u]
    /\ \A c \in Live : "xn" \in timers[ctx[c].pr] => ctx[c].gnb = HomeGnb[ctx[c].pr]
\* A handover request comes to a gNodeB that does not know the UE yet.
HoReq == \A g \in Gnb : inbound[g] # Nil /\ inbound[g].ho =>
    /\ g = Away(inbound[g].pr) /\ "xn" \notin timers[inbound[g].pr]
    /\ prUePool[g][inbound[g].pr] = Nil
\* The UE of any other request waits for the answer to it.
ConnReq == \A g \in Gnb : inbound[g] # Nil /\ ~inbound[g].ho =>
    /\ g = ueGnb[inbound[g].pr] /\ ueTx[inbound[g].pr] = inbound[g].conn
    /\ ueState[inbound[g].pr] = "wait" /\ txq[inbound[g].conn] = <<>>
\* A UE reads a channel of its own, at the gNodeB it believes to be on.
UeTxInv == \A u \in UE, g \in Gnb, k \in Conn : ueGnb[u] = g /\ ueTx[u] = k => Owner(u, g, k)
\* An order, still to be sent or under way, is for the UE of the source context.
OrderInv == \A c \in Live, u \in UE, k \in Conn, h \in Gnb :
    <<c, k, h>> \in sends /\ ctx[c].pr = u => ctx[c].gnb = HomeGnb[u] /\ Ordered(u, k, h)
MsgInv == \A u \in UE, g \in Gnb, k \in Conn : Owner(u, g, k) =>
    \A e \in Elems(txq[k]) : e.type = "switch" => g = HomeGnb[u] /\ Ordered(u, e.conn, e.gnb)
EmptyInv == \A k \in Conn : k > nconn => txq[k] = <<>>

\* The context that serves a UE, or will serve it after its handover, is found.
FoundInv == \A c \in Live :
    /\ uePool[ctx[c].gnb][ctx[c].ran] = c /\ ctx[c].tx # Nil
    /\ \/ ueTx[ctx[c].pr] = ctx[c].tx
       \/ "xn" \in Timers /\ ctx[c].gnb = Away(ctx[c].pr) /\ ueGnb[ctx[c].pr] = HomeGnb[ctx[c].pr]
    => prUePool[ctx[c].gnb][ctx[c].pr] = c
\* A context whose channel is open holds it and is in the UE pool.
OpenInv == \A c \in Live : txOpen[ctx[c].rx] =>
    ctx[c].tx = ctx[c].rx /\ uePool[ctx[c].gnb][ctx[c].ran] = c

LinkInv == HomeInv /\ HoReq /\ ConnReq /\ UeTxInv /\ OrderInv /\ MsgInv /\ EmptyInv

LEMMA AppendElems ==
  ASSUME NEW S, NEW s \in Seq(S), NEW e \in S PROVE Elems(Append(s, e)) \subseteq Elems(s) \cup {e}
  BY DEF Elems
LEMMA TailElems ==
  ASSUME NEW S, NEW s \in Seq(S), s # <<>>
  PROVE  Elems(Tail(s)) \subseteq Elems(s) /\ Head(s) \in Elems(s)
<1>1. Len(s) \in Nat /\ Len(s) # 0 /\ Head(s) = s[1]
  OBVIOUS
<1>2. Head(s) \in Elems(s)
  BY <1>1 DEF Elems
<1>3. Len(Tail(s)) = Len(s) - 1 /\ \A i \in 1..(Len(s) - 1) : Tail(s)[i] = s[i + 1]
  BY <1>1
<1>4. \A i \in 1..(Len(s) - 1) : i + 1 \in 1..Len(s)
  BY <1>1
<1>5. Elems(Tail(s)) \subseteq Elems(s)
  BY <1>3, <1>4 DEF Elems
<1> QED BY <1>2, <1>5
LEMMA EmptyElems == ASSUME NEW s, s = <<>> PROVE Elems(s) = {}
  BY DEF Elems

More == \A u \in UE, g \in Gnb, k \in Conn : Owner(u, g, k) => Owner(u, g, k)'
Fewer == \A u \in UE : "xn" \in timers'[u] => "xn" \in timers[u]
SamePlace == \A d \in Live : ctx'[d].gnb = ctx[d].gnb /\ ctx'[d].pr = ctx[d].pr
LEMMA SameMore == OwnSame => More
  BY DEF OwnSame, More
LEMMA GainMore == ASSUME NEW h, NEW q, OwnGain(h, q) PROVE More
  BY DEF OwnGain, More

LEMMA AwayGnb == ASSUME NEW u \in UE PROVE HomeGnb[u] \in Gnb /\ Away(u) \in Gnb
  BY ConstAssumption DEF Away

LEMMA OrderedMore ==
  ASSUME More, Fewer, NEW u \in UE, NEW k \in Conn, NEW h, Ordered(u, k, h) PROVE Ordered(u, k, h)'
<1>1. Owner(u, Away(u), k)'
  BY AwayGnb DEF More, Ordered
<1>2. "xn" \in Timers \ timers'[u]
  BY DEF Fewer, Ordered
<1> QED BY <1>1, <1>2 DEF Ordered, Away

LEMMA LivePr == ASSUME TypeOK, NEW c \in Live PROVE ctx[c].pr \in UE /\ ctx[c].gnb \in Gnb /\ ctx[c].ran \in Ran
  BY DEF TypeOK, GnbTypeOK

LEMMA OrderFrame ==
  ASSUME TypeOK, OrderInv, More, Fewer, SamePlace, NoOrder PROVE OrderInv'
<1> SUFFICES ASSUME NEW c \in Live', NEW u \in UE, NEW k \in Conn, NEW h \in Gnb,
                    <<c, k, h>> \in sends', ctx'[c].pr = u
             PROVE  ctx'[c].gnb = HomeGnb[u] /\ Ordered(u, k, h)'
  BY DEF OrderInv
<1>1. <<c, k, h>> \in sends /\ c \in Live
  <2>1. <<c, k, h>> \in sends
    BY DEF NoOrder
  <2> QED BY <2>1 DEF TypeOK, TaskTypeOK, SendRec
<1>2. ctx'[c].gnb = ctx[c].gnb /\ ctx'[c].pr = ctx[c].pr
  BY <1>1 DEF SamePlace
<1>3. ctx[c].gnb = HomeGnb[u] /\ Ordered(u, k, h)
  BY <1>1, <1>2 DEF OrderInv
<1> QED BY <1>2, <1>3, OrderedMore

LEMMA SwitchType ==
  ASSUME TypeOK, NEW k \in Conn, NEW e \in Elems(txq[k]), e.type = "switch"
  PROVE  e.conn \in Conn /\ e.gnb \in Gnb
<1>1. txq[k] \in Seq(ToUe)
  BY DEF TypeOK, ChanTypeOK
<1>2. e \in ToUe
  BY <1>1 DEF Elems
<1> QED BY <1>2 DEF ToUe, Accepted, Content, Switch

LEMMA MsgFrame ==
  ASSUME TypeOK, MsgInv, OwnSame, Fewer,
         \A k \in Conn : \A e \in Elems(txq'[k]) : e \in Elems(txq[k]) \/ e.type # "switch"
  PROVE  MsgInv'
<1> SUFFICES ASSUME NEW u \in UE, NEW g \in Gnb, NEW k \in Conn, Owner(u, g, k)',
                    NEW e \in Elems(txq'[k]), e.type = "switch"
             PROVE  g = HomeGnb[u] /\ Ordered(u, e.conn, e.gnb)'
  BY DEF MsgInv, Elems
<1>1. Owner(u, g, k) /\ e \in Elems(txq[k])
  BY DEF OwnSame
<1>2. g = HomeGnb[u] /\ Ordered(u, e.conn, e.gnb)
  BY <1>1 DEF MsgInv
<1>3. PICK j \in Conn, h \in Gnb : j = e.conn /\ h = e.gnb
  BY <1>1, SwitchType
<1>4. Ordered(u, j, h)'
  BY <1>2, <1>3, SameMore, OrderedMore
<1> QED BY <1>2, <1>3, <1>4

\* The steps of the AMF and of the goroutines, and those of a UE that is not waiting.
LEMMA LinkFrame ==
  ASSUME TypeOK, LinkInv, Still, UNCHANGED <<txq, ueGnb, ueTx, cell>>, NoOrder,
         \A u \in UE : "xn" \in timers'[u] <=> "xn" \in timers[u],
         \A u \in UE : ueState[u] = "wait" => ueState'[u] = "wait",
         \A g \in Gnb, u \in UE : prUePool'[g][u] \in {prUePool[g][u], Nil}
  PROVE  LinkInv'
<1>1. OwnSame /\ More /\ Fewer /\ SamePlace
  BY StillOwn, SameMore DEF Fewer, SamePlace, Still
<1>2. OrderInv'
  BY <1>1, OrderFrame DEF LinkInv
<1>3. MsgInv'
  BY <1>1, MsgFrame DEF LinkInv
<1>4. UNCHANGED <<nconn, inbound>> /\ Live' = Live
  BY DEF Still
<1>5. \A g \in Gnb : inbound[g] # Nil => inbound[g].pr \in UE /\ inbound[g].conn \in Conn
  BY DEF TypeOK, TaskTypeOK, ReqRec
<1>6. HomeInv'
  BY <1>1, <1>4, LivePr DEF LinkInv, HomeInv, SamePlace
<1>7. HoReq'
  BY <1>4, <1>5 DEF LinkInv, HoReq, Away
<1>8. ConnReq'
  BY <1>4, <1>5 DEF LinkInv, ConnReq
<1>9. UeTxInv'
  BY <1>1 DEF LinkInv, UeTxInv, More
<1>10. EmptyInv'
  BY <1>4 DEF LinkInv, EmptyInv
<1> QED BY <1>2, <1>3, <1>6, <1>7, <1>8, <1>9, <1>10 DEF LinkInv

LEMMA MsgAsk ==
  ASSUME TypeOK, MsgInv, EmptyInv, NEW h \in Gnb, NEW q \in ReqRec, OwnGain(h, q), Fewer,
         nconn + 1 \in Conn, UNCHANGED txq
  PROVE  MsgInv'
<1> SUFFICES ASSUME NEW u \in UE, NEW g \in Gnb, NEW k \in Conn, Owner(u, g, k)',
                    NEW e \in Elems(txq[k]), e.type = "switch"
             PROVE  g = HomeGnb[u] /\ Ordered(u, e.conn, e.gnb)'
  BY DEF MsgInv
<1>1. txq[nconn + 1] = <<>>
  BY TxTypes DEF EmptyInv
<1>2. k # nconn + 1
  BY <1>1, EmptyElems
<1>3. Owner(u, g, k)
  BY <1>2 DEF OwnGain
<1>4. g = HomeGnb[u] /\ Ordered(u, e.conn, e.gnb)
  BY <1>3 DEF MsgInv
<1>5. PICK j \in Conn, i \in Gnb : j = e.conn /\ i = e.gnb
  BY SwitchType
<1>6. Ordered(u, j, i)'
  BY <1>4, <1>5, GainMore, OrderedMore
<1> QED BY <1>4, <1>5, <1>6

LEMMA InboundType == ASSUME TypeOK, NEW g \in Gnb, inbound[g] # Nil
                     PROVE  inbound[g] \in ReqRec /\ inbound[g].pr \in UE /\ inbound[g].conn \in Conn
  BY DEF TypeOK, TaskTypeOK, ReqRec

LEMMA InitConnLink ==
  ASSUME TypeOK, LinkInv, NEW u \in UE, InitConn(u) PROVE LinkInv'
<1>g. PICK g \in Gnb : g = ueGnb[u]
  BY DEF TypeOK, UeTypeOK
<1>q. PICK q \in ReqRec : q = Request(nconn + 1, u, FALSE, Nil)
  BY InitConnAsk
<1>k. PICK k : k = nconn + 1
  OBVIOUS
<1>1. Ask(g, q) /\ Keep
  BY <1>g, <1>q, InitConnAsk, UeShape
<1>2. q.pr = u /\ ~q.ho /\ q.conn = k /\ k \in Conn
  BY <1>q, <1>k DEF Request, ReqRec
<1>3. OwnGain(g, q) /\ More
  BY <1>1, AskOwn, GainMore
<1>4. /\ UNCHANGED <<txq, ueGnb, cell, sends, prUePool, timers>> /\ ueState[u] # "wait"
      /\ \A v \in UE : ueTx'[v] = IF v = u THEN k ELSE ueTx[v]
      /\ \A v \in UE : ueState'[v] = IF v = u THEN "wait" ELSE ueState[v]
  BY <1>k DEF InitConn, gnbVars, scnVars, TypeOK, UeTypeOK
<1>5. /\ Live' = Live /\ SamePlace /\ inbound[g] = Nil
      /\ \A h \in Gnb : inbound'[h] = IF h = g THEN q ELSE inbound[h]
      /\ nconn' = k
  BY <1>1, <1>k DEF Keep, Live, Same, SamePlace, Ask, TypeOK, TaskTypeOK
<1>6. HomeInv'
  BY <1>4, <1>5, LivePr DEF LinkInv, HomeInv, SamePlace
<1>7. HoReq'
  BY <1>2, <1>4, <1>5 DEF LinkInv, HoReq, Away
<1>8. ConnReq'
  <2>1. txq[k] = <<>>
    BY <1>2, <1>k, TxTypes DEF LinkInv, EmptyInv
  <2>2. ASSUME NEW h \in Gnb, inbound[h] # Nil, ~inbound[h].ho
        PROVE  /\ inbound[h].pr \in UE /\ inbound[h].pr # u
               /\ h = ueGnb[inbound[h].pr] /\ ueTx[inbound[h].pr] = inbound[h].conn
               /\ ueState[inbound[h].pr] = "wait" /\ txq[inbound[h].conn] = <<>>
    BY <2>2, <1>4, InboundType DEF LinkInv, ConnReq
  <2> QED BY <1>2, <1>4, <1>5, <1>g, <2>1, <2>2 DEF ConnReq
<1>9. UeTxInv'
  <2>1. Owner(u, g, k)'
    BY <1>2, <1>3, <1>k DEF OwnGain
  <2> QED BY <1>2, <1>3, <1>4, <1>g, <2>1 DEF LinkInv, UeTxInv, More
<1>10. Fewer /\ NoOrder
  BY <1>4, TellNoOrder DEF Fewer
<1>11. OrderInv'
  BY <1>3, <1>5, <1>10, OrderFrame DEF LinkInv
<1>12. MsgInv'
  BY <1>2, <1>3, <1>4, <1>10, <1>k, MsgAsk DEF LinkInv
<1>13. EmptyInv'
  BY <1>4, <1>5, <1>k, TxTypes DEF LinkInv, EmptyInv
<1> QED BY <1>6, <1>7, <1>8, <1>9, <1>11, <1>12, <1>13 DEF LinkInv

LEMMA TriggerXnLink ==
  ASSUME TypeOK, LinkInv, PoolInv, NEW u \in UE, TriggerXnHandover(u), XnScenario PROVE LinkInv'
<1>1. /\ "xn" \in timers[u] /\ cell[u] = HomeGnb[u] /\ ueGnb[u] = HomeGnb[u]
      /\ \A v \in UE : "xn" \in timers'[v] <=> v # u /\ "xn" \in timers[v]
      /\ \A v \in UE : v # u => cell'[v] = cell[v]
  BY DEF TriggerXnHandover, Fire, LinkInv, HomeInv, TypeOK, UeTypeOK
<1>2. Keep /\ Fewer
  BY <1>1, UeShape DEF Fewer
<1>3. UNCHANGED <<txq, ueGnb, ueTx, ueState, prUePool>>
  BY DEF TriggerXnHandover, ueVars, gnbVars
<1>4. Live' = Live /\ SamePlace
  BY <1>2 DEF Keep, Live, Same, SamePlace
<1>5. HomeInv'
  BY <1>1, <1>3, <1>4, LivePr DEF LinkInv, HomeInv, SamePlace
<1>6. CASE Quiet /\ UNCHANGED sends
  <2>1. UNCHANGED <<nconn, inbound>> /\ OwnSame
    BY <1>2, <1>6, KeepStill, StillOwn DEF Quiet
  <2>2. OrderInv'
    BY <1>2, <1>4, <1>6, <2>1, SameMore, OrderFrame, TellNoOrder DEF LinkInv
  <2>3. MsgInv'
    BY <1>2, <1>3, <2>1, MsgFrame DEF LinkInv
  <2>4. HoReq' /\ ConnReq' /\ EmptyInv'
    <3>1. HoReq'
      BY <1>1, <1>3, <2>1, InboundType DEF LinkInv, HoReq, Away
    <3>2. ConnReq' /\ EmptyInv'
      BY <1>3, <2>1 DEF LinkInv, ConnReq, EmptyInv
    <3> QED BY <3>1, <3>2
  <2>5. UeTxInv'
    BY <1>3, <2>1 DEF LinkInv, UeTxInv, OwnSame
  <2> QED BY <1>5, <2>2, <2>3, <2>4, <2>5 DEF LinkInv
<1>7. CASE ~(Quiet /\ UNCHANGED sends)
  <2>c. PICK c \in Live : c = prUePool[cell[u]][u] /\ c # Nil
    BY <1>7, TriggerXnAsk
  <2>g. PICK g \in Gnb : g = Away(u)
    BY AwayGnb
  <2>k. PICK k : k = nconn + 1
    OBVIOUS
  <2>q. PICK q \in ReqRec : q = Request(nconn + 1, u, TRUE, c)
    BY <1>7, <2>c, TriggerXnAsk
  <2>1. Ask(g, q) /\ sends' = sends \cup {<<c, k, g>>}
    BY <1>1, <1>7, <2>c, <2>g, <2>k, <2>q, TriggerXnAsk DEF Away
  <2>2. q.pr = u /\ q.ho /\ q.conn = k /\ k \in Conn
    BY <2>q, <2>k DEF Request, ReqRec
  <2>3. OwnGain(g, q) /\ More
    BY <1>2, <2>1, AskOwn, GainMore
  <2>4. /\ inbound[g] = Nil /\ \A h \in Gnb : inbound'[h] = IF h = g THEN q ELSE inbound[h]
        /\ nconn' = k
    BY <2>1, <2>k DEF Ask, TypeOK, TaskTypeOK
  <2>5. ctx[c].gnb = HomeGnb[u] /\ ctx[c].pr = u
    BY <1>1, <2>c, AwayGnb DEF PoolInv
  <2>6. prUePool[g][u] = Nil
    <3>1. ASSUME prUePool[g][u] # Nil PROVE FALSE
      <4>1. PICK d : d = prUePool[g][u]
        OBVIOUS
      <4>2. d \in Live /\ ctx[d].gnb = g /\ ctx[d].pr = u
        BY <3>1, <4>1 DEF PoolInv, TypeOK, GnbTypeOK
      <4>3. g = HomeGnb[u]
        BY <1>1, <4>2 DEF LinkInv, HomeInv
      <4>4. "xn" \in Timers
        BY <1>1 DEF TypeOK, UeTypeOK
      <4> QED BY <4>3, <4>4, <2>g, AwayGnb DEF XnScenario, Away
    <3> QED BY <3>1
  <2>7. HoReq'
    <3>1. ASSUME NEW h \in Gnb, inbound[h] # Nil, inbound[h].ho
          PROVE  /\ inbound[h].pr \in UE /\ h = Away(inbound[h].pr)
                 /\ "xn" \notin timers[inbound[h].pr] /\ prUePool[h][inbound[h].pr] = Nil
      BY <3>1, InboundType DEF LinkInv, HoReq
    <3> QED BY <1>1, <1>3, <2>2, <2>4, <2>6, <2>g, <3>1 DEF HoReq, Away
  <2>8. ConnReq'
    BY <1>3, <2>2, <2>4 DEF LinkInv, ConnReq
  <2>9. UeTxInv'
    BY <1>3, <2>3 DEF LinkInv, UeTxInv, More
  <2>10. OrderInv'
    <3> SUFFICES ASSUME NEW d \in Live', NEW v \in UE, NEW j \in Conn, NEW h \in Gnb,
                        <<d, j, h>> \in sends', ctx'[d].pr = v
                 PROVE  ctx'[d].gnb = HomeGnb[v] /\ Ordered(v, j, h)'
      BY DEF OrderInv
    <3>1. d \in Live /\ ctx'[d].gnb = ctx[d].gnb /\ ctx'[d].pr = ctx[d].pr
      BY <1>4 DEF SamePlace
    <3>2. CASE <<d, j, h>> \in sends
      <4>1. ctx[d].gnb = HomeGnb[v] /\ Ordered(v, j, h)
        BY <3>1, <3>2 DEF LinkInv, OrderInv
      <4> QED BY <1>2, <2>3, <3>1, <4>1, OrderedMore
    <3>3. CASE <<d, j, h>> = <<c, k, g>>
      <4>1. d = c /\ j = k /\ h = g /\ v = u
        BY <2>5, <3>1, <3>3
      <4>2. Owner(u, Away(u), k)'
        BY <2>2, <2>3, <2>g, <2>k DEF OwnGain
      <4>3. "xn" \in Timers \ timers'[u]
        BY <1>1 DEF TypeOK, UeTypeOK
      <4>4. Ordered(u, k, g)'
        BY <2>g, <4>2, <4>3 DEF Ordered, Away
      <4> QED BY <2>5, <3>1, <4>1, <4>4
    <3> QED BY <2>1, <3>2, <3>3
  <2>11. MsgInv'
    BY <1>2, <1>3, <2>2, <2>3, <2>k, MsgAsk DEF LinkInv
  <2>12. EmptyInv'
    BY <1>3, <2>4, <2>k, TxTypes DEF LinkInv, EmptyInv
  <2> QED BY <1>5, <2>7, <2>8, <2>9, <2>10, <2>11, <2>12 DEF LinkInv
<1> QED BY <1>6, <1>7

LEMMA SendToUeLink ==
  ASSUME TypeOK, LinkInv, TxInv, RxInv, NEW o \in sends, SendToUe(o) PROVE LinkInv'
<1>1. Keep /\ Quiet /\ UNCHANGED <<ueGnb, ueTx, ueState, cell, timers, prUePool>>
  BY OtherShape DEF SendToUe, ueVars, scnVars, gnbVars
<1>2. Still /\ OwnSame /\ More /\ Fewer /\ SamePlace
  BY <1>1, KeepStill, StillOwn, SameMore DEF Fewer, SamePlace, Still
<1>3. UNCHANGED <<nconn, inbound>> /\ Live' = Live
  BY <1>2 DEF Still
<1>4. NoOrder
  BY TellNoOrder DEF SendToUe
<1>5. OrderInv'
  BY <1>2, <1>4, OrderFrame DEF LinkInv
<1>6. HomeInv'
  BY <1>1, <1>2, <1>3, LivePr DEF LinkInv, HomeInv, SamePlace
<1>7. HoReq'
  BY <1>1, <1>3 DEF LinkInv, HoReq, Away
<1>8. UeTxInv'
  BY <1>1, <1>2 DEF LinkInv, UeTxInv, More
<1>9. CASE UNCHANGED txq
  <2>1. ConnReq' /\ EmptyInv'
    BY <1>1, <1>3, <1>9 DEF LinkInv, ConnReq, EmptyInv
  <2>2. MsgInv'
    BY <1>2, <1>9, MsgFrame DEF LinkInv
  <2> QED BY <1>5, <1>6, <1>7, <1>8, <2>1, <2>2 DEF LinkInv
<1>10. CASE ~UNCHANGED txq
  <2>c. PICK c \in Live : c = o[1]
    BY DEF TypeOK, TaskTypeOK, SendRec
  <2>k. PICK k : k = ctx[c].tx
    OBVIOUS
  <2>e. PICK e : e = IF o[2] = Nil THEN Content ELSE Switch(o[2], o[3])
    OBVIOUS
  <2>1. k # Nil /\ txq' = [txq EXCEPT ![k] = Append(txq[k], e)]
    BY <1>10, <2>c, <2>k, <2>e DEF SendToUe, Send
  <2>2. k \in Conn /\ k <= nconn /\ ctx[c].rx = k
    BY <2>1, <2>k, TxTypes DEF TxInv, HeldTx, RxInv, RxHeld
  <2>3. /\ e \in ToUe
        /\ e.type = "switch" => \E j \in Conn, h \in Gnb : o = <<c, j, h>> /\ e.conn = j /\ e.gnb = h
    <3>1. CASE o[2] = Nil
      BY <2>e, <3>1 DEF ToUe, Content
    <3>2. CASE o[2] # Nil
      <4>1. PICK j \in Conn, h \in Gnb : o = <<c, j, h>>
        BY <2>c, <3>2 DEF TypeOK, TaskTypeOK, SendRec
      <4>2. o[2] = j /\ o[3] = h
        BY <4>1
      <4>3. e = Switch(j, h)
        BY <2>e, <3>2, <4>2
      <4> QED BY <4>1, <4>3 DEF ToUe, Switch
    <3> QED BY <3>1, <3>2
  <2>4. txq[k] \in Seq(ToUe) /\ \A i \in Conn : txq'[i] = IF i = k THEN Append(txq[k], e) ELSE txq[i]
    BY <2>1, <2>2 DEF TypeOK, ChanTypeOK
  <2>5. Elems(Append(txq[k], e)) \subseteq Elems(txq[k]) \cup {e}
    BY <2>3, <2>4, AppendElems
  <2>u. PICK u \in UE : u = ctx[c].pr
    BY LivePr
  <2>6. ASSUME NEW j \in Conn, NEW h \in Gnb, o = <<c, j, h>>
        PROVE  ctx[c].gnb = HomeGnb[u] /\ Ordered(u, j, h) /\ Owner(u, HomeGnb[u], k)
    <3>1. ctx[c].gnb = HomeGnb[u] /\ Ordered(u, j, h)
      BY <2>6, <2>u DEF LinkInv, OrderInv
    <3>2. Owner(u, HomeGnb[u], k)
      BY <2>2, <2>u, <3>1 DEF Owner
    <3> QED BY <3>1, <3>2
  <2>7. MsgInv'
    <3> SUFFICES ASSUME NEW v \in UE, NEW g \in Gnb, NEW i \in Conn, Owner(v, g, i)',
                        NEW f \in Elems(txq'[i]), f.type = "switch"
                 PROVE  g = HomeGnb[v] /\ Ordered(v, f.conn, f.gnb)'
      BY DEF MsgInv, Elems
    <3>1. Owner(v, g, i)
      BY <1>2 DEF OwnSame
    <3>2. CASE f \in Elems(txq[i])
      <4>1. g = HomeGnb[v] /\ Ordered(v, f.conn, f.gnb)
        BY <3>1, <3>2 DEF LinkInv, MsgInv
      <4>2. PICK a \in Conn, b \in Gnb : a = f.conn /\ b = f.gnb
        BY <3>2, SwitchType
      <4>3. Ordered(v, a, b)'
        BY <1>2, <4>1, <4>2, OrderedMore
      <4> QED BY <4>1, <4>2, <4>3
    <3>3. CASE f \notin Elems(txq[i])
      <4>1. i = k /\ f = e
        BY <2>4, <2>5, <3>3
      <4>j. PICK j \in Conn, h \in Gnb : o = <<c, j, h>> /\ f.conn = j /\ f.gnb = h
        BY <2>3, <4>1
      <4>2. v = u /\ g = HomeGnb[u]
        BY <2>6, <3>1, <4>1, <4>j, OwnerOne, AwayGnb
      <4>3. Ordered(u, j, h)'
        BY <1>2, <2>6, <4>j, OrderedMore
      <4> QED BY <4>2, <4>3, <4>j
    <3> QED BY <3>2, <3>3
  <2>8. ConnReq'
    <3>1. \A g \in Gnb : inbound[g] # Nil => inbound[g].conn # k /\ inbound[g].conn \in Conn
      BY <2>k, InboundType DEF TxInv, Apart
    <3> QED BY <1>1, <1>3, <2>4, <3>1 DEF LinkInv, ConnReq
  <2>9. EmptyInv'
    <3>1. \A i \in Conn : i > nconn => i # k
      BY <2>2, TxTypes
    <3> QED BY <1>3, <2>4, <3>1 DEF LinkInv, EmptyInv
  <2> QED BY <1>5, <1>6, <1>7, <1>8, <2>7, <2>8, <2>9 DEF LinkInv
<1> QED BY <1>9, <1>10

LEMMA UeReceiveLink ==
  ASSUME TypeOK, LinkInv, TxInv, RxInv, NEW u \in UE, UeReceive(u) PROVE LinkInv'
<1>1. Keep /\ Quiet /\ UNCHANGED <<cell, timers, prUePool, sends>>
  BY UeShape DEF UeReceive, scnVars, gnbVars
<1>2. Still /\ OwnSame /\ More /\ Fewer /\ SamePlace
  BY <1>1, KeepStill, StillOwn, SameMore DEF Fewer, SamePlace, Still
<1>3. UNCHANGED <<nconn, inbound>> /\ Live' = Live
  BY <1>2 DEF Still
<1>4. OrderInv'
  BY <1>1, <1>2, OrderFrame, TellNoOrder DEF LinkInv
<1>5. HoReq'
  BY <1>1, <1>3 DEF LinkInv, HoReq, Away
<1>k. PICK k \in Conn : k = ueTx[u]
  BY DEF UeReceive, TypeOK, UeTypeOK
<1>g. PICK g \in Gnb : g = ueGnb[u]
  BY DEF TypeOK, UeTypeOK
<1>6. Owner(u, g, k)
  BY <1>k, <1>g DEF LinkInv, UeTxInv
<1>7. txq[k] \in Seq(ToUe)
  BY DEF TypeOK, ChanTypeOK
<1>8. \A v \in UE : v # u => ueTx'[v] = ueTx[v] /\ ueGnb'[v] = ueGnb[v] /\ ueState'[v] = ueState[v]
  BY DEF UeReceive, TypeOK, UeTypeOK
<1>9. /\ txq[k] # <<>> => \A i \in Conn : txq'[i] = IF i = k THEN Tail(txq[k]) ELSE txq[i]
      /\ txq[k] = <<>> => txq' = txq
  BY <1>k DEF UeReceive, TypeOK, ChanTypeOK
<1>10. \A i \in Conn : Elems(txq'[i]) \subseteq Elems(txq[i])
  <2>1. txq[k] # <<>> => Elems(Tail(txq[k])) \subseteq Elems(txq[k])
    BY <1>7, TailElems
  <2> QED BY <1>9, <2>1
<1>11. MsgInv'
  BY <1>2, <1>10, MsgFrame DEF LinkInv
<1>12. EmptyInv'
  <2>1. \A i \in Conn : i > nconn => i # k
    BY <1>6, OwnerOld, TxTypes
  <2> QED BY <1>3, <1>9, <2>1 DEF LinkInv, EmptyInv
\* The UE leaves the wait for an answer only when the request was handled.
<1>13. ASSUME NEW h \in Gnb, inbound[h] # Nil, ~inbound[h].ho
       PROVE  inbound[h].pr \in UE /\ inbound[h].pr # u /\ txq'[inbound[h].conn] = <<>>
  <2>1. /\ inbound[h].pr \in UE /\ inbound[h].conn \in Conn /\ txq[inbound[h].conn] = <<>>
        /\ ueState[inbound[h].pr] = "wait" /\ ueTx[inbound[h].pr] = inbound[h].conn
    BY <1>13, InboundType DEF LinkInv, ConnReq
  <2>2. txOpen[inbound[h].conn]
    BY <1>13 DEF TxInv, HeldRq
  <2>3. inbound[h].pr # u
    <3>1. ASSUME inbound[h].pr = u PROVE FALSE
      <4>1. txq[k] = <<>> /\ ueState[u] = "wait" /\ txOpen[k]
        BY <2>1, <2>2, <3>1, <1>k
      <4> QED BY <4>1, <1>k DEF UeReceive
    <3> QED BY <3>1
  <2>4. txq'[inbound[h].conn] = <<>>
    BY <1>9, <2>1
  <2> QED BY <2>1, <2>3, <2>4
<1>14. ConnReq'
  BY <1>3, <1>8, <1>13 DEF LinkInv, ConnReq
<1>15. CASE UNCHANGED ueGnb /\ ueTx'[u] \in {k, Nil}
  <2>1. HomeInv'
    BY <1>1, <1>2, <1>3, <1>15, LivePr DEF LinkInv, HomeInv, SamePlace
  <2>2. UeTxInv'
    BY <1>2, <1>8, <1>15, <1>k, TxTypes DEF LinkInv, UeTxInv, More
  <2> QED BY <1>4, <1>5, <1>11, <1>12, <1>14, <2>1, <2>2 DEF LinkInv
<1>16. CASE ~(UNCHANGED ueGnb /\ ueTx'[u] \in {k, Nil})
  <2>e. PICK e : e = Head(txq[k])
    OBVIOUS
  <2>1. txq[k] # <<>> /\ e.type = "switch" /\ ueTx'[u] = e.conn /\ ueGnb'[u] = e.gnb
    <3>1. ueTx \in [UE -> Conn \cup {Nil}] /\ ueGnb \in [UE -> Gnb]
      BY DEF TypeOK, UeTypeOK
    <3> QED BY <1>16, <1>k, <2>e, <3>1 DEF UeReceive
  <2>2. e \in Elems(txq[k])
    BY <1>7, <2>1, <2>e, TailElems
  <2>3. Ordered(u, e.conn, e.gnb)
    BY <1>6, <2>1, <2>2 DEF LinkInv, MsgInv
  <2>4. PICK j \in Conn, h \in Gnb : j = e.conn /\ h = e.gnb
    BY <2>1, <2>2, SwitchType
  <2>5. Owner(u, h, j)' /\ "xn" \notin timers[u]
    <3>1. Ordered(u, j, h) /\ Ordered(u, j, h)'
      BY <1>2, <2>3, <2>4, OrderedMore
    <3> QED BY <3>1 DEF Ordered, Away
  <2>6. HomeInv'
    BY <1>1, <1>2, <1>3, <1>8, <2>5, LivePr DEF LinkInv, HomeInv, SamePlace
  <2>7. UeTxInv'
    BY <1>2, <1>8, <2>1, <2>4, <2>5 DEF LinkInv, UeTxInv, More
  <2> QED BY <1>4, <1>5, <1>11, <1>12, <1>14, <2>6, <2>7 DEF LinkInv
<1> QED BY <1>15, <1>16

LEMMA ListenLink ==
  ASSUME TypeOK, LinkInv, TxInv, RxInv, NEW g \in Gnb, GnbListen(g), NEW n, New(g, inbound[g], n)
  PROVE  LinkInv'
<1>m. PICK m \in ReqRec : m = inbound[g] /\ m # Nil
  BY GnbListenShape DEF GnbListen
<1>c. PICK c : c = nctx + 1
  OBVIOUS
<1>1. /\ inbound' = [inbound EXCEPT ![g] = Nil] /\ UNCHANGED <<nconn, ueGnb, ueTx, ueState, cell, timers, sends>>
  BY DEF GnbListen, ueVars, scnVars
<1>2. OwnSame /\ More /\ Fewer
  BY <1>m, <1>1, NewOwn, SameMore DEF Fewer
<1>u. PICK u \in UE, k \in Conn : u = m.pr /\ k = m.conn
  BY DEF ReqRec
<1>3. /\ Live' = Live \cup {c} /\ ctx'[c].pr = u /\ ctx'[c].gnb = g
      /\ c \notin Live /\ \A d \in Live : ctx'[d] = ctx[d]
  BY <1>c, <1>m, <1>u, GrowTx DEF New, Grow
<1>4. \A h \in Gnb : inbound'[h] = IF h = g THEN Nil ELSE inbound[h]
  BY <1>1 DEF TypeOK, TaskTypeOK
<1>5. \A h \in Gnb, v \in UE : h # g => prUePool'[h][v] = prUePool[h][v]
  BY DEF New, Grow, NewGnBUe, TypeOK, GnbTypeOK
<1>6. k <= nconn /\ \A h \in Gnb : h # g /\ inbound[h] # Nil => inbound[h].conn # k
  BY <1>m, <1>u DEF TxInv, HeldRq, OneRq
<1>7. OrderInv'
  <2>1. SamePlace /\ NoOrder
    BY <1>1, <1>3, TellNoOrder DEF SamePlace
  <2> QED BY <1>2, <2>1, OrderFrame DEF LinkInv
<1>8. UeTxInv'
  BY <1>1, <1>2 DEF LinkInv, UeTxInv, More
<1>9. HomeInv'
  <2>1. "xn" \in timers[u] => g = HomeGnb[u]
    BY <1>m, <1>u DEF LinkInv, HoReq, ConnReq, HomeInv
  <2>2. \A v \in UE : "xn" \in timers[v] => cell[v] = HomeGnb[v] /\ ueGnb[v] = HomeGnb[v]
    BY DEF LinkInv, HomeInv
  <2>3. \A d \in Live : "xn" \in timers[ctx[d].pr] => ctx[d].gnb = HomeGnb[ctx[d].pr]
    BY DEF LinkInv, HomeInv
  <2> QED BY <1>1, <1>3, <2>1, <2>2, <2>3 DEF HomeInv
<1>10. HoReq'
  BY <1>1, <1>4, <1>5, InboundType DEF LinkInv, HoReq, Away
<1>11. txq[k] \in Seq(ToUe) /\ \A e \in {Accepted, Content} : e \in ToUe /\ e.type # "switch"
  BY DEF TypeOK, ChanTypeOK, ToUe, Accepted, Content
<1>12. PICK e \in {Accepted, Content} :
         \A i \in Conn : txq'[i] = txq[i] \/ (i = k /\ txq'[i] = Append(txq[k], e))
  BY <1>m, <1>u DEF GnbListen, ListenKnownUe, ListenNewUe, Send, TypeOK, ChanTypeOK
<1>13. MsgInv'
  <2>1. Elems(Append(txq[k], e)) \subseteq Elems(txq[k]) \cup {e}
    BY <1>11, AppendElems
  <2>2. \A i \in Conn : \A f \in Elems(txq'[i]) : f \in Elems(txq[i]) \/ f.type # "switch"
    BY <1>11, <1>12, <2>1
  <2> QED BY <1>2, <2>2, MsgFrame DEF LinkInv
<1>14. ConnReq'
  BY <1>1, <1>4, <1>6, <1>12, InboundType DEF LinkInv, ConnReq
<1>15. EmptyInv'
  <2>1. \A i \in Conn : i > nconn => i # k
    BY <1>6, TxTypes
  <2> QED BY <1>1, <1>12, <2>1 DEF LinkInv, EmptyInv
<1> QED BY <1>7, <1>8, <1>9, <1>10, <1>13, <1>14, <1>15 DEF LinkInv

\* FoundInv and OpenInv, shape by shape.
LEMMA KeepFound ==
  ASSUME TypeOK, Keep, FoundInv, OpenInv,
         \A c \in Live : /\ uePool[ctx[c].gnb][ctx[c].ran] = c /\ ctx[c].tx # Nil
                         /\ \/ ueTx'[ctx[c].pr] = ctx[c].tx
                            \/ /\ "xn" \in Timers /\ ctx[c].gnb = Away(ctx[c].pr)
                               /\ ueGnb'[ctx[c].pr] = HomeGnb[ctx[c].pr]
                         => prUePool[ctx[c].gnb][ctx[c].pr] = c
  PROVE  FoundInv' /\ OpenInv'
<1>1. Live' = Live /\ UNCHANGED <<uePool, prUePool, txOpen>>
  BY DEF Live, Keep
<1>2. \A d \in Live : /\ ctx'[d].gnb = ctx[d].gnb /\ ctx'[d].ran = ctx[d].ran /\ ctx'[d].pr = ctx[d].pr
                      /\ ctx'[d].rx = ctx[d].rx /\ ctx'[d].tx = ctx[d].tx
  BY DEF Keep, Same
<1>3. FoundInv'
  BY <1>1, <1>2 DEF FoundInv, Away
<1>4. OpenInv'
  BY <1>1, <1>2 DEF OpenInv
<1> QED BY <1>3, <1>4

LEMMA KeepFoundUe ==
  ASSUME TypeOK, Keep, FoundInv, OpenInv, UNCHANGED ueGnb,
         \A c \in Live : ctx[c].tx # Nil /\ ueTx'[ctx[c].pr] = ctx[c].tx => ueTx[ctx[c].pr] = ctx[c].tx
  PROVE  FoundInv' /\ OpenInv'
  BY KeepFound DEF FoundInv

LEMMA DropFound ==
  ASSUME TypeOK, RxInv, IdInv, FoundInv, OpenInv, NEW c \in Live, Drop(c), UNCHANGED <<ueTx, ueGnb>>
  PROVE  FoundInv' /\ OpenInv'
<1>1. Live' = Live
  BY DEF Live, Drop
<1>2. \A d \in Live : /\ ctx'[d].gnb = ctx[d].gnb /\ ctx'[d].ran = ctx[d].ran /\ ctx'[d].pr = ctx[d].pr
                      /\ ctx'[d].rx = ctx[d].rx /\ ctx'[d].tx = IF d = c THEN Nil ELSE ctx[d].tx
  BY DEF Drop
<1>3. \A g \in Gnb, r \in Ran : uePool'[g][r] = IF g = ctx[c].gnb /\ r = ctx[c].ran THEN Nil ELSE uePool[g][r]
  BY LivePr DEF Drop, TypeOK, GnbTypeOK
<1>4. \A g \in Gnb, u \in UE : prUePool[g][u] # c => prUePool'[g][u] = prUePool[g][u]
  BY LivePr DEF Drop, RemovePr, TypeOK, GnbTypeOK
<1>5. \A d \in Live : d # c => ~(ctx[d].gnb = ctx[c].gnb /\ ctx[d].ran = ctx[c].ran)
  BY DEF IdInv
<1>6. ASSUME NEW d \in Live, d # c PROVE uePool'[ctx[d].gnb][ctx[d].ran] = uePool[ctx[d].gnb][ctx[d].ran]
  BY <1>3, <1>5, <1>6, LivePr
<1>7. FoundInv'
  BY <1>1, <1>2, <1>4, <1>6, LivePr DEF FoundInv, Away
<1>8. \A k \in Conn : txOpen'[k] => txOpen[k] /\ k # ctx[c].tx
  <2>1. ctx[c].tx \in Conn \cup {Nil} /\ \A k \in Conn : k # Nil
    BY TxTypes
  <2>2. txOpen \in [Conn -> BOOLEAN]
    BY DEF TypeOK, ChanTypeOK
  <2>3. txOpen' = IF ctx[c].tx = Nil THEN txOpen ELSE [txOpen EXCEPT ![ctx[c].tx] = FALSE]
    BY DEF Drop
  <2> QED BY <2>1, <2>2, <2>3
<1>9. \A d \in Live : ctx[d].rx \in Conn /\ ctx[d].rx # Nil /\ ctx[d].tx \in {ctx[d].rx, Nil}
  BY TxTypes DEF RxInv, RxHeld
<1>10. ~txOpen'[ctx[c].rx]
  BY <1>8, <1>9 DEF OpenInv
<1>11. OpenInv'
  BY <1>1, <1>2, <1>6, <1>8, <1>9, <1>10 DEF OpenInv
<1> QED BY <1>7, <1>11

LEMMA NewFound ==
  ASSUME TypeOK, LinkInv, TxInv, RxInv, PoolInv, IdInv, FoundInv, OpenInv, XnScenario,
         NEW g \in Gnb, GnbListen(g), NEW n, New(g, inbound[g], n), UNCHANGED txOpen
  PROVE  FoundInv' /\ OpenInv'
<1>m. PICK m \in ReqRec : m = inbound[g] /\ m # Nil
  BY GnbListenShape DEF GnbListen
<1>c. PICK c : c = nctx + 1
  OBVIOUS
<1>r. PICK r : r = idUeGenerator[g]
  OBVIOUS
<1>u. PICK u \in UE, k \in Conn : u = m.pr /\ k = m.conn
  BY DEF ReqRec
<1>1. UNCHANGED <<ueGnb, ueTx>>
  BY DEF GnbListen, ueVars
<1>2. /\ Live' = Live \cup {c} /\ ctx'[c].pr = u /\ ctx'[c].gnb = g /\ ctx'[c].ran = r
      /\ ctx'[c].tx = k /\ ctx'[c].rx = k
      /\ c \notin Live /\ \A d \in Live : ctx'[d] = ctx[d]
  BY <1>c, <1>m, <1>u, <1>r, GrowTx DEF New, Grow
<1>3. uePool[g][r] = Nil /\ uePool' = [uePool EXCEPT ![g][r] = c] /\ r \in Ran
  <2>1. r \in Ran
    BY <1>r DEF New, Grow, NewGnBUe
  <2> QED BY <1>m, <1>c, <1>r, <2>1, NewPools
<1>4. \A h \in Gnb, x \in Ran : uePool'[h][x] = IF h = g /\ x = r THEN c ELSE uePool[h][x]
  BY <1>3 DEF TypeOK, GnbTypeOK
<1>5. \A h \in Gnb, v \in UE : prUePool'[h][v] = IF h = g /\ v = u THEN c ELSE prUePool[h][v]
  BY <1>c, <1>m, <1>u DEF New, Grow, NewGnBUe, TypeOK, GnbTypeOK
<1>6. \A d \in Live : uePool'[ctx[d].gnb][ctx[d].ran] = d => uePool[ctx[d].gnb][ctx[d].ran] = d
  BY <1>2, <1>4, LivePr
<1>7. \A d \in Live : ctx[d].tx # k
  BY <1>m, <1>u DEF TxInv, Apart
\* A context of the same UE at the same gNodeB is not the one to be found.
<1>8. ASSUME NEW d \in Live, ctx[d].gnb = g, ctx[d].pr = u,
             uePool[g][ctx[d].ran] = d, ctx[d].tx # Nil
      PROVE  ueTx[u] # ctx[d].tx /\ ~("xn" \in Timers /\ g = Away(u) /\ ueGnb[u] = HomeGnb[u])
  <2>1. CASE m.ho
    <3>1. prUePool[g][u] = Nil
      BY <1>m, <1>u, <2>1 DEF LinkInv, HoReq
    <3>2. d # Nil
      BY ConstAssumption DEF Live, TypeOK, GnbTypeOK
    <3> QED BY <1>8, <3>1, <3>2 DEF FoundInv
  <2>2. CASE ~m.ho
    <3>1. ueTx[u] = k /\ g = ueGnb[u]
      BY <1>m, <1>u, <2>2 DEF LinkInv, ConnReq
    <3> QED BY <1>7, <3>1, AwayGnb DEF XnScenario, Away
  <2> QED BY <2>1, <2>2
<1>9. FoundInv'
  <2> SUFFICES ASSUME NEW d \in Live',
                      uePool'[ctx'[d].gnb][ctx'[d].ran] = d, ctx'[d].tx # Nil,
                      \/ ueTx'[ctx'[d].pr] = ctx'[d].tx
                      \/ /\ "xn" \in Timers /\ ctx'[d].gnb = Away(ctx'[d].pr)
                         /\ ueGnb'[ctx'[d].pr] = HomeGnb[ctx'[d].pr]
               PROVE  prUePool'[ctx'[d].gnb][ctx'[d].pr] = d
    BY DEF FoundInv, Away
  <2>1. CASE d = c
    BY <1>2, <1>5, <2>1
  <2>2. CASE d \in Live
    <3>1. ctx'[d] = ctx[d] /\ ctx[d].gnb \in Gnb /\ ctx[d].pr \in UE
      BY <1>2, <2>2, LivePr
    <3>2. uePool[ctx[d].gnb][ctx[d].ran] = d
      BY <1>6, <2>2, <3>1
    <3>3. ~(ctx[d].gnb = g /\ ctx[d].pr = u)
      BY <1>1, <1>8, <2>2, <3>1, <3>2
    <3>4. prUePool[ctx[d].gnb][ctx[d].pr] = d
      BY <1>1, <2>2, <3>1, <3>2 DEF FoundInv
    <3> QED BY <1>5, <3>1, <3>3, <3>4
  <2> QED BY <1>2, <2>1, <2>2
<1>10. OpenInv'
  <2> SUFFICES ASSUME NEW d \in Live', txOpen[ctx'[d].rx]
               PROVE  ctx'[d].tx = ctx'[d].rx /\ uePool'[ctx'[d].gnb][ctx'[d].ran] = d
    BY DEF OpenInv
  <2>1. CASE d = c
    BY <1>2, <1>3, <1>4, <2>1
  <2>2. CASE d \in Live
    <3>1. ctx'[d] = ctx[d] /\ ctx[d].gnb \in Gnb /\ ctx[d].ran \in Ran
      BY <1>2, <2>2, LivePr
    <3>2. ctx[d].tx = ctx[d].rx /\ uePool[ctx[d].gnb][ctx[d].ran] = d
      BY <2>2, <3>1 DEF OpenInv
    <3>3. d # Nil
      BY <2>2, ConstAssumption DEF Live, TypeOK, GnbTypeOK
    <3>4. ~(ctx[d].gnb = g /\ ctx[d].ran = r)
      BY <1>3, <3>2, <3>3
    <3> QED BY <1>4, <3>1, <3>2, <3>4
  <2> QED BY <1>2, <2>1, <2>2
<1> QED BY <1>9, <1>10

\* The step of a UE that reads an order: the context at the other gNodeB that was
\* to be found after the handover is the one that serves it now.
LEMMA UeReceiveFound ==
  ASSUME TypeOK, LinkInv, TxInv, RxInv, FoundInv, OpenInv, XnScenario, NEW u \in UE, UeReceive(u)
  PROVE  FoundInv' /\ OpenInv'
<1>1. Keep
  BY UeShape
<1>k. PICK k \in Conn : k = ueTx[u]
  BY DEF UeReceive, TypeOK, UeTypeOK
<1>g. PICK g \in Gnb : g = ueGnb[u]
  BY DEF TypeOK, UeTypeOK
<1>2. Owner(u, g, k)
  BY <1>k, <1>g DEF LinkInv, UeTxInv
<1>3. \A v \in UE : v # u => ueTx'[v] = ueTx[v] /\ ueGnb'[v] = ueGnb[v]
  BY DEF UeReceive, TypeOK, UeTypeOK
<1>4. CASE UNCHANGED ueGnb /\ ueTx'[u] \in {k, Nil}
  <2>1. \A c \in Live : ctx[c].tx # Nil /\ ueTx'[ctx[c].pr] = ctx[c].tx => ueTx[ctx[c].pr] = ctx[c].tx
    BY <1>3, <1>4, <1>k, LivePr
  <2> QED BY <1>1, <1>4, <2>1, KeepFoundUe
<1>5. CASE ~(UNCHANGED ueGnb /\ ueTx'[u] \in {k, Nil})
  <2>e. PICK e : e = Head(txq[k])
    OBVIOUS
  <2>1. txq[k] # <<>> /\ e.type = "switch" /\ ueTx'[u] = e.conn /\ ueGnb'[u] = e.gnb
    <3>1. ueTx \in [UE -> Conn \cup {Nil}] /\ ueGnb \in [UE -> Gnb]
      BY DEF TypeOK, UeTypeOK
    <3> QED BY <1>5, <1>k, <2>e, <3>1 DEF UeReceive
  <2>2. e \in Elems(txq[k])
    <3>1. txq[k] \in Seq(ToUe)
      BY DEF TypeOK, ChanTypeOK
    <3> QED BY <2>1, <2>e, <3>1, TailElems
  <2>3. g = HomeGnb[u] /\ Ordered(u, e.conn, e.gnb)
    BY <1>2, <2>1, <2>2 DEF LinkInv, MsgInv
  <2>4. /\ Owner(u, Away(u), e.conn) /\ ueGnb'[u] = Away(u) /\ "xn" \in Timers
        /\ Away(u) # HomeGnb[u] /\ Away(u) \in Gnb
    BY <2>1, <2>3, AwayGnb DEF Ordered, XnScenario, Away
  <2>5. ASSUME NEW c \in Live, uePool[ctx[c].gnb][ctx[c].ran] = c, ctx[c].tx # Nil,
               \/ ueTx'[ctx[c].pr] = ctx[c].tx
               \/ /\ "xn" \in Timers /\ ctx[c].gnb = Away(ctx[c].pr)
                  /\ ueGnb'[ctx[c].pr] = HomeGnb[ctx[c].pr]
        PROVE  prUePool[ctx[c].gnb][ctx[c].pr] = c
    <3>1. CASE ctx[c].pr # u
      <4>1. ueTx'[ctx[c].pr] = ueTx[ctx[c].pr] /\ ueGnb'[ctx[c].pr] = ueGnb[ctx[c].pr]
        BY <1>3, <3>1, LivePr
      <4> QED BY <2>5, <4>1 DEF FoundInv
    <3>2. CASE ctx[c].pr = u
      <4>1. ctx[c].tx = e.conn /\ ctx[c].rx = e.conn
        BY <2>1, <2>4, <2>5, <3>2 DEF RxInv, RxHeld
      <4>2. Owner(u, ctx[c].gnb, e.conn)
        BY <3>2, <4>1 DEF Owner
      <4>3. ctx[c].gnb = Away(u)
        BY <2>4, <4>2, OwnerOne, LivePr
      <4>4. ueGnb[u] = HomeGnb[u]
        BY <1>g, <2>3
      <4> QED BY <2>4, <2>5, <3>2, <4>3, <4>4 DEF FoundInv
    <3> QED BY <3>1, <3>2
  <2> QED BY <1>1, <2>5, KeepFound
<1> QED BY <1>4, <1>5

SInv == RxInv /\ LinkInv /\ FoundInv /\ OpenInv
VInv == PInv /\ CInv /\ SInv

\* A step of the AMF, of a goroutine, or of a UE that does not wait for an answer.
LEMMA QuietServed ==
  ASSUME TypeOK, IdInv, SInv, Quiet, Keep \/ \E c \in Live : Drop(c),
         UNCHANGED <<txq, ueGnb, ueTx, cell>>, NoOrder,
         \A u \in UE : "xn" \in timers'[u] <=> "xn" \in timers[u],
         \A u \in UE : ueState[u] = "wait" => ueState'[u] = "wait"
  PROVE  SInv'
<1> USE DEF SInv
<1>1. Still
  BY KeepStill, DropStill
<1>2. \A g \in Gnb, u \in UE : prUePool'[g][u] \in {prUePool[g][u], Nil}
  <2>1. ASSUME NEW c \in Live, Drop(c) PROVE \A g \in Gnb, u \in UE : prUePool'[g][u] \in {prUePool[g][u], Nil}
    BY <2>1, LivePr DEF Drop, RemovePr, TypeOK, GnbTypeOK
  <2> QED BY <2>1 DEF Keep
<1>3. RxInv' /\ LinkInv'
  BY <1>1, <1>2, StillRx, LinkFrame
<1>4. CASE Keep
  BY <1>3, <1>4, KeepFoundUe
<1>5. ASSUME NEW c \in Live, Drop(c) PROVE FoundInv' /\ OpenInv'
  BY <1>5, DropFound
<1> QED BY <1>3, <1>4, <1>5

LEMMA InitConnServed ==
  ASSUME TypeOK, TxInv, SInv, NEW u \in UE, InitConn(u) PROVE SInv'
<1> USE DEF SInv
<1>1. PICK g \in Gnb, q \in ReqRec : Ask(g, q)
  BY InitConnAsk
<1>2. Keep /\ UNCHANGED ueGnb
  BY UeShape DEF InitConn
<1>3. RxInv' /\ LinkInv'
  BY <1>1, <1>2, AskRx, InitConnLink
<1>4. \A v \in UE : ueTx'[v] = IF v = u THEN nconn + 1 ELSE ueTx[v]
  BY DEF InitConn, TypeOK, UeTypeOK
<1>5. \A c \in Live : ctx[c].tx # Nil => ctx[c].tx # nconn + 1
  BY TxTypes DEF TxInv, HeldTx
<1>6. \A c \in Live : ctx[c].tx # Nil /\ ueTx'[ctx[c].pr] = ctx[c].tx => ueTx[ctx[c].pr] = ctx[c].tx
  BY <1>4, <1>5, LivePr
<1> QED BY <1>2, <1>3, <1>6, KeepFoundUe

LEMMA TriggerXnServed ==
  ASSUME TypeOK, PoolInv, SInv, XnScenario, NEW u \in UE, TriggerXnHandover(u) PROVE SInv'
<1> USE DEF SInv
<1>1. Keep /\ UNCHANGED <<ueGnb, ueTx>>
  BY UeShape DEF TriggerXnHandover, ueVars
<1>2. RxInv'
  <2>1. Asks
    BY TriggerXnAsk DEF Asks
  <2> QED BY <1>1, <2>1, KeepStill, StillRx, AskRx DEF Asks
<1>3. LinkInv'
  BY TriggerXnLink
<1> QED BY <1>1, <1>2, <1>3, KeepFoundUe

LEMMA ListenServed ==
  ASSUME TypeOK, Active, TxInv, IdInv, PoolInv, SInv, XnScenario, NEW g \in Gnb, GnbListen(g) PROVE SInv'
<1> USE DEF SInv
<1>1. /\ inbound[g] \in ReqRec /\ inbound[g] # Nil /\ inbound' = [inbound EXCEPT ![g] = Nil]
      /\ UNCHANGED nconn
  BY GnbListenShape DEF GnbListen
<1>2. ASSUME Known(g, inbound[g], prUePool[g][inbound[g].pr]) PROVE FALSE
  <2>1. prUePool[g][inbound[g].pr] = Nil
    BY <1>1, <1>2 DEF Known, LinkInv, HoReq
  <2>2. Nil \notin Live
    BY ConstAssumption DEF Live, TypeOK, GnbTypeOK
  <2> QED BY <1>2, <2>1, <2>2 DEF Known
<1>3. ASSUME NEW n, New(g, inbound[g], n), UNCHANGED txOpen PROVE SInv'
  BY <1>1, <1>3, NewRx, ListenLink, NewFound
<1>4. amfActive[g]
  BY DEF Active
<1> QED BY <1>2, <1>3, <1>4, GnbListenShape

LEMMA NextServed == ASSUME VInv, [Next]_vars, XnScenario PROVE SInv'
<1> USE DEF VInv, PInv, CInv
<1>0. "n2" \notin Timers /\ AmfMayFail = FALSE
  BY DEF XnScenario
<1>d. ASSUME Quiet, Keep \/ \E c \in Live : Drop(c), NoOrder, UNCHANGED <<txq, ueGnb, ueTx, cell, timers, ueState>>
      PROVE  SInv'
  BY <1>d, QuietServed
<1>1. CASE UNCHANGED vars
  <2>1. Keep /\ Quiet
    BY <1>1, KeepGnb DEF vars, chanVars, Quiet
  <2>2. UNCHANGED <<txq, ueGnb, ueTx, cell, timers, ueState>> /\ NoOrder
    BY <1>1, TellNoOrder DEF vars, chanVars, ueVars, scnVars
  <2> QED BY <1>d, <2>1, <2>2
<1>2. ASSUME NEW u \in UE, InitConn(u) PROVE SInv'
  BY <1>2, InitConnServed
<1>3. ASSUME NEW u \in UE, UeReceive(u) PROVE SInv'
  <2>1. Keep /\ Quiet
    BY <1>3, UeShape
  <2>2. RxInv'
    BY <2>1, KeepStill, StillRx DEF SInv
  <2> QED BY <1>3, <2>2, UeReceiveLink, UeReceiveFound DEF SInv
<1>4. ASSUME NEW u \in UE, UeTerminate(u) PROVE SInv'
  <2>1. /\ UNCHANGED <<txq, ueGnb, ueTx, cell, timers>> /\ NoOrder
        /\ \A v \in UE : ueState[v] = "wait" => ueState'[v] = "wait"
    BY <1>4, TellNoOrder DEF UeTerminate, scnVars, TypeOK, UeTypeOK
  <2> QED BY <1>4, <2>1, UeShape, QuietServed
<1>5. ASSUME NEW u \in UE, AmfSend(u) PROVE SInv'
  <2>1. UNCHANGED <<txq, ueGnb, ueTx, cell, timers, ueState>> /\ NoOrder
    BY <1>5, TellNoOrder DEF AmfSend, chanVars, ueVars, scnVars
  <2> QED BY <1>5, <1>d, <2>1, UeShape
<1>6. ASSUME NEW u \in UE, NEW m \in {"nas", "idle"}, UeSend(u, m) PROVE SInv'
  <2>1. UNCHANGED <<txq, ueGnb, ueTx, cell>> /\ NoOrder
    BY <1>6, TellNoOrder DEF UeSend
  <2>2. \A v \in UE : ueState[v] = "wait" => ueState'[v] = "wait"
    BY <1>6 DEF UeSend, TypeOK, UeTypeOK
  <2>3. \A v \in UE : "xn" \in timers'[v] <=> "xn" \in timers[v]
    BY <1>6 DEF UeSend, TypeOK, UeTypeOK
  <2> QED BY <1>6, <2>1, <2>2, <2>3, UeShape, QuietServed
<1>7. ASSUME NEW u \in UE, TriggerXnHandover(u) PROVE SInv'
  BY <1>7, TriggerXnServed
<1>8. ASSUME NEW u \in UE, TriggerNgapHandover(u) PROVE FALSE
  BY <1>0, <1>8, TriggerNgapShape
<1>9. ASSUME NEW g \in Gnb, GnbListen(g) PROVE SInv'
  BY <1>9, ListenServed
<1>10. ASSUME NEW g \in Gnb, AmfStatus(g) PROVE FALSE
  BY <1>0, <1>10, OtherShape
<1>11. ASSUME NEW p \in proc, ProcessingConn(p[1], p[2]) PROVE SInv'
  <2>1. <<p[1], p[2]>> \in proc
    BY DEF TypeOK, TaskTypeOK
  <2>2. Quiet /\ UNCHANGED <<txq, ueGnb, ueTx, cell, timers, ueState>> /\ NoOrder
    BY <1>11, TellNoOrder DEF ProcessingConn, Quiet, ueVars, scnVars
  <2>3. Keep \/ \E c \in Live : Drop(c)
    BY <1>11, <2>1, ProcessingConnShape
  <2> QED BY <1>d, <2>2, <2>3
<1>12. ASSUME NEW m \in n2, ReadGenerators(m) PROVE SInv'
  <2>1. UNCHANGED <<txq, ueGnb, ueTx, cell, timers, ueState>> /\ NoOrder
    BY <1>12, TellNoOrder DEF ReadGenerators, chanVars, ueVars, scnVars
  <2> QED BY <1>12, <1>d, <2>1, OtherShape
<1>13. ASSUME NEW m \in n2, HandleNgap(m) PROVE SInv'
  <2>1. UNCHANGED <<txq, ueGnb, ueTx, cell, timers, ueState>>
    BY <1>13 DEF HandleNgap, ueVars, scnVars
  <2>2. m.type # "handoverCommand"
    BY DEF NoN2
  <2>3. Quiet /\ NoOrder /\ (Keep \/ \E c \in Live : Drop(c))
    BY <1>13, <2>2, HandleNgapShape
  <2> QED BY <1>d, <2>1, <2>3
<1>14. ASSUME NEW d \in disp, HandleAllocating(d) PROVE SInv'
  <2>1. UNCHANGED <<txq, ueGnb, ueTx, cell, timers, ueState>>
    BY <1>14 DEF HandleAllocating, chanVars, ueVars, scnVars
  <2>2. d.msg.type # "handoverRequest"
    BY DEF NoN2
  <2> QED BY <1>14, <1>d, <2>1, <2>2, HandleAllocatingShape
<1>15. ASSUME NEW o \in sends, SendToUe(o) PROVE SInv'
  <2>1. Keep /\ Quiet /\ UNCHANGED <<ueGnb, ueTx>>
    BY <1>15, OtherShape DEF SendToUe, ueVars
  <2>2. RxInv' /\ LinkInv'
    BY <1>15, <2>1, KeepStill, StillRx, SendToUeLink DEF SInv
  <2> QED BY <2>1, <2>2, KeepFoundUe DEF SInv
<1> QED
  BY <1>1, <1>2, <1>3, <1>4, <1>5, <1>6, <1>7, <1>8, <1>9, <1>10, <1>11, <1>12, <1>13, <1>14, <1>15
  DEF Next

LEMMA NextVInv == ASSUME VInv, [Next]_vars, XnScenario PROVE VInv'
  BY NextPools, NextClosed, NextServed DEF VInv, XnScenario

LEMMA InitVInv == Init => VInv
<1> SUFFICES ASSUME Init PROVE SInv
  BY InitPools, InitClosed DEF VInv
<1>1. Live = {}
  BY DEF Init, Live
<1>2. \A g \in Gnb : inbound[g] = Nil
  BY DEF Init
<1>3. \A u \in UE, g \in Gnb, k \in Conn : ~Owner(u, g, k)
  BY <1>1, <1>2 DEF Owner
<1>4. RxInv /\ FoundInv /\ OpenInv
  BY <1>1 DEF RxInv, RxHeld, RxOne, RxApart, FoundInv, OpenInv
<1>5. HomeInv
  BY <1>1 DEF Init, HomeInv
<1>6. HoReq /\ ConnReq
  BY <1>2 DEF HoReq, ConnReq
<1>7. UeTxInv
  BY ConstAssumption DEF Init, UeTxInv, Conn
<1>8. OrderInv /\ MsgInv /\ EmptyInv
  BY <1>1, <1>3 DEF Init, OrderInv, MsgInv, EmptyInv
<1> QED BY <1>4, <1>5, <1>6, <1>7, <1>8 DEF SInv, LinkInv

\* A UE whose downlink channel is open is served by a request or by a context in
\* the UE pool of a gNodeB, whatever the order in which the goroutines of both
\* gNodeBs, the UE, the idle timer and the AMF act during Xn handovers, and for any
\* number of gNodeBs, UEs and sessions: the context that was made for the channel
\* leaves the pool only in DeleteGnBUe, which closes the channel.
THEOREM ServedWhileOpenProved == ASSUME XnScenario PROVE Spec => []ServedWhileOpen
<1>1. VInv /\ [Next]_vars => VInv'
  BY NextVInv
<1>2. VInv => ServedWhileOpen
  <2> SUFFICES ASSUME VInv, NEW u \in UE, ueTx[u] # Nil, txOpen[ueTx[u]]
               PROVE  \/ \E g \in Gnb : inbound[g] # Nil /\ inbound[g].conn = ueTx[u]
                      \/ \E g \in Gnb, r \in Ran : Holds(g, r, ueTx[u])
    BY DEF ServedWhileOpen
  <2>1. TypeOK /\ RxInv /\ OpenInv /\ UeTxInv
    BY DEF VInv, PInv, SInv, LinkInv
  <2>2. PICK k \in Conn, g \in Gnb : k = ueTx[u] /\ g = ueGnb[u]
    BY <2>1 DEF TypeOK, UeTypeOK
  <2>3. Owner(u, g, k)
    BY <2>1, <2>2 DEF UeTxInv
  <2>4. ASSUME NEW c \in Live, ctx[c].rx = k PROVE Holds(ctx[c].gnb, ctx[c].ran, k)
    <3>1. ctx[c].tx = k /\ uePool[ctx[c].gnb][ctx[c].ran] = c
      BY <2>1, <2>2, <2>4 DEF OpenInv
    <3>2. c # Nil
      BY <2>1, ConstAssumption DEF Live, TypeOK, GnbTypeOK
    <3> QED BY <3>1, <3>2 DEF Holds
  <2> QED BY <2>1, <2>2, <2>3, <2>4, LivePr DEF Owner
<1> QED BY InitVInv, <1>1, <1>2, PTL DEF Spec

\* In the same scenario the context that serves a UE is the one its gNodeB finds by
\* PacketRusher id: DeleteGnBUe removes an older context of the UE by comparing the
\* context it finds (CompareAndDelete), and a newer one is made only by a request
\* of the UE itself, which then waits for the answer to it.
THEOREM ServedIsFoundProved == ASSUME XnScenario PROVE Spec => []ServedIsFound
<1>1. VInv /\ [Next]_vars => VInv'
  BY NextVInv
<1>2. VInv => ServedIsFound
  <2> SUFFICES ASSUME VInv, NEW g \in Gnb, NEW r \in Ran, NEW u \in UE,
                      ueTx[u] # Nil, Holds(g, r, ueTx[u])
               PROVE  prUePool[g][u] = uePool[g][r]
    BY DEF ServedIsFound
  <2>1. TypeOK /\ TxInv /\ PoolInv /\ RxInv /\ FoundInv /\ UeTxInv
    BY DEF VInv, PInv, CInv, SInv, LinkInv
  <2>2. PICK k \in Conn, h \in Gnb : k = ueTx[u] /\ h = ueGnb[u]
    BY <2>1 DEF TypeOK, UeTypeOK
  <2>3. PICK c \in Live : c = uePool[g][r] /\ ctx[c].tx = k
    BY <2>1, <2>2 DEF Holds, TypeOK, GnbTypeOK
  <2>4. ctx[c].gnb = g /\ ctx[c].ran = r
    BY <2>1, <2>3 DEF PoolInv, Holds
  <2>5. ctx[c].rx = k
    BY <2>1, <2>2, <2>3 DEF RxInv, RxHeld
  <2>6. Owner(ctx[c].pr, g, k) /\ Owner(u, h, k)
    BY <2>1, <2>2, <2>4, <2>5 DEF Owner, UeTxInv
  <2>7. ctx[c].pr = u
    BY <2>1, <2>6, OwnerOne
  <2> QED BY <2>1, <2>2, <2>3, <2>4, <2>7 DEF FoundInv
<1> QED BY InitVInv, <1>1, <1>2, PTL DEF Spec

=============================================================================
