-------------------------- MODULE GnbContextProofs --------------------------
(* Theorems about GnbContext, for any sets of gNodeBs, UEs and sessions. *)
EXTENDS GnbContext, FiniteSetTheorems, TLAPS

LEMMA GnbFrame == GnbTypeOK /\ UNCHANGED gnbVars => GnbTypeOK'
  BY DEF GnbTypeOK, gnbVars, Live
LEMMA TaskFrame ==
    TaskTypeOK /\ UNCHANGED <<nctx, amfActive, inbound, proc, disp, sends>> => TaskTypeOK'
  BY DEF TaskTypeOK, Live, ReqRec, SendRec
LEMMA ChanFrame == ChanTypeOK /\ UNCHANGED chanVars => ChanTypeOK'
  BY DEF ChanTypeOK, chanVars
LEMMA UeFrame == UeTypeOK /\ UNCHANGED <<ueVars, scnVars>> => UeTypeOK'
  BY DEF UeTypeOK, ueVars, scnVars
LEMMA AmfFrame == AmfTypeOK /\ UNCHANGED <<amfUe, n2>> => AmfTypeOK'
  BY DEF AmfTypeOK

LEMMA AmfStatusType == ASSUME TypeOK, NEW g \in Gnb, AmfStatus(g) PROVE TypeOK'
<1>1. TaskTypeOK' 
  BY DEF TypeOK, TaskTypeOK, AmfStatus, gnbVars, Live, ReqRec, SendRec
<1> QED
  BY <1>1, GnbFrame, ChanFrame, UeFrame, AmfFrame DEF TypeOK, AmfStatus

LEMMA InitConnType == ASSUME TypeOK, NEW u \in UE, InitConn(u) PROVE TypeOK'
<1> USE ConstAssumption DEF TypeOK, InitConn
<1>1. TaskTypeOK' 
  BY DEF TaskTypeOK, gnbVars, Live, ReqRec, SendRec, Request, ChanTypeOK, Conn, UeTypeOK
<1>2. ChanTypeOK' 
  BY DEF ChanTypeOK
<1>3. UeTypeOK' 
  BY DEF UeTypeOK, scnVars, ChanTypeOK, Conn
<1> QED
  BY <1>1, <1>2, <1>3, GnbFrame, AmfFrame

LEMMA UeSendType == ASSUME TypeOK, NEW u \in UE, NEW m \in {"nas", "idle"}, UeSend(u, m) PROVE TypeOK'
<1> USE DEF TypeOK, UeSend
<1>2. ChanTypeOK' 
  BY DEF ChanTypeOK
<1>3. UeTypeOK' 
  BY DEF UeTypeOK
<1> QED
  BY <1>2, <1>3, GnbFrame, AmfFrame, TaskFrame DEF gnbVars

LEMMA UeTerminateType == ASSUME TypeOK, NEW u \in UE, UeTerminate(u) PROVE TypeOK'
<1> USE DEF TypeOK, UeTerminate
<1>2. ChanTypeOK' 
  BY DEF ChanTypeOK
<1>3. UeTypeOK' 
  BY DEF UeTypeOK, scnVars
<1> QED
  BY <1>2, <1>3, GnbFrame, AmfFrame, TaskFrame DEF gnbVars

LEMMA UeReceiveType == ASSUME TypeOK, NEW u \in UE, UeReceive(u) PROVE TypeOK'
<1> USE DEF TypeOK, UeReceive
<1> DEFINE k == ueTx[u]
<1>1. k \in Conn
  BY DEF UeTypeOK
<1>2. ASSUME txq[k] # <<>> PROVE Head(txq[k]) \in ToUe /\ Tail(txq[k]) \in Seq(ToUe)
  BY <1>1, <1>2 DEF ChanTypeOK
<1>3. ASSUME txq[k] # <<>>, Head(txq[k]).type = "switch"
      PROVE  Head(txq[k]).conn \in Conn /\ Head(txq[k]).gnb \in Gnb
  BY <1>2, <1>3 DEF ToUe, Accepted, Content, Switch
<1>4. ChanTypeOK'
  BY <1>1, <1>2 DEF ChanTypeOK
<1>5. UeTypeOK'
  BY <1>3 DEF UeTypeOK, scnVars
<1> QED
  BY <1>4, <1>5, GnbFrame, AmfFrame, TaskFrame DEF gnbVars

LEMMA SendToUeType == ASSUME TypeOK, NEW o \in sends, SendToUe(o) PROVE TypeOK'
<1> USE DEF TypeOK, SendToUe
<1>m. PICK e : e = IF o[2] = Nil THEN Content ELSE Switch(o[2], o[3])
  OBVIOUS
<1>1. o \in SendRec
  BY DEF TaskTypeOK
<1>2. e \in ToUe
  BY <1>1, <1>m DEF ToUe, SendRec
<1>a. \A k \in Conn : Append(txq[k], e) \in Seq(ToUe)
  BY <1>2 DEF ChanTypeOK
<1>b. txq' \in [Conn -> Seq(ToUe)]
  <2>1. txq' = txq \/ txq' = [txq EXCEPT ![ctx[o[1]].tx] = Append(@, e)]
    BY <1>m DEF Send
  <2>2. ASSUME NEW k, txq' = [txq EXCEPT ![k] = Append(@, e)] PROVE txq' \in [Conn -> Seq(ToUe)]
    BY <1>a, <2>2 DEF ChanTypeOK
  <2> QED BY <2>1, <2>2 DEF ChanTypeOK
<1>3. ChanTypeOK'
  BY <1>b DEF ChanTypeOK
<1>4. TaskTypeOK'
  BY DEF TaskTypeOK, gnbVars, Live, ReqRec, SendRec
<1>5. fate' \in Fates
  BY DEF Fates
<1> QED
  BY <1>3, <1>4, <1>5, GnbFrame, AmfFrame, UeFrame

LEMMA NgapType ==
  ASSUME NEW type \in NgapTypes, NEW g \in Gnb, NEW r \in Ran, NEW u \in UE, NEW S \in SUBSET SessId
  PROVE  Ngap(type, g, r, u, S) \in NgapRec
  BY DEF Ngap, NgapRec

LEMMA AmfSendType == ASSUME TypeOK, NEW u \in UE, AmfSend(u) PROVE TypeOK'
<1> USE DEF TypeOK
<1> DEFINE a == amfUe[u]
<1>1. a \in AmfRec /\ a.gnb \in Gnb /\ a.ran \in Ran
  BY DEF AmfTypeOK, AmfRec, AmfSend
<1>2. ActiveSess(u) \in SUBSET SessId
  BY DEF ActiveSess
<1>3. PICK t \in NgapTypes, S \in SUBSET SessId : n2' = n2 \cup {Ngap(t, a.gnb, a.ran, u, S)}
  BY <1>2 DEF AmfSend, NgapTypes, Allocating
<1>4. n2' \subseteq NgapRec
  BY <1>1, <1>3, NgapType DEF AmfTypeOK
<1>5. PICK b \in AmfRec : amfUe' = [amfUe EXCEPT ![u] = b] /\ b.gnb \in {a.gnb, Nil} /\ b.ran = a.ran
  <2> USE <1>1 DEF AmfTypeOK
  <2>1. CASE UNCHANGED amfUe
    BY <2>1
  <2>2. CASE amfUe' = [amfUe EXCEPT ![u].ics = "sent"]
    <3>1. [a EXCEPT !.ics = "sent"] \in AmfRec
      BY DEF AmfRec
    <3> QED BY <2>2, <3>1 DEF AmfRec
  <2>3. ASSUME NEW s \in SessId, NEW v \in {"setup", "rel"}, amfUe' = [amfUe EXCEPT ![u].sess[s] = v]
        PROVE  \E b \in AmfRec : amfUe' = [amfUe EXCEPT ![u] = b] /\ b.gnb \in {a.gnb, Nil} /\ b.ran = a.ran
    <3>1. [a EXCEPT !.sess[s] = v] \in AmfRec
      BY DEF AmfRec
    <3> QED BY <2>3, <3>1 DEF AmfRec
  <2>4. CASE amfUe' = [amfUe EXCEPT ![u].gnb = Nil]
    <3>1. [a EXCEPT !.gnb = Nil] \in AmfRec
      BY DEF AmfRec
    <3> QED BY <2>4, <3>1 DEF AmfRec
  <2> QED BY <2>1, <2>2, <2>3, <2>4 DEF AmfSend
<1>6. AmfTypeOK'
  BY <1>1, <1>4, <1>5 DEF AmfTypeOK
<1> QED
  BY <1>6, GnbFrame, UeFrame, TaskFrame, ChanFrame DEF gnbVars, AmfSend

LEMMA ReadGeneratorsType == ASSUME TypeOK, NEW m \in n2, ReadGenerators(m) PROVE TypeOK'
<1> USE DEF TypeOK, ReadGenerators
<1>1. m \in NgapRec /\ m.gnb \in Gnb
  BY DEF AmfTypeOK, NgapRec
<1>2. TaskTypeOK'
  BY <1>1 DEF TaskTypeOK, gnbVars, Live, ReqRec, SendRec, GnbTypeOK
<1>3. AmfTypeOK'
  BY DEF AmfTypeOK
<1> QED
  BY <1>2, <1>3, GnbFrame, UeFrame, ChanFrame

LEMMA TriggerXnHandoverType == ASSUME TypeOK, NEW u \in UE, TriggerXnHandover(u) PROVE TypeOK'
<1> USE ConstAssumption DEF TypeOK, TriggerXnHandover, Fire
<1>1. cell[u] \in Gnb /\ NextGnb[cell[u]] \in Gnb
  BY DEF UeTypeOK
<1>2. prUePool[cell[u]][u] \in Live \cup {Nil}
  BY <1>1 DEF GnbTypeOK
<1> DEFINE c == prUePool[cell[u]][u]
           target == NextGnb[cell[u]]
<1>3. ASSUME c = Nil PROVE TaskTypeOK' /\ ChanTypeOK'
  <2>1. UNCHANGED <<nctx, amfActive, inbound, proc, disp, sends, chanVars>>
    BY <1>3 DEF chanVars, gnbVars
  <2> QED BY <2>1, TaskFrame, ChanFrame
<1>4. ASSUME c # Nil PROVE TaskTypeOK' /\ ChanTypeOK'
  <2>1. nconn + 1 \in Conn /\ nconn + 1 \in 0..MaxConn
    BY <1>4 DEF ChanTypeOK, Conn
  <2>2. Request(nconn + 1, u, TRUE, c) \in ReqRec
    BY <2>1, <1>2 DEF Request, ReqRec
  <2>3. <<c, nconn + 1, target>> \in Live \X Conn \X Gnb
    BY <2>1, <1>1, <1>2, <1>4
  <2>4. TaskTypeOK'
    <3>1. Live' = Live /\ ReqRec' = ReqRec /\ SendRec' = SendRec
      BY DEF gnbVars, Live, ReqRec, SendRec
    <3>2. inbound' = [inbound EXCEPT ![target] = Request(nconn + 1, u, TRUE, c)]
      BY <1>4
    <3>3. sends' = sends \cup {<<c, nconn + 1, target>>}
      BY <1>4
    <3> QED BY <1>1, <2>2, <2>3, <3>1, <3>2, <3>3 DEF TaskTypeOK, SendRec
  <2>5. ChanTypeOK'
    BY <1>4, <2>1 DEF ChanTypeOK
  <2> QED BY <2>4, <2>5
<1>5. UeTypeOK'
  BY <1>1 DEF UeTypeOK, ueVars
<1>6. fate' \in Fates
  BY DEF Fates
<1> QED
  BY <1>3, <1>4, <1>5, <1>6, GnbFrame, AmfFrame

LEMMA HandoverRequiredType ==
  ASSUME TypeOK, NEW u \in UE, NEW g \in Gnb, NEW r \in Ran, NEW target \in Gnb,
         AmfHandoverRequired(u, g, r, target)
  PROVE  n2' \subseteq NgapRec
<1> DEFINE q == [Ngap("handoverRequest", target, r, u, ActiveSess(u)) EXCEPT !.src = <<g, r>>]
<1>1. q \in NgapRec
  BY DEF Ngap, NgapRec, NgapTypes, Allocating, ActiveSess
<1> QED BY <1>1 DEF AmfHandoverRequired, TypeOK, AmfTypeOK

SameIds == \A d \in Live : /\ ctx'[d].gnb = ctx[d].gnb
                           /\ ctx'[d].ran = ctx[d].ran /\ ctx'[d].pr = ctx[d].pr
PoolsType(uep, prp, teidp) ==
    /\ uep \in [Gnb -> [Ran -> Live \cup {Nil}]]
    /\ prp \in [Gnb -> [UE -> Live \cup {Nil}]]
    /\ teidp \in [Gnb -> [Teid -> Live \cup {Nil}]]
LEMMA GnbStep ==
  ASSUME GnbTypeOK, nctx' = nctx, ctx' \in [Ctx -> CtxRec], SameIds,
         PoolsType(uePool', prUePool', teidPool'),
         idUeGenerator' \in [Gnb -> Nat \ {0}], teidGenerator' \in [Gnb -> Nat \ {0}]
  PROVE  GnbTypeOK'
<1>1. Live' = Live
  BY DEF Live
<1>2. \A c \in Live : ctx'[c].gnb \in Gnb /\ ctx'[c].ran \in Ran /\ ctx'[c].pr \in UE
  BY DEF SameIds, GnbTypeOK
<1> QED BY <1>1, <1>2 DEF GnbTypeOK, PoolsType

LEMMA LiveCtx == GnbTypeOK => Live \subseteq Ctx
  BY ConstAssumption DEF GnbTypeOK, Live, Ctx

LEMMA CtxUpdate ==
  ASSUME GnbTypeOK, NEW c \in Live, NEW n \in CtxRec, ctx' = [ctx EXCEPT ![c] = n],
         n.gnb = ctx[c].gnb, n.ran = ctx[c].ran, n.pr = ctx[c].pr
  PROVE  ctx' \in [Ctx -> CtxRec] /\ SameIds
<1>1. Live \subseteq Ctx /\ ctx \in [Ctx -> CtxRec]
  BY LiveCtx DEF GnbTypeOK
<1> QED BY <1>1 DEF SameIds

SameRec(x, y) == y \in CtxRec /\ y.gnb = x.gnb /\ y.ran = x.ran /\ y.pr = x.pr
LEMMA RecHo == ASSUME NEW x \in CtxRec, NEW g \in Gnb PROVE SameRec(x, [x EXCEPT !.ho = g])
  BY DEF CtxRec, SameRec

LEMMA CtxStep ==
  ASSUME GnbTypeOK, NEW c \in Live, NEW n, SameRec(ctx[c], n), ctx' = [ctx EXCEPT ![c] = n],
         UNCHANGED <<nctx, uePool, prUePool, teidPool, idUeGenerator, teidGenerator>>
  PROVE  GnbTypeOK'
<1>1. ctx' \in [Ctx -> CtxRec] /\ SameIds
  BY CtxUpdate DEF SameRec
<1> QED BY <1>1, GnbStep DEF GnbTypeOK, PoolsType

LEMMA TriggerNgapHandoverType ==
  ASSUME TypeOK, NEW u \in UE, TriggerNgapHandover(u) PROVE TypeOK'
<1> USE ConstAssumption DEF TypeOK, TriggerNgapHandover, Fire
<1> DEFINE c == prUePool[cell[u]][u]
           target == NextGnb[cell[u]]
<1>1. cell[u] \in Gnb /\ target \in Gnb
  BY DEF UeTypeOK
<1>2. c \in Live \cup {Nil}
  BY <1>1 DEF GnbTypeOK
<1>3. ASSUME c = Nil PROVE GnbTypeOK' /\ AmfTypeOK'
  BY <1>3, GnbFrame, AmfFrame DEF gnbVars
<1>4. ASSUME c # Nil PROVE GnbTypeOK' /\ AmfTypeOK'
  <2>1. c \in Ctx /\ ctx[c].ran \in Ran /\ c \in Live
    BY <1>2, <1>4 DEF GnbTypeOK, Live, Ctx
  <2>2. ctx' = [ctx EXCEPT ![c].ho = target] /\ UNCHANGED <<nctx, uePool, prUePool, teidPool,
                                                          idUeGenerator, teidGenerator>>
    BY <1>4
  <2>3. ctx[c] \in CtxRec
    BY <2>1 DEF GnbTypeOK
  <2>4. SameRec(ctx[c], [ctx[c] EXCEPT !.ho = target])
    BY <2>3, <1>1, RecHo
  <2>5. GnbTypeOK'
    BY <2>1, <2>2, <2>4, CtxStep
  <2>6. n2' \subseteq NgapRec
    BY <1>4, <1>1, <2>1, HandoverRequiredType
  <2> QED BY <2>5, <2>6 DEF AmfTypeOK
<1>5. UeTypeOK'
  BY <1>1 DEF UeTypeOK, ueVars
<1>6. fate' \in Fates
  BY DEF Fates
<1> QED
  BY <1>3, <1>4, <1>5, <1>6, TaskFrame, ChanFrame

LEMMA RecAmf == ASSUME NEW x \in CtxRec PROVE SameRec(x, [x EXCEPT !.amf = TRUE])
  BY DEF CtxRec, SameRec
LEMMA RecTx == ASSUME NEW x \in CtxRec PROVE SameRec(x, [x EXCEPT !.tx = Nil])
  BY DEF CtxRec, SameRec
LEMMA RecState ==
  ASSUME NEW x \in CtxRec, NEW v \in {"Initialized", "Ongoing", "Ready", "Down"}
  PROVE  SameRec(x, [x EXCEPT !.state = v])
  BY DEF CtxRec, SameRec
LEMMA RecSess ==
  ASSUME NEW x \in CtxRec, NEW f \in [SessId -> Teid \cup {0}]
  PROVE  SameRec(x, [x EXCEPT !.amf = TRUE, !.sess = f])
  BY DEF CtxRec, SameRec

LEMMA CloseType ==
  ASSUME NEW c, ChanTypeOK, CloseTx(c), UNCHANGED <<nconn, rxOpen>>, fate \in Fates,
         rxq' \in [Conn -> {Nil, "nas", "idle", "closed"}], UNCHANGED txq
  PROVE  ChanTypeOK' /\ fate' \in Fates
<1>1. txOpen' \in [Conn -> BOOLEAN]
  BY DEF ChanTypeOK, CloseTx
<1>2. fate' \in Fates
  BY DEF CloseTx, Fates
<1> QED BY <1>1, <1>2 DEF ChanTypeOK

LEMMA DeleteType ==
  ASSUME GnbTypeOK, NEW c \in Live, NEW new \in [Ctx -> CtxRec],
         \A d \in Live : SameRec(ctx[d], new[d]),
         DeleteGnBUe(c, new), UNCHANGED <<nctx, idUeGenerator, teidGenerator>>
  PROVE  GnbTypeOK'
<1>1. c \in Ctx /\ Live \subseteq Ctx
  BY LiveCtx
<1>2. ctx' = [new EXCEPT ![c] = [new[c] EXCEPT !.tx = Nil]]
  BY <1>1 DEF DeleteGnBUe
<1>3. SameRec(new[c], [new[c] EXCEPT !.tx = Nil])
  BY <1>1, RecTx
<1>4. ctx' \in [Ctx -> CtxRec] /\ SameIds
  BY <1>1, <1>2, <1>3 DEF SameIds, SameRec
<1>5. uePool' \in [Gnb -> [Ran -> Live \cup {Nil}]]
  BY DEF GnbTypeOK, DeleteGnBUe, RemoveIds
<1>6. prUePool' \in [Gnb -> [UE -> Live \cup {Nil}]]
  BY DEF GnbTypeOK, DeleteGnBUe, RemovePr
<1>7. teidPool' \in [Gnb -> [Teid -> Live \cup {Nil}]]
  BY DEF GnbTypeOK, DeleteGnBUe, RemoveIds
<1> QED BY <1>4, <1>5, <1>6, <1>7, GnbStep DEF GnbTypeOK, PoolsType

LEMMA SameCtx == ASSUME GnbTypeOK PROVE ctx \in [Ctx -> CtxRec] /\ \A d \in Live : SameRec(ctx[d], ctx[d])
  BY LiveCtx DEF GnbTypeOK, SameRec

LEMMA AnswerType ==
  ASSUME AmfTypeOK, NEW m \in NgapRec, NEW n \in AmfRec, AmfAnswer(m, n),
         n.gnb = amfUe[m.pr].gnb, n.ran = amfUe[m.pr].ran
  PROVE  amfUe' \in [UE -> AmfRec] /\ \A u \in UE : amfUe'[u].gnb # Nil => amfUe'[u].ran \in Ran
<1>1. m.pr \in UE
  BY DEF NgapRec
<1> QED BY <1>1 DEF AmfTypeOK, AmfAnswer

\* A handler that tells its UE something, or nothing.
LEMMA TellType ==
  ASSUME TaskTypeOK, NEW c \in Live, TellUe(c) \/ UNCHANGED sends,
         UNCHANGED <<nctx, amfActive, inbound, proc, disp>>
  PROVE  TaskTypeOK'
<1>1. Live' = Live /\ ReqRec' = ReqRec /\ SendRec' = SendRec
  BY DEF Live, ReqRec, SendRec
<1>2. <<c, Nil, Nil>> \in SendRec
  BY DEF SendRec
<1>3. sends' \subseteq SendRec
  BY <1>2 DEF TellUe, TaskTypeOK
<1> QED BY <1>1, <1>3 DEF TaskTypeOK

LEMMA HandleNgapType == ASSUME TypeOK, NEW m \in n2, HandleNgap(m) PROVE TypeOK'
<1> USE DEF TypeOK
<1> DEFINE c == uePool[m.gnb][m.ran]
<1>1. m \in NgapRec /\ m.gnb \in Gnb /\ m.ran \in Ran /\ m.sess \subseteq SessId
  BY DEF AmfTypeOK, NgapRec
<1>2. c \in Live \cup {Nil} /\ Live \subseteq Ctx /\ ctx \in [Ctx -> CtxRec]
  BY <1>1, LiveCtx DEF GnbTypeOK
<1>3. n2' \subseteq NgapRec
  BY DEF HandleNgap, AmfTypeOK
<1>4. /\ UNCHANGED <<nctx, idUeGenerator, teidGenerator, amfActive, proc, disp, rxOpen, rxq, txq,
                     ueVars, scnVars>>
      /\ UeTypeOK'
  BY UeFrame DEF HandleNgap
<1>5. CASE c = Nil
  <2>1. UNCHANGED <<ctx, uePool, prUePool, teidPool, amfUe, fate, nconn, txOpen, inbound, sends>>
    BY <1>5 DEF HandleNgap
  <2>2. GnbTypeOK' /\ TaskTypeOK' /\ ChanTypeOK'
    BY <1>4, <2>1, GnbFrame, TaskFrame, ChanFrame DEF gnbVars, chanVars
  <2>3. AmfTypeOK'
    BY <1>3, <2>1 DEF AmfTypeOK
  <2> QED BY <1>4, <2>1, <2>2, <2>3
<1>6. ASSUME c # Nil, HandlerDownlinkNasTransport(m, c) PROVE TypeOK'
  <2>1. /\ UNCHANGED <<uePool, prUePool, teidPool, amfUe, nconn, txOpen, inbound>>
        /\ ctx' = [ctx EXCEPT ![c] = [ctx[c] EXCEPT !.amf = TRUE]] /\ fate' \in Fates
        /\ c \in Live /\ TellUe(c)
    BY <1>2, <1>6 DEF HandlerDownlinkNasTransport, Fates
  <2>2. GnbTypeOK'
    BY <1>2, <1>4, <1>6, <2>1, RecAmf, CtxStep
  <2>3. TaskTypeOK' /\ ChanTypeOK'
    BY <1>4, <2>1, TellType, ChanFrame DEF chanVars
  <2>4. AmfTypeOK'
    BY <1>3, <2>1 DEF AmfTypeOK
  <2> QED BY <1>4, <2>1, <2>2, <2>3, <2>4
<1>7. ASSUME c # Nil, HandlerPduSessionReleaseCommand(m, c) PROVE TypeOK'
  <2> DEFINE f == [s \in SessId |-> IF s \in m.sess THEN 0 ELSE ctx[c].sess[s]]
             b == [amfUe[m.pr] EXCEPT !.sess = [s \in SessId |-> IF s \in m.sess THEN "none" ELSE @[s]]]
  <2>1. /\ UNCHANGED <<uePool, prUePool, teidPool, nconn, txOpen, inbound>>
        /\ ctx' = [ctx EXCEPT ![c] = [ctx[c] EXCEPT !.amf = TRUE, !.sess = f]]
        /\ fate' \in Fates /\ c \in Live /\ TellUe(c)
    BY <1>2, <1>7 DEF HandlerPduSessionReleaseCommand, Fates
  <2>2. f \in [SessId -> Teid \cup {0}]
    BY <1>2, <1>7 DEF CtxRec
  <2>a. c \in Live /\ SameRec(ctx[c], [ctx[c] EXCEPT !.amf = TRUE, !.sess = f])
    BY <1>2, <1>7, <2>2, RecSess
  <2>3. GnbTypeOK'
    <3> HIDE DEF f
    <3> QED BY <1>4, <2>1, <2>a, CtxStep
  <2>4. TaskTypeOK' /\ ChanTypeOK'
    BY <1>4, <2>1, TellType, ChanFrame DEF chanVars
  <2>b. AmfAnswer(m, b)
    BY <1>7 DEF HandlerPduSessionReleaseCommand
  <2>c. amfUe[m.pr] \in AmfRec
    BY <1>1 DEF AmfTypeOK, NgapRec
  <2>5. b \in AmfRec /\ b.gnb = amfUe[m.pr].gnb /\ b.ran = amfUe[m.pr].ran /\ AmfAnswer(m, b)
    BY <2>b, <2>c DEF AmfRec
  <2>6. AmfTypeOK'
    BY <1>1, <1>3, <2>5, AnswerType DEF AmfTypeOK
  <2> QED BY <1>4, <2>1, <2>3, <2>4, <2>6
<1>8. ASSUME c # Nil, HandlerUeContextReleaseCommand(m, c) PROVE TypeOK'
  <2>1. DeleteGnBUe(c, ctx) /\ CloseTx(c) /\ UNCHANGED <<amfUe, nconn, inbound, sends>>
    BY <1>8 DEF HandlerUeContextReleaseCommand, DeleteGnBUe
  <2>2. GnbTypeOK'
    BY <1>2, <1>4, <1>8, <2>1, SameCtx, DeleteType
  <2>3. ChanTypeOK' /\ fate' \in Fates
    BY <1>4, <2>1, CloseType DEF ChanTypeOK
  <2>4. TaskTypeOK'
    BY <1>4, <2>1, TaskFrame
  <2>5. AmfTypeOK'
    BY <1>3, <2>1 DEF AmfTypeOK
  <2> QED BY <1>4, <2>2, <2>3, <2>4, <2>5
<1>9. ASSUME c # Nil, HandlerPathSwitchRequestAcknowledge(m, c) PROVE TypeOK'
  <2>1. /\ UNCHANGED <<uePool, prUePool, teidPool, amfUe, nconn, txOpen, inbound>>
        /\ ctx' = [ctx EXCEPT ![c] = [ctx[c] EXCEPT !.amf = TRUE]] /\ fate' \in Fates
        /\ c \in Live /\ (TellUe(c) \/ UNCHANGED sends)
    BY <1>2, <1>9 DEF HandlerPathSwitchRequestAcknowledge, Fates
  <2>2. GnbTypeOK'
    BY <1>2, <1>4, <1>9, <2>1, RecAmf, CtxStep
  <2>3. TaskTypeOK' /\ ChanTypeOK'
    BY <1>4, <2>1, TellType, ChanFrame DEF chanVars
  <2>4. AmfTypeOK'
    BY <1>3, <2>1 DEF AmfTypeOK
  <2> QED BY <1>4, <2>1, <2>2, <2>3, <2>4
<1>10. ASSUME c # Nil, HandlerHandoverCommand(m, c) PROVE TypeOK'
  <2> DEFINE target == ctx[c].ho
  <2>1. /\ UNCHANGED <<uePool, prUePool, teidPool, amfUe, txOpen, fate>>
        /\ ctx' = [ctx EXCEPT ![c] = [ctx[c] EXCEPT !.amf = TRUE]]
    BY <1>10 DEF HandlerHandoverCommand
  <2>2. GnbTypeOK'
    BY <1>2, <1>4, <1>10, <2>1, RecAmf, CtxStep
  <2>3. CASE target = Nil
    <3>1. UNCHANGED <<nconn, inbound, sends>>
      BY <1>10, <2>3 DEF HandlerHandoverCommand
    <3>2. TaskTypeOK' /\ ChanTypeOK'
      BY <1>4, <2>1, <3>1, TaskFrame, ChanFrame DEF chanVars
    <3> QED BY <1>3, <1>4, <2>1, <2>2, <3>2 DEF AmfTypeOK
  <2>4. CASE target # Nil
    <3>1. /\ nconn < MaxConn /\ nconn' = nconn + 1
          /\ inbound' = [inbound EXCEPT ![target] = Request(nconn + 1, ctx[c].pr, TRUE, Nil)]
          /\ sends' = sends \cup {<<c, nconn + 1, target>>}
      BY <1>10, <2>4 DEF HandlerHandoverCommand
    <3>2. target \in Gnb /\ ctx[c].pr \in UE
      BY <1>2, <1>10, <2>4 DEF CtxRec, GnbTypeOK
    <3>3. nconn + 1 \in Conn /\ nconn + 1 \in 0..MaxConn
      BY <3>1, ConstAssumption DEF ChanTypeOK, Conn
    <3>4. Request(nconn + 1, ctx[c].pr, TRUE, Nil) \in ReqRec
      BY <3>2, <3>3 DEF Request, ReqRec
    <3>5. <<c, nconn + 1, target>> \in Live \X Conn \X Gnb
      BY <1>2, <1>10, <3>2, <3>3
    <3>6. Live' = Live /\ ReqRec' = ReqRec /\ SendRec' = SendRec
      BY <1>4 DEF Live, ReqRec, SendRec
    <3>7. TaskTypeOK'
      BY <1>4, <3>1, <3>2, <3>4, <3>5, <3>6 DEF TaskTypeOK, SendRec
    <3>8. ChanTypeOK'
      BY <1>4, <2>1, <3>1, <3>3 DEF ChanTypeOK
    <3> QED BY <1>3, <1>4, <2>1, <2>2, <3>7, <3>8 DEF AmfTypeOK
  <2> QED BY <2>3, <2>4
<1> QED
  BY <1>5, <1>6, <1>7, <1>8, <1>9, <1>10 DEF HandleNgap

LEMMA SessFinite == ASSUME NEW S \in SUBSET SessId PROVE IsFiniteSet(S) /\ Cardinality(S) \in Nat
<1>1. 1 \in Int /\ 16 \in Int
  OBVIOUS
<1> DEFINE T == 1..16
<1>2. IsFiniteSet(T)
  BY <1>1, FS_Interval
<1>3. S \in SUBSET T
  BY ConstAssumption
<1> HIDE DEF T
<1>4. IsFiniteSet(S)
  BY <1>2, <1>3, FS_Subset
<1> QED BY <1>4, FS_CardinalityType

LEMMA TeidForType ==
  ASSUME NEW base \in Nat \ {0}, NEW S \in SUBSET SessId, NEW s \in S,
         base + Cardinality(S) - 1 <= MaxTeid
  PROVE  TeidFor(base, S, s) \in Teid
<1> DEFINE B == {r \in S : r < s}
<1>1. s \in Int
  BY ConstAssumption
<1>2. B \subseteq S \ {s}
  BY <1>1
<1>3. IsFiniteSet(S \ {s}) /\ Cardinality(S \ {s}) = Cardinality(S) - 1
  BY SessFinite, FS_RemoveElement
<1>4. Cardinality(B) \in Nat /\ Cardinality(B) <= Cardinality(S) - 1
  BY <1>2, <1>3, SessFinite, FS_Subset
<1>5. Cardinality(S) \in Nat
  BY SessFinite
<1> HIDE DEF B
<1>6. base + Cardinality(B) \in Teid
  BY <1>4, <1>5, ConstAssumption DEF Teid
<1> QED BY <1>6 DEF TeidFor, B

LEMMA CreateType ==
  ASSUME NEW old \in [SessId -> Teid \cup {0}], NEW nssai \in BOOLEAN,
         NEW base \in Nat \ {0}, NEW S \in SUBSET SessId,
         base + Cardinality(S) - 1 <= MaxTeid
  PROVE  CreatePduSession(old, nssai, base, S) \in [SessId -> Teid \cup {0}]
<1>1. \A s \in S : TeidFor(base, S, s) \in Teid
  BY TeidForType
<1> QED BY <1>1 DEF CreatePduSession

LEMMA NewLive ==
  ASSUME GnbTypeOK, NEW g, NEW u, NEW r, NEW new, NewGnBUe(g, u, r, new)
  PROVE  /\ Live \subseteq Live' /\ nctx + 1 \in Live' /\ nctx + 1 \in Ctx /\ r \in Ran
         /\ nctx + 1 \notin Live /\ Live' = Live \cup {nctx + 1} /\ nctx' \in 0..MaxCtx
  BY ConstAssumption DEF NewGnBUe, Live, Ctx, GnbTypeOK

LEMMA NewGnbType ==
  ASSUME GnbTypeOK, NEW g \in Gnb, NEW u \in UE, NEW r, NEW new \in CtxRec,
         new.gnb = g, new.ran = r, new.pr = u, NewGnBUe(g, u, r, new),
         teidPool' \in [Gnb -> [Teid -> Live' \cup {Nil}]],
         idUeGenerator' \in [Gnb -> Nat \ {0}], teidGenerator' \in [Gnb -> Nat \ {0}]
  PROVE  GnbTypeOK'
<1>1. /\ Live \subseteq Live' /\ nctx + 1 \in Live' /\ nctx + 1 \in Ctx /\ r \in Ran
      /\ Live' = Live \cup {nctx + 1} /\ nctx' \in 0..MaxCtx
  BY NewLive
<1>2. ctx' = [ctx EXCEPT ![nctx + 1] = new] /\ ctx' \in [Ctx -> CtxRec]
  BY <1>1 DEF NewGnBUe, GnbTypeOK
<1>3. \A c \in Live' : ctx'[c].gnb \in Gnb /\ ctx'[c].ran \in Ran /\ ctx'[c].pr \in UE
  BY <1>1, <1>2, LiveCtx DEF GnbTypeOK
<1>4. uePool' \in [Gnb -> [Ran -> Live' \cup {Nil}]]
  BY <1>1 DEF NewGnBUe, GnbTypeOK
<1>5. prUePool' \in [Gnb -> [UE -> Live' \cup {Nil}]]
  BY <1>1 DEF NewGnBUe, GnbTypeOK
<1> QED BY <1>1, <1>2, <1>3, <1>4, <1>5 DEF GnbTypeOK

LEMMA TaskMono ==
  ASSUME TaskTypeOK, Live \subseteq Live', UNCHANGED amfActive,
         sends' \subseteq SendRec',
         disp' \subseteq disp, proc' \subseteq Live' \X Conn,
         \A g \in Gnb : inbound'[g] \in {inbound[g], Nil}, inbound' \in [Gnb -> ReqRec \cup {Nil}]
  PROVE  TaskTypeOK'
<1>1. ReqRec \subseteq ReqRec'
  BY DEF ReqRec
<1> QED BY <1>1 DEF TaskTypeOK

LEMMA TeidType ==
  ASSUME GnbTypeOK, NEW L, Live \subseteq L, NEW g \in Gnb, NEW c \in L,
         NEW base \in Nat \ {0}, NEW S \in SUBSET SessId, GetUeTeid(g, c, base, S)
  PROVE  /\ teidPool' \in [Gnb -> [Teid -> L \cup {Nil}]]
         /\ teidGenerator' \in [Gnb -> Nat \ {0}]
         /\ base + Cardinality(S) - 1 <= MaxTeid
<1>1. Cardinality(S) \in Nat
  BY SessFinite
<1>2. teidPool' \in [Gnb -> [Teid -> L \cup {Nil}]]
  BY DEF GetUeTeid, GnbTypeOK
<1>3. teidGenerator' \in [Gnb -> Nat \ {0}]
  <2>1. PICK b \in {base, teidGenerator[g]} :
           teidGenerator' = [teidGenerator EXCEPT ![g] = b + Cardinality(S)]
    BY DEF GetUeTeid
  <2>2. b \in Nat \ {0} /\ b + Cardinality(S) \in Nat \ {0}
    BY <1>1 DEF GnbTypeOK
  <2> QED BY <2>1, <2>2 DEF GnbTypeOK
<1> QED BY <1>2, <1>3 DEF GetUeTeid

LEMMA BlankType == Blank \in CtxRec
  BY DEF Blank, CtxRec, NoSess

LEMMA HandoverRequestType ==
  ASSUME TypeOK, NEW d \in disp, HandlerHandoverRequest(d)
  PROVE  /\ GnbTypeOK' /\ AmfTypeOK' /\ Live \subseteq Live' /\ fate' \in Fates
         /\ UNCHANGED sends \/ \E c \in Live : TellUe(c)
<1> USE DEF TypeOK
<1> DEFINE m == d.msg
           g == m.gnb
           new == [Blank EXCEPT !.gnb = g, !.ran = d.ran, !.pr = m.pr, !.sctp = amfActive[g]]
           f == CreatePduSession(NoSess, TRUE, d.teid, m.sess)
           new2 == [new EXCEPT !.amf = TRUE, !.nssai = TRUE, !.sess = f]
<1>1. /\ m \in NgapRec /\ d.ran \in Nat \ {0} /\ d.teid \in Nat \ {0} /\ g \in Gnb /\ m.pr \in UE
      /\ m.sess \in SUBSET SessId /\ m.src \in Gnb \X Ran
  BY DEF TaskTypeOK, NgapRec
<1>2. idUeGenerator' \in [Gnb -> Nat \ {0}]
  <2>1. PICK b \in {d.ran, idUeGenerator[g]} : idUeGenerator' = [idUeGenerator EXCEPT ![g] = b + 1]
    BY DEF HandlerHandoverRequest
  <2>2. b + 1 \in Nat \ {0}
    BY <1>1 DEF GnbTypeOK
  <2> QED BY <2>1, <2>2 DEF GnbTypeOK
<1>3. ASSUME d.ran \in Ran PROVE new \in CtxRec /\ new.gnb = g /\ new.ran = d.ran /\ new.pr = m.pr
  BY <1>1, <1>3, BlankType DEF CtxRec, TaskTypeOK
<1> DEFINE Typed == GnbTypeOK' /\ AmfTypeOK' /\ Live \subseteq Live' /\ fate' \in Fates
<1>4. ASSUME amfActive[g] PROVE Typed
  <2>1. /\ NewGnBUe(g, m.pr, d.ran, new2) /\ GetUeTeid(g, nctx + 1, d.teid, m.sess)
        /\ amfUe' = [amfUe EXCEPT ![m.pr].prep = @ \cup {<<g, d.ran>>}]
        /\ n2' = n2 \cup {Ngap("handoverCommand", m.src[1], m.src[2], m.pr, {})}
        /\ UNCHANGED fate
    BY <1>4 DEF HandlerHandoverRequest
  <2>2. Live \subseteq Live' /\ nctx + 1 \in Live' /\ d.ran \in Ran
    BY <2>1, NewLive
  <2>3. /\ teidPool' \in [Gnb -> [Teid -> Live' \cup {Nil}]]
        /\ teidGenerator' \in [Gnb -> Nat \ {0}] /\ d.teid + Cardinality(m.sess) - 1 <= MaxTeid
    BY <1>1, <2>1, <2>2, TeidType
  <2>4. f \in [SessId -> Teid \cup {0}]
    BY <1>1, <2>3, CreateType DEF NoSess
  <2>5. new2 \in CtxRec /\ new2.gnb = g /\ new2.ran = d.ran /\ new2.pr = m.pr
    <3> HIDE DEF new, f
    <3> QED BY <1>3, <2>2, <2>4 DEF CtxRec
  <2>6. GnbTypeOK'
    <3> HIDE DEF new2
    <3> QED BY <1>1, <1>2, <2>1, <2>3, <2>5, NewGnbType
  <2>7. n2' \subseteq NgapRec
    BY <1>1, <2>1, NgapType DEF AmfTypeOK, NgapTypes
  <2>8. amfUe' \in [UE -> AmfRec] /\ \A u \in UE : amfUe'[u].gnb # Nil => amfUe'[u].ran \in Ran
    BY <1>1, <2>1 DEF AmfTypeOK, AmfRec
  <2> QED BY <2>1, <2>2, <2>6, <2>7, <2>8 DEF AmfTypeOK
<1>5. ASSUME ~amfActive[g] PROVE Typed
  <2>1. /\ NewGnBUe(g, m.pr, d.ran, new) /\ fate' = "fatal"
        /\ UNCHANGED <<teidPool, teidGenerator, amfUe, n2>>
    BY <1>5 DEF HandlerHandoverRequest
  <2>2. Live \subseteq Live' /\ nctx + 1 \in Live' /\ d.ran \in Ran
    BY <2>1, NewLive
  <2>3. GnbTypeOK'
    <3>1. teidPool' \in [Gnb -> [Teid -> Live' \cup {Nil}]] /\ teidGenerator' \in [Gnb -> Nat \ {0}]
      BY <2>1, <2>2 DEF GnbTypeOK
    <3>2. new \in CtxRec /\ new.gnb = g /\ new.ran = d.ran /\ new.pr = m.pr
      BY <1>3, <2>2
    <3> HIDE DEF new
    <3> QED BY <1>1, <1>2, <2>1, <3>1, <3>2, NewGnbType
  <2> QED BY <2>1, <2>2, <2>3, AmfFrame DEF Fates
<1>6. UNCHANGED sends
  BY DEF HandlerHandoverRequest
<1> QED BY <1>4, <1>5, <1>6

LEMMA RecIcs ==
  ASSUME NEW x \in CtxRec, NEW f \in [SessId -> Teid \cup {0}]
  PROVE  SameRec(x, [x EXCEPT !.amf = TRUE, !.nssai = TRUE, !.sess = f])
  BY DEF CtxRec, SameRec
LEMMA RecSetup ==
  ASSUME NEW x \in CtxRec, NEW f \in [SessId -> Teid \cup {0}], NEW v \in {x.state, "Ready"}
  PROVE  SameRec(x, [x EXCEPT !.amf = TRUE, !.state = v, !.sess = f])
  BY DEF CtxRec, SameRec

LEMMA CtxTeidStep ==
  ASSUME GnbTypeOK, NEW c \in Live, NEW n, SameRec(ctx[c], n), ctx' = [ctx EXCEPT ![c] = n],
         UNCHANGED <<nctx, uePool, prUePool, idUeGenerator>>,
         teidPool' \in [Gnb -> [Teid -> Live \cup {Nil}]], teidGenerator' \in [Gnb -> Nat \ {0}]
  PROVE  GnbTypeOK'
<1>1. ctx' \in [Ctx -> CtxRec] /\ SameIds
  BY CtxUpdate DEF SameRec
<1> QED BY <1>1, GnbStep DEF GnbTypeOK, PoolsType

LEMMA IcsType ==
  ASSUME TypeOK, NEW d \in disp, HandlerInitialContextSetupRequest(d)
  PROVE  /\ GnbTypeOK' /\ AmfTypeOK' /\ Live \subseteq Live' /\ fate' \in Fates
         /\ UNCHANGED sends \/ \E c \in Live : TellUe(c)
<1> USE DEF TypeOK
<1> DEFINE m == d.msg
           c == uePool[m.gnb][m.ran]
           f == CreatePduSession(ctx[c].sess, TRUE, d.teid, m.sess)
           n == [ctx[c] EXCEPT !.amf = TRUE, !.nssai = TRUE, !.sess = f]
           b == [amfUe[m.pr] EXCEPT !.ics = "done"]
<1>1. /\ m \in NgapRec /\ d.teid \in Nat \ {0} /\ m.gnb \in Gnb /\ m.ran \in Ran /\ m.pr \in UE
      /\ m.sess \in SUBSET SessId
  BY DEF TaskTypeOK, NgapRec
<1>2. c \in Live \cup {Nil} /\ Live \subseteq Ctx /\ ctx \in [Ctx -> CtxRec]
  BY <1>1, LiveCtx DEF GnbTypeOK
<1>3. UNCHANGED <<nctx, uePool, prUePool, idUeGenerator, n2>> /\ Live' = Live
  BY DEF HandlerInitialContextSetupRequest, Live
<1>4. CASE c = Nil
  <2>1. UNCHANGED <<ctx, teidPool, teidGenerator, amfUe, fate, sends>>
    BY <1>4 DEF HandlerInitialContextSetupRequest
  <2> QED BY <1>3, <2>1, GnbFrame, AmfFrame DEF gnbVars
<1>5. CASE c # Nil
  <2>1. /\ ctx' = [ctx EXCEPT ![c] = n] /\ GetUeTeid(m.gnb, c, d.teid, m.sess)
        /\ AmfAnswer(m, b) /\ fate' \in Fates
    BY <1>2, <1>5 DEF HandlerInitialContextSetupRequest, Fates
  <2>2. c \in Live /\ ctx[c] \in CtxRec
    BY <1>2, <1>5
  <2>3. /\ teidPool' \in [Gnb -> [Teid -> Live \cup {Nil}]]
        /\ teidGenerator' \in [Gnb -> Nat \ {0}] /\ d.teid + Cardinality(m.sess) - 1 <= MaxTeid
    BY <1>1, <2>1, <2>2, TeidType
  <2>4. f \in [SessId -> Teid \cup {0}]
    BY <1>1, <2>2, <2>3, CreateType DEF CtxRec
  <2>5. SameRec(ctx[c], n)
    <3> HIDE DEF f
    <3> QED BY <2>2, <2>4, RecIcs
  <2>6. GnbTypeOK'
    <3> HIDE DEF n
    <3> QED BY <1>3, <2>1, <2>2, <2>3, <2>5, CtxTeidStep
  <2>7. b \in AmfRec /\ b.gnb = amfUe[m.pr].gnb /\ b.ran = amfUe[m.pr].ran
    BY <1>1 DEF AmfTypeOK, AmfRec
  <2>8. AmfTypeOK'
    BY <1>1, <1>3, <2>1, <2>7, AnswerType DEF AmfTypeOK
  <2>9. UNCHANGED sends \/ TellUe(c)
    BY <1>5 DEF HandlerInitialContextSetupRequest
  <2> QED BY <1>3, <2>1, <2>2, <2>6, <2>8, <2>9
<1> QED BY <1>4, <1>5

LEMMA SetupType ==
  ASSUME TypeOK, NEW d \in disp, HandlerPduSessionResourceSetupRequest(d)
  PROVE  /\ GnbTypeOK' /\ AmfTypeOK' /\ Live \subseteq Live' /\ fate' \in Fates
         /\ UNCHANGED sends \/ \E c \in Live : TellUe(c)
<1> USE DEF TypeOK
<1> DEFINE m == d.msg
           c == uePool[m.gnb][m.ran]
           ok == ctx[c].nssai /\ \A s \in m.sess : ctx[c].sess[s] = 0
           v == IF ok THEN "Ready" ELSE ctx[c].state
           f == CreatePduSession(ctx[c].sess, ctx[c].nssai, d.teid, m.sess)
           n == [ctx[c] EXCEPT !.amf = TRUE, !.state = v, !.sess = f]
           b == [amfUe[m.pr] EXCEPT !.sess =
                   [s \in SessId |-> IF s \in m.sess /\ ok THEN "active" ELSE @[s]]]
<1>1. /\ m \in NgapRec /\ d.teid \in Nat \ {0} /\ m.gnb \in Gnb /\ m.ran \in Ran /\ m.pr \in UE
      /\ m.sess \in SUBSET SessId
  BY DEF TaskTypeOK, NgapRec
<1>2. c \in Live \cup {Nil} /\ Live \subseteq Ctx /\ ctx \in [Ctx -> CtxRec]
  BY <1>1, LiveCtx DEF GnbTypeOK
<1>3. UNCHANGED <<nctx, uePool, prUePool, idUeGenerator, n2>> /\ Live' = Live
  BY DEF HandlerPduSessionResourceSetupRequest, Live
<1>4. CASE c = Nil
  <2>1. UNCHANGED <<ctx, teidPool, teidGenerator, amfUe, fate, sends>>
    BY <1>4 DEF HandlerPduSessionResourceSetupRequest
  <2> QED BY <1>3, <2>1, GnbFrame, AmfFrame DEF gnbVars
<1>5. CASE c # Nil
  <2>1. /\ ctx' = [ctx EXCEPT ![c] = n] /\ GetUeTeid(m.gnb, c, d.teid, m.sess)
        /\ AmfAnswer(m, b) /\ fate' \in Fates
    <3>1. ctx' = [ctx EXCEPT ![c] = n]
      BY <1>2, <1>5 DEF HandlerPduSessionResourceSetupRequest
    <3>2. GetUeTeid(m.gnb, c, d.teid, m.sess) /\ AmfAnswer(m, b)
      BY <1>5 DEF HandlerPduSessionResourceSetupRequest
    <3>3. fate' \in {"setupNil", fate}
      BY <1>5 DEF HandlerPduSessionResourceSetupRequest
    <3> QED BY <3>1, <3>2, <3>3 DEF Fates
  <2>2. c \in Live /\ ctx[c] \in CtxRec
    BY <1>2, <1>5
  <2>3. /\ teidPool' \in [Gnb -> [Teid -> Live \cup {Nil}]]
        /\ teidGenerator' \in [Gnb -> Nat \ {0}] /\ d.teid + Cardinality(m.sess) - 1 <= MaxTeid
    BY <1>1, <2>1, <2>2, TeidType
  <2>4. f \in [SessId -> Teid \cup {0}]
    BY <1>1, <2>2, <2>3, CreateType DEF CtxRec
  <2>5. SameRec(ctx[c], n)
    <3>1. v \in {ctx[c].state, "Ready"}
      OBVIOUS
    <3> HIDE DEF f, v
    <3> QED BY <2>2, <2>4, <3>1, RecSetup
  <2>6. GnbTypeOK'
    <3> HIDE DEF n
    <3> QED BY <1>3, <2>1, <2>2, <2>3, <2>5, CtxTeidStep
  <2>7. b \in AmfRec /\ b.gnb = amfUe[m.pr].gnb /\ b.ran = amfUe[m.pr].ran
    <3>1. amfUe[m.pr] \in AmfRec
      BY <1>1 DEF AmfTypeOK
    <3> HIDE DEF ok
    <3> QED BY <3>1 DEF AmfRec
  <2>8. AmfTypeOK'
    <3> HIDE DEF b
    <3> QED BY <1>1, <1>3, <2>1, <2>7, AnswerType DEF AmfTypeOK
  <2>9. UNCHANGED sends \/ TellUe(c)
    BY <1>5 DEF HandlerPduSessionResourceSetupRequest
  <2> QED BY <1>3, <2>1, <2>2, <2>6, <2>8, <2>9
<1> QED BY <1>4, <1>5

LEMMA HandleAllocatingType == ASSUME TypeOK, NEW d \in disp, HandleAllocating(d) PROVE TypeOK'
<1> USE DEF TypeOK
<1>1. /\ GnbTypeOK' /\ AmfTypeOK' /\ Live \subseteq Live' /\ fate' \in Fates
      /\ UNCHANGED sends \/ \E c \in Live : TellUe(c)
  BY HandoverRequestType, IcsType, SetupType DEF HandleAllocating
<1>2. disp' \subseteq disp /\ UNCHANGED <<amfActive, inbound, proc, chanVars, ueVars, scnVars>>
  BY DEF HandleAllocating
<1>a. /\ proc' \subseteq Live' \X Conn /\ inbound' \in [Gnb -> ReqRec \cup {Nil}]
      /\ \A g \in Gnb : inbound'[g] \in {inbound[g], Nil}
  BY <1>1, <1>2 DEF TaskTypeOK
<1>3. TaskTypeOK'
  <2>1. CASE UNCHANGED sends
    <3>1. sends' \subseteq SendRec'
      BY <1>1, <2>1 DEF TaskTypeOK, SendRec
    <3> QED BY <1>1, <1>2, <1>a, <3>1, TaskMono
  <2>2. ASSUME NEW c \in Live, TellUe(c) PROVE TaskTypeOK'
    <3>1. c \in Live' /\ sends' \subseteq SendRec'
      BY <1>1, <2>2 DEF TaskTypeOK, SendRec, TellUe
    <3> QED BY <1>1, <1>2, <1>a, <3>1, TaskMono
  <2> QED BY <1>1, <2>1, <2>2
<1> QED BY <1>1, <1>2, <1>3, ChanFrame, UeFrame

LEMMA MoveType ==
  ASSUME AmfTypeOK, NEW u \in UE, NEW g \in Gnb, NEW r \in Ran, NEW n \in AmfRec,
         n.gnb = g, n.ran = r, amfUe' = [amfUe EXCEPT ![u] = n]
  PROVE  amfUe' \in [UE -> AmfRec] /\ \A w \in UE : amfUe'[w].gnb # Nil => amfUe'[w].ran \in Ran
  BY DEF AmfTypeOK

LEMMA ReleaseOldType == ASSUME AmfTypeOK, NEW u \in UE PROVE ReleaseOld(u) \subseteq NgapRec
<1>1. amfUe[u].gnb # Nil => amfUe[u].gnb \in Gnb /\ amfUe[u].ran \in Ran
  BY DEF AmfTypeOK, AmfRec
<1> QED BY <1>1, NgapType DEF ReleaseOld, NgapTypes

LEMMA InitialUeType ==
  ASSUME AmfTypeOK, NEW u \in UE, NEW g \in Gnb, NEW r \in Ran, AmfInitialUe(u, g, r)
  PROVE  AmfTypeOK'
<1> DEFINE a == amfUe[u]
           f == [s \in SessId |-> IF a.sess[s] = "active" THEN "active" ELSE "none"]
           n == [a EXCEPT !.gnb = g, !.ran = r, !.ics = "no", !.sess = f]
<1>1. a \in AmfRec
  BY DEF AmfTypeOK
<1>2. n \in AmfRec /\ n.gnb = g /\ n.ran = r
  BY <1>1 DEF AmfRec
<1>3. amfUe' = [amfUe EXCEPT ![u] = n]
  BY DEF AmfInitialUe, AmfTypeOK
<1>4. n2' \subseteq NgapRec
  BY ReleaseOldType DEF AmfInitialUe, AmfTypeOK
<1> HIDE DEF n
<1> QED BY <1>2, <1>3, <1>4, MoveType DEF AmfTypeOK

LEMMA ReleaseRequestType ==
  ASSUME AmfTypeOK, NEW u \in UE, NEW g \in Gnb, NEW r \in Ran, AmfReleaseRequest(u, g, r)
  PROVE  AmfTypeOK'
<1>1. n2' \subseteq NgapRec
  BY NgapType DEF AmfReleaseRequest, AmfTypeOK, NgapTypes
<1> DEFINE v == IF amfUe[u].gnb = g /\ amfUe[u].ran = r THEN Nil ELSE amfUe[u].gnb
           n == [amfUe[u] EXCEPT !.gnb = v]
<1>2. amfUe[u] \in AmfRec /\ v \in {Nil, amfUe[u].gnb} /\ amfUe' = [amfUe EXCEPT ![u] = n]
  BY DEF AmfTypeOK, AmfReleaseRequest
<1>3. n \in AmfRec /\ n.gnb = v /\ n.ran = amfUe[u].ran
  <2> HIDE DEF v
  <2> QED BY <1>2 DEF AmfRec
<1> HIDE DEF n, v
<1> QED BY <1>1, <1>2, <1>3 DEF AmfTypeOK

LEMMA ProcessingConnType ==
  ASSUME TypeOK, NEW c, NEW k, <<c, k>> \in proc, ProcessingConn(c, k) PROVE TypeOK'
<1> USE DEF TypeOK
<1> DEFINE gc == uePool[ctx[c].gnb][ctx[c].ran]
<1>1. c \in Live /\ k \in Conn /\ Live \subseteq Ctx /\ ctx \in [Ctx -> CtxRec]
  BY LiveCtx DEF TaskTypeOK, GnbTypeOK
<1>2. ctx[c] \in CtxRec /\ ctx[c].gnb \in Gnb /\ ctx[c].ran \in Ran /\ ctx[c].pr \in UE
  BY <1>1 DEF GnbTypeOK
<1>3. gc \in Live \cup {Nil}
  BY <1>2 DEF GnbTypeOK
<1>4. UNCHANGED <<nctx, idUeGenerator, teidGenerator, amfActive, inbound, disp, sends, nconn,
                  rxOpen, txq, ueVars, scnVars>> /\ proc' \subseteq proc
  BY DEF ProcessingConn
<1>5. UeTypeOK' /\ TaskTypeOK'
  <2>1. UeTypeOK'
    BY <1>4, UeFrame
  <2>2. Live' = Live /\ ReqRec' = ReqRec /\ SendRec' = SendRec
    BY <1>4 DEF Live, ReqRec, SendRec
  <2>3. TaskTypeOK'
    BY <1>4, <2>2 DEF TaskTypeOK
  <2> QED BY <2>1, <2>3
<1>6. rxq' \in [Conn -> {Nil, "nas", "idle", "closed"}]
  BY <1>1 DEF ProcessingConn, ChanTypeOK
<1>7. ASSUME UNCHANGED <<txOpen, fate>> PROVE ChanTypeOK' /\ fate' \in Fates
  BY <1>4, <1>6, <1>7 DEF ChanTypeOK
<1>8. ASSUME ProcessNas(c) PROVE TypeOK'
  <2>1. UNCHANGED <<uePool, prUePool, teidPool, txOpen, fate>>
    BY <1>8 DEF ProcessNas
  <2>2. CASE ctx[c].state = "Initialized"
    <3>1. ctx' = [ctx EXCEPT ![c] = [ctx[c] EXCEPT !.state = "Ongoing"]]
      BY <1>8, <2>2 DEF ProcessNas
    <3>2. SameRec(ctx[c], [ctx[c] EXCEPT !.state = "Ongoing"])
      BY <1>2, RecState
    <3>3. GnbTypeOK'
      BY <1>1, <1>4, <2>1, <3>1, <3>2, CtxStep
    <3>4. AmfTypeOK'
      BY <1>2, <1>8, <2>2, InitialUeType DEF ProcessNas
    <3> QED BY <1>5, <1>7, <2>1, <3>3, <3>4
  <2>3. CASE ctx[c].state # "Initialized"
    <3>1. UNCHANGED <<ctx, amfUe, n2>>
      BY <1>8, <2>3 DEF ProcessNas
    <3> QED BY <1>4, <1>5, <1>7, <2>1, <3>1, GnbFrame, AmfFrame DEF gnbVars
  <2> QED BY <2>2, <2>3
<1> DEFINE down == [ctx EXCEPT ![gc].state = "Down"]
<1>9. ASSUME gc # Nil PROVE /\ down \in [Ctx -> CtxRec]
                            /\ \A d \in Live : SameRec(ctx[d], down[d])
                            /\ down = [ctx EXCEPT ![gc] = [ctx[gc] EXCEPT !.state = "Down"]]
                            /\ SameRec(ctx[gc], [ctx[gc] EXCEPT !.state = "Down"])
  <2>1. SameRec(ctx[gc], [ctx[gc] EXCEPT !.state = "Down"])
    BY <1>1, <1>3, <1>9, RecState
  <2>2. \A d \in Live : SameRec(ctx[d], ctx[d])
    BY SameCtx
  <2>3. down = [ctx EXCEPT ![gc] = [ctx[gc] EXCEPT !.state = "Down"]]
    OBVIOUS
  <2>4. down \in [Ctx -> CtxRec]
    BY <1>1, <2>1, <2>3 DEF SameRec
  <2>5. \A d \in Live : SameRec(ctx[d], down[d])
    BY <1>1, <2>1, <2>2, <2>3
  <2> QED BY <2>1, <2>3, <2>4, <2>5
<1>10. ASSUME gc # Nil, ProcessConnectionClosed(c, gc) PROVE TypeOK'
  <2>1. UNCHANGED <<amfUe, n2>> /\ AmfTypeOK'
    BY <1>10, AmfFrame DEF ProcessConnectionClosed
  <2>2. CASE ctx[gc].ho = Nil
    <3>1. DeleteGnBUe(c, down) /\ CloseTx(c)
      BY <1>10, <2>2 DEF ProcessConnectionClosed, DeleteGnBUe
    <3>2. GnbTypeOK'
      <4> HIDE DEF down
      <4> QED BY <1>1, <1>4, <1>9, <1>10, <3>1, DeleteType
    <3>3. ChanTypeOK' /\ fate' \in Fates
      BY <1>4, <1>6, <3>1, CloseType
    <3> QED BY <1>5, <2>1, <3>2, <3>3
  <2>3. CASE ctx[gc].ho # Nil
    <3>1. ctx' = down /\ UNCHANGED <<uePool, prUePool, teidPool, txOpen, fate>>
      BY <1>10, <2>3 DEF ProcessConnectionClosed
    <3>2. GnbTypeOK'
      <4> HIDE DEF down
      <4> QED BY <1>3, <1>4, <1>9, <1>10, <3>1, CtxStep
    <3> QED BY <1>5, <1>7, <2>1, <3>1, <3>2
  <2> QED BY <2>2, <2>3
<1>11. ASSUME ProcessIdle(c) PROVE TypeOK'
  <2>1. UNCHANGED <<ctx, uePool, prUePool, teidPool, txOpen, fate>>
    BY <1>11 DEF ProcessIdle
  <2>2. GnbTypeOK'
    BY <1>4, <2>1, GnbFrame DEF gnbVars
  <2>3. AmfTypeOK'
    BY <1>2, <1>11, ReleaseRequestType DEF ProcessIdle
  <2> QED BY <1>5, <1>7, <2>1, <2>2, <2>3
<1>12. ASSUME UNCHANGED <<ctx, uePool, prUePool, teidPool, txOpen, amfUe, n2, fate>> PROVE TypeOK'
  BY <1>4, <1>5, <1>7, <1>12, GnbFrame, AmfFrame DEF gnbVars
<1>13. ASSUME gc # Nil, ctx' = down, UNCHANGED <<uePool, prUePool, teidPool, txOpen, amfUe, n2, fate>>
       PROVE  TypeOK'
  <2>1. GnbTypeOK'
    <3> HIDE DEF down
    <3> QED BY <1>3, <1>4, <1>9, <1>13, CtxStep
  <2> QED BY <1>5, <1>7, <1>13, <2>1, AmfFrame
<1> HIDE DEF down, gc
<1> QED BY <1>8, <1>10, <1>11, <1>12, <1>13 DEF ProcessingConn, down, gc

LEMMA NotifyType ==
  ASSUME AmfTypeOK, NEW u \in UE, NEW g \in Gnb, NEW r \in Ran, AmfHandoverNotify(u, g, r)
  PROVE  AmfTypeOK'
<1>1. CASE UNCHANGED <<amfUe, n2>>
  BY <1>1, AmfFrame
<1>2. CASE ~UNCHANGED <<amfUe, n2>>
  <2> DEFINE n == [amfUe[u] EXCEPT !.gnb = g, !.ran = r, !.prep = {}]
  <2>1. amfUe' = [amfUe EXCEPT ![u] = n] /\ n2' = n2 \cup ReleaseOld(u)
    BY <1>2 DEF AmfHandoverNotify
  <2>2. n \in AmfRec /\ n.gnb = g /\ n.ran = r
    BY DEF AmfTypeOK, AmfRec
  <2>3. n2' \subseteq NgapRec
    BY <2>1, ReleaseOldType DEF AmfTypeOK
  <2> HIDE DEF n
  <2> QED BY <2>1, <2>2, <2>3, MoveType DEF AmfTypeOK
<1> QED BY <1>1, <1>2

LEMMA PathSwitchType ==
  ASSUME AmfTypeOK, NEW u \in UE, NEW g \in Gnb, NEW r \in Ran, NEW known, NEW f,
         AmfPathSwitch(u, g, r, known, f)
  PROVE  AmfTypeOK'
<1> DEFINE S == {s \in ActiveSess(u) : f[s] # 0}
<1>1. CASE UNCHANGED <<amfUe, n2>>
  BY <1>1, AmfFrame
<1>2. CASE ~UNCHANGED <<amfUe, n2>>
  <2> DEFINE n == [amfUe[u] EXCEPT !.gnb = g, !.ran = r]
  <2>1. amfUe' = [amfUe EXCEPT ![u] = n] /\ n2' = n2 \cup {Ngap("pathSwitchAck", g, r, u, S)}
    BY <1>2 DEF AmfPathSwitch
  <2>2. n \in AmfRec /\ n.gnb = g /\ n.ran = r
    BY DEF AmfTypeOK, AmfRec
  <2>3. S \in SUBSET SessId
    BY DEF ActiveSess
  <2>4. n2' \subseteq NgapRec
    <3> HIDE DEF S
    <3> QED BY <2>1, <2>3, NgapType DEF AmfTypeOK, NgapTypes
  <2> HIDE DEF n
  <2> QED BY <2>1, <2>2, <2>4, MoveType DEF AmfTypeOK
<1> QED BY <1>1, <1>2

LEMMA RecKnown ==
  ASSUME NEW x \in CtxRec, NEW k \in Conn
  PROVE  SameRec(x, [x EXCEPT !.rx = k, !.tx = k, !.state = "Ready"])
  BY DEF CtxRec, SameRec

LEMMA AnswerSentType ==
  ASSUME ChanTypeOK, NEW k \in Conn, NEW e \in {Accepted, Content}
  PROVE  [txq EXCEPT ![k] = Append(@, e)] \in [Conn -> Seq(ToUe)]
<1>1. e \in ToUe
  BY DEF ToUe
<1>2. Append(txq[k], e) \in Seq(ToUe)
  BY <1>1 DEF ChanTypeOK
<1> QED BY <1>2 DEF ChanTypeOK

LEMMA GnbListenType == ASSUME TypeOK, NEW g \in Gnb, GnbListen(g) PROVE TypeOK'
<1> USE DEF TypeOK
<1> DEFINE m == inbound[g]
           c == prUePool[g][m.pr]
<1>1. m \in ReqRec /\ m.conn \in Conn /\ m.pr \in UE /\ m.from \in Live \cup {Nil}
  BY DEF GnbListen, TaskTypeOK, ReqRec
<1>2. c \in Live \cup {Nil} /\ Live \subseteq Ctx /\ ctx \in [Ctx -> CtxRec]
  BY <1>1, LiveCtx DEF GnbTypeOK
<1>3. /\ UNCHANGED <<teidPool, teidGenerator, amfActive, disp, sends, nconn, rxOpen, rxq,
                     ueVars, scnVars>>
      /\ inbound' = [inbound EXCEPT ![g] = Nil] /\ UeTypeOK'
      /\ ListenKnownUe(g, m, c) \/ ListenNewUe(g, m, c)
  BY UeFrame DEF GnbListen
<1>4. inbound' \in [Gnb -> ReqRec \cup {Nil}] /\ \A h \in Gnb : inbound'[h] \in {inbound[h], Nil}
  BY <1>3 DEF TaskTypeOK
<1>5. ASSUME Live \subseteq Live', NEW x \in Live', proc' \in {proc, proc \cup {<<x, m.conn>>}}
      PROVE  TaskTypeOK'
  <2>1. proc' \subseteq Live' \X Conn
    BY <1>1, <1>5 DEF TaskTypeOK
  <2>2. sends' \subseteq SendRec'
    BY <1>3, <1>5 DEF TaskTypeOK, SendRec
  <2> QED BY <1>3, <1>4, <1>5, <2>1, <2>2, TaskMono
<1>6. ASSUME ListenKnownUe(g, m, c) PROVE TypeOK'
  <2> DEFINE n == [ctx[c] EXCEPT !.rx = m.conn, !.tx = m.conn, !.state = "Ready"]
  <2>1. /\ c \in Live /\ ctx' = [ctx EXCEPT ![c] = n]
        /\ proc' = proc \cup {<<c, m.conn>>} /\ AmfHandoverNotify(m.pr, g, ctx[c].ran)
        /\ UNCHANGED <<nctx, uePool, prUePool, idUeGenerator, txOpen>> /\ fate' \in Fates
        /\ txq' = [txq EXCEPT ![m.conn] = Append(@, Content)]
    BY <1>2, <1>6 DEF ListenKnownUe, Send, Fates
  <2>2. SameRec(ctx[c], n) /\ ctx[c].ran \in Ran
    BY <1>1, <1>2, <2>1, RecKnown DEF GnbTypeOK
  <2>3. GnbTypeOK'
    <3> HIDE DEF n
    <3> QED BY <1>3, <2>1, <2>2, CtxStep
  <2>4. AmfTypeOK'
    BY <1>1, <2>1, <2>2, NotifyType
  <2>5. Live' = Live
    BY <2>1 DEF Live
  <2>6. TaskTypeOK'
    BY <1>5, <2>1, <2>5
  <2>7. ChanTypeOK'
    BY <1>1, <1>3, <2>1, AnswerSentType DEF ChanTypeOK
  <2> QED BY <1>3, <2>1, <2>3, <2>4, <2>6, <2>7
<1>7. ASSUME ListenNewUe(g, m, c) PROVE TypeOK'
  <2> DEFINE r   == idUeGenerator[g]
             old == ctx[m.from]
             new == [Blank EXCEPT !.gnb = g, !.ran = r, !.pr = m.pr,
                             !.tx = m.conn, !.rx = m.conn, !.sctp = amfActive[g]]
             xn  == [new EXCEPT !.state = "Ready", !.amf = old.amf,
                                !.nssai = old.nssai, !.sess = old.sess]
  <2>1. idUeGenerator' \in [Gnb -> Nat \ {0}] /\ fate' \in Fates
    BY <1>7 DEF ListenNewUe, getRanUeId, GnbTypeOK
  <2>2. ASSUME r \in Ran PROVE new \in CtxRec /\ new.gnb = g /\ new.ran = r /\ new.pr = m.pr
    BY <1>1, <2>2, BlankType DEF CtxRec, TaskTypeOK
  <2>3. ASSUME NEW n \in CtxRec, n.gnb = g, n.ran = r, n.pr = m.pr, NewGnBUe(g, m.pr, r, n)
        PROVE  GnbTypeOK' /\ Live \subseteq Live' /\ nctx + 1 \in Live'
    <3>1. Live \subseteq Live' /\ nctx + 1 \in Live'
      BY <2>3, NewLive
    <3>2. teidPool' \in [Gnb -> [Teid -> Live' \cup {Nil}]] /\ teidGenerator' \in [Gnb -> Nat \ {0}]
      BY <1>3, <3>1 DEF GnbTypeOK
    <3> QED BY <1>1, <2>1, <2>3, <3>1, <3>2, NewGnbType
  <2>4. ASSUME NEW n, NewGnBUe(g, m.pr, r, n) PROVE r \in Ran
    BY <2>4 DEF NewGnBUe
  <2>5. ASSUME ~amfActive[g] PROVE TypeOK'
    <3>1. /\ NewGnBUe(g, m.pr, r, new) /\ txOpen' = [txOpen EXCEPT ![m.conn] = FALSE]
          /\ UNCHANGED <<proc, txq, amfUe, n2>>
      BY <1>7, <2>5 DEF ListenNewUe, CloseUnserved
    <3>2. GnbTypeOK' /\ Live \subseteq Live' /\ nctx + 1 \in Live'
      <4>1. new \in CtxRec /\ new.gnb = g /\ new.ran = r /\ new.pr = m.pr
        BY <2>2, <2>4, <3>1
      <4> HIDE DEF new
      <4> QED BY <2>3, <3>1, <4>1
    <3>3. TaskTypeOK'
      BY <1>5, <3>1, <3>2
    <3>4. ChanTypeOK'
      BY <1>1, <1>3, <3>1 DEF ChanTypeOK
    <3> QED BY <1>3, <2>1, <3>1, <3>2, <3>3, <3>4, AmfFrame
  <2>6. ASSUME amfActive[g], m.ho, m.from # Nil PROVE TypeOK'
    <3>1. /\ NewGnBUe(g, m.pr, r, xn) /\ proc' = proc \cup {<<nctx + 1, m.conn>>}
          /\ AmfPathSwitch(m.pr, g, r, old.amf, old.sess) /\ UNCHANGED <<txOpen, txq>>
      BY <1>7, <2>6 DEF ListenNewUe
    <3>2. r \in Ran
      <4> HIDE DEF xn
      <4> QED BY <2>4, <3>1
    <3>3. xn \in CtxRec /\ xn.gnb = g /\ xn.ran = r /\ xn.pr = m.pr
      <4>1. old \in CtxRec
        BY <1>1, <1>2, <2>6
      <4> HIDE DEF new, old
      <4> QED BY <2>2, <3>2, <4>1 DEF CtxRec
    <3>4. GnbTypeOK' /\ Live \subseteq Live' /\ nctx + 1 \in Live'
      <4> HIDE DEF xn
      <4> QED BY <2>3, <3>1, <3>3
    <3>5. TaskTypeOK'
      BY <1>5, <3>1, <3>4
    <3>6. ChanTypeOK'
      BY <1>3, <3>1, ChanFrame DEF chanVars
    <3>7. AmfTypeOK'
      BY <1>1, <3>1, <3>2, PathSwitchType
    <3> QED BY <1>3, <2>1, <3>4, <3>5, <3>6, <3>7
  <2>7. ASSUME amfActive[g], ~(m.ho /\ m.from # Nil) PROVE TypeOK'
    <3>1. /\ NewGnBUe(g, m.pr, r, new) /\ proc' = proc \cup {<<nctx + 1, m.conn>>}
          /\ txq' = [txq EXCEPT ![m.conn] = Append(@, Accepted)] /\ UNCHANGED <<txOpen, amfUe, n2>>
      BY <1>7, <2>7 DEF ListenNewUe, Send
    <3>2. GnbTypeOK' /\ Live \subseteq Live' /\ nctx + 1 \in Live'
      <4>1. new \in CtxRec /\ new.gnb = g /\ new.ran = r /\ new.pr = m.pr
        BY <2>2, <2>4, <3>1
      <4> HIDE DEF new
      <4> QED BY <2>3, <3>1, <4>1
    <3>3. TaskTypeOK'
      BY <1>5, <3>1, <3>2
    <3>4. txq' \in [Conn -> Seq(ToUe)]
      BY <1>1, <3>1, AnswerSentType
    <3>5. ChanTypeOK'
      BY <1>3, <3>1, <3>4 DEF ChanTypeOK
    <3> QED BY <1>3, <2>1, <3>1, <3>2, <3>3, <3>5, AmfFrame
  <2> QED BY <2>5, <2>6, <2>7
<1> QED BY <1>3, <1>6, <1>7

LEMMA InitType == Init => TypeOK
<1> SUFFICES ASSUME Init PROVE TypeOK
  OBVIOUS
<1> USE ConstAssumption DEF Init
<1>1. GnbTypeOK
  BY BlankType DEF GnbTypeOK, Live
<1>2. TaskTypeOK
  BY DEF TaskTypeOK, ReqRec
<1>3. ChanTypeOK
  BY DEF ChanTypeOK
<1>4. UeTypeOK
  BY DEF UeTypeOK
<1>5. AmfTypeOK
  BY DEF AmfTypeOK, AmfRec
<1> QED BY <1>1, <1>2, <1>3, <1>4, <1>5 DEF TypeOK, Fates

LEMMA NextType == TypeOK /\ [Next]_vars => TypeOK'
<1> SUFFICES ASSUME TypeOK, [Next]_vars PROVE TypeOK'
  OBVIOUS
<1>1. CASE UNCHANGED vars
  BY <1>1, GnbFrame, TaskFrame, ChanFrame, UeFrame, AmfFrame DEF TypeOK, vars, gnbVars
<1>2. CASE Next
  <2>1. ASSUME NEW p \in proc, ProcessingConn(p[1], p[2]) PROVE TypeOK'
    <3>1. p = <<p[1], p[2]>>
      BY DEF TypeOK, TaskTypeOK
    <3> QED BY <2>1, <3>1, ProcessingConnType
  <2> QED
    BY <1>2, <2>1, InitConnType, UeReceiveType, UeTerminateType, AmfSendType, UeSendType,
       TriggerXnHandoverType, TriggerNgapHandoverType, GnbListenType, AmfStatusType,
       ReadGeneratorsType, HandleNgapType, HandleAllocatingType, SendToUeType DEF Next
<1> QED BY <1>1, <1>2

\* Type correctness of the gNodeBs, for any number of gNodeBs, UEs and sessions and
\* with both kinds of handover: every pool, goroutine and message refers to a
\* context that was allocated.
THEOREM TypeCorrect == Spec => []TypeOK
  BY InitType, NextType, PTL DEF Spec

=============================================================================
