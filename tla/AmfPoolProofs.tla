--------------------------- MODULE AmfPoolProofs ---------------------------
(* Theorems about AmfPool, for any AMFs, endpoints and UEs. *)
EXTENDS AmfPool, TLAPS

AdderType == [to : Obj \cup {Nil}, ip : Ip, name : Amf \cup {Nil}, weight : Nat,
              id : 0..(nobj + 1), obj : Obj \cup {Nil}]
MoverType == [guami : Amf, backup : Obj, left : SUBSET Obj,
              key : Obj \cup {Nil}, obj : Obj \cup {Nil}]

LEMMA PoolFrame == PoolTypeOK /\ UNCHANGED poolVars => PoolTypeOK'
  BY DEF PoolTypeOK, poolVars
LEMMA HndFrame ==
    HndTypeOK /\ UNCHANGED <<nobj, boot, hndVars, waiting, nproc>> => HndTypeOK'
  BY DEF HndTypeOK, hndVars
LEMMA SendFrame ==
    ASSUME HndTypeOK, UNCHANGED <<nobj, boot, adders, movers>>, n2' \subseteq Message,
           waiting' \subseteq Obj, nproc' \in 0..MaxProc
    PROVE  HndTypeOK'
  BY DEF HndTypeOK
LEMMA UeFrame == UeTypeOK /\ UNCHANGED <<ue, calm>> => UeTypeOK'
  BY DEF UeTypeOK

LEMMA InitType == Init => TypeOK
  BY ConstAssumption DEF Init, TypeOK, PoolTypeOK, HndTypeOK, UeTypeOK, AmfObject, UeContext,
     NoAmf, Out, Obj

(* What the updates of an AMF object or a UE context leave. *)
LEMMA StoredObject ==
    ASSUME NEW ip \in Ip, NEW k \in 0..MaxObj, NEW x \in Amf \cup {Nil}, NEW w \in Nat
    PROVE  LET n == NewObject(k, ip, x, w) IN
           /\ n \in AmfObject
           /\ n.ip = ip /\ n.id = k /\ n.name = x /\ n.guami = x /\ n.conn = "none"
           /\ n.plmns = FALSE /\ n.state = "Inactive"
  BY DEF AmfObject, NoAmf, NewObject
LEMMA NamedObject ==
    ASSUME NEW a \in AmfObject, NEW x \in Amf \cup {Nil}, NEW w \in Nat
    PROVE  LET n == Renamed(a, x, w) IN
           /\ n \in AmfObject
           /\ n.ip = a.ip /\ n.id = a.id /\ n.name = x /\ n.guami = x /\ n.conn = a.conn
  BY DEF AmfObject, Renamed
LEMMA ActiveObject ==
    ASSUME NEW a \in AmfObject, NEW x \in Amf \cup {Nil}
    PROVE  LET n == Activated(a, x) IN
           /\ n \in AmfObject
           /\ n.ip = a.ip /\ n.id = a.id /\ n.name = x /\ n.guami = a.guami /\ n.conn = a.conn
  BY DEF AmfObject, Activated
LEMMA InactiveObject ==
    ASSUME NEW a \in AmfObject
    PROVE  LET n == [a EXCEPT !.state = "Inactive"] IN
           /\ n \in AmfObject
           /\ n.ip = a.ip /\ n.id = a.id /\ n.name = a.name /\ n.guami = a.guami
           /\ n.conn = a.conn
  BY DEF AmfObject
LEMMA ConnObject ==
    ASSUME NEW a \in AmfObject, NEW c \in {"open", "lost", "closed"}
    PROVE  LET n == [a EXCEPT !.conn = c] IN
           /\ n \in AmfObject
           /\ n.ip = a.ip /\ n.id = a.id /\ n.name = a.name /\ n.guami = a.guami
           /\ n.conn = c
  BY DEF AmfObject
LEMMA SelectedUe ==
    ASSUME NEW a \in UeContext, NEW o \in Obj
    PROVE  LET n == Selected(a, o) IN
           n \in UeContext /\ n.sel = o /\ n.pc = "selected" /\ n.amfId = a.amfId
  BY DEF UeContext, Selected
LEMMA ReboundUe ==
    ASSUME NEW a \in UeContext, NEW k \in 0..MaxObj, NEW c \in Obj \cup {Nil}
    PROVE  LET n == Rebound(a, k, c) IN
           n \in UeContext /\ n.sel = a.sel /\ n.pc = a.pc /\ n.amfId = k /\ n.sctp = c
  BY DEF UeContext, Rebound

\* One object is replaced by one with the same address.
LEMMA OneObject ==
    ASSUME PoolTypeOK, NEW o \in Obj, NEW n \in AmfObject, n.ip = amf[o].ip,
           amf' = [amf EXCEPT ![o] = n], UNCHANGED <<nobj, idAmfGenerator>>,
           amfPool' \in [Obj -> Obj \cup {Nil}]
    PROVE  PoolTypeOK'
<1>1. \A p \in 1..nobj : amf'[p].ip \in Ip
  BY ConstAssumption DEF PoolTypeOK, Obj
<1> QED
  BY <1>1 DEF PoolTypeOK

LEMMA InitGnbType == ASSUME TypeOK, InitGnb PROVE TypeOK'
<1>1. Configured[boot] \in Ip
  BY ConstAssumption DEF InitGnb, TypeOK, HndTypeOK
<1>2. Adder(Nil, Configured[boot], Nil, 0) \in AdderType
  BY <1>1 DEF Adder, AdderType, TypeOK, PoolTypeOK
<1>3. HndTypeOK'
  BY <1>2, ConstAssumption DEF InitGnb, TypeOK, HndTypeOK, AdderType, poolVars
<1> QED
  BY <1>3, PoolFrame, UeFrame DEF InitGnb, TypeOK

LEMMA ConnectingType == ASSUME TypeOK, NEW h \in adders, Connecting(h) PROVE TypeOK'
<1> USE DEF TypeOK
<1>0. h \in AdderType /\ nobj \in 0..MaxObj /\ idAmfGenerator \in 1..(nobj + 1) /\ MaxObj \in Nat
  BY ConstAssumption DEF HndTypeOK, AdderType, PoolTypeOK
<1>1. CASE getRanAmfId(h)
  <2>1. [h EXCEPT !.id = idAmfGenerator] \in AdderType
    BY <1>0 DEF AdderType
  <2>2. HndTypeOK'
    BY <1>1, <2>1 DEF getRanAmfId, HndTypeOK, AdderType, poolVars
  <2> QED
    BY <1>1, <2>2, PoolFrame, UeFrame DEF getRanAmfId
<1>2. CASE NewGnBAmf(h)
  <2>1. nobj + 1 \in Obj /\ h.id \in Obj /\ nobj' = nobj + 1
    BY <1>0, <1>2 DEF NewGnBAmf, Obj, AdderType
  <2>2. PICK n : n = NewObject(h.id, h.ip, h.name, h.weight)
    OBVIOUS
  <2>3. n \in AmfObject /\ n.ip \in Ip
    <3>1. h.ip \in Ip /\ h.id \in 0..MaxObj /\ h.name \in Amf \cup {Nil} /\ h.weight \in Nat
      BY <1>0, <2>1 DEF AdderType, Obj
    <3> QED
      BY ONLY <2>2, <3>1 DEF NewObject, NoAmf, AmfObject
  <2>4. amf' = [amf EXCEPT ![nobj + 1] = n] /\ amfPool' = [amfPool EXCEPT ![h.id] = nobj + 1]
    BY <1>2, <2>2 DEF NewGnBAmf
  <2>5. idAmfGenerator' \in 1..(nobj' + 1)
    BY <1>0, <1>2, <2>1 DEF NewGnBAmf, AdderType
  <2>6. PoolTypeOK'
    <3>1. amf' \in [Obj -> AmfObject] /\ \A o \in 1..nobj' : amf'[o].ip \in Ip
      BY <1>0, <2>1, <2>3, <2>4 DEF PoolTypeOK, Obj
    <3> QED
      BY <1>0, <2>1, <2>4, <2>5, <3>1 DEF PoolTypeOK, Obj
  <2>7. HndTypeOK'
    <3>1. \A g \in adders : g \in AdderType
      BY DEF HndTypeOK, AdderType
    <3>2. \A g \in AdderType : g.id \in 0..(nobj' + 1)
      BY <1>0, <2>1 DEF AdderType
    <3>3. AdderType \subseteq AdderType'
      BY <1>0, <2>1 DEF AdderType
    <3>4. [h EXCEPT !.obj = nobj + 1] \in AdderType
      BY <1>0, <2>1 DEF AdderType
    <3>5. adders' \subseteq AdderType'
      BY <1>2, <3>1, <3>3, <3>4 DEF NewGnBAmf
    <3> QED
      BY <1>2, <3>5 DEF NewGnBAmf, HndTypeOK, AdderType
  <2> QED
    BY <1>2, <2>6, <2>7, UeFrame DEF NewGnBAmf
<1>3. CASE InitConn(h)
  <2>1. h.obj \in Obj /\ amf[h.obj] \in AmfObject
    BY <1>0, <1>3 DEF InitConn, AdderType, PoolTypeOK
  <2>2. PICK n : n = [amf[h.obj] EXCEPT !.conn = "open"]
    OBVIOUS
  <2>3. n \in AmfObject /\ n.ip = amf[h.obj].ip
    BY <2>1, <2>2, ConnObject
  <2>4. PoolTypeOK'
    BY <1>3, <2>1, <2>2, <2>3, OneObject DEF InitConn, PoolTypeOK
  <2>5. ASSUME NEW t \in {"ngSetupResponse", "ngSetupFailure"}
        PROVE  Msg(t, h.obj, h.ip, AmfOf[h.ip], 0) \in Message
    BY <1>0, <2>1, ConstAssumption DEF Msg, Message, AdderType
  <2>6. HndTypeOK'
    <3>1. n2' \subseteq Message
      BY <1>3, <2>5 DEF InitConn, HndTypeOK
    <3> QED
      BY <1>3, <3>1 DEF InitConn, HndTypeOK, Acknowledge
  <2> QED
    BY <1>3, <2>4, <2>6, UeFrame DEF InitConn
<1>4. CASE InitConnFails(h)
  BY <1>4, PoolFrame, HndFrame, UeFrame DEF InitConnFails, poolVars
<1> QED
  BY <1>1, <1>2, <1>3, <1>4 DEF Connecting

LEMMA DispatchType == ASSUME TypeOK, NEW m \in n2, Dispatch(m) PROVE TypeOK'
<1>0. m \in Message /\ m.to \in Obj /\ amf[m.to] \in AmfObject /\ m.name \in Amf \cup {Nil}
      /\ m.weight \in Nat /\ m.ip \in Ip
  BY DEF TypeOK, HndTypeOK, PoolTypeOK, Message
<1> USE DEF TypeOK, Received
<1>1. CASE HandlerNgSetupResponse(m) \/ HandlerNgSetupFailure(m)
  <2>1. PICK n \in AmfObject : amf' = [amf EXCEPT ![m.to] = n] /\ n.ip = amf[m.to].ip
    <3>1. CASE HandlerNgSetupResponse(m)
      <4>1. PICK n : n = Activated(amf[m.to], m.name)
        OBVIOUS
      <4>2. n \in AmfObject /\ n.ip = amf[m.to].ip
        BY <1>0, <4>1, ActiveObject
      <4> QED
        BY <3>1, <4>1, <4>2 DEF HandlerNgSetupResponse
    <3>2. CASE HandlerNgSetupFailure(m)
      <4>1. PICK n : n = [amf[m.to] EXCEPT !.state = "Inactive"]
        OBVIOUS
      <4>2. n \in AmfObject /\ n.ip = amf[m.to].ip
        BY <1>0, <4>1, InactiveObject
      <4> QED
        BY <3>2, <4>1, <4>2 DEF HandlerNgSetupFailure
    <3> QED
      BY <1>1, <3>1, <3>2
  <2>2. PoolTypeOK'
    BY <1>0, <1>1, <2>1, OneObject DEF HandlerNgSetupResponse, HandlerNgSetupFailure, PoolTypeOK
  <2>3. HndTypeOK'
    BY <1>1 DEF HandlerNgSetupResponse, HandlerNgSetupFailure, HndTypeOK
  <2> QED
    BY <1>1, <2>2, <2>3, UeFrame DEF HandlerNgSetupResponse, HandlerNgSetupFailure
<1>2. CASE UpdateAddKnown(m) \/ UpdateRemoveUnknown(m)
  <2>1. HndTypeOK'
    BY <1>2 DEF UpdateAddKnown, UpdateRemoveUnknown, Acknowledge, HndTypeOK, poolVars
  <2> QED
    BY <1>2, <2>1, PoolFrame, UeFrame DEF UpdateAddKnown, UpdateRemoveUnknown
<1>3. CASE UpdateAddNew(m)
  <2>1. Adder(m.to, m.ip, m.name, m.weight) \in AdderType
    BY <1>0, ConstAssumption DEF PoolTypeOK, Adder, AdderType
  <2>2. HndTypeOK'
    BY <1>3, <2>1 DEF UpdateAddNew, HndTypeOK, AdderType, poolVars
  <2> QED
    BY <1>3, <2>2, PoolFrame, UeFrame DEF UpdateAddNew
<1>4. CASE UpdateAssociation(m)
  <2>1. PoolTypeOK'
    <3>1. ASSUME NEW k \in AtIp(m.ip), amf' = [amf EXCEPT ![amfPool[k]] = Renamed(@, m.name, m.weight)]
          PROVE  PoolTypeOK'
      <4>1. amfPool[k] \in Obj /\ amf[amfPool[k]] \in AmfObject
        BY DEF AtIp, Pooled, PoolTypeOK
      <4>2. PICK n : n = Renamed(amf[amfPool[k]], m.name, m.weight)
        OBVIOUS
      <4>3. n \in AmfObject /\ n.ip = amf[amfPool[k]].ip
        BY <1>0, <4>1, <4>2, NamedObject
      <4> QED
        BY <1>4, <3>1, <4>1, <4>2, <4>3, OneObject DEF UpdateAssociation, PoolTypeOK
    <3>2. CASE UNCHANGED amf
      BY <1>4, <3>2 DEF UpdateAssociation, PoolTypeOK
    <3> QED
      BY <1>4, <3>1, <3>2 DEF UpdateAssociation
  <2>2. HndTypeOK'
    BY <1>4 DEF UpdateAssociation, Acknowledge, HndTypeOK
  <2> QED
    BY <1>4, <2>1, <2>2, UeFrame DEF UpdateAssociation
<1>5. CASE UpdateRemove(m)
  <2>1. PICK n : n = [amf[m.to] EXCEPT !.conn = "closed"]
    OBVIOUS
  <2>2. n \in AmfObject /\ n.ip = amf[m.to].ip
    BY <1>0, <2>1, ConnObject
  <2>3. amfPool' \in [Obj -> Obj \cup {Nil}]
    BY <1>5 DEF UpdateRemove, PoolTypeOK
  <2>4. PoolTypeOK'
    BY <1>0, <1>5, <2>1, <2>2, <2>3, OneObject DEF UpdateRemove
  <2>5. HndTypeOK'
    BY <1>5 DEF UpdateRemove, HndTypeOK
  <2> QED
    BY <1>5, <2>4, <2>5, UeFrame DEF UpdateRemove
<1>6. CASE StatusChooseBackup(m)
  <2>1. ASSUME NEW k \in Pooled, NEW new \in SUBSET (Obj \ Pooled)
        PROVE  LET g == [guami |-> AmfOf[m.ip], backup |-> amfPool[k], left |-> Pooled \cup new,
                         key |-> Nil, obj |-> Nil] IN
               g \in MoverType /\ g.key = Nil /\ g.obj = Nil
    BY <1>0, ConstAssumption DEF Pooled, PoolTypeOK, MoverType
  <2>2. HndTypeOK'
    <3>1. \A g \in movers' : g \in MoverType /\ (g.key # Nil <=> g.obj # Nil)
      BY <1>6, <2>1 DEF StatusChooseBackup, HndTypeOK, MoverType
    <3> QED
      BY <1>6, <3>1 DEF StatusChooseBackup, HndTypeOK, poolVars, MoverType
  <2>3. UeTypeOK'
    BY <1>6 DEF StatusChooseBackup, UeTypeOK
  <2> QED
    BY <1>6, <2>2, <2>3, PoolFrame DEF StatusChooseBackup
<1> QED
  BY <1>1, <1>2, <1>3, <1>4, <1>5, <1>6 DEF Dispatch

LEMMA MovingType == ASSUME TypeOK, NEW h \in movers, Moving(h) PROVE TypeOK'
<1> USE DEF TypeOK
<1>0. h \in MoverType /\ (h.key # Nil <=> h.obj # Nil) /\ movers \subseteq MoverType
  BY DEF HndTypeOK, MoverType
<1>1. CASE StatusSkip(h)
  <2>1. ASSUME NEW k PROVE LET g == [h EXCEPT !.left = @ \ {k}] IN
                           g \in MoverType /\ (g.key # Nil <=> g.obj # Nil)
    BY <1>0 DEF MoverType
  <2>2. \A g \in movers' : g \in MoverType /\ (g.key # Nil <=> g.obj # Nil)
    BY <1>0, <1>1, <2>1 DEF StatusSkip, HndTypeOK
  <2>3. HndTypeOK'
    BY <1>1, <2>2 DEF StatusSkip, HndTypeOK, poolVars, MoverType
  <2> QED
    BY <1>1, <2>3, PoolFrame, UeFrame DEF StatusSkip
<1>2. CASE StatusRebind(h)
  <2>1. UeTypeOK'
    <3>1. amf[h.backup].id \in 0..MaxObj /\ GetSCTPConn(h.backup) \in Obj \cup {Nil}
      BY <1>0 DEF PoolTypeOK, AmfObject, MoverType, GetSCTPConn
    <3>2. ASSUME NEW k \in Matching(h.guami), ue' = Rebind(h, k) PROVE UeTypeOK'
      BY <1>2, <3>1, <3>2, ReboundUe DEF UeTypeOK, Rebind, StatusRebind
    <3> QED
      BY <1>2, <3>2 DEF StatusRebind
  <2>2. HndTypeOK'
    <3>1. ASSUME NEW k \in Matching(h.guami)
          PROVE LET g == [h EXCEPT !.left = @ \ {k}, !.key = k, !.obj = amfPool[k]] IN
                g \in MoverType /\ (g.key # Nil <=> g.obj # Nil)
      <4>1. k \in Obj /\ amfPool[k] \in Obj /\ k # Nil /\ amfPool[k] # Nil
        BY ConstAssumption DEF Matching, Pooled, PoolTypeOK, Obj
      <4> QED
        BY <1>0, <4>1 DEF MoverType
    <3>2. \A g \in movers' : g \in MoverType /\ (g.key # Nil <=> g.obj # Nil)
      BY <1>0, <1>2, <3>1 DEF StatusRebind, HndTypeOK
    <3> QED
      BY <1>2, <3>2 DEF StatusRebind, HndTypeOK, poolVars, MoverType
  <2> QED
    BY <1>2, <2>1, <2>2, PoolFrame DEF StatusRebind
<1>3. CASE StatusRelease(h)
  <2>1. h.obj \in Obj /\ h.key \in Obj /\ amf[h.obj] \in AmfObject
    BY <1>0, <1>3 DEF StatusRelease, MoverType, PoolTypeOK
  <2>2. PICK n : n = [amf[h.obj] EXCEPT !.conn = "closed"]
    OBVIOUS
  <2>3. n \in AmfObject /\ n.ip = amf[h.obj].ip
    BY <2>1, <2>2, ConnObject
  <2>4. PoolTypeOK'
    BY <1>3, <2>1, <2>2, <2>3, OneObject DEF StatusRelease, PoolTypeOK
  <2>5. LET g == [h EXCEPT !.key = Nil, !.obj = Nil] IN g \in MoverType /\ g.key = Nil /\ g.obj = Nil
    BY <1>0 DEF MoverType
  <2>6. \A g \in movers' : g \in MoverType /\ (g.key # Nil <=> g.obj # Nil)
    BY <1>0, <1>3, <2>5 DEF StatusRelease, HndTypeOK
  <2>7. HndTypeOK'
    BY <1>3, <2>6 DEF StatusRelease, HndTypeOK, MoverType
  <2> QED
    BY <1>3, <2>4, <2>7, UeFrame DEF StatusRelease
<1>4. CASE StatusEnd(h)
  <2>1. HndTypeOK'
    BY <1>4 DEF StatusEnd, HndTypeOK, poolVars
  <2> QED
    BY <1>4, <2>1, PoolFrame, UeFrame DEF StatusEnd
<1> QED
  BY <1>1, <1>2, <1>3, <1>4 DEF Moving

LEMMA AmfType ==
    ASSUME TypeOK, NEW o \in Obj,
           AmfSendsUpdate(o) \/ AmfSendsRemove(o) \/ AmfSendsStatus(o) \/ AmfLost(o)
    PROVE  TypeOK'
<1> USE ConstAssumption DEF TypeOK, Speaking
<1>1. CASE AmfSendsUpdate(o)
  <2>1. ASSUME NEW p \in {"add", "update"}, NEW ip \in Ip, NEW w \in Weight,
               NEW name \in {AmfOf[ip], Nil}
        PROVE  Msg(p, o, ip, name, w) \in Message
    BY DEF Msg, Message
  <2>2. n2' \subseteq Message
    <3>1. PICK p \in {"add", "update"}, ip \in Ip, w \in Weight : \E name \in {AmfOf[ip], Nil} :
             n2' = n2 \cup {Msg(p, o, ip, name, w)}
      BY <1>1 DEF AmfSendsUpdate
    <3> QED
      BY <2>1, <3>1 DEF HndTypeOK
  <2>3. HndTypeOK'
    <3>1. nproc' \in 0..MaxProc
      BY <1>1 DEF AmfSendsUpdate, HndTypeOK
    <3>2. waiting' \subseteq Obj
      BY <1>1 DEF AmfSendsUpdate, HndTypeOK
    <3> QED
      BY <1>1, <2>2, <3>1, <3>2, SendFrame DEF AmfSendsUpdate, poolVars
  <2> QED
    BY <1>1, <2>3, PoolFrame, UeFrame DEF AmfSendsUpdate
<1>2. CASE AmfSendsRemove(o)
  <2>1. ASSUME NEW ip \in Ip PROVE Msg("remove", o, ip, Nil, 0) \in Message
    BY DEF Msg, Message
  <2>2. n2' \subseteq Message
    BY <1>2, <2>1 DEF AmfSendsRemove, HndTypeOK
  <2>3. HndTypeOK'
    <3>1. nproc' \in 0..MaxProc
      BY <1>2 DEF AmfSendsRemove, HndTypeOK
    <3>2. waiting' \subseteq Obj
      BY <1>2 DEF AmfSendsRemove, HndTypeOK
    <3> QED
      BY <1>2, <2>2, <3>1, <3>2, SendFrame DEF AmfSendsRemove, poolVars
  <2>4. UeTypeOK'
    BY <1>2 DEF AmfSendsRemove, UeTypeOK
  <2> QED
    BY <1>2, <2>3, <2>4, PoolFrame DEF AmfSendsRemove
<1>3. CASE AmfSendsStatus(o)
  <2>1. amf[o].ip \in Ip
    BY <1>3 DEF AmfSendsStatus, PoolTypeOK
  <2>2. ASSUME NEW b \in Amf PROVE Msg("status", o, amf[o].ip, b, 0) \in Message
    BY <2>1 DEF Msg, Message
  <2>3. HndTypeOK'
    BY <1>3, <2>2 DEF AmfSendsStatus, HndTypeOK, poolVars
  <2> QED
    BY <1>3, <2>3, PoolFrame, UeFrame DEF AmfSendsStatus
<1>4. CASE AmfLost(o)
  <2>1. PICK n : n = [amf[o] EXCEPT !.conn = "lost"]
    OBVIOUS
  <2>2. n \in AmfObject /\ n.ip = amf[o].ip
    BY <2>1, ConnObject DEF PoolTypeOK
  <2>3. PoolTypeOK'
    BY <1>4, <2>1, <2>2, OneObject DEF AmfLost, PoolTypeOK
  <2>4. HndTypeOK'
    BY <1>4 DEF AmfLost, HndTypeOK
  <2> QED
    BY <1>4, <2>3, <2>4, UeFrame DEF AmfLost
<1> QED
  BY <1>1, <1>2, <1>3, <1>4

LEMMA UeType ==
    ASSUME TypeOK, NEW u \in Ue, NewGnBUe(u) \/ SetAmf(u) \/ SendToAmF(u) \/ UeReleased(u)
    PROVE  TypeOK'
<1> USE ConstAssumption DEF TypeOK
<1>1. CASE NewGnBUe(u)
  <2>1. \A o \in selectAmFByActive : o \in Obj /\ o # Nil
    BY DEF selectAmFByActive, Active, Obj
  <2>2. [ue[u] EXCEPT !.pc = "refused"] \in UeContext /\ [ue[u] EXCEPT !.pc = "refused"].pc = "refused"
    BY DEF UeTypeOK, UeContext
  <2>3. calm' \subseteq Ue
    BY <1>1 DEF NewGnBUe, UeTypeOK
  <2>4. UeTypeOK'
    <3>1. CASE ue' = [ue EXCEPT ![u].pc = "refused"]
      BY <2>2, <2>3, <3>1 DEF UeTypeOK
    <3>2. ASSUME NEW o \in selectAmFByActive, ue' = [ue EXCEPT ![u] = Selected(@, o)] PROVE UeTypeOK'
      <4>1. LET n == Selected(ue[u], o) IN n \in UeContext /\ n.sel = o /\ n.pc = "selected"
        BY <2>1, SelectedUe DEF UeTypeOK
      <4> QED
        BY <2>1, <2>3, <3>2, <4>1 DEF UeTypeOK
    <3> QED
      BY <1>1, <3>1, <3>2 DEF NewGnBUe
  <2> QED
    BY <1>1, <2>4, PoolFrame, HndFrame DEF NewGnBUe, poolVars
<1>2. CASE SetAmf(u)
  <2>1. ue[u].sel \in Obj /\ amf[ue[u].sel].id \in 0..MaxObj
    BY <1>2 DEF SetAmf, UeTypeOK, UeContext, PoolTypeOK, AmfObject
  <2>2. [pc |-> "attached", sel |-> Nil, amfId |-> amf[ue[u].sel].id, sctp |-> ue[u].sel] \in UeContext
    BY <2>1 DEF UeContext
  <2>3. UeTypeOK'
    BY <1>2, <2>1, <2>2 DEF SetAmf, UeTypeOK, Obj
  <2> QED
    BY <1>2, <2>3, PoolFrame, HndFrame DEF SetAmf, poolVars
<1>3. CASE SendToAmF(u)
  BY <1>3, PoolFrame, HndFrame, UeFrame DEF SendToAmF, poolVars
<1>4. CASE UeReleased(u)
  <2>1. UeTypeOK'
    BY <1>4 DEF UeReleased, UeTypeOK, UeContext, Out
  <2> QED
    BY <1>4, <2>1, PoolFrame, HndFrame DEF UeReleased, poolVars
<1> QED
  BY <1>1, <1>2, <1>3, <1>4

LEMMA NextType == TypeOK /\ [Next]_vars => TypeOK'
<1> SUFFICES ASSUME TypeOK, [Next]_vars PROVE TypeOK'
  OBVIOUS
<1>1. CASE UNCHANGED vars
  BY <1>1, PoolFrame, HndFrame, UeFrame DEF TypeOK, vars, poolVars
<1> QED
  BY <1>1, InitGnbType, ConnectingType, DispatchType, MovingType, AmfType, UeType DEF Next

\* The type invariant, for every set of AMFs, endpoints and UEs and every bound.
THEOREM TypeCorrect == Spec => []TypeOK
  BY InitType, NextType, PTL DEF Spec

-----------------------------------------------------------------------------
(* OneAssociationPerIp, when no AMF adds an endpoint twice at a time.      *)

Once == "twice" \notin Overlaps

\* Messages, goroutines and the pool name objects that were allocated, and an object
\* is stored under its own id.
RefInv ==
    /\ \A o \in 1..nobj : amf[o].id \in Obj
    /\ \A m \in n2 : m.to \in 1..nobj
    /\ \A h \in adders : h.obj # Nil => h.obj \in 1..nobj
    /\ \A h \in movers : h.backup \in 1..nobj /\ (h.obj # Nil => h.obj \in 1..nobj)
    /\ \A k \in Pooled : amfPool[k] \in 1..nobj /\ amf[amfPool[k]].id = k

\* An address is being added by one goroutine or message at most, and is not in the
\* pool before that goroutine stores it.
AskInv ==
    /\ \A h \in adders : h.obj = Nil => AtIp(h.ip) = {}
    /\ \A h, g \in adders : h.ip = g.ip => h = g
    /\ \A h \in adders, m \in n2 : m.type = "add" => m.ip # h.ip
    /\ \A m, n \in n2 : m.type = "add" /\ n.type = "add" /\ m.ip = n.ip => m = n

\* Nothing is known of an AMF before the start-up has come to its endpoint.
Begun == {AmfOf[Configured[i]] : i \in 1..(boot - 1)}
BootInv ==
    /\ \A o \in 1..nobj : AmfOf[amf[o].ip] \in Begun
    /\ \A h \in adders : AmfOf[h.ip] \in Begun
    /\ \A m \in n2 : AmfOf[m.ip] \in Begun

Assoc == TypeOK /\ RefInv /\ AskInv /\ BootInv /\ OneAssociationPerIp

LEMMA InitAssoc == Init => Assoc
<1> SUFFICES ASSUME Init PROVE Assoc
  OBVIOUS
<1>1. TypeOK /\ Pooled = {}
  BY InitType DEF Init, Pooled
<1> QED
  BY <1>1 DEF Init, Assoc, RefInv, AskInv, BootInv, OneAssociationPerIp

\* A step that moves no object into the pool.
LEMMA PoolKept ==
    ASSUME Assoc, UNCHANGED nobj, \A k \in Obj : amfPool'[k] \in {amfPool[k], Nil},
           \A o \in 1..nobj : amf'[o].ip = amf[o].ip /\ amf'[o].id = amf[o].id
    PROVE  /\ Pooled' \subseteq Pooled
           /\ \A k \in Pooled' : /\ amfPool'[k] = amfPool[k] /\ amfPool[k] \in 1..nobj
                                 /\ amf'[amfPool[k]].ip = amf[amfPool[k]].ip
                                 /\ amf'[amfPool'[k]].id = k
           /\ \A ip : AtIp(ip) = {} => AtIp(ip)' = {}
           /\ OneAssociationPerIp'
<1>1. Pooled' \subseteq Pooled /\ \A k \in Pooled' : amfPool'[k] = amfPool[k]
  BY DEF Pooled
<1>2. \A k \in Pooled' : /\ amfPool[k] \in 1..nobj /\ amf'[amfPool[k]].ip = amf[amfPool[k]].ip
                         /\ amf'[amfPool'[k]].id = k
  BY <1>1 DEF Assoc, RefInv
<1>3. \A ip : AtIp(ip)' \subseteq AtIp(ip)
  BY <1>1, <1>2 DEF AtIp
<1>4. OneAssociationPerIp'
  BY <1>1, <1>2 DEF Assoc, OneAssociationPerIp
<1> QED
  BY <1>1, <1>2, <1>3, <1>4

\* A step that asks for no address.
LEMMA AssocKept ==
    ASSUME Assoc, TypeOK', UNCHANGED <<nobj, boot>>,
           \A k \in Obj : amfPool'[k] \in {amfPool[k], Nil},
           \A o \in 1..nobj : amf'[o].ip = amf[o].ip /\ amf'[o].id = amf[o].id,
           adders' \subseteq adders,
           \A m \in n2' : \/ m \in n2
                          \/ m.type # "add" /\ m.to \in 1..nobj /\ AmfOf[m.ip] \in Begun,
           \A h \in movers' : h.backup \in 1..nobj /\ (h.obj # Nil => h.obj \in 1..nobj)
    PROVE  Assoc'
<1>1. OneAssociationPerIp' /\ \A ip : AtIp(ip) = {} => AtIp(ip)' = {}
  BY PoolKept
<1>2. RefInv'
  <2>1. \A k \in Pooled' : amfPool'[k] \in 1..nobj /\ amf'[amfPool'[k]].id = k
    BY PoolKept
  <2> QED
    BY <2>1 DEF Assoc, RefInv
<1>3. AskInv'
  BY <1>1 DEF Assoc, AskInv
<1>4. BootInv'
  BY DEF Assoc, BootInv, Begun
<1> QED
  BY <1>1, <1>2, <1>3, <1>4 DEF Assoc

\* What an update of one object leaves of the others.
LEMMA OneChange ==
    ASSUME TypeOK, NEW o \in Obj, NEW n, amf' = [amf EXCEPT ![o] = n],
           n.ip = amf[o].ip, n.id = amf[o].id
    PROVE  \A p \in 1..nobj : amf'[p].ip = amf[p].ip /\ amf'[p].id = amf[p].id
  BY ConstAssumption DEF TypeOK, PoolTypeOK, Obj

LEMMA InitGnbAssoc == ASSUME Assoc, TypeOK', InitGnb PROVE Assoc'
<1> DEFINE g == Adder(Nil, Configured[boot], Nil, 0)
<1>1. boot \in 1..Len(Configured) /\ Configured[boot] \in Ip
  BY ConstAssumption DEF InitGnb, Assoc, TypeOK, HndTypeOK
<1>2. AmfOf[Configured[boot]] \notin Begun
  BY <1>1, OnePerAmf DEF Begun
<1>3. Begun' = Begun \cup {AmfOf[Configured[boot]]}
  <2>1. boot' = boot + 1 /\ boot \in Nat \ {0}
    BY <1>1 DEF InitGnb
  <2>2. 1..(boot' - 1) = 1..(boot - 1) \cup {boot}
    BY <2>1
  <2> QED
    BY <2>2 DEF Begun
<1>4. g.ip = Configured[boot] /\ g.obj = Nil
  BY DEF Adder
<1>5. adders' = adders \cup {g}
  BY DEF InitGnb
<1>6. UNCHANGED <<amf, nobj, amfPool, n2, movers>>
  BY DEF InitGnb, poolVars
<1> HIDE DEF g
<1>7. BootInv'
  BY <1>1, <1>3, <1>4, <1>5, <1>6 DEF Assoc, BootInv
<1>8. AtIp(g.ip) = {}
  <2>1. \A k \in Pooled : AmfOf[amf[amfPool[k]].ip] \in Begun
    BY DEF Assoc, RefInv, BootInv
  <2> QED
    BY <1>2, <1>4, <2>1 DEF AtIp
<1>9. (\A h \in adders : h.ip # g.ip) /\ (\A m \in n2 : m.ip # g.ip)
  BY <1>2, <1>4 DEF Assoc, BootInv
<1>10. Pooled' = Pooled /\ \A ip : AtIp(ip)' = AtIp(ip)
  BY <1>6 DEF Pooled, AtIp
<1>11. AskInv'
  BY <1>5, <1>6, <1>8, <1>9, <1>10 DEF Assoc, AskInv
<1>12. RefInv' /\ OneAssociationPerIp'
  BY <1>4, <1>5, <1>6, <1>10 DEF Assoc, RefInv, OneAssociationPerIp
<1> QED
  BY <1>7, <1>11, <1>12 DEF Assoc

LEMMA DrawAssoc == ASSUME Assoc, TypeOK', NEW h \in adders, getRanAmfId(h) PROVE Assoc'
<1>1. PICK g : g = [h EXCEPT !.id = idAmfGenerator]
  OBVIOUS
<1>2. g.ip = h.ip /\ g.obj = h.obj
  BY <1>1 DEF Assoc, TypeOK, HndTypeOK
<1>3. adders' = (adders \ {h}) \cup {g} /\ UNCHANGED <<amf, nobj, amfPool, n2, movers, boot>>
  BY <1>1 DEF getRanAmfId, poolVars
<1>4. Pooled' = Pooled /\ \A ip : AtIp(ip)' = AtIp(ip)
  BY <1>3 DEF Pooled, AtIp
<1>5. AskInv'
  BY <1>2, <1>3, <1>4 DEF Assoc, AskInv
<1>6. BootInv'
  BY <1>2, <1>3 DEF Assoc, BootInv, Begun
<1>7. RefInv' /\ OneAssociationPerIp'
  BY <1>2, <1>3, <1>4 DEF Assoc, RefInv, OneAssociationPerIp
<1> QED
  BY <1>5, <1>6, <1>7 DEF Assoc

\* What storing an object leaves.
LEMMA StoreFacts ==
    ASSUME TypeOK, RefInv, NEW h \in adders, NewGnBAmf(h)
    PROVE  /\ nobj \in Nat /\ nobj' = nobj + 1 /\ nobj + 1 \in Obj /\ h.id \in Obj
           /\ \A o \in 1..nobj : amf'[o] = amf[o]
           /\ LET n == amf'[nobj + 1] IN
              /\ n.ip = h.ip /\ n.id = h.id /\ n.name = h.name /\ n.guami = h.name
              /\ n.conn = "none" /\ n.plmns = FALSE /\ n.state = "Inactive"
           /\ amfPool'[h.id] = nobj + 1
           /\ \A k \in Obj : k # h.id => amfPool'[k] = amfPool[k]
           /\ h.ip \in Ip /\ h.name \in Amf \cup {Nil} /\ h.obj = Nil
<1>1. /\ h.id \in 0..(nobj + 1) /\ h.id # 0 /\ h.ip \in Ip /\ h.name \in Amf \cup {Nil}
      /\ h.weight \in Nat /\ nobj \in 0..MaxObj /\ nobj < MaxObj /\ MaxObj \in Nat
  BY ConstAssumption DEF NewGnBAmf, TypeOK, HndTypeOK, PoolTypeOK
<1>2. h.id \in Obj /\ h.id \in 0..MaxObj /\ nobj + 1 \in Obj /\ nobj \in Nat
  BY <1>1 DEF Obj
<1>3. PICK n : n = NewObject(h.id, h.ip, h.name, h.weight)
  OBVIOUS
<1>4. /\ n.ip = h.ip /\ n.id = h.id /\ n.name = h.name /\ n.guami = h.name
      /\ n.conn = "none" /\ n.plmns = FALSE /\ n.state = "Inactive"
  BY ONLY <1>3 DEF NewObject, NoAmf
<1>5. amf' = [amf EXCEPT ![nobj + 1] = n] /\ amfPool' = [amfPool EXCEPT ![h.id] = nobj + 1]
      /\ nobj' = nobj + 1 /\ h.obj = Nil
  BY <1>3 DEF NewGnBAmf
<1>6. amf'[nobj + 1] = n /\ \A o \in 1..nobj : amf'[o] = amf[o]
  BY <1>1, <1>2, <1>5 DEF TypeOK, PoolTypeOK, Obj
<1>7. amfPool'[h.id] = nobj + 1 /\ \A k \in Obj : k # h.id => amfPool'[k] = amfPool[k]
  BY <1>2, <1>5 DEF TypeOK, PoolTypeOK
<1> QED
  BY <1>1, <1>2, <1>4, <1>5, <1>6, <1>7

LEMMA StoreAssoc == ASSUME Assoc, TypeOK', NEW h \in adders, NewGnBAmf(h) PROVE Assoc'
<1>1. TypeOK /\ RefInv
  BY DEF Assoc
<1>2. /\ nobj \in Nat /\ nobj' = nobj + 1 /\ nobj + 1 \in Obj /\ h.id \in Obj
      /\ \A o \in 1..nobj : amf'[o] = amf[o]
      /\ amf'[nobj + 1].ip = h.ip /\ amf'[nobj + 1].id = h.id
      /\ amfPool'[h.id] = nobj + 1
      /\ \A k \in Obj : k # h.id => amfPool'[k] = amfPool[k]
      /\ h.ip \in Ip /\ h.obj = Nil
  BY <1>1, StoreFacts
<1>3. PICK g : g = [h EXCEPT !.obj = nobj + 1]
  OBVIOUS
<1>4. g.ip = h.ip /\ g.obj = nobj + 1
  BY <1>3 DEF Assoc, TypeOK, HndTypeOK
<1>5. adders' = (adders \ {h}) \cup {g} /\ UNCHANGED <<n2, movers, boot>>
  BY <1>3 DEF NewGnBAmf
<1>6. nobj + 1 # Nil
  BY <1>2, ConstAssumption
<1>7. \A k \in Pooled' : \/ k = h.id /\ amfPool'[k] = nobj + 1
                         \/ k # h.id /\ k \in Pooled /\ amfPool'[k] = amfPool[k]
  BY <1>2 DEF Pooled
<1>8. \A k \in Pooled : amfPool[k] \in 1..nobj /\ amf[amfPool[k]].ip # h.ip /\ amf[amfPool[k]].id = k
  BY <1>2 DEF Assoc, RefInv, AskInv, AtIp
<1>9. RefInv'
  <2>1. 1..nobj \subseteq 1..nobj' /\ nobj + 1 \in 1..nobj'
    BY <1>2
  <2>2. \A k \in Pooled' : amfPool'[k] \in 1..nobj' /\ amf'[amfPool'[k]].id = k
    BY <1>2, <1>7, <1>8, <2>1
  <2>3. \A o \in 1..nobj' : amf'[o].id \in Obj
    <3>1. \A o \in 1..nobj' : o \in 1..nobj \/ o = nobj + 1
      BY <1>2
    <3> QED
      BY <1>2, <3>1 DEF Assoc, RefInv
  <2> QED
    BY <1>4, <1>5, <2>1, <2>2, <2>3 DEF Assoc, RefInv
<1>10. OneAssociationPerIp'
  BY <1>2, <1>7, <1>8 DEF Assoc, OneAssociationPerIp
<1>11. \A x \in adders' : x.obj = Nil => AtIp(x.ip)' = {}
  <2>1. ASSUME NEW x \in adders', x.obj = Nil PROVE x \in adders /\ x.ip # h.ip /\ AtIp(x.ip) = {}
    BY <1>4, <1>5, <1>6, <2>1 DEF Assoc, AskInv
  <2>2. ASSUME NEW ip, ip # h.ip, AtIp(ip) = {} PROVE AtIp(ip)' = {}
    <3>1. ASSUME NEW k \in AtIp(ip)' PROVE FALSE
      <4>1. k \in Pooled' /\ amf'[amfPool'[k]].ip = ip
        BY <3>1 DEF AtIp
      <4>2. k # h.id
        BY <1>2, <2>2, <4>1
      <4>3. k \in Pooled /\ amf[amfPool[k]].ip = ip
        BY <1>2, <1>7, <1>8, <4>1, <4>2
      <4> QED
        BY <2>2, <4>3 DEF AtIp
    <3> QED
      BY <3>1
  <2> QED
    BY <2>1, <2>2
<1>12. AskInv'
  BY <1>4, <1>5, <1>11 DEF Assoc, AskInv
<1>13. BootInv'
  <2>1. \A o \in 1..nobj' : o \in 1..nobj \/ o = nobj + 1
    BY <1>2
  <2> QED
    BY <1>2, <1>4, <1>5, <2>1 DEF Assoc, BootInv, Begun
<1> QED
  BY <1>9, <1>10, <1>12, <1>13 DEF Assoc

LEMMA ConnAssoc ==
    ASSUME Assoc, TypeOK', NEW h \in adders, InitConn(h) \/ InitConnFails(h) PROVE Assoc'
<1>1. CASE InitConn(h)
  <2>1. h.obj \in Obj /\ h.obj \in 1..nobj /\ amf[h.obj] \in AmfObject
    BY <1>1 DEF InitConn, Assoc, RefInv, TypeOK, HndTypeOK, PoolTypeOK
  <2>2. PICK n : n = [amf[h.obj] EXCEPT !.conn = "open"]
    OBVIOUS
  <2>3. n.ip = amf[h.obj].ip /\ n.id = amf[h.obj].id
    BY <2>1, <2>2, ConnObject
  <2>4. \A p \in 1..nobj : amf'[p].ip = amf[p].ip /\ amf'[p].id = amf[p].id
    BY <1>1, <2>1, <2>2, <2>3, OneChange DEF InitConn, Assoc
  <2>5. \A m \in n2' : \/ m \in n2
                       \/ m.type # "add" /\ m.to \in 1..nobj /\ AmfOf[m.ip] \in Begun
    BY <1>1, <2>1 DEF InitConn, Msg, Assoc, BootInv
  <2> QED
    BY <1>1, <2>4, <2>5, AssocKept DEF InitConn, Assoc, RefInv
<1>2. CASE InitConnFails(h)
  BY <1>2, AssocKept DEF InitConnFails, Assoc, RefInv, poolVars, hndVars
<1> QED
  BY <1>1, <1>2

LEMMA DispatchAssoc == ASSUME Assoc, TypeOK', NEW m \in n2, Dispatch(m) PROVE Assoc'
<1>0. /\ m \in Message /\ m.to \in Obj /\ m.to \in 1..nobj /\ amf[m.to] \in AmfObject
      /\ m.name \in Amf \cup {Nil} /\ m.weight \in Nat /\ m.ip \in Ip
  BY DEF Assoc, RefInv, TypeOK, HndTypeOK, PoolTypeOK, Message
<1>1. CASE HandlerNgSetupResponse(m)
  <2>1. PICK n : n = Activated(amf[m.to], m.name)
    OBVIOUS
  <2>2. n.ip = amf[m.to].ip /\ n.id = amf[m.to].id
    BY <1>0, <2>1, ActiveObject
  <2>3. \A p \in 1..nobj : amf'[p].ip = amf[p].ip /\ amf'[p].id = amf[p].id
    BY <1>0, <1>1, <2>1, <2>2, OneChange DEF HandlerNgSetupResponse, Assoc
  <2> QED
    BY <1>1, <2>3, AssocKept DEF HandlerNgSetupResponse, Assoc, RefInv
<1>2. CASE HandlerNgSetupFailure(m)
  <2>1. PICK n : n = [amf[m.to] EXCEPT !.state = "Inactive"]
    OBVIOUS
  <2>2. n.ip = amf[m.to].ip /\ n.id = amf[m.to].id
    BY <1>0, <2>1, InactiveObject
  <2>3. \A p \in 1..nobj : amf'[p].ip = amf[p].ip /\ amf'[p].id = amf[p].id
    BY <1>0, <1>2, <2>1, <2>2, OneChange DEF HandlerNgSetupFailure, Assoc
  <2> QED
    BY <1>2, <2>3, AssocKept DEF HandlerNgSetupFailure, Assoc, RefInv
<1>3. CASE UpdateAddKnown(m) \/ UpdateRemoveUnknown(m)
  BY <1>3, AssocKept DEF UpdateAddKnown, UpdateRemoveUnknown, Assoc, RefInv, poolVars
<1>4. CASE UpdateAddNew(m)
  <2>1. PICK g : g = Adder(m.to, m.ip, m.name, m.weight)
    OBVIOUS
  <2>2. g.ip = m.ip /\ g.obj = Nil
    BY <2>1 DEF Adder
  <2>3. /\ adders' = adders \cup {g} /\ n2' = n2 \ {m} /\ AtIp(g.ip) = {} /\ m.type = "add"
        /\ UNCHANGED <<amf, nobj, amfPool, movers, boot>>
    BY <1>4, <2>1, <2>2 DEF UpdateAddNew, IsNewAddress, poolVars, Received
  <2>4. Pooled' = Pooled /\ \A ip : AtIp(ip)' = AtIp(ip)
    BY <2>3 DEF Pooled, AtIp
  <2>5. (\A h \in adders : h.ip # g.ip) /\ \A n \in n2' : n.type = "add" => n.ip # g.ip
    BY <2>2, <2>3 DEF Assoc, AskInv
  <2>6. AskInv'
    BY <2>3, <2>4, <2>5 DEF Assoc, AskInv
  <2>7. BootInv'
    BY <2>2, <2>3 DEF Assoc, BootInv, Begun
  <2>8. RefInv' /\ OneAssociationPerIp'
    BY <2>2, <2>3, <2>4 DEF Assoc, RefInv, OneAssociationPerIp
  <2> QED
    BY <2>6, <2>7, <2>8 DEF Assoc
<1>5. CASE UpdateAssociation(m)
  <2>1. \A p \in 1..nobj : amf'[p].ip = amf[p].ip /\ amf'[p].id = amf[p].id
    <3>1. ASSUME NEW k \in AtIp(m.ip), amf' = [amf EXCEPT ![amfPool[k]] = Renamed(@, m.name, m.weight)]
          PROVE  \A p \in 1..nobj : amf'[p].ip = amf[p].ip /\ amf'[p].id = amf[p].id
      <4>1. amfPool[k] \in Obj /\ amf[amfPool[k]] \in AmfObject
        BY DEF AtIp, Pooled, PoolTypeOK, Assoc, TypeOK
      <4>2. PICK n : n = Renamed(amf[amfPool[k]], m.name, m.weight)
        OBVIOUS
      <4>3. n.ip = amf[amfPool[k]].ip /\ n.id = amf[amfPool[k]].id
        BY <1>0, <4>1, <4>2, NamedObject
      <4> QED
        BY <3>1, <4>1, <4>2, <4>3, OneChange DEF Assoc
    <3> QED
      BY <1>5, <3>1 DEF UpdateAssociation
  <2> QED
    BY <1>5, <2>1, AssocKept DEF UpdateAssociation, Assoc, RefInv
<1>6. CASE UpdateRemove(m)
  <2>1. PICK n : n = [amf[m.to] EXCEPT !.conn = "closed"]
    OBVIOUS
  <2>2. n.ip = amf[m.to].ip /\ n.id = amf[m.to].id
    BY <1>0, <2>1, ConnObject
  <2>3. \A p \in 1..nobj : amf'[p].ip = amf[p].ip /\ amf'[p].id = amf[p].id
    BY <1>0, <1>6, <2>1, <2>2, OneChange DEF UpdateRemove, Assoc
  <2>4. \A k \in Obj : amfPool'[k] \in {amfPool[k], Nil}
    BY <1>6 DEF UpdateRemove, Assoc, TypeOK, PoolTypeOK
  <2> QED
    BY <1>6, <2>3, <2>4, AssocKept DEF UpdateRemove, Assoc, RefInv
<1>7. CASE StatusChooseBackup(m)
  <2>1. \A h \in movers' : h.backup \in 1..nobj /\ (h.obj # Nil => h.obj \in 1..nobj)
    BY <1>7 DEF StatusChooseBackup, Assoc, RefInv
  <2> QED
    BY <1>7, <2>1, AssocKept DEF StatusChooseBackup, Assoc, poolVars
<1> QED
  BY <1>1, <1>2, <1>3, <1>4, <1>5, <1>6, <1>7 DEF Dispatch

LEMMA MovingAssoc == ASSUME Assoc, TypeOK', NEW h \in movers, Moving(h) PROVE Assoc'
<1>0. h \in MoverType /\ h.backup \in 1..nobj /\ (h.obj # Nil => h.obj \in 1..nobj)
  BY DEF Assoc, TypeOK, HndTypeOK, MoverType, RefInv
<1>1. CASE StatusSkip(h)
  <2>1. \A k : LET g == [h EXCEPT !.left = @ \ {k}] IN g.backup = h.backup /\ g.obj = h.obj
    BY <1>0 DEF MoverType
  <2>2. \A g \in movers' : g.backup \in 1..nobj /\ (g.obj # Nil => g.obj \in 1..nobj)
    BY <1>0, <1>1, <2>1 DEF StatusSkip, Assoc, RefInv
  <2> QED
    BY <1>1, <2>2, AssocKept DEF StatusSkip, Assoc, poolVars
<1>2. CASE StatusRebind(h)
  <2>1. \A k : LET g == [h EXCEPT !.left = @ \ {k}, !.key = k, !.obj = amfPool[k]] IN
               g.backup = h.backup /\ g.obj = amfPool[k]
    BY <1>0 DEF MoverType
  <2>2. \A g \in movers' : g.backup \in 1..nobj /\ (g.obj # Nil => g.obj \in 1..nobj)
    <3>1. \A g \in movers : g.backup \in 1..nobj /\ (g.obj # Nil => g.obj \in 1..nobj)
      BY DEF Assoc, RefInv
    <3>2. PICK k \in Matching(h.guami) :
             movers' = (movers \ {h})
                       \cup {[h EXCEPT !.left = @ \ {k}, !.key = k, !.obj = amfPool[k]]}
      BY <1>2 DEF StatusRebind
    <3>3. amfPool[k] \in 1..nobj
      BY DEF Matching, Assoc, RefInv
    <3> QED
      BY <1>0, <2>1, <3>1, <3>2, <3>3
  <2> QED
    BY <1>2, <2>2, AssocKept DEF StatusRebind, Assoc, poolVars
<1>3. CASE StatusRelease(h)
  <2>1. h.obj \in Obj /\ h.key \in Obj /\ amf[h.obj] \in AmfObject
    BY <1>0, <1>3 DEF StatusRelease, MoverType, PoolTypeOK, HndTypeOK, Assoc, TypeOK
  <2>2. PICK n : n = [amf[h.obj] EXCEPT !.conn = "closed"]
    OBVIOUS
  <2>3. n.ip = amf[h.obj].ip /\ n.id = amf[h.obj].id
    BY <2>1, <2>2, ConnObject
  <2>4. \A p \in 1..nobj : amf'[p].ip = amf[p].ip /\ amf'[p].id = amf[p].id
    BY <1>3, <2>1, <2>2, <2>3, OneChange DEF StatusRelease, Assoc
  <2>5. \A k \in Obj : amfPool'[k] \in {amfPool[k], Nil}
    BY <1>3, <2>1 DEF StatusRelease, Assoc, TypeOK, PoolTypeOK
  <2>6. LET g == [h EXCEPT !.key = Nil, !.obj = Nil] IN g.backup = h.backup /\ g.obj = Nil
    BY <1>0 DEF MoverType
  <2>7. \A g \in movers' : g.backup \in 1..nobj /\ (g.obj # Nil => g.obj \in 1..nobj)
    BY <1>0, <1>3, <2>6 DEF StatusRelease, Assoc, RefInv
  <2> QED
    BY <1>3, <2>4, <2>5, <2>7, AssocKept DEF StatusRelease, Assoc
<1>4. CASE StatusEnd(h)
  BY <1>4, AssocKept DEF StatusEnd, Assoc, RefInv, poolVars
<1> QED
  BY <1>1, <1>2, <1>3, <1>4 DEF Moving

LEMMA SendsAssoc ==
    ASSUME Once, Assoc, TypeOK', NEW o \in Obj,
           AmfSendsUpdate(o) \/ AmfSendsRemove(o) \/ AmfSendsStatus(o) \/ AmfLost(o)
    PROVE  Assoc'
<1>1. CASE AmfSendsUpdate(o)
  <2>1. o \in 1..nobj
    BY <1>1 DEF AmfSendsUpdate, Speaking
  <2>2. PICK p \in {"add", "update"}, ip \in Ip, w \in Weight : \E name \in {AmfOf[ip], Nil} :
           /\ AmfOf[ip] = AmfOf[amf[o].ip] /\ (p = "add" => NotAsked(ip))
           /\ n2' = n2 \cup {Msg(p, o, ip, name, w)}
    BY <1>1 DEF AmfSendsUpdate, Once
  <2>3. PICK m : /\ n2' = n2 \cup {m}
                 /\ m.to = o /\ m.ip = ip /\ m.type = p
    <3>1. PICK name : n2' = n2 \cup {Msg(p, o, ip, name, w)}
      BY <2>2
    <3>2. LET m == Msg(p, o, ip, name, w) IN m.to = o /\ m.ip = ip /\ m.type = p
      BY DEF Msg
    <3> QED
      BY <3>1, <3>2
  <2>4. UNCHANGED <<amf, nobj, amfPool, adders, movers, boot>>
    BY <1>1 DEF AmfSendsUpdate, poolVars
  <2>5. CASE p = "update"
    <3>1. AmfOf[ip] \in Begun
      BY <2>1, <2>2 DEF Assoc, BootInv
    <3>2. \A n \in n2' : \/ n \in n2
                         \/ n.type # "add" /\ n.to \in 1..nobj /\ AmfOf[n.ip] \in Begun
      BY <2>1, <2>3, <2>5, <3>1
    <3> QED
      BY <2>4, <3>2, AssocKept DEF Assoc, RefInv
  <2>6. CASE p = "add"
    <3>1. Pooled' = Pooled /\ \A x : AtIp(x)' = AtIp(x)
      BY <2>4 DEF Pooled, AtIp
    <3>2. AskInv'
      BY <2>2, <2>3, <2>4, <2>6, <3>1 DEF Assoc, AskInv, NotAsked
    <3>3. BootInv'
      BY <2>1, <2>2, <2>3, <2>4 DEF Assoc, BootInv, Begun
    <3>4. RefInv' /\ OneAssociationPerIp'
      BY <2>1, <2>3, <2>4, <3>1 DEF Assoc, RefInv, OneAssociationPerIp
    <3> QED
      BY <3>2, <3>3, <3>4 DEF Assoc
  <2> QED
    BY <2>5, <2>6
<1>2. CASE AmfSendsRemove(o)
  <2>1. \A m \in n2' : \/ m \in n2
                       \/ m.type # "add" /\ m.to \in 1..nobj /\ AmfOf[m.ip] \in Begun
    BY <1>2 DEF AmfSendsRemove, Speaking, Msg, Assoc, BootInv
  <2> QED
    BY <1>2, <2>1, AssocKept DEF AmfSendsRemove, Assoc, RefInv, poolVars
<1>3. CASE AmfSendsStatus(o)
  <2>1. \A m \in n2' : \/ m \in n2
                       \/ m.type # "add" /\ m.to \in 1..nobj /\ AmfOf[m.ip] \in Begun
    BY <1>3 DEF AmfSendsStatus, Speaking, Msg, Assoc, BootInv
  <2> QED
    BY <1>3, <2>1, AssocKept DEF AmfSendsStatus, Assoc, RefInv, poolVars
<1>4. CASE AmfLost(o)
  <2>1. PICK n : n = [amf[o] EXCEPT !.conn = "lost"]
    OBVIOUS
  <2>2. n.ip = amf[o].ip /\ n.id = amf[o].id
    BY <2>1, ConnObject DEF Assoc, TypeOK, PoolTypeOK
  <2>3. \A p \in 1..nobj : amf'[p].ip = amf[p].ip /\ amf'[p].id = amf[p].id
    BY <1>4, <2>1, <2>2, OneChange DEF AmfLost, Assoc
  <2> QED
    BY <1>4, <2>3, AssocKept DEF AmfLost, Assoc, RefInv
<1> QED
  BY <1>1, <1>2, <1>3, <1>4

LEMMA UeAssoc ==
    ASSUME Assoc, TypeOK', NEW u \in Ue,
           NewGnBUe(u) \/ SetAmf(u) \/ SendToAmF(u) \/ UeReleased(u)
    PROVE  Assoc'
<1>1. UNCHANGED <<poolVars, boot, hndVars>>
  BY DEF NewGnBUe, SetAmf, SendToAmF, UeReleased
<1> QED
  BY <1>1, AssocKept DEF Assoc, RefInv, poolVars, hndVars

LEMMA NextAssoc == Once /\ Assoc /\ [Next]_vars => Assoc'
<1> SUFFICES ASSUME Once, Assoc, [Next]_vars PROVE Assoc'
  OBVIOUS
<1>0. TypeOK'
  BY NextType DEF Assoc
<1>1. CASE UNCHANGED vars
  BY <1>0, <1>1, AssocKept DEF vars, Assoc, RefInv, poolVars, hndVars
<1>2. ASSUME NEW h \in adders, Connecting(h) PROVE Assoc'
  BY <1>0, <1>2, DrawAssoc, StoreAssoc, ConnAssoc DEF Connecting
<1> QED
  BY <1>0, <1>1, <1>2, InitGnbAssoc, DispatchAssoc, MovingAssoc, SendsAssoc, UeAssoc DEF Next

\* The gNodeB has one association per AMF address, for any AMFs, endpoints and UEs and
\* in every order of the goroutines that start up, add, remove and move AMFs, provided
\* that no AMF adds an endpoint again before the gNodeB is done with its last addition
\* of it.
THEOREM OneAssociationTheorem == ASSUME Once PROVE Spec => []OneAssociationPerIp
<1>1. Assoc /\ [Next]_vars => Assoc'
  BY NextAssoc
<1>2. Assoc => OneAssociationPerIp
  BY DEF Assoc
<1> QED
  BY <1>1, <1>2, InitAssoc, PTL DEF Spec

-----------------------------------------------------------------------------
(* Served, when the AMFs send one indication or removal at a time and ask  *)
(* for the removal of the endpoint they speak on only.                     *)

Alone == "crossing" \notin Overlaps /\ "removeOther" \notin Procedures

\* Names and GUAMIs are those of the AMF the endpoint belongs to, once given.
Own(name, ip) == name \in {Nil, AmfOf[ip]}
NameInv ==
    /\ \A o \in 1..nobj : Own(amf[o].name, amf[o].ip) /\ Own(amf[o].guami, amf[o].ip)
    /\ \A h \in adders : Own(h.name, h.ip) /\ (h.obj # Nil => amf[h.obj].ip = h.ip)
    /\ \A m \in n2 :
          /\ m.type = "ngSetupResponse" => Own(m.name, amf[m.to].ip)
          /\ m.type \in {"add", "update"} => Own(m.name, m.ip)
          /\ m.type = "status" => m.name \in Amf \ {AmfOf[m.ip]}
          /\ m.type = "remove" => m.ip = amf[m.to].ip

\* What is in the pool has not been closed.
CloseInv == \A k \in Pooled : amf[amfPool[k]].conn # "closed"

\* One indication or removal is on its way or being handled.
Moves(m) == m.type \in {"status", "remove"}
QuietInv ==
    /\ \A h, g \in movers : h = g
    /\ \A m, n \in n2 : Moves(m) /\ Moves(n) => m = n
    /\ movers # {} => \A m \in n2 : ~Moves(m)

\* An AMF with an id of its own is where a UE looks for it.
Good(o) == o \in OwnId => amfPool[amf[o].id] = o /\ amf[o].conn # "closed"

UeInv ==
    \A u \in Ue :
        /\ ue[u].pc = "selected" => ue[u].sel \in 1..nobj
        /\ ue[u].pc = "attached" /\ ue[u].sctp # Nil =>
              ue[u].sctp \in 1..nobj /\ ue[u].amfId = amf[ue[u].sctp].id
CalmInv ==
    \A u \in calm :
        /\ ue[u].pc = "selected" => Good(ue[u].sel)
        /\ ue[u].pc = "attached" /\ ue[u].sctp # Nil => Good(ue[u].sctp)

\* The backup of an indication is sound; no calm UE is on the association about to be
\* released, and none is being connected.
MoveInv ==
    \A h \in movers :
        /\ AmfOf[amf[h.backup].ip] # h.guami /\ Good(h.backup)
        /\ h.obj # Nil =>
              /\ amf[h.obj].id = h.key /\ AmfOf[amf[h.obj].ip] = h.guami
              /\ \A u \in calm : ue[u].pc = "attached" => ue[u].sctp # h.obj
        /\ \A u \in calm : ue[u].pc # "selected"

\* No calm UE is on an endpoint that is about to be removed.
RemoveInv ==
    \A m \in n2 : m.type = "remove" =>
        \A u \in calm :
            /\ ue[u].pc # "selected"
            /\ ue[u].pc = "attached" /\ ue[u].sctp # Nil => amf[ue[u].sctp].ip # m.ip

ServeInv == CloseInv /\ QuietInv /\ UeInv /\ CalmInv /\ MoveInv /\ RemoveInv

Serving == Assoc /\ NameInv /\ ServeInv

LEMMA InitServing == Init => Serving
<1> SUFFICES ASSUME Init PROVE Serving
  OBVIOUS
<1>1. Assoc /\ Pooled = {}
  BY InitAssoc, InitType DEF Init, Pooled
<1>2. NameInv
  BY DEF Init, NameInv
<1>3. CloseInv /\ QuietInv /\ MoveInv /\ RemoveInv /\ CalmInv
  BY <1>1 DEF Init, CloseInv, QuietInv, MoveInv, RemoveInv, CalmInv
<1>4. UeInv
  BY DEF Init, UeInv, Out
<1> QED
  BY <1>1, <1>2, <1>3, <1>4 DEF Serving, ServeInv

\* Names: a step that keeps the adders and gives no object a foreign name.
LEMMA NameKept ==
    ASSUME Assoc, NameInv, UNCHANGED nobj,
           \A o \in 1..nobj : /\ amf'[o].ip = amf[o].ip
                              /\ Own(amf'[o].name, amf[o].ip) /\ Own(amf'[o].guami, amf[o].ip),
           adders' \subseteq adders,
           \A m \in n2' :
              \/ m \in n2
              \/ /\ m.to \in 1..nobj
                 /\ m.type = "ngSetupResponse" => Own(m.name, amf[m.to].ip)
                 /\ m.type \in {"add", "update"} => Own(m.name, m.ip)
                 /\ m.type = "status" => m.name \in Amf \ {AmfOf[m.ip]}
                 /\ m.type = "remove" => m.ip = amf[m.to].ip
    PROVE  NameInv'
<1>1. \A o \in 1..nobj' : Own(amf'[o].name, amf'[o].ip) /\ Own(amf'[o].guami, amf'[o].ip)
  OBVIOUS
<1>2. \A h \in adders' : Own(h.name, h.ip) /\ (h.obj # Nil => amf'[h.obj].ip = h.ip)
  BY DEF NameInv, Assoc, RefInv
<1>3. \A m \in n2' : m.to \in 1..nobj
  BY DEF Assoc, RefInv
<1>4. \A m \in n2' : /\ m.type = "ngSetupResponse" => Own(m.name, amf'[m.to].ip)
                     /\ m.type \in {"add", "update"} => Own(m.name, m.ip)
                     /\ m.type = "status" => m.name \in Amf \ {AmfOf[m.ip]}
                     /\ m.type = "remove" => m.ip = amf'[m.to].ip
  BY <1>3 DEF NameInv
<1> QED
  BY <1>1, <1>2, <1>4 DEF NameInv, Own

\* A step that leaves the pool alone and closes nothing.
LEMMA GoodSame ==
    ASSUME Assoc, UNCHANGED <<nobj, amfPool>>,
           \A o \in 1..nobj : /\ amf'[o].id = amf[o].id
                              /\ amf'[o].conn = "closed" => amf[o].conn = "closed"
    PROVE  (\A o \in 1..nobj : Good(o) => Good(o)') /\ (CloseInv => CloseInv')
<1>1. \A o \in 1..nobj : Good(o) => Good(o)'
  BY DEF Good, OwnId
<1>2. CloseInv => CloseInv'
  BY DEF CloseInv, Pooled, Assoc, RefInv
<1> QED
  BY <1>1, <1>2

\* A step that moves no UE and starts no indication or removal.
LEMMA ServeKept ==
    ASSUME Assoc, ServeInv, UNCHANGED <<ue, movers>>, calm' \subseteq calm,
           \A o \in 1..nobj : o \in 1..nobj',
           \A o \in 1..nobj : amf'[o].ip = amf[o].ip /\ amf'[o].id = amf[o].id,
           \A o \in 1..nobj : Good(o) => Good(o)', CloseInv',
           \A m \in n2' : m \in n2 \/ ~Moves(m)
    PROVE  ServeInv'
<1>0. UeInv /\ CalmInv /\ MoveInv /\ RemoveInv /\ QuietInv
  BY DEF ServeInv
<1>1. UeInv'
  BY <1>0 DEF UeInv
<1>2. CalmInv'
  <2>1. calm \subseteq Ue
    BY DEF Assoc, TypeOK, UeTypeOK
  <2>2. ASSUME NEW u \in calm, ue[u].pc = "selected" PROVE Good(ue[u].sel)'
    <3>1. PICK o \in 1..nobj : o = ue[u].sel
      BY <1>0, <2>1, <2>2 DEF UeInv
    <3>2. Good(o)
      BY <1>0, <2>2, <3>1 DEF CalmInv
    <3>3. Good(o)'
      BY <3>2
    <3> QED
      BY <3>1, <3>3 DEF Good
  <2>3. ASSUME NEW u \in calm, ue[u].pc = "attached", ue[u].sctp # Nil PROVE Good(ue[u].sctp)'
    <3>1. PICK o \in 1..nobj : o = ue[u].sctp
      BY <1>0, <2>1, <2>3 DEF UeInv
    <3>2. Good(o)
      BY <1>0, <2>3, <3>1 DEF CalmInv
    <3>3. Good(o)'
      BY <3>2
    <3> QED
      BY <3>1, <3>3 DEF Good
  <2> QED
    BY <2>2, <2>3 DEF CalmInv
<1>3. MoveInv'
  <2>1. \A h \in movers : h.backup \in 1..nobj /\ (h.obj # Nil => h.obj \in 1..nobj)
    BY DEF Assoc, RefInv
  <2>2. ASSUME NEW h \in movers PROVE Good(h.backup)'
    <3>1. PICK o \in 1..nobj : o = h.backup
      BY <2>1
    <3>2. Good(o)'
      BY <1>0, <3>1 DEF MoveInv
    <3> QED
      BY <3>1, <3>2 DEF Good
  <2>3. \A h \in movers :
           /\ AmfOf[amf'[h.backup].ip] # h.guami
           /\ h.obj # Nil =>
                 /\ amf'[h.obj].id = h.key /\ AmfOf[amf'[h.obj].ip] = h.guami
                 /\ \A u \in calm' : ue[u].pc = "attached" => ue[u].sctp # h.obj
           /\ \A u \in calm' : ue[u].pc # "selected"
    BY <1>0, <2>1 DEF MoveInv
  <2> QED
    BY <2>2, <2>3 DEF MoveInv
<1>4. RemoveInv'
  <2>1. ASSUME NEW m \in n2', m.type = "remove", NEW u \in calm'
        PROVE  /\ ue[u].pc # "selected"
               /\ ue[u].pc = "attached" /\ ue[u].sctp # Nil => amf'[ue[u].sctp].ip # m.ip
    <3>1. m \in n2
      BY <2>1 DEF Moves
    <3>2. u \in calm /\ u \in Ue
      BY DEF Assoc, TypeOK, UeTypeOK
    <3>3. ue[u].pc = "attached" /\ ue[u].sctp # Nil => ue[u].sctp \in 1..nobj
      BY <1>0, <3>2 DEF UeInv
    <3> QED
      BY <1>0, <2>1, <3>1, <3>2, <3>3 DEF RemoveInv
  <2> QED
    BY <2>1 DEF RemoveInv
<1>5. QuietInv'
  BY <1>0 DEF QuietInv, Moves
<1> QED
  BY <1>1, <1>2, <1>3, <1>4, <1>5 DEF ServeInv

\* What has the endpoint of a message or goroutine is known by it.
LEMMA ConnectingServing ==
    ASSUME Serving, Assoc', NEW h \in adders, Connecting(h) PROVE Serving'
<1> USE DEF Serving
<1>0. TypeOK /\ RefInv /\ NameInv /\ nobj \in Nat
  BY DEF Assoc, TypeOK, PoolTypeOK
<1>1. CASE getRanAmfId(h)
  <2>1. PICK g : g = [h EXCEPT !.id = idAmfGenerator]
    OBVIOUS
  <2>2. g.ip = h.ip /\ g.obj = h.obj /\ g.name = h.name
    BY <1>0, <2>1 DEF TypeOK, HndTypeOK
  <2>3. adders' = (adders \ {h}) \cup {g} /\ UNCHANGED <<amf, nobj, amfPool, n2, movers, ue, calm>>
    BY <1>1, <2>1 DEF getRanAmfId, poolVars
  <2>4. NameInv'
    BY <2>2, <2>3 DEF NameInv, Own
  <2>5. ServeInv'
    BY <2>3, GoodSame, ServeKept DEF ServeInv
  <2> QED
    BY <2>4, <2>5
<1>2. CASE NewGnBAmf(h)
  <2>1. /\ nobj' = nobj + 1 /\ nobj + 1 \in Obj /\ h.id \in Obj
        /\ \A o \in 1..nobj : amf'[o] = amf[o]
        /\ amf'[nobj + 1].ip = h.ip /\ amf'[nobj + 1].id = h.id
        /\ amf'[nobj + 1].name = h.name /\ amf'[nobj + 1].guami = h.name
        /\ amf'[nobj + 1].conn = "none"
        /\ amfPool'[h.id] = nobj + 1
        /\ \A k \in Obj : k # h.id => amfPool'[k] = amfPool[k]
    BY <1>0, <1>2, StoreFacts
  <2>2. PICK g : g = [h EXCEPT !.obj = nobj + 1]
    OBVIOUS
  <2>3. g.ip = h.ip /\ g.obj = nobj + 1 /\ g.name = h.name
    BY <1>0, <2>2 DEF TypeOK, HndTypeOK
  <2>4. adders' = (adders \ {h}) \cup {g} /\ UNCHANGED <<n2, movers, ue, calm>>
    BY <1>2, <2>2 DEF NewGnBAmf
  <2>5. NameInv'
    <3>1. \A o \in 1..nobj' : o \in 1..nobj \/ o = nobj + 1
      BY <1>0, <2>1
    <3>2. \A o \in 1..nobj' : Own(amf'[o].name, amf'[o].ip) /\ Own(amf'[o].guami, amf'[o].ip)
      BY <2>1, <3>1 DEF NameInv
    <3>3. \A x \in adders' : Own(x.name, x.ip) /\ (x.obj # Nil => amf'[x.obj].ip = x.ip)
      BY <1>0, <2>1, <2>3, <2>4 DEF NameInv, RefInv
    <3>4. \A m \in n2 : amf'[m.to] = amf[m.to]
      BY <1>0, <2>1 DEF RefInv
    <3>5. \A m \in n2' : /\ m.type = "ngSetupResponse" => Own(m.name, amf'[m.to].ip)
                         /\ m.type \in {"add", "update"} => Own(m.name, m.ip)
                         /\ m.type = "status" => m.name \in Amf \ {AmfOf[m.ip]}
                         /\ m.type = "remove" => m.ip = amf'[m.to].ip
      BY <2>4, <3>4 DEF NameInv
    <3> QED
      BY <3>2, <3>3, <3>5 DEF NameInv, Own
  <2>6. \A o \in 1..nobj : o \in 1..nobj' /\ nobj + 1 \in 1..nobj'
    BY <1>0, <2>1
  <2>7. ASSUME NEW o \in 1..nobj, Good(o) PROVE Good(o)'
    <3>1. ASSUME o \in OwnId' PROVE o \in OwnId /\ amf[o].id # h.id
      BY <1>0, <2>1, <2>6, <3>1 DEF OwnId
    <3>2. amf[o].id \in Obj /\ amf'[o] = amf[o]
      BY <1>0, <2>1 DEF RefInv
    <3>3. ASSUME o \in OwnId' PROVE amfPool'[amf[o].id] = o
      <4>1. amfPool[amf[o].id] = o /\ amf[o].id # h.id
        BY <2>7, <3>1, <3>3 DEF Good
      <4> QED
        BY <2>1, <3>2, <4>1
    <3> QED
      BY <2>7, <3>1, <3>2, <3>3 DEF Good
  <2>8. CloseInv'
    BY <1>0, <2>1 DEF CloseInv, ServeInv, Pooled, RefInv
  <2> QED
    BY <2>1, <2>4, <2>5, <2>6, <2>7, <2>8, ServeKept
<1>3. CASE InitConn(h)
  <2>1. h.obj \in Obj /\ h.obj \in 1..nobj /\ amf[h.obj] \in AmfObject
    BY <1>0, <1>3 DEF InitConn, RefInv, TypeOK, HndTypeOK, PoolTypeOK
  <2>2. PICK n : n = [amf[h.obj] EXCEPT !.conn = "open"]
    OBVIOUS
  <2>3. /\ n.ip = amf[h.obj].ip /\ n.id = amf[h.obj].id /\ n.conn = "open"
        /\ n.name = amf[h.obj].name /\ n.guami = amf[h.obj].guami
    BY <2>1, <2>2, ConnObject
  <2>4. \A p \in 1..nobj : /\ amf'[p].ip = amf[p].ip /\ amf'[p].id = amf[p].id
                           /\ amf'[p].name = amf[p].name /\ amf'[p].guami = amf[p].guami
                           /\ amf'[p].conn = "closed" => amf[p].conn = "closed"
    BY <1>0, <1>3, <2>1, <2>2, <2>3 DEF InitConn, TypeOK, PoolTypeOK, Obj
  <2>5. \A m \in n2' : \/ m \in n2
                       \/ /\ m.to = h.obj /\ m.type \in {"ngSetupResponse", "ngSetupFailure"}
                          /\ m.name = AmfOf[h.ip]
    BY <1>3 DEF InitConn, Msg
  <2>6. amf[h.obj].ip = h.ip
    BY <1>0, <1>3, <2>1, ConstAssumption DEF NameInv, InitConn
  <2>7. NameInv'
    BY <1>0, <1>3, <2>1, <2>4, <2>5, <2>6, NameKept DEF InitConn, NameInv, Own
  <2>8. ServeInv'
    BY <1>0, <1>3, <2>4, <2>5, GoodSame, ServeKept DEF InitConn, Moves, ServeInv
  <2> QED
    BY <2>7, <2>8
<1>4. CASE InitConnFails(h)
  <2>1. NameInv'
    BY <1>0, <1>4, NameKept DEF InitConnFails, poolVars, hndVars, NameInv
  <2>2. ServeInv'
    BY <1>4, GoodSame, ServeKept DEF InitConnFails, poolVars, hndVars, ServeInv
  <2> QED
    BY <2>1, <2>2
<1> QED
  BY <1>1, <1>2, <1>3, <1>4 DEF Connecting

LEMMA InitGnbServing == ASSUME Serving, Assoc', InitGnb PROVE Serving'
<1>1. PICK g : g = Adder(Nil, Configured[boot], Nil, 0)
  OBVIOUS
<1>2. g.name = Nil /\ g.obj = Nil
  BY <1>1 DEF Adder
<1>3. adders' = adders \cup {g} /\ UNCHANGED <<amf, nobj, amfPool, n2, movers, ue, calm>>
  BY <1>1 DEF InitGnb, poolVars
<1>4. NameInv'
  BY <1>2, <1>3 DEF NameInv, Own, Serving
<1>5. ServeInv'
  BY <1>3, GoodSame, ServeKept DEF Serving, ServeInv
<1> QED
  BY <1>4, <1>5 DEF Serving

LEMMA SetupServing ==
    ASSUME Serving, Assoc', NEW m \in n2, HandlerNgSetupResponse(m) \/ HandlerNgSetupFailure(m)
    PROVE  Serving'
<1> USE DEF Serving
<1>0. /\ TypeOK /\ m.to \in Obj /\ m.to \in 1..nobj /\ amf[m.to] \in AmfObject
      /\ m.name \in Amf \cup {Nil}
  BY DEF Assoc, RefInv, TypeOK, HndTypeOK, PoolTypeOK, Message
<1>1. PICK n : /\ amf' = [amf EXCEPT ![m.to] = n] /\ n.ip = amf[m.to].ip /\ n.id = amf[m.to].id
               /\ n.conn = amf[m.to].conn /\ n.guami = amf[m.to].guami
               /\ Own(n.name, amf[m.to].ip)
  <2>1. CASE HandlerNgSetupResponse(m)
    <3>1. PICK n : n = Activated(amf[m.to], m.name)
      OBVIOUS
    <3>2. /\ n.ip = amf[m.to].ip /\ n.id = amf[m.to].id /\ n.name = m.name
          /\ n.guami = amf[m.to].guami /\ n.conn = amf[m.to].conn
      BY <1>0, <3>1, ActiveObject
    <3>3. Own(m.name, amf[m.to].ip)
      BY <2>1 DEF HandlerNgSetupResponse, Received, NameInv
    <3> QED
      BY <2>1, <3>1, <3>2, <3>3 DEF HandlerNgSetupResponse
  <2>2. CASE HandlerNgSetupFailure(m)
    <3>1. PICK n : n = [amf[m.to] EXCEPT !.state = "Inactive"]
      OBVIOUS
    <3>2. /\ n.ip = amf[m.to].ip /\ n.id = amf[m.to].id /\ n.name = amf[m.to].name
          /\ n.guami = amf[m.to].guami /\ n.conn = amf[m.to].conn
      BY <1>0, <3>1, InactiveObject
    <3>3. Own(amf[m.to].name, amf[m.to].ip)
      BY <1>0 DEF NameInv
    <3> QED
      BY <2>2, <3>1, <3>2, <3>3 DEF HandlerNgSetupFailure
  <2> QED
    BY <2>1, <2>2
<1>2. \A p \in 1..nobj : /\ amf'[p].ip = amf[p].ip /\ amf'[p].id = amf[p].id
                         /\ amf'[p].conn = amf[p].conn
                         /\ Own(amf'[p].name, amf[p].ip) /\ Own(amf'[p].guami, amf[p].ip)
  BY <1>0, <1>1 DEF TypeOK, PoolTypeOK, Obj, NameInv
<1>3. n2' \subseteq n2 /\ UNCHANGED <<nobj, amfPool, adders, movers, ue, calm>>
  BY DEF HandlerNgSetupResponse, HandlerNgSetupFailure
<1>4. NameInv'
  BY <1>2, <1>3, NameKept
<1>5. ServeInv'
  BY <1>2, <1>3, GoodSame, ServeKept DEF ServeInv
<1> QED
  BY <1>4, <1>5

LEMMA UpdateServing ==
    ASSUME Serving, Assoc', NEW m \in n2,
           UpdateAddKnown(m) \/ UpdateRemoveUnknown(m) \/ UpdateAddNew(m) \/ UpdateAssociation(m)
    PROVE  Serving'
<1> USE DEF Serving
<1>0. TypeOK /\ m.name \in Amf \cup {Nil} /\ m.weight \in Nat
  BY DEF Assoc, TypeOK, HndTypeOK, Message
<1>1. CASE UpdateAddKnown(m) \/ UpdateRemoveUnknown(m)
  <2>1. n2' \subseteq n2 /\ UNCHANGED <<amf, nobj, amfPool, adders, movers, ue, calm>>
    BY <1>1 DEF UpdateAddKnown, UpdateRemoveUnknown, poolVars
  <2>2. NameInv'
    BY <2>1, NameKept DEF NameInv
  <2>3. ServeInv'
    BY <2>1, GoodSame, ServeKept DEF ServeInv
  <2> QED
    BY <2>2, <2>3
<1>2. CASE UpdateAddNew(m)
  <2>1. PICK g : g = Adder(m.to, m.ip, m.name, m.weight)
    OBVIOUS
  <2>2. g.name = m.name /\ g.ip = m.ip /\ g.obj = Nil
    BY <2>1 DEF Adder
  <2>3. /\ adders' = adders \cup {g} /\ n2' \subseteq n2 /\ m.type = "add"
        /\ UNCHANGED <<amf, nobj, amfPool, movers, ue, calm>>
    BY <1>2, <2>1 DEF UpdateAddNew, Received, poolVars
  <2>4. NameInv'
    BY <2>2, <2>3 DEF NameInv, Own
  <2>5. ServeInv'
    BY <2>3, GoodSame, ServeKept DEF ServeInv
  <2> QED
    BY <2>4, <2>5
<1>3. CASE UpdateAssociation(m)
  <2>1. \A p \in 1..nobj : /\ amf'[p].ip = amf[p].ip /\ amf'[p].id = amf[p].id
                           /\ amf'[p].conn = amf[p].conn
                           /\ Own(amf'[p].name, amf[p].ip) /\ Own(amf'[p].guami, amf[p].ip)
    <3>1. ASSUME NEW k \in AtIp(m.ip), amf' = [amf EXCEPT ![amfPool[k]] = Renamed(@, m.name, m.weight)]
          PROVE  \A p \in 1..nobj : /\ amf'[p].ip = amf[p].ip /\ amf'[p].id = amf[p].id
                                    /\ amf'[p].conn = amf[p].conn
                                    /\ Own(amf'[p].name, amf[p].ip) /\ Own(amf'[p].guami, amf[p].ip)
      <4>1. amfPool[k] \in Obj /\ amf[amfPool[k]] \in AmfObject /\ amf[amfPool[k]].ip = m.ip
        BY <1>0 DEF AtIp, Pooled, PoolTypeOK, TypeOK
      <4>2. PICK n : n = Renamed(amf[amfPool[k]], m.name, m.weight)
        OBVIOUS
      <4>3. /\ n.ip = m.ip /\ n.id = amf[amfPool[k]].id /\ n.conn = amf[amfPool[k]].conn
            /\ n.name = m.name /\ n.guami = m.name
        BY <1>0, <4>1, <4>2, NamedObject
      <4>4. Own(m.name, m.ip)
        BY <1>3 DEF UpdateAssociation, Received, NameInv
      <4> QED
        BY <1>0, <3>1, <4>1, <4>2, <4>3, <4>4 DEF TypeOK, PoolTypeOK, Obj, NameInv
    <3>2. CASE UNCHANGED amf
      BY <3>2 DEF NameInv
    <3> QED
      BY <1>3, <3>1, <3>2 DEF UpdateAssociation
  <2>2. n2' \subseteq n2 /\ UNCHANGED <<nobj, amfPool, adders, movers, ue, calm>>
    BY <1>3 DEF UpdateAssociation
  <2>3. NameInv'
    BY <2>1, <2>2, NameKept
  <2>4. ServeInv'
    BY <2>1, <2>2, GoodSame, ServeKept DEF ServeInv
  <2> QED
    BY <2>3, <2>4
<1> QED
  BY <1>1, <1>2, <1>3

\* A removal takes what the pool has for the address, which is the association the
\* removal came over if that is still in the pool, and no calm UE is on it.
LEMMA RemoveServing == ASSUME Serving, Assoc', NEW m \in n2, UpdateRemove(m) PROVE Serving'
<1> USE DEF Serving
<1>0. /\ TypeOK /\ m.to \in Obj /\ m.to \in 1..nobj /\ amf[m.to] \in AmfObject
      /\ m.type = "remove" /\ m.ip = amf[m.to].ip
  BY DEF Assoc, RefInv, TypeOK, HndTypeOK, PoolTypeOK, Message, UpdateRemove, Received, NameInv
<1>1. PICK n : n = [amf[m.to] EXCEPT !.conn = "closed"]
  OBVIOUS
<1>2. /\ n.ip = amf[m.to].ip /\ n.id = amf[m.to].id /\ n.name = amf[m.to].name
      /\ n.guami = amf[m.to].guami /\ n.conn = "closed"
  BY <1>0, <1>1, ConnObject
<1>3. PICK k \in AtIp(m.ip) : amfPool' = [amfPool EXCEPT ![k] = Nil]
  BY DEF UpdateRemove
<1>4. /\ k \in Obj /\ k \in Pooled /\ amfPool'[k] = Nil
      /\ \A j \in Obj : j # k => amfPool'[j] = amfPool[j]
  BY <1>0, <1>3 DEF AtIp, Pooled, TypeOK, PoolTypeOK
<1>5. /\ amf' = [amf EXCEPT ![m.to] = n] /\ n2' \subseteq n2 \ {m}
      /\ UNCHANGED <<nobj, adders, movers, ue, calm>>
  BY <1>1 DEF UpdateRemove
<1>6. \A p \in 1..nobj : /\ amf'[p].ip = amf[p].ip /\ amf'[p].id = amf[p].id
                         /\ amf'[p].name = amf[p].name /\ amf'[p].guami = amf[p].guami
                         /\ p # m.to => amf'[p].conn = amf[p].conn
  BY <1>0, <1>2, <1>5 DEF TypeOK, PoolTypeOK, Obj
<1>7. movers = {} /\ \A x \in n2' : ~Moves(x)
  BY <1>0, <1>5 DEF ServeInv, QuietInv, Moves
<1>8. \A x \in n2' : x \in n2
  BY <1>5
<1>9. NameInv'
  BY <1>5, <1>6, <1>8, NameKept DEF NameInv
<1>10. CloseInv'
  <2>1. ASSUME NEW j \in Pooled' PROVE amf'[amfPool'[j]].conn # "closed"
    <3>1. j # k /\ j \in Pooled /\ amfPool'[j] = amfPool[j] /\ amfPool[j] \in 1..nobj
      BY <1>4 DEF Pooled, Assoc, RefInv
    <3>2. amfPool[j] # m.to
      BY <1>0, <1>3, <1>4, <3>1 DEF Assoc, OneAssociationPerIp, AtIp
    <3> QED
      BY <1>6, <3>1, <3>2 DEF ServeInv, CloseInv
  <2> QED
    BY <2>1 DEF CloseInv
<1>11. UeInv'
  BY <1>5, <1>6 DEF ServeInv, UeInv
<1>12. CalmInv'
  <2>1. calm \subseteq Ue
    BY <1>0 DEF TypeOK, UeTypeOK
  <2>2. ASSUME NEW u \in calm, ue[u].pc = "attached", ue[u].sctp # Nil PROVE Good(ue[u].sctp)'
    <3>1. PICK o \in 1..nobj : o = ue[u].sctp
      BY <2>1, <2>2 DEF ServeInv, UeInv
    <3>2. Good(o) /\ amf[o].ip # m.ip
      BY <1>0, <2>2, <3>1 DEF ServeInv, CalmInv, RemoveInv
    <3>3. OwnId' = OwnId
      BY <1>5, <1>6 DEF OwnId
    <3>4. ASSUME o \in OwnId PROVE amfPool'[amf[o].id] = o /\ amf'[o].conn # "closed"
      <4>1. amfPool[amf[o].id] = o /\ amf[o].conn # "closed" /\ amf[o].id \in Obj
        BY <3>2, <3>4 DEF Good, Assoc, RefInv
      <4>2. amf[o].id # k /\ o # m.to
        BY <1>0, <1>3, <3>2, <4>1 DEF AtIp
      <4> QED
        BY <1>4, <1>6, <4>1, <4>2
    <3>5. Good(o)'
      BY <1>6, <3>3, <3>4 DEF Good
    <3> QED
      BY <1>5, <3>1, <3>5 DEF Good
  <2>3. \A u \in calm : ue[u].pc # "selected"
    BY <1>0 DEF ServeInv, RemoveInv
  <2> QED
    BY <1>5, <2>2, <2>3 DEF CalmInv
<1>13. MoveInv' /\ RemoveInv' /\ QuietInv'
  BY <1>5, <1>7 DEF MoveInv, RemoveInv, QuietInv, Moves
<1> QED
  BY <1>9, <1>10, <1>11, <1>12, <1>13 DEF ServeInv

LEMMA ChooseServing == ASSUME Serving, Assoc', NEW m \in n2, StatusChooseBackup(m) PROVE Serving'
<1> USE DEF Serving
<1>0. /\ TypeOK /\ m.type = "status" /\ m.name \in Amf /\ m.name # AmfOf[m.ip] /\ m.name # Nil
  BY ConstAssumption DEF Assoc, StatusChooseBackup, Received, NameInv
<1>1. movers = {} /\ \A x \in n2' : x \in n2 /\ ~Moves(x)
  BY <1>0 DEF ServeInv, QuietInv, Moves, StatusChooseBackup
<1>2. UNCHANGED <<amf, nobj, amfPool, adders, ue>>
  BY DEF StatusChooseBackup, poolVars
<1>3. calm' \subseteq calm /\ \A u \in calm' : ue[u].pc # "selected"
  BY DEF StatusChooseBackup, Connected
<1>4. NameInv'
  BY <1>1, <1>2, NameKept DEF NameInv
<1>5. \A h \in movers' : /\ \A g \in movers' : h = g
                         /\ h.obj = Nil /\ AmfOf[amf[h.backup].ip] # h.guami /\ Good(h.backup)
  <2>1. ASSUME NEW k \in Pooled, amf[amfPool[k]].name = m.name
        PROVE  /\ AmfOf[amf[amfPool[k]].ip] # AmfOf[m.ip]
               /\ Good(amfPool[k])
    <3>1. amfPool[k] \in 1..nobj /\ amf[amfPool[k]].id = k
      BY DEF Assoc, RefInv
    <3>2. AmfOf[amf[amfPool[k]].ip] = m.name
      BY <1>0, <2>1, <3>1 DEF NameInv, Own
    <3> QED
      BY <1>0, <3>1, <3>2 DEF Good, ServeInv, CloseInv
  <2>2. CASE UNCHANGED movers
    BY <1>1, <2>2
  <2>3. ASSUME NEW k \in Pooled, amf[amfPool[k]].name = m.name, NEW left,
               movers' = movers \cup {[guami |-> AmfOf[m.ip], backup |-> amfPool[k],
                                       left |-> left, key |-> Nil, obj |-> Nil]}
        PROVE  \A h \in movers' : /\ \A g \in movers' : h = g
                                  /\ h.obj = Nil /\ AmfOf[amf[h.backup].ip] # h.guami
                                  /\ Good(h.backup)
    BY <1>1, <2>1, <2>3
  <2>4. \/ UNCHANGED movers
        \/ \E k \in Pooled : amf[amfPool[k]].name = m.name /\ \E left :
              movers' = movers \cup {[guami |-> AmfOf[m.ip], backup |-> amfPool[k],
                                      left |-> left, key |-> Nil, obj |-> Nil]}
    BY DEF StatusChooseBackup
  <2> QED
    BY <2>2, <2>3, <2>4
<1>7. MoveInv'
  BY <1>2, <1>3, <1>5 DEF MoveInv, Good, OwnId
<1>8. CalmInv'
  BY <1>2, <1>3 DEF ServeInv, CalmInv, Good, OwnId
<1>9. CloseInv' /\ UeInv'
  BY <1>2 DEF ServeInv, CloseInv, UeInv, Pooled
<1>10. RemoveInv' /\ QuietInv'
  BY <1>1, <1>5 DEF RemoveInv, QuietInv, Moves
<1> QED
  BY <1>4, <1>7, <1>8, <1>9, <1>10 DEF ServeInv

\* What an indication does to the UEs.
LEMMA ReboundFacts ==
    ASSUME TypeOK, NEW h \in movers, NEW k \in Pooled, ue' = Rebind(h, k),
           UNCHANGED calm, NEW u \in Ue
    PROVE  /\ ue'[u].pc = ue[u].pc /\ ue'[u].sel = ue[u].sel
           /\ IF ue[u].amfId = amf[amfPool[k]].id
              THEN /\ ue'[u].amfId = amf[h.backup].id /\ ue'[u].sctp = GetSCTPConn(h.backup)
              ELSE ue'[u].amfId = ue[u].amfId /\ ue'[u].sctp = ue[u].sctp
<1>1. h.backup \in Obj /\ amf[h.backup].id \in 0..MaxObj /\ GetSCTPConn(h.backup) \in Obj \cup {Nil}
  BY DEF TypeOK, HndTypeOK, PoolTypeOK, AmfObject, GetSCTPConn
<1>2. ue[u] \in UeContext
  BY DEF TypeOK, UeTypeOK
<1>3. PICK n : n = Rebound(ue[u], amf[h.backup].id, GetSCTPConn(h.backup))
  OBVIOUS
<1>4. /\ n.sel = ue[u].sel /\ n.pc = ue[u].pc /\ n.amfId = amf[h.backup].id
      /\ n.sctp = GetSCTPConn(h.backup)
  BY <1>1, <1>2, <1>3, ReboundUe
<1>5. ue'[u] = IF ue[u].amfId = amf[amfPool[k]].id THEN n ELSE ue[u]
  BY <1>3 DEF Rebind
<1> QED
  BY <1>4, <1>5

LEMMA RebindServing == ASSUME Serving, Assoc', NEW h \in movers, StatusRebind(h) PROVE Serving'
<1> USE DEF Serving
<1>0. /\ TypeOK /\ h \in MoverType /\ h.backup \in 1..nobj /\ h.key = Nil
      /\ UNCHANGED <<amf, nobj, amfPool, n2, adders, calm>> /\ calm \subseteq Ue
  BY DEF Assoc, TypeOK, HndTypeOK, MoverType, RefInv, StatusRebind, poolVars, UeTypeOK
<1>1. PICK k \in h.left \cap Matching(h.guami) :
         /\ ue' = Rebind(h, k)
         /\ movers' = (movers \ {h})
                      \cup {[h EXCEPT !.left = @ \ {k}, !.key = k, !.obj = amfPool[k]]}
  BY DEF StatusRebind
<1>2. PICK g : g = [h EXCEPT !.left = @ \ {k}, !.key = k, !.obj = amfPool[k]]
  OBVIOUS
<1>3. g.guami = h.guami /\ g.backup = h.backup /\ g.key = k /\ g.obj = amfPool[k]
  BY <1>0, <1>2 DEF MoverType
<1>4. movers = {h} /\ movers' = {g} /\ \A m \in n2 : ~Moves(m)
  BY <1>1, <1>2 DEF ServeInv, QuietInv
<1>5. /\ k \in Pooled /\ k \in Obj /\ amfPool[k] \in 1..nobj /\ amf[amfPool[k]].id = k
      /\ amf[amfPool[k]].guami = h.guami /\ h.guami # Nil
  BY <1>0, ConstAssumption DEF Matching, Assoc, RefInv, Pooled, MoverType
<1>6. /\ AmfOf[amf[amfPool[k]].ip] = h.guami /\ h.backup # amfPool[k] /\ Good(h.backup)
      /\ AmfOf[amf[h.backup].ip] # h.guami
  BY <1>5 DEF NameInv, Own, ServeInv, MoveInv
<1>7. ASSUME NEW u \in Ue
      PROVE  /\ ue'[u].pc = ue[u].pc /\ ue'[u].sel = ue[u].sel
             /\ IF ue[u].amfId = k
                THEN ue'[u].amfId = amf[h.backup].id /\ ue'[u].sctp \in {Nil, h.backup}
                ELSE ue'[u].amfId = ue[u].amfId /\ ue'[u].sctp = ue[u].sctp
  BY <1>0, <1>1, <1>5, ReboundFacts DEF GetSCTPConn
<1>8. UeInv'
  BY <1>0, <1>7 DEF ServeInv, UeInv
<1>9. CalmInv'
  BY <1>0, <1>6, <1>7 DEF ServeInv, CalmInv, Good, OwnId
<1>10. \A u \in calm : /\ ue'[u].pc # "selected"
                       /\ ue'[u].pc = "attached" => ue'[u].sctp # amfPool[k]
  <2>1. ASSUME NEW u \in calm PROVE /\ ue'[u].pc # "selected"
                                    /\ ue'[u].pc = "attached" => ue'[u].sctp # amfPool[k]
    <3>1. u \in Ue /\ ue[u].pc # "selected"
      BY <1>0 DEF ServeInv, MoveInv
    <3>2. amfPool[k] # Nil
      BY <1>5 DEF Pooled
    <3> QED
      BY <1>5, <1>6, <1>7, <3>1, <3>2 DEF ServeInv, UeInv
  <2> QED
    BY <2>1
<1>11. MoveInv'
  BY <1>0, <1>3, <1>4, <1>5, <1>6, <1>10 DEF MoveInv, Good, OwnId
<1>12. NameInv'
  BY <1>0, NameKept DEF NameInv
<1>13. CloseInv' /\ QuietInv' /\ RemoveInv'
  <2>1. CloseInv'
    BY <1>0 DEF ServeInv, CloseInv, Pooled
  <2> QED
    BY <1>0, <1>4, <2>1 DEF QuietInv, RemoveInv, Moves
<1> QED
  BY <1>8, <1>9, <1>11, <1>12, <1>13 DEF ServeInv

LEMMA ReleaseServing == ASSUME Serving, Assoc', NEW h \in movers, StatusRelease(h) PROVE Serving'
<1> USE DEF Serving
<1>0. /\ TypeOK /\ h \in MoverType /\ h.backup \in 1..nobj /\ h.obj # Nil /\ h.obj \in 1..nobj
      /\ h.obj \in Obj /\ h.key \in Obj /\ amf[h.obj] \in AmfObject /\ calm \subseteq Ue
  BY DEF Assoc, TypeOK, HndTypeOK, PoolTypeOK, MoverType, RefInv, StatusRelease, UeTypeOK
<1>1. PICK n : n = [amf[h.obj] EXCEPT !.conn = "closed"]
  OBVIOUS
<1>2. /\ n.ip = amf[h.obj].ip /\ n.id = amf[h.obj].id /\ n.name = amf[h.obj].name
      /\ n.guami = amf[h.obj].guami /\ n.conn = "closed"
  BY <1>0, <1>1, ConnObject
<1>3. PICK g : g = [h EXCEPT !.key = Nil, !.obj = Nil]
  OBVIOUS
<1>4. g.guami = h.guami /\ g.backup = h.backup /\ g.obj = Nil
  BY <1>0, <1>3 DEF MoverType
<1>5. movers = {h} /\ \A m \in n2 : ~Moves(m)
  BY DEF ServeInv, QuietInv
<1>6. /\ amf' = [amf EXCEPT ![h.obj] = n] /\ n2' \subseteq n2 /\ movers' = {g}
      /\ amfPool' = [amfPool EXCEPT ![h.key] = Nil]
      /\ UNCHANGED <<nobj, adders, ue, calm>>
  BY <1>1, <1>3, <1>5 DEF StatusRelease
<1>7. amfPool'[h.key] = Nil /\ \A j \in Obj : j # h.key => amfPool'[j] = amfPool[j]
  BY <1>0, <1>6 DEF TypeOK, PoolTypeOK
<1>8. \A p \in 1..nobj : /\ amf'[p].ip = amf[p].ip /\ amf'[p].id = amf[p].id
                         /\ amf'[p].name = amf[p].name /\ amf'[p].guami = amf[p].guami
                         /\ p # h.obj => amf'[p].conn = amf[p].conn
  BY <1>0, <1>2, <1>6 DEF TypeOK, PoolTypeOK, Obj
<1>9. /\ amf[h.obj].id = h.key /\ AmfOf[amf[h.obj].ip] = h.guami
      /\ AmfOf[amf[h.backup].ip] # h.guami /\ Good(h.backup)
      /\ \A u \in calm : /\ ue[u].pc # "selected"
                         /\ ue[u].pc = "attached" => ue[u].sctp # h.obj
  BY <1>0 DEF ServeInv, MoveInv
<1>10. OwnId' = OwnId
  BY <1>6, <1>8 DEF OwnId
<1>11. ASSUME NEW o \in 1..nobj, o # h.obj, Good(o) PROVE Good(o)'
  <2>1. ASSUME o \in OwnId PROVE amfPool'[amf[o].id] = o /\ amf'[o].conn # "closed"
    <3>1. amf[o].id # h.key /\ amf[o].id \in Obj
      BY <1>0, <1>9, <1>11, <2>1 DEF OwnId, Assoc, RefInv
    <3> QED
      BY <1>7, <1>8, <1>11, <2>1, <3>1 DEF Good
  <2> QED
    BY <1>8, <1>10, <2>1 DEF Good
<1>12. NameInv'
  BY <1>6, <1>8, NameKept DEF NameInv
<1>13. CloseInv'
  <2>1. ASSUME NEW j \in Pooled' PROVE amf'[amfPool'[j]].conn # "closed"
    <3>1. /\ j # h.key /\ j \in Pooled /\ amfPool'[j] = amfPool[j] /\ amfPool[j] \in 1..nobj
          /\ amf[amfPool[j]].id = j
      BY <1>7 DEF Pooled, Assoc, RefInv
    <3> QED
      BY <1>8, <1>9, <3>1 DEF ServeInv, CloseInv
  <2> QED
    BY <2>1 DEF CloseInv
<1>14. UeInv'
  BY <1>6, <1>8 DEF ServeInv, UeInv
<1>15. CalmInv'
  <2>1. ASSUME NEW u \in calm, ue[u].pc = "attached", ue[u].sctp # Nil PROVE Good(ue[u].sctp)'
    <3>1. PICK o \in 1..nobj : o = ue[u].sctp
      BY <1>0, <2>1 DEF ServeInv, UeInv
    <3>2. Good(o) /\ o # h.obj
      BY <1>9, <2>1, <3>1 DEF ServeInv, CalmInv
    <3>3. Good(o)'
      BY <1>11, <3>2
    <3> QED
      BY <1>6, <3>1, <3>3 DEF Good
  <2> QED
    BY <1>6, <1>9, <2>1 DEF CalmInv
<1>16. MoveInv'
  <2>1. PICK o \in 1..nobj : o = h.backup
    BY <1>0
  <2>2. Good(o)' /\ AmfOf[amf'[o].ip] # h.guami
    BY <1>8, <1>9, <1>11, <2>1
  <2> QED
    BY <1>4, <1>6, <1>9, <2>1, <2>2 DEF MoveInv, Good
<1>17. QuietInv' /\ RemoveInv'
  BY <1>5, <1>6 DEF QuietInv, RemoveInv, Moves
<1> QED
  BY <1>12, <1>13, <1>14, <1>15, <1>16, <1>17 DEF ServeInv

LEMMA WalkServing ==
    ASSUME Serving, Assoc', NEW h \in movers, StatusSkip(h) \/ StatusEnd(h) PROVE Serving'
<1> USE DEF Serving
<1>0. /\ h \in MoverType /\ h.obj = Nil /\ UNCHANGED <<amf, nobj, amfPool, n2, adders, ue, calm>>
  BY DEF StatusSkip, StatusEnd, poolVars, Assoc, TypeOK, HndTypeOK, MoverType
<1>1. movers = {h} /\ \A m \in n2 : ~Moves(m)
  BY DEF ServeInv, QuietInv
<1>2. \A g \in movers' : /\ g.guami = h.guami /\ g.backup = h.backup /\ g.obj = Nil
                         /\ \A f \in movers' : f = g
  <2>1. \A k : LET g == [h EXCEPT !.left = @ \ {k}] IN
               g.guami = h.guami /\ g.backup = h.backup /\ g.obj = Nil
    BY <1>0 DEF MoverType
  <2>2. \/ movers' = {} \/ \E k : movers' = {[h EXCEPT !.left = @ \ {k}]}
    BY <1>1 DEF StatusSkip, StatusEnd
  <2> QED
    BY <2>1, <2>2
<1>3. MoveInv'
  BY <1>0, <1>1, <1>2 DEF ServeInv, MoveInv, Good, OwnId
<1>4. CalmInv' /\ CloseInv' /\ UeInv'
  BY <1>0 DEF ServeInv, CalmInv, CloseInv, UeInv, Good, OwnId, Pooled
<1>5. QuietInv' /\ RemoveInv'
  BY <1>0, <1>1, <1>2 DEF QuietInv, RemoveInv, Moves
<1>6. NameInv'
  BY <1>0, NameKept DEF NameInv
<1> QED
  BY <1>3, <1>4, <1>5, <1>6 DEF ServeInv

LEMMA SendsServing ==
    ASSUME Alone, Serving, Assoc', NEW o \in Obj,
           AmfSendsUpdate(o) \/ AmfSendsRemove(o) \/ AmfSendsStatus(o) \/ AmfLost(o)
    PROVE  Serving'
<1> USE DEF Serving
<1>0. TypeOK /\ calm \subseteq Ue
  BY DEF Assoc, TypeOK, UeTypeOK
<1>1. CASE AmfSendsUpdate(o)
  <2>1. o \in 1..nobj /\ UNCHANGED <<amf, nobj, amfPool, adders, movers, ue, calm>>
    BY <1>1 DEF AmfSendsUpdate, Speaking, poolVars
  <2>2. PICK m : /\ n2' = n2 \cup {m} /\ m.to = o /\ m.type \in {"add", "update"}
                 /\ Own(m.name, m.ip)
    <3>1. PICK p \in {"add", "update"}, ip \in Ip, w \in Weight :
             \E name \in {AmfOf[ip], Nil} : n2' = n2 \cup {Msg(p, o, ip, name, w)}
      BY <1>1 DEF AmfSendsUpdate
    <3>2. PICK name \in {AmfOf[ip], Nil} : n2' = n2 \cup {Msg(p, o, ip, name, w)}
      BY <3>1
    <3>3. LET m == Msg(p, o, ip, name, w) IN m.to = o /\ m.type = p /\ m.name = name /\ m.ip = ip
      BY DEF Msg
    <3> QED
      BY <3>2, <3>3 DEF Own
  <2>3. NameInv'
    BY <2>1, <2>2, NameKept DEF NameInv
  <2>4. ServeInv'
    BY <2>1, <2>2, GoodSame, ServeKept DEF ServeInv, Moves
  <2> QED
    BY <2>3, <2>4
<1>2. CASE AmfSendsRemove(o)
  <2>1. /\ o \in 1..nobj /\ UNCHANGED <<amf, nobj, amfPool, adders, movers, ue>>
        /\ calm' = calm \cap Connected
    BY <1>2 DEF AmfSendsRemove, Speaking, poolVars
  <2>2. movers = {} /\ \A m \in n2 : ~Moves(m)
    BY <1>2 DEF AmfSendsRemove, Alone, Quiet, Removing, Moves
  <2>3. PICK ip \in Ip : /\ ip = amf[o].ip /\ n2' = n2 \cup {Msg("remove", o, ip, Nil, 0)}
                         /\ \A u \in Ue : ue[u].sctp # Nil => amf[ue[u].sctp].ip # ip
    BY <1>2 DEF AmfSendsRemove, Alone
  <2>4. PICK m : m = Msg("remove", o, ip, Nil, 0)
    OBVIOUS
  <2>5. n2' = n2 \cup {m} /\ m.type = "remove" /\ m.ip = ip /\ m.to = o
    BY <2>3, <2>4 DEF Msg
  <2>6. NameInv'
    BY <2>1, <2>3, <2>5, NameKept DEF NameInv
  <2>7. CalmInv' /\ CloseInv' /\ UeInv'
    BY <2>1 DEF ServeInv, CalmInv, CloseInv, UeInv, Good, OwnId, Pooled
  <2>8. RemoveInv'
    BY <1>0, <2>1, <2>2, <2>3, <2>5 DEF RemoveInv, Moves, Connected
  <2>9. QuietInv' /\ MoveInv'
    BY <2>1, <2>2, <2>5 DEF QuietInv, MoveInv, Moves
  <2> QED
    BY <2>6, <2>7, <2>8, <2>9 DEF ServeInv
<1>3. CASE AmfSendsStatus(o)
  <2>1. o \in 1..nobj /\ UNCHANGED <<amf, nobj, amfPool, adders, movers, ue, calm>>
    BY <1>3 DEF AmfSendsStatus, Speaking, poolVars
  <2>2. movers = {} /\ \A m \in n2 : ~Moves(m)
    BY <1>3 DEF AmfSendsStatus, Alone, Quiet, Removing, Moves
  <2>3. PICK b \in Amf \ {AmfOf[amf[o].ip]} : n2' = n2 \cup {Msg("status", o, amf[o].ip, b, 0)}
    BY <1>3 DEF AmfSendsStatus
  <2>4. PICK m : m = Msg("status", o, amf[o].ip, b, 0)
    OBVIOUS
  <2>5. n2' = n2 \cup {m} /\ m.type = "status" /\ m.to = o /\ m.name \in Amf \ {AmfOf[m.ip]}
    BY <2>3, <2>4 DEF Msg
  <2>6. NameInv'
    BY <2>1, <2>5, NameKept DEF NameInv
  <2>7. CalmInv' /\ CloseInv' /\ UeInv'
    BY <2>1 DEF ServeInv, CalmInv, CloseInv, UeInv, Good, OwnId, Pooled
  <2>8. RemoveInv' /\ QuietInv' /\ MoveInv'
    BY <2>1, <2>2, <2>5 DEF RemoveInv, QuietInv, MoveInv, Moves
  <2> QED
    BY <2>6, <2>7, <2>8 DEF ServeInv
<1>4. CASE AmfLost(o)
  <2>1. PICK n : n = [amf[o] EXCEPT !.conn = "lost"]
    OBVIOUS
  <2>2. /\ n.ip = amf[o].ip /\ n.id = amf[o].id /\ n.name = amf[o].name
        /\ n.guami = amf[o].guami /\ n.conn = "lost"
    BY <1>0, <2>1, ConnObject DEF TypeOK, PoolTypeOK
  <2>3. amf' = [amf EXCEPT ![o] = n] /\ n2' \subseteq n2
        /\ UNCHANGED <<nobj, amfPool, adders, movers, ue, calm>>
    BY <1>4, <2>1 DEF AmfLost
  <2>4. \A p \in 1..nobj : /\ amf'[p].ip = amf[p].ip /\ amf'[p].id = amf[p].id
                           /\ amf'[p].name = amf[p].name /\ amf'[p].guami = amf[p].guami
                           /\ amf'[p].conn = "closed" => amf[p].conn = "closed"
    BY <1>0, <2>2, <2>3 DEF TypeOK, PoolTypeOK, Obj
  <2>5. NameInv'
    BY <2>3, <2>4, NameKept DEF NameInv
  <2>6. ServeInv'
    BY <2>3, <2>4, GoodSame, ServeKept DEF ServeInv
  <2> QED
    BY <2>5, <2>6
<1> QED
  BY <1>1, <1>2, <1>3, <1>4

LEMMA UeServing ==
    ASSUME Serving, Assoc', NEW u \in Ue,
           NewGnBUe(u) \/ SetAmf(u) \/ SendToAmF(u) \/ UeReleased(u)
    PROVE  Serving'
<1> USE DEF Serving
<1>0. TypeOK /\ calm \subseteq Ue /\ nobj \in Nat
  BY DEF Assoc, TypeOK, UeTypeOK, PoolTypeOK
<1>1. UNCHANGED <<amf, nobj, amfPool, n2, adders, movers>>
  BY DEF NewGnBUe, SetAmf, SendToAmF, UeReleased, poolVars, hndVars
<1>2. NameInv'
  BY <1>1, NameKept DEF NameInv
<1>3. CloseInv' /\ QuietInv'
  BY <1>1 DEF ServeInv, CloseInv, QuietInv, Pooled
<1>4. CASE NewGnBUe(u)
  <2>1. /\ ue[u].pc = "out" /\ calm' \subseteq calm \cup {u}
        /\ movers # {} \/ Removing => u \notin calm'
    BY <1>4 DEF NewGnBUe
  <2>2. \A o \in selectAmFByActive :
           o \in 1..nobj /\ amfPool[amf[o].id] = o /\ amf[o].conn # "closed"
    <3>1. ASSUME NEW o \in selectAmFByActive
          PROVE  o \in 1..nobj /\ amfPool[amf[o].id] = o /\ amf[o].conn # "closed"
      <4>1. PICK k \in Obj : amfPool[k] = o
        BY DEF selectAmFByActive, Active
      <4>2. o # Nil
        BY ConstAssumption DEF selectAmFByActive, Active, Obj
      <4>3. k \in Pooled
        BY <4>1, <4>2 DEF Pooled
      <4> QED
        BY <4>1, <4>3 DEF Assoc, RefInv, ServeInv, CloseInv
    <3> QED
      BY <3>1
  <2>3. /\ ue'[u].pc # "attached" /\ \A v \in Ue : v # u => ue'[v] = ue[v]
        /\ ue'[u].pc = "selected" => ue'[u].sel \in selectAmFByActive
    <3>0. ue \in [Ue -> UeContext] /\ ue[u] \in UeContext
      BY <1>0 DEF TypeOK, UeTypeOK
    <3>1. CASE ue' = [ue EXCEPT ![u].pc = "refused"]
      <4>1. [ue[u] EXCEPT !.pc = "refused"].pc = "refused"
        BY <3>0 DEF UeContext
      <4> QED
        BY <3>0, <3>1, <4>1
    <3>2. ASSUME NEW o \in selectAmFByActive, ue' = [ue EXCEPT ![u] = Selected(@, o)]
          PROVE  /\ ue'[u].pc = "selected" /\ ue'[u].sel = o
                 /\ \A v \in Ue : v # u => ue'[v] = ue[v]
      <4>1. o \in Obj
        BY DEF selectAmFByActive, Active
      <4>2. LET n == Selected(ue[u], o) IN n.sel = o /\ n.pc = "selected"
        BY <3>0, <4>1, SelectedUe
      <4> QED
        BY <3>0, <3>2, <4>2
    <3> QED
      BY <1>4, <3>1, <3>2 DEF NewGnBUe
  <2>4. UeInv'
    BY <1>1, <2>2, <2>3 DEF ServeInv, UeInv
  <2>5. CalmInv'
    BY <1>0, <1>1, <2>1, <2>2, <2>3 DEF ServeInv, CalmInv, Good, OwnId
  <2>6. \A v \in calm' : movers # {} \/ Removing => v \in calm /\ v # u
    BY <2>1
  <2>7. MoveInv'
    BY <1>0, <1>1, <2>3, <2>6 DEF ServeInv, MoveInv, Good, OwnId
  <2>8. RemoveInv'
    BY <1>0, <1>1, <2>3, <2>6 DEF ServeInv, RemoveInv, Removing
  <2> QED
    BY <1>2, <1>3, <2>4, <2>5, <2>7, <2>8 DEF ServeInv
<1>5. CASE SetAmf(u)
  <2>1. /\ ue[u].pc = "selected" /\ ue[u].sel \in 1..nobj /\ UNCHANGED calm
        /\ ue'[u] = [pc |-> "attached", sel |-> Nil, amfId |-> amf[ue[u].sel].id,
                     sctp |-> ue[u].sel]
        /\ \A v \in Ue : v # u => ue'[v] = ue[v]
    BY <1>0, <1>5 DEF SetAmf, ServeInv, UeInv, TypeOK, UeTypeOK
  <2>2. /\ ue'[u].pc = "attached" /\ ue'[u].amfId = amf[ue[u].sel].id
        /\ ue'[u].sctp = ue[u].sel
    BY <2>1
  <2>3. UeInv'
    BY <1>1, <2>1, <2>2 DEF ServeInv, UeInv
  <2>4. CalmInv'
    BY <1>0, <1>1, <2>1, <2>2 DEF ServeInv, CalmInv, Good, OwnId
  <2>5. (movers # {} \/ Removing) => u \notin calm
    BY <2>1 DEF ServeInv, MoveInv, RemoveInv, Removing
  <2>6. MoveInv'
    BY <1>0, <1>1, <2>1, <2>5 DEF ServeInv, MoveInv, Good, OwnId
  <2>7. RemoveInv'
    BY <1>0, <1>1, <2>1, <2>5 DEF ServeInv, RemoveInv, Removing
  <2> QED
    BY <1>2, <1>3, <2>3, <2>4, <2>6, <2>7 DEF ServeInv
<1>6. CASE SendToAmF(u) \/ UeReleased(u)
  <2>1. /\ UNCHANGED calm /\ \A v \in Ue : ue'[v] = ue[v] \/ ue'[v] = Out
        /\ Out.pc = "out"
    BY <1>0, <1>6 DEF SendToAmF, UeReleased, TypeOK, UeTypeOK, Out
  <2>2. UeInv' /\ CalmInv'
    BY <1>0, <1>1, <2>1 DEF ServeInv, UeInv, CalmInv, Good, OwnId
  <2>3. MoveInv' /\ RemoveInv'
    BY <1>0, <1>1, <2>1 DEF ServeInv, MoveInv, RemoveInv, Good, OwnId
  <2> QED
    BY <1>2, <1>3, <2>2, <2>3 DEF ServeInv
<1> QED
  BY <1>4, <1>5, <1>6

LEMMA NextServing == Once /\ Alone /\ Serving /\ [Next]_vars => Serving'
<1> SUFFICES ASSUME Once, Alone, Serving, [Next]_vars PROVE Serving'
  OBVIOUS
<1>0. Assoc'
  BY NextAssoc DEF Serving
<1>1. CASE UNCHANGED vars
  <2>1. UNCHANGED <<amf, nobj, amfPool, n2, adders, movers, ue, calm>>
    BY <1>1 DEF vars, poolVars, hndVars
  <2>2. NameInv'
    BY <2>1, NameKept DEF Serving, NameInv
  <2>3. ServeInv'
    BY <2>1, GoodSame, ServeKept DEF Serving, ServeInv
  <2> QED
    BY <1>0, <2>2, <2>3 DEF Serving
<1>2. ASSUME NEW m \in n2, Dispatch(m) PROVE Serving'
  BY <1>0, <1>2, SetupServing, UpdateServing, RemoveServing, ChooseServing DEF Dispatch
<1>3. ASSUME NEW h \in movers, Moving(h) PROVE Serving'
  BY <1>0, <1>3, WalkServing, RebindServing, ReleaseServing DEF Moving
<1> QED
  BY <1>0, <1>1, <1>2, <1>3, InitGnbServing, ConnectingServing, SendsServing, UeServing DEF Next

\* A UE is bound to an AMF of the pool whose association is not closed, for any AMFs,
\* endpoints, UEs and bounds and in every order of the goroutines, provided that the
\* AMFs send one indication or removal at a time and remove the endpoint they speak
\* on, and that no AMF adds an endpoint again before the last addition is done.
THEOREM ServedTheorem == ASSUME Once, Alone PROVE Spec => []Served
<1>1. Serving /\ [Next]_vars => Serving'
  BY NextServing
<1>2. Serving => Served
  <2> SUFFICES ASSUME Serving, NEW u \in calm, ue[u].pc = "attached", ue[u].sctp \in OwnId
               PROVE  /\ ue[u].amfId \in Obj /\ amfPool[ue[u].amfId] = ue[u].sctp
                      /\ amf[ue[u].sctp].conn # "closed"
    BY DEF Served
  <2>1. u \in Ue /\ ue[u].sctp # Nil /\ ue[u].sctp \in 1..nobj
    BY ConstAssumption DEF Serving, Assoc, TypeOK, UeTypeOK, PoolTypeOK, OwnId
  <2>2. Good(ue[u].sctp) /\ ue[u].amfId = amf[ue[u].sctp].id
    BY <2>1 DEF Serving, ServeInv, CalmInv, UeInv
  <2> QED
    BY <2>1, <2>2 DEF Good, Serving, Assoc, RefInv
<1> QED
  BY <1>1, <1>2, InitServing, PTL DEF Spec

=============================================================================
