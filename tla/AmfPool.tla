------------------------------ MODULE AmfPool ------------------------------
(***************************************************************************)
(* The AMFs a simulated gNodeB knows and the UEs bound to them: the start  *)
(* of the gNodeB, NG Setup, the AMF Configuration Update that adds,        *)
(* removes and updates TNL associations, the AMF Status Indication that    *)
(* moves UEs to a backup AMF, and the choice of an AMF for a new UE.       *)
(*                                                                         *)
(* Source: internal/control_test_engine/gnb: gnb.go, context/amf.go, the   *)
(* AMF parts of context/context.go, and ngap.  Every message of an AMF is  *)
(* handled by a goroutine of its own (go Dispatch), the UEs are accepted   *)
(* by another (gnbListen), and nothing orders them: amfPool is a sync.Map, *)
(* the AMF objects in it and idAmfGenerator are not protected.  The        *)
(* goroutines interleave freely here; what is assumed is about the AMFs    *)
(* (Procedures, Overlaps) and the configuration (OnePerAmf).               *)
(***************************************************************************)
EXTENDS Integers, FiniteSets, Sequences

CONSTANTS
    Ip,          \* addresses of TNL endpoints of AMFs
    Amf,         \* the AMFs: each has one name and one GUAMI
    AmfOf,       \* the AMF an endpoint belongs to
    Configured,  \* conf.AMFs: the endpoints dialled at start-up
    Ue,          \* UEs that connect to the gNodeB
    Weight,      \* TNL address weight factors an AMF may give
    Nil,
    Procedures,  \* what the AMFs do: see PAssumption
    Overlaps,    \* what the AMFs may do at the same time: see OAssumption
    MaxObj, MaxProc, MaxLost   \* bounds: AMF objects, procedures started by the AMFs,
                               \* associations that are lost at a time

Obj == 1..MaxObj         \* *GNBAmf pointers, in order of allocation, and AMF ids

\* An AMF asks for the removal of the endpoint it is speaking on ("remove") or of
\* another one of its own ("removeOther").
ASSUME PAssumption == Procedures \subseteq {"add", "update", "remove", "removeOther", "status"}
\* "crossing": an indication or a removal is sent while another one is on its way or
\* being handled; "twice": an endpoint is added again before the gNodeB is done with
\* an earlier addition of it.
ASSUME OAssumption == Overlaps \subseteq {"crossing", "twice"}
\* Configured endpoints belong to different AMFs.
ASSUME OnePerAmf ==
    \A i, j \in 1..Len(Configured) : AmfOf[Configured[i]] = AmfOf[Configured[j]] => i = j
ASSUME ConstAssumption ==
    /\ AmfOf \in [Ip -> Amf] /\ Configured \in Seq(Ip)
    /\ Weight \subseteq Nat /\ MaxObj \in Nat /\ MaxProc \in Nat /\ MaxLost \in Nat
    /\ Nil \notin Ip \cup Amf \cup Nat

VARIABLES
    amf,            \* the GNBAmf objects, with their SCTP association
    nobj,           \* how many were allocated
    amfPool,        \* AMF id -> object
    idAmfGenerator,
    boot,           \* next entry of Configured InitGnb will dial
    n2,             \* NGAP messages received, each with its Dispatch goroutine
    adders,         \* new AMFs on their way into the pool and to their association
    movers,         \* Status Indication goroutines that have chosen a backup
    waiting,        \* associations whose AMF waits for an acknowledge
    nproc,          \* procedures the AMFs have started
    ue,             \* the UE contexts
    fate,           \* "run", or why the process died
    calm            \* history: UEs that were connected while no indication was being
                    \* handled and no removal was on its way

poolVars == <<amf, nobj, amfPool, idAmfGenerator>>
hndVars  == <<n2, adders, movers>>
vars == <<poolVars, boot, hndVars, waiting, nproc, ue, fate, calm>>

\* name and guami are Nil until a message gives them.
NoAmf == [ip |-> Nil, id |-> 0, state |-> "Inactive", name |-> Nil, guami |-> Nil,
          plmns |-> FALSE, weight |-> 0, conn |-> "none"]
Out == [pc |-> "out", sel |-> Nil, amfId |-> 0, sctp |-> Nil]

Init ==
    /\ amf = [o \in Obj |-> NoAmf] /\ nobj = 0
    /\ amfPool = [k \in Obj |-> Nil] /\ idAmfGenerator = 1
    /\ boot = 1
    /\ n2 = {} /\ adders = {} /\ movers = {}
    /\ waiting = {} /\ nproc = 0
    /\ ue = [u \in Ue |-> Out]
    /\ fate = "run" /\ calm = {}

Msg(type, o, ip, name, w) ==
    [type |-> type, to |-> o, ip |-> ip, name |-> name, weight |-> w]
Pooled == {k \in Obj : amfPool[k] # Nil}
AtIp(ip) == {k \in Pooled : amf[amfPool[k]].ip = ip}

-----------------------------------------------------------------------------
(* Connecting an AMF: InitGnb goes through conf.AMFs, and the goroutine of *)
(* a Configuration Update does the same for an address it has to add.      *)

Adder(to, ip, name, w) ==
    [to |-> to, ip |-> ip, name |-> name, weight |-> w, id |-> 0, obj |-> Nil]

\* The next entry is dialled once the one before it is done with (to = Nil).
InitGnb ==
    /\ fate = "run" /\ boot <= Len(Configured)
    /\ \A h \in adders : h.to # Nil
    /\ adders' = adders \cup {Adder(Nil, Configured[boot], Nil, 0)}
    /\ boot' = boot + 1
    /\ UNCHANGED <<poolVars, n2, movers, waiting, nproc, ue, fate, calm>>

\* The generator is read here and incremented later, and no lock is held.
getRanAmfId(h) ==
    /\ fate = "run" /\ h \in adders /\ h.id = 0
    /\ adders' = (adders \ {h}) \cup {[h EXCEPT !.id = idAmfGenerator]}
    /\ UNCHANGED <<poolVars, boot, n2, movers, waiting, nproc, ue, fate, calm>>

\* The object is stored under the id drawn, whatever is there, and described; the
\* increment takes the value the generator had at the draw or the one it has now.
NewObject(k, ip, name, w) ==
    [NoAmf EXCEPT !.ip = ip, !.id = k, !.name = name, !.guami = name, !.weight = w]
NewGnBAmf(h) ==
    LET o == nobj + 1 IN
    /\ fate = "run" /\ h \in adders /\ h.id # 0 /\ h.obj = Nil
    /\ nobj < MaxObj /\ nobj' = o
    /\ amf' = [amf EXCEPT ![o] = NewObject(h.id, h.ip, h.name, h.weight)]
    /\ amfPool' = [amfPool EXCEPT ![h.id] = o]
    /\ \E b \in {h.id, idAmfGenerator} : idAmfGenerator' = b + 1
    /\ adders' = (adders \ {h}) \cup {[h EXCEPT !.obj = o]}
    /\ UNCHANGED <<boot, n2, movers, waiting, nproc, ue, fate, calm>>

\* The acknowledge reaches the AMF while the association is up; a write that fails
\* is only logged.
Acknowledge(o) == waiting' = {p \in waiting : p # o \/ amf[p].conn # "open"}

\* InitConn and SendNgSetupRequest: the AMF answers the setup request as it likes,
\* and an update that asked for the association is acknowledged.
InitConn(h) ==
    /\ fate = "run" /\ h \in adders /\ h.obj # Nil
    /\ amf' = [amf EXCEPT ![h.obj].conn = "open"]
    /\ \E t \in {"ngSetupResponse", "ngSetupFailure"} :
          n2' = n2 \cup {Msg(t, h.obj, h.ip, AmfOf[h.ip], 0)}
    /\ adders' = adders \ {h} /\ Acknowledge(h.to)
    /\ UNCHANGED <<nobj, amfPool, idAmfGenerator, boot, movers, nproc, ue, fate, calm>>

\* A dial that fails ends the process.
InitConnFails(h) ==
    /\ fate = "run" /\ h \in adders /\ h.obj # Nil
    /\ fate' = "dial"
    /\ UNCHANGED <<poolVars, boot, hndVars, waiting, nproc, ue, calm>>

Connecting(h) == getRanAmfId(h) \/ NewGnBAmf(h) \/ InitConn(h) \/ InitConnFails(h)

-----------------------------------------------------------------------------
(* Messages and NG Setup.                                                  *)

\* A goroutine of its own handles m, also after the association was closed; ...
Received(m, type) == fate = "run" /\ m \in n2 /\ m.type = type

\* ... what GnbListen had not read when the association went down is lost.
Unread(o) == SUBSET {m \in n2 : m.to = o}

\* The response gives the AMF its name and PLMNs, not the GUAMIs it serves.
Activated(a, name) == [a EXCEPT !.name = name, !.plmns = TRUE, !.state = "Active"]
HandlerNgSetupResponse(m) ==
    /\ Received(m, "ngSetupResponse")
    /\ amf' = [amf EXCEPT ![m.to] = Activated(@, m.name)]
    /\ n2' = n2 \ {m}
    /\ UNCHANGED <<nobj, amfPool, idAmfGenerator, boot, adders, movers, waiting, nproc, ue, fate, calm>>

HandlerNgSetupFailure(m) ==
    /\ Received(m, "ngSetupFailure")
    /\ amf' = [amf EXCEPT ![m.to].state = "Inactive"]
    /\ n2' = n2 \ {m}
    /\ UNCHANGED <<nobj, amfPool, idAmfGenerator, boot, adders, movers, waiting, nproc, ue, fate, calm>>

-----------------------------------------------------------------------------
(* The AMFs, external.  An AMF speaks once it has accepted the NG Setup,   *)
(* has one update outstanding per association, and speaks of its own       *)
(* endpoints only.                                                         *)

Speaking(o) ==
    /\ fate = "run" /\ nproc < MaxProc
    /\ o \in 1..nobj /\ amf[o].conn = "open"
    /\ amf[o].plmns \/ \E m \in n2 : m.to = o /\ m.type = "ngSetupResponse"
    /\ nproc' = nproc + 1

\* The bound on the AMF objects: one is left for everything under way and one more.
HasRoom ==
    nobj + Len(Configured) + 1 - boot + Cardinality({h \in adders : h.obj = Nil})
         + Cardinality({m \in n2 : m.type = "add"}) < MaxObj

\* Nothing about an endpoint is under way that would connect it.
NotAsked(ip) ==
    /\ \A m \in n2 : m.type = "add" => m.ip # ip
    /\ \A h \in adders : h.ip # ip

\* The name and the GUAMI are optional in an update: Nil when absent.
AmfSendsUpdate(o) ==
    /\ Speaking(o) /\ o \notin waiting
    /\ \E p \in Procedures \cap {"add", "update"}, ip \in Ip, w \in Weight :
       \E name \in {AmfOf[ip], Nil} :
          /\ AmfOf[ip] = AmfOf[amf[o].ip]
          /\ p = "add" => HasRoom /\ ("twice" \in Overlaps \/ NotAsked(ip))
          /\ n2' = n2 \cup {Msg(p, o, ip, name, w)}
    /\ waiting' = waiting \cup {o}
    /\ UNCHANGED <<poolVars, boot, adders, movers, ue, fate, calm>>

\* No indication or removal is on its way or being handled.
Removing == \E m \in n2 : m.type = "remove"
Quiet == movers = {} /\ ~Removing /\ \A m \in n2 : m.type # "status"
Connected == {u \in Ue : ue[u].pc # "selected"}

\* The AMF removes an endpoint over which it knows no UE.  One that the gNodeB is
\* about to bind to it is not known to the AMF yet, and is no longer calm; that it
\* knows of a bound one, whose first message may be on its way, is assumed.
AmfSendsRemove(o) ==
    /\ Speaking(o) /\ o \notin waiting
    /\ "crossing" \in Overlaps \/ Quiet
    /\ \E ip \in Ip :
          /\ AmfOf[ip] = AmfOf[amf[o].ip]
          /\ (IF ip = amf[o].ip THEN "remove" ELSE "removeOther") \in Procedures
          /\ \A u \in Ue : ue[u].sctp # Nil => amf[ue[u].sctp].ip # ip
          /\ n2' = n2 \cup {Msg("remove", o, ip, Nil, 0)}
    /\ waiting' = waiting \cup {o}
    /\ calm' = calm \cap Connected
    /\ UNCHANGED <<poolVars, boot, adders, movers, ue, fate>>

\* The AMF announces that its GUAMI becomes unavailable and names a backup.
AmfSendsStatus(o) ==
    /\ Speaking(o) /\ "status" \in Procedures
    /\ "crossing" \in Overlaps \/ Quiet
    /\ \E b \in Amf \ {AmfOf[amf[o].ip]} :
          /\ Msg("status", o, amf[o].ip, b, 0) \notin n2
          /\ n2' = n2 \cup {Msg("status", o, amf[o].ip, b, 0)}
    /\ UNCHANGED <<poolVars, boot, adders, movers, waiting, ue, fate, calm>>

\* The peer goes away: GnbListen ends, and nothing else notices.
AmfLost(o) ==
    /\ fate = "run" /\ o \in 1..nobj /\ amf[o].conn = "open"
    /\ Cardinality({p \in Obj : amf[p].conn = "lost"}) < MaxLost
    /\ amf' = [amf EXCEPT ![o].conn = "lost"]
    /\ \E lost \in Unread(o) : n2' = n2 \ lost
    /\ UNCHANGED <<nobj, amfPool, idAmfGenerator, boot, adders, movers, waiting, nproc, ue, fate, calm>>

-----------------------------------------------------------------------------
(* AMF Configuration Update.                                               *)

\* An address that is already in the pool is skipped.
UpdateAddKnown_Returns(m) ==
    /\ Received(m, "add") /\ AtIp(m.ip) # {}
    /\ n2' = n2 \ {m} /\ UNCHANGED waiting
    /\ UNCHANGED <<poolVars, boot, adders, movers, nproc, ue, fate, calm>>
UpdateAddKnown(m) ==
    /\ Received(m, "add") /\ AtIp(m.ip) # {}
    /\ n2' = n2 \ {m} /\ Acknowledge(m.to)
    /\ UNCHANGED <<poolVars, boot, adders, movers, nproc, ue, fate, calm>>

\* A new address: the goroutine has looked for it, and goes on to connect it.
IsNewAddress_Unchecked(ip) == TRUE
IsNewAddress(ip) == AtIp(ip) = {}
UpdateAddNew(m) ==
    /\ Received(m, "add") /\ IsNewAddress(m.ip)
    /\ n2' = n2 \ {m}
    /\ adders' = adders \cup {Adder(m.to, m.ip, m.name, m.weight)}
    /\ UNCHANGED <<poolVars, boot, movers, waiting, nproc, ue, fate, calm>>

\* The first entry with the address takes name, GUAMI and weight of the message,
\* empty ones included.
Renamed(a, name, w) == [a EXCEPT !.name = name, !.guami = name, !.weight = w]
UpdateAssociation(m) ==
    /\ Received(m, "update")
    /\ \/ /\ AtIp(m.ip) = {} /\ UNCHANGED amf
       \/ \E k \in AtIp(m.ip) :
             amf' = [amf EXCEPT ![amfPool[k]] = Renamed(@, m.name, m.weight)]
    /\ n2' = n2 \ {m} /\ Acknowledge(m.to)
    /\ UNCHANGED <<nobj, amfPool, idAmfGenerator, boot, adders, movers, nproc, ue, fate, calm>>

UpdateRemoveUnknown(m) ==
    /\ Received(m, "remove") /\ AtIp(m.ip) = {}
    /\ n2' = n2 \ {m} /\ Acknowledge(m.to)
    /\ UNCHANGED <<poolVars, boot, adders, movers, nproc, ue, fate, calm>>

\* The entry with the address leaves the pool, whoever is bound to it, and the
\* association of the SENDER is closed: the handler takes the TNLA of its own amf,
\* not of the entry it found.  The acknowledge then has nothing to go through.
UpdateRemove(m) ==
    /\ Received(m, "remove")
    /\ \E k \in AtIp(m.ip) : amfPool' = [amfPool EXCEPT ![k] = Nil]
    /\ amf' = [amf EXCEPT ![m.to].conn = "closed"]
    /\ \E lost \in Unread(m.to) : n2' = n2 \ (lost \cup {m})
    /\ UNCHANGED <<nobj, idAmfGenerator, boot, adders, movers, waiting, nproc, ue, fate, calm>>

-----------------------------------------------------------------------------
(* AMF Status Indication.                                                  *)

\* The backup is the first entry with the name given, active or not; without one
\* the handler returns.  The walk over the pool that follows meets every entry that
\* is there now, and any that are stored while it lasts.
StatusChooseBackup(m) ==
    LET named == {k \in Pooled : amf[amfPool[k]].name = m.name} IN
    /\ Received(m, "status")
    /\ n2' = n2 \ {m}
    /\ \/ named = {} /\ UNCHANGED movers
       \/ \E k \in named, new \in SUBSET (Obj \ Pooled) :
             movers' = movers \cup {[guami |-> AmfOf[m.ip], backup |-> amfPool[k],
                                     left |-> Pooled \cup new, key |-> Nil, obj |-> Nil]}
    /\ calm' = calm \cap Connected
    /\ UNCHANGED <<poolVars, boot, adders, waiting, nproc, ue, fate>>

Matching(g) == {k \in Pooled : amf[amfPool[k]].plmns /\ amf[amfPool[k]].guami = g}

StatusSkip(h) ==
    /\ fate = "run" /\ h \in movers /\ h.key = Nil
    /\ \E k \in h.left \ Matching(h.guami) :
          movers' = (movers \ {h}) \cup {[h EXCEPT !.left = @ \ {k}]}
    /\ UNCHANGED <<poolVars, boot, n2, adders, waiting, nproc, ue, fate, calm>>

\* NGAP UE-TNLA rebinding: every UE of a matching entry gets id and association of
\* the backup, which has no association before it is dialled.
Rebound(a, k, c) == [a EXCEPT !.amfId = k, !.sctp = c]
Rebind_IdOnly(h, k) ==
    [u \in Ue |-> IF ue[u].amfId = amf[amfPool[k]].id
                  THEN [ue[u] EXCEPT !.amfId = amf[h.backup].id] ELSE ue[u]]
GetSCTPConn(o) == IF amf[o].conn = "none" THEN Nil ELSE o
Rebind(h, k) ==
    [u \in Ue |-> IF ue[u].amfId = amf[amfPool[k]].id
                  THEN Rebound(ue[u], amf[h.backup].id, GetSCTPConn(h.backup)) ELSE ue[u]]
StatusRebind(h) ==
    /\ fate = "run" /\ h \in movers /\ h.key = Nil
    /\ \E k \in h.left \cap Matching(h.guami) :
          /\ ue' = Rebind(h, k)
          /\ movers' = (movers \ {h})
                       \cup {[h EXCEPT !.left = @ \ {k}, !.key = k, !.obj = amfPool[k]]}
    /\ UNCHANGED <<poolVars, boot, n2, adders, waiting, nproc, fate, calm>>

\* tnla.Release(), then whatever is stored under the key leaves the pool.
StatusRelease(h) ==
    /\ fate = "run" /\ h \in movers /\ h.key # Nil
    /\ amf' = [amf EXCEPT ![h.obj].conn = "closed"]
    /\ amfPool' = [amfPool EXCEPT ![h.key] = Nil]
    /\ \E lost \in Unread(h.obj) : n2' = n2 \ lost
    /\ movers' = (movers \ {h}) \cup {[h EXCEPT !.key = Nil, !.obj = Nil]}
    /\ UNCHANGED <<nobj, idAmfGenerator, boot, adders, waiting, nproc, ue, fate, calm>>

StatusEnd(h) ==
    /\ fate = "run" /\ h \in movers /\ h.key = Nil /\ h.left = {}
    /\ movers' = movers \ {h}
    /\ UNCHANGED <<poolVars, boot, n2, adders, waiting, nproc, ue, fate, calm>>

-----------------------------------------------------------------------------
(* The UEs.                                                                *)

Active == {o \in Obj : amf[o].state = "Active" /\ \E k \in Obj : amfPool[k] = o}
selectAmFByActive == {o \in Active : \A p \in Active : amf[p].weight <= amf[o].weight}

\* NewGnBUe: the context is in the pools, with AMF id 0, while an AMF is chosen ...
Selected(a, o) == [a EXCEPT !.pc = "selected", !.sel = o]
NewGnBUe_NilSelected(u) ==
    /\ fate = "run" /\ ue[u].pc = "out"
    /\ \/ /\ selectAmFByActive = {}
          /\ ue' = [ue EXCEPT ![u].pc = "selected"]
       \/ \E o \in selectAmFByActive : ue' = [ue EXCEPT ![u] = Selected(@, o)]
    /\ calm' = IF movers = {} /\ ~Removing THEN calm \cup {u} ELSE calm \ {u}
    /\ UNCHANGED <<poolVars, boot, hndVars, waiting, nproc, fate>>
NewGnBUe(u) ==
    /\ fate = "run" /\ ue[u].pc = "out"
    /\ \/ /\ selectAmFByActive = {}
          /\ ue' = [ue EXCEPT ![u].pc = "refused"]
       \/ \E o \in selectAmFByActive : ue' = [ue EXCEPT ![u] = Selected(@, o)]
    /\ calm' = IF movers = {} /\ ~Removing THEN calm \cup {u} ELSE calm \ {u}
    /\ UNCHANGED <<poolVars, boot, hndVars, waiting, nproc, fate>>

\* ... and then gets its id and association.
SetAmf(u) ==
    /\ fate = "run" /\ ue[u].pc = "selected"
    /\ ue' = [ue EXCEPT ![u] = [pc |-> "attached", sel |-> Nil, amfId |-> amf[ue[u].sel].id,
                                sctp |-> ue[u].sel]]
    /\ UNCHANGED <<poolVars, boot, hndVars, waiting, nproc, fate, calm>>

\* What a trigger sends about a UE ends the process when it cannot be written; a NAS
\* message of the UE that cannot is only logged, which changes nothing.
Writable(u) == ue[u].sctp # Nil /\ amf[ue[u].sctp].conn = "open"
SendToAmF(u) ==
    /\ fate = "run" /\ ue[u].pc = "attached" /\ ~Writable(u)
    /\ fate' = "send"
    /\ UNCHANGED <<poolVars, boot, hndVars, waiting, nproc, ue, calm>>

\* The context is deleted with a Release Complete, the last of these messages.
UeReleased(u) ==
    /\ fate = "run" /\ ue[u].pc = "attached" /\ Writable(u)
    /\ ue' = [ue EXCEPT ![u] = Out]
    /\ UNCHANGED <<poolVars, boot, hndVars, waiting, nproc, fate, calm>>

-----------------------------------------------------------------------------
Dispatch(m) ==
    \/ HandlerNgSetupResponse(m) \/ HandlerNgSetupFailure(m)
    \/ UpdateAddKnown(m) \/ UpdateAddNew(m) \/ UpdateAssociation(m)
    \/ UpdateRemoveUnknown(m) \/ UpdateRemove(m)
    \/ StatusChooseBackup(m)

Moving(h) == StatusSkip(h) \/ StatusRebind(h) \/ StatusRelease(h) \/ StatusEnd(h)

Next ==
    \/ InitGnb
    \/ \E h \in adders : Connecting(h)
    \/ \E m \in n2 : Dispatch(m)
    \/ \E h \in movers : Moving(h)
    \/ \E o \in Obj : \/ AmfSendsUpdate(o) \/ AmfSendsRemove(o) \/ AmfSendsStatus(o)
                      \/ AmfLost(o)
    \/ \E u \in Ue : NewGnBUe(u) \/ SetAmf(u) \/ SendToAmF(u) \/ UeReleased(u)

Spec == Init /\ [][Next]_vars

\* Goroutines are scheduled: every handler goes on.  (So do the start-up and the
\* UEs, on which the liveness property below does not depend.)
Fairness ==
    /\ WF_vars(\E h \in adders : Connecting(h))
    /\ WF_vars(\E m \in n2 : Dispatch(m))
FairSpec == Spec /\ Fairness

-----------------------------------------------------------------------------
(* Properties.                                                             *)

AmfObject == [ip : Ip \cup {Nil}, id : 0..MaxObj, state : {"Active", "Inactive"},
              name : Amf \cup {Nil}, guami : Amf \cup {Nil}, plmns : BOOLEAN, weight : Nat,
              conn : {"none", "open", "lost", "closed"}]
Message == [type : {"ngSetupResponse", "ngSetupFailure", "add", "update", "remove", "status"},
            to : Obj, ip : Ip, name : Amf \cup {Nil}, weight : Nat]
UeContext == [pc : {"out", "refused", "selected", "attached"}, sel : Obj \cup {Nil},
              amfId : 0..MaxObj, sctp : Obj \cup {Nil}]

PoolTypeOK ==
    /\ amf \in [Obj -> AmfObject] /\ nobj \in 0..MaxObj
    /\ \A o \in 1..nobj : amf[o].ip \in Ip
    /\ amfPool \in [Obj -> Obj \cup {Nil}] /\ idAmfGenerator \in 1..(nobj + 1)
HndTypeOK ==
    /\ boot \in 1..(Len(Configured) + 1)
    /\ n2 \subseteq Message
    /\ adders \subseteq [to : Obj \cup {Nil}, ip : Ip, name : Amf \cup {Nil}, weight : Nat,
                         id : 0..(nobj + 1), obj : Obj \cup {Nil}]
    /\ movers \subseteq [guami : Amf, backup : Obj, left : SUBSET Obj,
                         key : Obj \cup {Nil}, obj : Obj \cup {Nil}]
    /\ \A h \in movers : h.key # Nil <=> h.obj # Nil
    /\ waiting \subseteq Obj /\ nproc \in 0..MaxProc
UeTypeOK ==
    /\ ue \in [Ue -> UeContext] /\ calm \subseteq Ue
    /\ \A u \in Ue : ue[u].pc = "selected" => ue[u].sel # Nil

\* The state has its type: an id drawn from the generator is never beyond the number
\* of AMF objects (NewGnBAmf), and a UE that is being connected has an AMF selected.
TypeOK ==
    /\ PoolTypeOK /\ HndTypeOK /\ UeTypeOK
    /\ fate \in {"run", "dial", "send"}

\* AMFs whose id no other one was given: getRanAmfId takes no lock.
OwnId == {o \in 1..nobj : \A p \in 1..nobj : amf[p].id = amf[o].id => p = o}

\* A UE with a context is bound to an entry of the pool: the AMF its context names by
\* id is the one whose association it holds, and the gNodeB has not closed that
\* association, while additions, updates, the start-up and the loss of AMFs go on
\* around it (SetAmfId and SetSCTP in NewGnBUe and HandlerAmfStatusIndication, against
\* Release and amfPool.Delete).  Excepted are a UE that was being connected while an
\* indication was handled or a removal was on its way, one that an indication moved
\* to an AMF that was not dialled yet, and AMFs that were given the id of another.
Served ==
    \A u \in calm : ue[u].pc = "attached" /\ ue[u].sctp \in OwnId =>
        /\ ue[u].amfId \in Obj /\ amfPool[ue[u].amfId] = ue[u].sctp
        /\ amf[ue[u].sctp].conn # "closed"

\* The gNodeB keeps one association per AMF address while the additions of different
\* AMFs and the start-up overlap: every AMF adds its own endpoints, one at a time, so
\* that nothing can be stored for an address between the look-up and the store
\* (amfExisted in HandlerAmfConfigurationUpdate).
OneAssociationPerIp ==
    \A k, l \in Pooled : amf[amfPool[k]].ip = amf[amfPool[l]].ip => k = l

\* Every AMF Configuration Update is acknowledged, unless the association it came
\* over goes down or the process dies (SendAmfConfigurationUpdateAcknowledge).
UpdateAcknowledged ==
    \A o \in Obj : o \in waiting ~> o \notin waiting \/ amf[o].conn # "open" \/ fate # "run"
=============================================================================
