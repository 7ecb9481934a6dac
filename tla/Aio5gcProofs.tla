---------------------------- MODULE Aio5gcProofs ----------------------------
(* Theorems about Aio5gc, for any subscribers, sessions and lives of UEs. *)
EXTENDS Aio5gc, TLAPS, FiniteSetTheorems, SequenceTheorems

-----------------------------------------------------------------------------
(* The inductive invariants.  With one gNodeB a life of a UE has its       *)
(* position as RAN id, so that a context belongs to the life of its RAN id.*)

OneGnb  == \A g, h \in Gnb : g = h
OneSess == \A s, t \in Sess : s = t

Lives    == 1..Len(run)
Contexts == 1..Len(ues)
Owns(c, a) == c \in Contexts /\ ues[c].ran = a

\* Each life has at most one context, made of its first message; messages of both
\* directions and the life itself carry the id of that context.
RunIds == \A a \in Lives : run[a].ran = a /\ (run[a].amf = 0 \/ Owns(run[a].amf, a))
StartIds == \A a \in Lives : run[a].st \in {"registered", "stopping", "left"} => run[a].amf # 0
UeIds ==
    /\ \A c \in Contexts :
          ues[c].id = c /\ ues[c].ran \in Lives /\ ues[c].msin = run[ues[c].ran].msin
    /\ \A c, d \in Contexts : ues[c].ran = ues[d].ran => c = d
UlId(a, i, m) ==
    /\ m.ran = a /\ m.msin = run[a].msin
    /\ m.type = "initial" => i = 1 /\ \A c \in Contexts : ues[c].ran # a
    /\ m.type # "initial" => Owns(m.amf, a)
    /\ m.type \in {"sessReq", "sessRel", "relResponse"} => m.s \in Sess
UlIds == \A a \in Lives : \A i \in 1..Len(ul[a]) : UlId(a, i, ul[a][i])
DlIds ==
    \A m \in dl : /\ Owns(m.amf, m.ran)
                  /\ m.type \in {"sessAccept", "sessRelease"} => m.s \in Sess
IdInv == TypeOK /\ RunIds /\ StartIds /\ UeIds /\ UlIds /\ DlIds /\ NoFatal

\* A life starts when the earlier ones of its subscriber have ended, and has a context
\* when the core has read all they sent but for the gNodeB's responses.
Ended(a) == run[a].st \in {"killed", "left"}
LivesInTurn == \A a, b \in Lives : a < b /\ run[a].msin = run[b].msin => Ended(a)
ReadInTurn ==
    \A a, b \in Lives : a < b /\ run[a].msin = run[b].msin /\ (\E c \in Contexts : Owns(c, b)) =>
        \A i \in 1..Len(ul[a]) : ul[a][i].type = "relResponse"
Replaced ==
    \A c, d \in Contexts :
        /\ ues[c].msin = ues[d].msin /\ ues[c].ran < ues[d].ran
        /\ ues[d].state \in {"Authenticated", "Registered"}
        => ues[c].state # "Registered"
RegInv == IdInv /\ LivesInTurn /\ ReadInTurn /\ Replaced

\* What is under way for session s of life a.
Asking(a, type, s)    == \E i \in 1..Len(ul[a]) : ul[a][i].type = type /\ ul[a][i].s = s
Answering(a, type, s) == \E m \in dl : m.ran = a /\ m.type = type /\ m.s = s
Once(a, type, s) ==
    \A i, j \in 1..Len(ul[a]) :
        ul[a][i].type = type /\ ul[a][i].s = s /\ ul[a][j].type = type /\ ul[a][j].s = s => i = j

\* A life that goes on has its context in the gNodeB; only others are released.
Reachable(a) ==
    /\ ~Ended(a) => run[a].ctx
    /\ \A m \in dl : m.ran = a /\ m.type = "ctxRelease" => Ended(a)
Timely(a) ==
    /\ run[a].st = "started"  => \A s \in Sess : run[a].sess[s] = "none"
    /\ run[a].st = "stopping" => \A s \in Sess : run[a].sess[s] # "asked"
\* A UE that deregisters has no session left in the core and nothing under way.
Gone(a) ==
    /\ \A i \in 1..Len(ul[a]) : ul[a][i].type = "dereg" => run[a].st = "left"
    /\ run[a].st = "left" =>
          /\ \A i \in 1..Len(ul[a]) : ul[a][i].type = "dereg"
          /\ \A m \in dl : m.ran = a => m.type = "ctxRelease"
          /\ \A c \in Contexts : Owns(c, a) => \A s \in Sess : ues[c].sm[s] = "none"
\* A request or a release of a session is under way once, and the UE waits for it.
Requests(a, s) ==
    /\ Asking(a, "sessReq", s) => run[a].sess[s] = "asked" /\ ~Answering(a, "sessAccept", s)
    /\ Asking(a, "sessRel", s) => run[a].sess[s] = "releasing" /\ ~Answering(a, "sessRelease", s)
    /\ Answering(a, "sessAccept", s) => run[a].sess[s] = "asked"
    /\ Answering(a, "sessRelease", s) => run[a].sess[s] = "releasing"
    /\ Once(a, "sessReq", s) /\ Once(a, "sessRel", s)
\* A session the core holds for context c is held by the UE, or an answer is under way.
Held(a, s, c) ==
    /\ ues[c].sm[s] # "none" => ues[c].state = "Registered"
    /\ ues[c].sm[s] # "Inactive"
    /\ ues[c].sm[s] = "InactivePending" =>
          Answering(a, "sessRelease", s) \/ Asking(a, "relResponse", s)
    /\ ues[c].sm[s] = "Active" =>
          \/ run[a].sess[s] = "active"
          \/ run[a].sess[s] = "asked" /\ Answering(a, "sessAccept", s)
          \/ run[a].sess[s] = "releasing" /\ Asking(a, "sessRel", s)
LifeOk(a) ==
    /\ Reachable(a) /\ Timely(a) /\ Gone(a)
    /\ ~Ended(a) => \A s \in Sess : Requests(a, s) /\ \A c \in Contexts : Owns(c, a) => Held(a, s, c)
SessInv == RegInv /\ AssociationsServed /\ \A a \in Lives : LifeOk(a)

\* A session the UE holds is held by the core; a response of the gNodeB to its release
\* precedes the next request.
Kept(a, s) ==
    run[a].sess[s] = "active" \/ Answering(a, "sessAccept", s) =>
        \A c \in Contexts : Owns(c, a) => ues[c].sm[s] = "Active"
Ordered(a, s) ==
    \A i \in 1..Len(ul[a]) : ul[a][i].type = "relResponse" =>
        /\ run[a].sess[s] # "active"
        /\ run[a].sess[s] = "asked" =>
              \E j \in i+1..Len(ul[a]) : ul[a][j].type = "sessReq" /\ ul[a][j].s = s
KnownInv == SessInv /\ \A a \in Lives, s \in Sess : ~Ended(a) => Kept(a, s) /\ Ordered(a, s)

-----------------------------------------------------------------------------
(* Sequences.                                                              *)

LEMMA SetAt ==
    ASSUME NEW S, NEW q \in Seq(S), NEW i \in 1..Len(q), NEW x \in S
    PROVE  /\ [q EXCEPT ![i] = x] \in Seq(S)
           /\ Len([q EXCEPT ![i] = x]) = Len(q)
           /\ [q EXCEPT ![i] = x][i] = x
           /\ \A j \in 1..Len(q) : j # i => [q EXCEPT ![i] = x][j] = q[j]
  BY ExceptSeq

LEMMA Added ==
    ASSUME NEW S, NEW q \in Seq(S), NEW x \in S
    PROVE  /\ Append(q, x) \in Seq(S) /\ Len(Append(q, x)) = Len(q) + 1
           /\ Append(q, x)[Len(q) + 1] = x
           /\ \A i \in 1..Len(q) : Append(q, x)[i] = q[i]
  OBVIOUS

LEMMA Rest ==
    ASSUME NEW S, NEW q \in Seq(S), q # <<>>
    PROVE  /\ Len(q) >= 1 /\ Head(q) = q[1] /\ Head(q) \in S /\ Tail(q) \in Seq(S)
           /\ Len(Tail(q)) = Len(q) - 1
           /\ \A i \in 1..Len(q) - 1 : Tail(q)[i] = q[i + 1]
  OBVIOUS

(* The transitions of the state machines that the handlers take.           *)

LEMMA UeEvents ==
    /\ SendEvent(UeFsm, "RegistrationRequest", "Deregistered") = "AuthenticationInitiated"
    /\ SendEvent(UeFsm, "RegistrationAccept", "AuthenticationInitiated") = "Authenticated"
    /\ SendEvent(UeFsm, "RegistrationAccept", "Authenticated") = "Registered"
    /\ SendEvent(UeFsm, "DeregistrationRequest", "Registered") = "DeregisteredInitiated"
    /\ Fires(UeFsm, "Deregistration", "DeregisteredInitiated")
    /\ SendEvent(UeFsm, "Deregistration", "DeregisteredInitiated") = "Deregistered"
    /\ SendEvent(UeFsm, "ForceDeregistrationInit", "Registered") = "DeregisteredInitiated"
    /\ \A s : Fires(UeFsm, "DeregistrationRequest", s) => s = "Registered"
<1>1. /\ \A t \in UeFsm : t[1] = "RegistrationRequest" => t[2] = "Deregistered" /\ t[3] = "AuthenticationInitiated"
      /\ \A t \in UeFsm : t[1] = "RegistrationAccept" /\ t[2] = "AuthenticationInitiated" => t[3] = "Authenticated"
      /\ \A t \in UeFsm : t[1] = "RegistrationAccept" /\ t[2] = "Authenticated" => t[3] = "Registered"
      /\ \A t \in UeFsm : t[1] = "DeregistrationRequest" => t[2] = "Registered" /\ t[3] = "DeregisteredInitiated"
      /\ \A t \in UeFsm : t[1] = "Deregistration" => t[2] = "DeregisteredInitiated" /\ t[3] = "Deregistered"
      /\ \A t \in UeFsm : t[1] = "ForceDeregistrationInit" => t[3] = "DeregisteredInitiated"
  BY DEF UeFsm
<1>2. /\ <<"RegistrationRequest", "Deregistered", "AuthenticationInitiated">> \in UeFsm
      /\ <<"RegistrationAccept", "AuthenticationInitiated", "Authenticated">> \in UeFsm
      /\ <<"RegistrationAccept", "Authenticated", "Registered">> \in UeFsm
      /\ <<"DeregistrationRequest", "Registered", "DeregisteredInitiated">> \in UeFsm
      /\ <<"Deregistration", "DeregisteredInitiated", "Deregistered">> \in UeFsm
      /\ <<"ForceDeregistrationInit", "Registered", "DeregisteredInitiated">> \in UeFsm
  BY DEF UeFsm
<1> HIDE DEF UeFsm
<1>3. ASSUME NEW e, NEW s, NEW x, <<e, s, x>> \in UeFsm,
             \A t \in UeFsm : t[1] = e /\ t[2] = s => t[3] = x
      PROVE  Fires(UeFsm, e, s) /\ SendEvent(UeFsm, e, s) = x
  <2>1. \E t \in UeFsm : t[1] = e /\ t[2] = s
    BY <1>3
  <2>2. QED BY <2>1, <1>3 DEF Fires, SendEvent
<1>4. QED BY <1>1, <1>2, <1>3 DEF Fires

LEMMA PduEvents ==
    /\ SendEvent(PduFsm, "EstablishmentAccept", "Inactive") = "Active"
    /\ SendEvent(PduFsm, "ReleaseCommand", "Active") = "InactivePending"
    /\ \A s : Fires(PduFsm, "ReleaseCommand", s) <=> s = "Active"
    /\ \A s \in SmStates : SendEvent(PduFsm, "ForceRelease", s) \in SmStates
<1>1. /\ \A t \in PduFsm : t[1] = "EstablishmentAccept" => t[2] = "Inactive" /\ t[3] = "Active"
      /\ \A t \in PduFsm : t[1] = "ReleaseCommand" => t[2] = "Active" /\ t[3] = "InactivePending"
      /\ \A t \in PduFsm : t[3] \in SmStates
  BY DEF PduFsm, SmStates
<1>2. /\ <<"EstablishmentAccept", "Inactive", "Active">> \in PduFsm
      /\ <<"ReleaseCommand", "Active", "InactivePending">> \in PduFsm
  BY DEF PduFsm
<1> HIDE DEF PduFsm
<1>3. ASSUME NEW e, NEW s, NEW x, <<e, s, x>> \in PduFsm,
             \A t \in PduFsm : t[1] = e /\ t[2] = s => t[3] = x
      PROVE  Fires(PduFsm, e, s) /\ SendEvent(PduFsm, e, s) = x
  <2>1. \E t \in PduFsm : t[1] = e /\ t[2] = s
    BY <1>3
  <2>2. QED BY <2>1, <1>3 DEF Fires, SendEvent
<1>4. \A s \in SmStates : SendEvent(PduFsm, "ForceRelease", s) \in SmStates
  BY <1>1 DEF SendEvent, Fires
<1>5. QED BY <1>1, <1>2, <1>3, <1>4 DEF Fires

-----------------------------------------------------------------------------
(* What the handlers do.  A handler may leave a context half deregistered  *)
(* while it works, hence the wider set of contexts.                        *)

Working == [id : Nat \ {0}, ran : Nat \ {0}, msin : Msin, sm : [Sess -> SmStates], state : UeStates]

\* q has the contexts of ues, but for their states and sessions.
SameIds(q) ==
    /\ Len(q) = Len(ues)
    /\ \A d \in Contexts : q[d].id = ues[d].id /\ q[d].ran = ues[d].ran /\ q[d].msin = ues[d].msin
SameSm(q)    == \A d \in Contexts : q[d].sm = ues[d].sm
SameState(q) == \A d \in Contexts : q[d].state = ues[d].state

Quietly == UNCHANGED <<hung, fate>>
\* The disjuncts of NasDispatch(g, c, m), with their effects spelled out.
NasAuth(g, c, m) ==
    LET R == FindRegisteredUEByMsin(ues[c].msin) IN
    /\ m.type = "authResponse" /\ ues[c].state = "AuthenticationInitiated"
    /\ ues' \in Seq(UeContext) /\ SameIds(ues') /\ SameSm(ues')
    /\ ues'[c].state = "Authenticated"
    /\ \A d \in Contexts \ {c} :
          ues'[d].state = IF d \in R THEN "Deregistered" ELSE ues[d].state
    /\ dl' = (dl \cup {Down("securityModeCommand", g, ues[c], 0)})
             \cup {Down("ctxRelease", g, ues[o], 0) : o \in R}
    /\ Quietly
NasOk(g, c, m) ==
    /\ m.type = "smComplete" /\ ues[c].state = "Authenticated"
    /\ dl' = dl \cup {Down("registrationAccept", g, ues[c], 0)}
    /\ ues' = ues /\ Quietly
NasReg(g, c, m) ==
    /\ m.type = "regComplete" /\ ues[c].state = "Authenticated"
    /\ ues' \in Seq(UeContext) /\ SameIds(ues') /\ SameSm(ues')
    /\ ues'[c].state = "Registered" /\ \A d \in Contexts \ {c} : ues'[d].state = ues[d].state
    /\ dl' = dl /\ Quietly
NasReq(g, c, m) ==
    /\ m.type = "sessReq" /\ ues[c].state = "Registered" /\ ues[c].sm[m.s] \in {"none", "Inactive"}
    /\ ues' \in Seq(UeContext) /\ SameIds(ues') /\ SameState(ues')
    /\ ues'[c].sm = [ues[c].sm EXCEPT ![m.s] = "Active"]
    /\ \A d \in Contexts \ {c} : ues'[d].sm = ues[d].sm
    /\ dl' = dl \cup {Down("sessAccept", g, ues[c], m.s)} /\ Quietly
NasRel(g, c, m) ==
    /\ m.type = "sessRel" /\ ues[c].state = "Registered" /\ ues[c].sm[m.s] = "Active"
    /\ ues' \in Seq(UeContext) /\ SameIds(ues') /\ SameState(ues')
    /\ ues'[c].sm = [ues[c].sm EXCEPT ![m.s] = "InactivePending"]
    /\ \A d \in Contexts \ {c} : ues'[d].sm = ues[d].sm
    /\ dl' = dl \cup {Down("sessRelease", g, ues[c], m.s)} /\ Quietly
NasHang(g, c, m) ==
    /\ m.type = "dereg" /\ \E s \in Sess : ues[c].sm[s] # "none"
    /\ ues' \in Seq(UeContext) /\ SameIds(ues') /\ SameState(ues')
    /\ hung' = hung \cup {g} /\ dl' = dl /\ fate' = fate
NasDereg(g, c, m) ==
    /\ m.type = "dereg" /\ ues[c].state = "Registered"
    /\ ues' \in Seq(UeContext) /\ SameIds(ues') /\ SameSm(ues')
    /\ ues'[c].state = "Deregistered" /\ \A d \in Contexts \ {c} : ues'[d].state = ues[d].state
    /\ dl' = dl \cup {Down("ctxRelease", g, ues[c], 0)} /\ Quietly
NasIgnore(g, c, m) ==
    /\ m.type = "sessRel" => ues[c].state # "Registered" \/ ues[c].sm[m.s] # "Active"
    /\ UNCHANGED <<ues, dl>> /\ Quietly

LEMMA WorkingSeq == ues \in Seq(UeContext) => ues \in Seq(Working)
<1>1. UeContext \subseteq Working
  BY DEF UeContext, Working
<1>2. QED BY <1>1, SeqMonotonic
LEMMA ContextType ==
    ASSUME TypeOK
    PROVE  /\ ues \in Seq(Working) /\ ues \in Seq(UeContext)
           /\ \A d \in Contexts : /\ ues[d] \in UeContext /\ ues[d].state # "DeregisteredInitiated"
                                  /\ ues[d].sm \in [Sess -> SmStates]
<1>1. ues \in Seq(UeContext) /\ \A d \in Contexts : ues[d] \in UeContext
  BY DEF TypeOK, Contexts
<1>2. \A w \in UeContext : w.state # "DeregisteredInitiated" /\ w.sm \in [Sess -> SmStates]
  BY DEF UeContext
<1>3. QED BY <1>1, <1>2, WorkingSeq
LEMMA ContextSeq ==
    ASSUME NEW q \in Seq(Working), \A d \in 1..Len(q) : q[d].state # "DeregisteredInitiated"
    PROVE  q \in Seq(UeContext)
<1>a. \A w \in Working : w.state # "DeregisteredInitiated" => w \in UeContext
  BY DEF UeContext, Working
<1>1. \A d \in 1..Len(q) : q[d] \in UeContext
  BY <1>a
<1>2. q \in [1..Len(q) -> UeContext] /\ Len(q) \in Nat
  BY <1>1
<1>3. QED BY <1>2
LEMMA SetState ==
    ASSUME NEW q \in Seq(Working), NEW c \in 1..Len(q), NEW x \in UeStates
    PROVE  LET r == [q EXCEPT ![c].state = x] IN
           /\ r \in Seq(Working) /\ Len(r) = Len(q) /\ r[c].state = x
           /\ \A d \in 1..Len(q) : /\ r[d].id = q[d].id /\ r[d].ran = q[d].ran /\ r[d].msin = q[d].msin
                                   /\ r[d].sm = q[d].sm /\ (d # c => r[d].state = q[d].state)
<1> DEFINE u == [q[c] EXCEPT !.state = x]
<1>1. q[c] \in Working
  OBVIOUS
<1>2. /\ u \in Working /\ u.state = x /\ u.sm = q[c].sm
      /\ u.id = q[c].id /\ u.ran = q[c].ran /\ u.msin = q[c].msin
  BY <1>1 DEF Working
<1> HIDE DEF u
<1>3. [q EXCEPT ![c].state = x] = [q EXCEPT ![c] = u]
  BY DEF u
<1>4. QED BY <1>2, <1>3, SetAt
LEMMA SetSm ==
    ASSUME NEW c \in 1..Len(ues), NEW s, NEW x \in SmStates, ues \in Seq(UeContext),
           NEW r, r = [ues EXCEPT ![c].sm[s] = x]
    PROVE  /\ r \in Seq(UeContext) /\ SameIds(r) /\ SameState(r)
           /\ r[c].sm = [ues[c].sm EXCEPT ![s] = x]
           /\ \A d \in Contexts \ {c} : r[d].sm = ues[d].sm
<1> DEFINE u == [ues[c] EXCEPT !.sm[s] = x]
<1>1. ues[c] \in UeContext
  OBVIOUS
<1>2. /\ u \in UeContext /\ u.state = ues[c].state /\ u.sm = [ues[c].sm EXCEPT ![s] = x]
      /\ u.id = ues[c].id /\ u.ran = ues[c].ran /\ u.msin = ues[c].msin
  BY <1>1 DEF UeContext
<1> HIDE DEF u
<1>3. [ues EXCEPT ![c].sm[s] = x] = [ues EXCEPT ![c] = u]
  BY DEF u
<1>4. /\ r \in Seq(UeContext) /\ Len(r) = Len(ues) /\ r[c] = u
      /\ \A d \in 1..Len(ues) : d # c => r[d] = ues[d]
  <2>1. r = [ues EXCEPT ![c] = u]
    BY <1>3
  <2>2. PICK S : S = UeContext
    OBVIOUS
  <2>3. ues \in Seq(S) /\ u \in S
    BY <1>2, <2>2
  <2>4. QED BY ONLY <2>1, <2>2, <2>3, c \in 1..Len(ues), SetAt
<1>5. /\ SameIds(r) /\ SameState(r) /\ r[c].sm = [ues[c].sm EXCEPT ![s] = x]
      /\ \A d \in Contexts \ {c} : r[d].sm = ues[d].sm
  BY <1>2, <1>4 DEF SameIds, SameState, Contexts
<1>6. QED BY <1>4, <1>5

LEMMA RegisteredFacts ==
    ASSUME NEW m
    PROVE  /\ FindRegisteredUEByMsin(m) \subseteq Contexts
           /\ \A o \in FindRegisteredUEByMsin(m) : ues[o].msin = m /\ ues[o].state = "Registered"
           /\ ues \in Seq(UeContext) => \A o, p \in FindRegisteredUEByMsin(m) : o = p
  BY DEF FindRegisteredUEByMsin, First, Contexts

LEMMA ReleasedUe ==
    ASSUME ues \in Seq(UeContext), NEW c \in Contexts, NEW g \in Gnb, NEW before \in Seq(Working),
           NEW more, Len(before) = Len(ues), before[c].state = "DeregisteredInitiated",
           SendUEContextReleaseCommand(g, c, before, more)
    PROVE  /\ ues' \in Seq(Working) /\ Len(ues') = Len(ues)
           /\ ues'[c].state = "Deregistered"
           /\ \A d \in Contexts : /\ ues'[d].id = before[d].id /\ ues'[d].ran = before[d].ran
                                  /\ ues'[d].msin = before[d].msin /\ ues'[d].sm = before[d].sm
                                  /\ (d # c => ues'[d].state = before[d].state)
           /\ dl' = dl \cup more \cup {Down("ctxRelease", g, ues[c], 0)} /\ Quietly
<1>1. Fires(UeFsm, "Deregistration", before[c].state)
  BY UeEvents
<1>2. /\ ues' = [before EXCEPT ![c].state = "Deregistered"]
      /\ dl' = dl \cup more \cup {Down("ctxRelease", g, ues[c], 0)} /\ UNCHANGED <<hung, fate>>
  BY <1>1, UeEvents DEF SendUEContextReleaseCommand
<1>3. "Deregistered" \in UeStates
  BY DEF UeStates
<1>4. QED BY <1>2, <1>3, SetState DEF Contexts, Quietly

LEMMA AuthEffect ==
    ASSUME TypeOK, NEW c \in Contexts, NEW g \in Gnb, NEW m, m.type = "authResponse",
           ues[c].state = "AuthenticationInitiated", AuthenticationResponse(g, c)
    PROVE  NasAuth(g, c, m)
<1> DEFINE now == SetUe(c, "Authenticated")
           R   == FindRegisteredUEByMsin(ues[c].msin)
           smc == {Down("securityModeCommand", g, ues[c], 0)}
<1>1. ues \in Seq(Working) /\ ues \in Seq(UeContext) /\ \A d \in Contexts : ues[d].state # "DeregisteredInitiated"
  BY ContextType
<1>2. /\ now \in Seq(Working) /\ Len(now) = Len(ues) /\ now[c].state = "Authenticated"
      /\ SameIds(now) /\ SameSm(now) /\ \A d \in Contexts \ {c} : now[d].state = ues[d].state
  <2>1. "Authenticated" \in UeStates
    BY DEF UeStates
  <2>2. QED BY <1>1, <2>1, SetState DEF SetUe, Contexts, SameIds, SameSm
<1>3. c \notin R /\ R \ {c} = R /\ R \subseteq Contexts /\ \A o \in R : ues[o].state = "Registered"
  BY RegisteredFacts
<1>4. SetUe(c, SendEvent(UeFsm, "RegistrationAccept", ues[c].state)) = now
  BY UeEvents
<1> HIDE DEF now, R
<1>5. CASE R = {}
  <2>1. ues' = now /\ dl' = dl \cup smc /\ Quietly
    BY <1>3, <1>4, <1>5 DEF AuthenticationResponse, Quietly, R
  <2>2. now \in Seq(UeContext)
    BY <1>1, <1>2, ContextSeq DEF Contexts
  <2>3. {Down("ctxRelease", g, ues[o], 0) : o \in R} = {}
    BY <1>5
  <2>4. QED BY <1>2, <1>5, <2>1, <2>2, <2>3 DEF NasAuth, R
<1>6. CASE R # {}
  <2>1. PICK o \in R : SendUEContextReleaseCommand(g, o,
                 [now EXCEPT ![o].state = SendEvent(UeFsm, "ForceDeregistrationInit", @)], smc)
    BY <1>3, <1>4, <1>6 DEF AuthenticationResponse, R
  <2>2. o \in Contexts /\ o # c /\ now[o].state = "Registered" /\ R = {o}
    BY <1>1, <1>2, <1>3, RegisteredFacts DEF R
  <2> DEFINE before == [now EXCEPT ![o].state = "DeregisteredInitiated"]
  <2>3. [now EXCEPT ![o].state = SendEvent(UeFsm, "ForceDeregistrationInit", @)] = before
    BY <2>2, UeEvents
  <2>4. "DeregisteredInitiated" \in UeStates
    BY DEF UeStates
  <2>5. /\ before \in Seq(Working) /\ Len(before) = Len(ues)
        /\ before[o].state = "DeregisteredInitiated"
        /\ \A d \in Contexts : /\ before[d].id = now[d].id /\ before[d].ran = now[d].ran
                               /\ before[d].msin = now[d].msin /\ before[d].sm = now[d].sm
                               /\ (d # o => before[d].state = now[d].state)
    BY <1>2, <2>2, <2>4, SetState DEF Contexts
  <2> HIDE DEF before
  <2>6. /\ ues' \in Seq(Working) /\ Len(ues') = Len(ues)
        /\ ues'[o].state = "Deregistered"
        /\ \A d \in Contexts : /\ ues'[d].id = before[d].id /\ ues'[d].ran = before[d].ran
                               /\ ues'[d].msin = before[d].msin /\ ues'[d].sm = before[d].sm
                               /\ (d # o => ues'[d].state = before[d].state)
        /\ dl' = dl \cup smc \cup {Down("ctxRelease", g, ues[o], 0)} /\ Quietly
    <3>1. SendUEContextReleaseCommand(g, o, before, smc)
      BY <2>1, <2>3
    <3>2. PICK more : more = smc
      OBVIOUS
    <3>3. SendUEContextReleaseCommand(g, o, before, more)
      BY <3>1, <3>2
    <3>4. o \in Contexts /\ before \in Seq(Working) /\ Len(before) = Len(ues)
          /\ before[o].state = "DeregisteredInitiated" /\ ues \in Seq(UeContext)
      BY <1>1, <2>2, <2>5
    <3>5. QED BY ONLY <3>2, <3>3, <3>4, g \in Gnb, ReleasedUe
  <2>7. SameIds(ues') /\ SameSm(ues') /\ ues'[c].state = "Authenticated"
    BY <1>2, <2>2, <2>5, <2>6 DEF SameIds, SameSm
  <2>8. \A d \in Contexts \ {c} : ues'[d].state = IF d \in R THEN "Deregistered" ELSE ues[d].state
    BY <1>2, <2>2, <2>5, <2>6
  <2>9. ues' \in Seq(UeContext)
    BY <1>1, <2>6, <2>7, <2>8, ContextSeq DEF Contexts
  <2>10. {Down("ctxRelease", g, ues[p], 0) : p \in R} = {Down("ctxRelease", g, ues[o], 0)}
    BY <2>2
  <2>11. QED BY <2>6, <2>7, <2>8, <2>9, <2>10 DEF NasAuth, R
<1>7. QED BY <1>5, <1>6

LEMMA DeregEffect ==
    ASSUME TypeOK, NEW c \in Contexts, NEW g \in Gnb, NEW m, m.type = "dereg",
           UEOriginatingDeregistration(g, c)
    PROVE  NasHang(g, c, m) \/ NasDereg(g, c, m) \/ NasIgnore(g, c, m)
<1> DEFINE S == {s \in Sess : ues[c].sm[s] # "none"}
<1>1. ues \in Seq(Working) /\ ues \in Seq(UeContext) /\ \A d \in Contexts : ues[d].state # "DeregisteredInitiated"
  BY ContextType
<1>2. CASE S # {}
  <2>1. PICK s \in S : ForceReleaseAllPDUSession(g, c, s)
    BY <1>2 DEF UEOriginatingDeregistration
  <2>2. ues[c].sm[s] \in SmStates
    BY <2>1, ContextType
  <2>3. SendEvent(PduFsm, "ForceRelease", ues[c].sm[s]) \in SmStates
    BY <2>2, PduEvents
  <2>4. /\ ues' = [ues EXCEPT ![c].sm[s] = SendEvent(PduFsm, "ForceRelease", ues[c].sm[s])]
        /\ hung' = hung \cup {g} /\ dl' = dl /\ fate' = fate
    BY <2>1 DEF ForceReleaseAllPDUSession
  <2>5. ues' \in Seq(UeContext) /\ SameIds(ues') /\ SameState(ues')
    BY <1>1, <2>3, <2>4, SetSm DEF Contexts
  <2>6. QED BY <2>1, <2>4, <2>5 DEF NasHang
<1>3. CASE S = {} /\ Fires(UeFsm, "DeregistrationRequest", ues[c].state)
  <2>1. ues[c].state = "Registered"
    BY <1>3, UeEvents
  <2> DEFINE before == SetUe(c, "DeregisteredInitiated")
  <2>2. SendUEContextReleaseCommand(g, c, before, {})
    BY <1>3, <2>1, UeEvents DEF UEOriginatingDeregistration
  <2>3. "DeregisteredInitiated" \in UeStates
    BY DEF UeStates
  <2>4. /\ before \in Seq(Working) /\ Len(before) = Len(ues)
        /\ before[c].state = "DeregisteredInitiated"
        /\ \A d \in Contexts : /\ before[d].id = ues[d].id /\ before[d].ran = ues[d].ran
                               /\ before[d].msin = ues[d].msin /\ before[d].sm = ues[d].sm
                               /\ (d # c => before[d].state = ues[d].state)
    BY <1>1, <2>3, SetState DEF SetUe, Contexts
  <2> HIDE DEF before
  <2>5. /\ ues' \in Seq(Working) /\ Len(ues') = Len(ues)
        /\ ues'[c].state = "Deregistered"
        /\ \A d \in Contexts : /\ ues'[d].id = before[d].id /\ ues'[d].ran = before[d].ran
                               /\ ues'[d].msin = before[d].msin /\ ues'[d].sm = before[d].sm
                               /\ (d # c => ues'[d].state = before[d].state)
        /\ dl' = dl \cup {} \cup {Down("ctxRelease", g, ues[c], 0)} /\ Quietly
    BY <1>1, <2>2, <2>4, ReleasedUe
  <2>6. SameIds(ues') /\ SameSm(ues') /\ \A d \in Contexts \ {c} : ues'[d].state = ues[d].state
    BY <2>4, <2>5 DEF SameIds, SameSm
  <2>7. ues' \in Seq(UeContext)
    BY <1>1, <2>5, <2>6, ContextSeq DEF Contexts
  <2>8. QED BY <2>1, <2>5, <2>6, <2>7 DEF NasDereg
<1>4. CASE S = {} /\ ~Fires(UeFsm, "DeregistrationRequest", ues[c].state)
  BY <1>4 DEF UEOriginatingDeregistration, Ignore, NasIgnore, Quietly, coreVars
<1>5. QED BY <1>2, <1>3, <1>4

LEMMA NasEffect ==
    ASSUME TypeOK, NEW c \in Contexts, NEW g \in Gnb, NEW m \in UpMsg, NasDispatch(g, c, m)
    PROVE  \/ NasAuth(g, c, m) \/ NasOk(g, c, m) \/ NasReg(g, c, m) \/ NasReq(g, c, m)
           \/ NasRel(g, c, m) \/ NasHang(g, c, m) \/ NasDereg(g, c, m) \/ NasIgnore(g, c, m)
<1> DEFINE fits == /\ (ues[c].state \in {"Authenticated", "Registered"}) = (m.type \in Protected)
                   /\ ues[c].state \in Expected[m.type]
<1>1. ues \in Seq(UeContext) /\ ues \in Seq(Working) /\ \A d \in Contexts : ues[d].state # "DeregisteredInitiated"
  BY ContextType
<1>2. CASE ~fits
  <2>1. UNCHANGED <<ues, dl>> /\ Quietly
    BY <1>2 DEF NasDispatch, Ignore, Quietly, coreVars
  <2>2. m.type = "sessRel" => ues[c].state # "Registered"
    BY <1>2 DEF Protected, Expected
  <2>3. QED BY <2>1, <2>2 DEF NasIgnore
<1>3. CASE fits
  <2>1. \/ m.type = "authResponse" /\ AuthenticationResponse(g, c)
        \/ m.type = "smComplete" /\ SecurityModeComplete(g, c)
        \/ m.type = "regComplete" /\ RegistrationComplete(c)
        \/ m.type = "sessReq" /\ CreatePDUSession(g, c, m.s)
        \/ m.type = "sessRel" /\ ReleasePDUSession(g, c, m.s)
        \/ m.type = "dereg" /\ UEOriginatingDeregistration(g, c)
    BY <1>3 DEF NasDispatch
  <2>2. CASE m.type = "authResponse" /\ AuthenticationResponse(g, c)
    <3>1. ues[c].state = "AuthenticationInitiated"
      BY <1>3, <2>2 DEF Expected
    <3>2. QED BY <2>2, <3>1, AuthEffect
  <2>3. CASE m.type = "smComplete" /\ SecurityModeComplete(g, c)
    BY <1>3, <2>3 DEF SecurityModeComplete, coreVars, Expected, NasOk, Quietly
  <2>4. CASE m.type = "regComplete" /\ RegistrationComplete(c)
    <3>1. ues[c].state = "Authenticated" /\ "Registered" \in UeStates
      BY <1>3, <2>4 DEF Expected, UeStates
    <3>2. ues' = [ues EXCEPT ![c].state = "Registered"] /\ dl' = dl /\ Quietly
      BY <2>4, <3>1, UeEvents DEF RegistrationComplete, SetUe, Quietly
    <3>3. /\ ues' \in Seq(Working) /\ SameIds(ues') /\ SameSm(ues') /\ ues'[c].state = "Registered"
          /\ \A d \in Contexts \ {c} : ues'[d].state = ues[d].state
      BY <1>1, <3>1, <3>2, SetState DEF Contexts, SameIds, SameSm
    <3>4. ues' \in Seq(UeContext)
      BY <1>1, <3>3, ContextSeq DEF Contexts, SameIds
    <3>5. QED BY <2>4, <3>1, <3>2, <3>3, <3>4 DEF NasReg
  <2>5. CASE m.type = "sessReq" /\ CreatePDUSession(g, c, m.s)
    <3>1. ues[c].state = "Registered" /\ "Active" \in SmStates
      BY <1>3, <2>5 DEF Expected, SmStates
    <3>2. CASE ues[c].sm[m.s] \in {"none", "Inactive"}
      <4>1. /\ ues' = [ues EXCEPT ![c].sm[m.s] = "Active"]
            /\ dl' = dl \cup {Down("sessAccept", g, ues[c], m.s)} /\ Quietly
        BY <2>5, <3>2, PduEvents DEF CreatePDUSession, Quietly
      <4>2. /\ ues' \in Seq(UeContext) /\ SameIds(ues') /\ SameState(ues')
            /\ ues'[c].sm = [ues[c].sm EXCEPT ![m.s] = "Active"]
            /\ \A d \in Contexts \ {c} : ues'[d].sm = ues[d].sm
        <5> DEFINE t == m.s
                   x == "Active"
        <5>1. ues' = [ues EXCEPT ![c].sm[t] = x] /\ x \in SmStates
          BY <3>1, <4>1
        <5> HIDE DEF t, x
        <5>2. /\ ues' \in Seq(UeContext) /\ SameIds(ues') /\ SameState(ues')
              /\ ues'[c].sm = [ues[c].sm EXCEPT ![t] = x]
              /\ \A d \in Contexts \ {c} : ues'[d].sm = ues[d].sm
          <6>1. c \in 1..Len(ues) BY DEF Contexts
          <6>2. ues' \in Seq(UeContext) /\ SameIds(ues') /\ SameState(ues') BY <6>1, <1>1, <5>1, SetSm
          <6>3. ues'[c].sm = [ues[c].sm EXCEPT ![t] = x] BY <6>1, <1>1, <5>1, SetSm
          <6>4. \A d \in Contexts \ {c} : ues'[d].sm = ues[d].sm BY <6>1, <1>1, <5>1, SetSm
          <6>5. QED BY <6>2, <6>3, <6>4
        <5>3. QED BY <5>2 DEF t, x
      <4>3. QED BY <2>5, <3>1, <3>2, <4>1, <4>2 DEF NasReq
    <3>3. CASE ~(ues[c].sm[m.s] \in {"none", "Inactive"})
      BY <2>5, <3>3 DEF CreatePDUSession, Ignore, NasIgnore, Quietly, coreVars
    <3>4. QED BY <3>2, <3>3
  <2>6. CASE m.type = "sessRel" /\ ReleasePDUSession(g, c, m.s)
    <3>1. ues[c].state = "Registered" /\ "InactivePending" \in SmStates
      BY <1>3, <2>6 DEF Expected, SmStates
    <3>2. CASE ues[c].sm[m.s] = "Active"
      <4>1. /\ ues' = [ues EXCEPT ![c].sm[m.s] = "InactivePending"]
            /\ dl' = dl \cup {Down("sessRelease", g, ues[c], m.s)} /\ Quietly
        BY <2>6, <3>2, PduEvents DEF ReleasePDUSession, Quietly
      <4>2. /\ ues' \in Seq(UeContext) /\ SameIds(ues') /\ SameState(ues')
            /\ ues'[c].sm = [ues[c].sm EXCEPT ![m.s] = "InactivePending"]
            /\ \A d \in Contexts \ {c} : ues'[d].sm = ues[d].sm
        <5> DEFINE t == m.s
                   x == "InactivePending"
        <5>1. ues' = [ues EXCEPT ![c].sm[t] = x] /\ x \in SmStates
          BY <3>1, <4>1
        <5> HIDE DEF t, x
        <5>2. /\ ues' \in Seq(UeContext) /\ SameIds(ues') /\ SameState(ues')
              /\ ues'[c].sm = [ues[c].sm EXCEPT ![t] = x]
              /\ \A d \in Contexts \ {c} : ues'[d].sm = ues[d].sm
          <6>1. c \in 1..Len(ues) BY DEF Contexts
          <6>2. ues' \in Seq(UeContext) /\ SameIds(ues') /\ SameState(ues') BY <6>1, <1>1, <5>1, SetSm
          <6>3. ues'[c].sm = [ues[c].sm EXCEPT ![t] = x] BY <6>1, <1>1, <5>1, SetSm
          <6>4. \A d \in Contexts \ {c} : ues'[d].sm = ues[d].sm BY <6>1, <1>1, <5>1, SetSm
          <6>5. QED BY <6>2, <6>3, <6>4
        <5>3. QED BY <5>2 DEF t, x
      <4>3. QED BY <2>6, <3>1, <3>2, <4>1, <4>2 DEF NasRel
    <3>3. CASE ues[c].sm[m.s] # "Active"
      BY <2>6, <3>3, PduEvents DEF ReleasePDUSession, Ignore, NasIgnore, Quietly, coreVars
    <3>4. QED BY <3>2, <3>3
  <2>7. CASE m.type = "dereg" /\ UEOriginatingDeregistration(g, c)
    BY <2>7, DeregEffect
  <2>8. QED BY <2>1, <2>2, <2>3, <2>4, <2>5, <2>6, <2>7
<1>4. QED BY <1>2, <1>3

-----------------------------------------------------------------------------
(* The same for the NGAP handlers.  Taken(a) and Sent(a, m) are what is    *)
(* left of the messages of life a once one is read or m is sent.           *)

Taken(a) ==
    /\ ul' \in Seq(Seq(UpMsg)) /\ Len(ul') = Len(ul)
    /\ Len(ul'[a]) = Len(ul[a]) - 1
    /\ \A i \in 1..Len(ul[a]) - 1 : ul'[a][i] = ul[a][i + 1]
    /\ \A b \in Lives \ {a} : ul'[b] = ul[b]
Sent(a, m) ==
    /\ m \in UpMsg
    /\ ul' \in Seq(Seq(UpMsg)) /\ Len(ul') = Len(ul)
    /\ Len(ul'[a]) = Len(ul[a]) + 1 /\ ul'[a][Len(ul[a]) + 1] = m
    /\ \A i \in 1..Len(ul[a]) : ul'[a][i] = ul[a][i]
    /\ \A b \in Lives \ {a} : ul'[b] = ul[b]

Joins(g, m) ==
    /\ ues' \in Seq(UeContext) /\ Len(ues') = Len(ues) + 1
    /\ \A d \in Contexts : ues'[d] = ues[d]
    /\ ues'[Len(ues) + 1] = [id |-> Len(ues) + 1, ran |-> m.ran, msin |-> m.msin,
                             state |-> "AuthenticationInitiated", sm |-> [s \in Sess |-> "none"]]
    /\ dl' = dl \cup {[type |-> "authRequest", gnb |-> g, ran |-> m.ran, amf |-> Len(ues) + 1, s |-> 0]}
    /\ Quietly
Confirms(m) ==
    LET C == FindUEById(m.amf) IN
    /\ ues' \in Seq(UeContext) /\ SameIds(ues') /\ SameState(ues')
    /\ dl' = dl /\ Quietly
    /\ \/ /\ \A d \in C \cap Contexts : ues'[d].sm = [s \in Sess |-> "none"]
          /\ \A d \in Contexts \ C : ues'[d].sm = ues[d].sm
       \/ ~(C = FindUEByRanId(m.ran) /\ \E c \in C : ues[c].sm[m.s] # "none") /\ ues' = ues
Dies(m) ==
    /\ FindUEById(m.amf) = {} \/ FindUEById(m.amf) # FindUEByRanId(m.ran)
    /\ fate' = "fatal" /\ UNCHANGED <<ues, hung, dl>>

LEMMA UlType ==
    ASSUME TypeOK
    PROVE  /\ ul \in Seq(Seq(UpMsg)) /\ Len(ul) = Len(run) /\ Len(run) \in Nat /\ Len(ues) \in Nat
           /\ \A a \in Lives : /\ ul[a] \in Seq(UpMsg) /\ Len(ul[a]) \in Nat
                               /\ \A i \in 1..Len(ul[a]) : ul[a][i] \in UpMsg
           /\ \A a \in Lives : run[a] \in Life
<1>1. /\ ul \in Seq(Seq(UpMsg)) /\ Len(ul) = Len(run) /\ Len(run) \in Nat /\ Len(ues) \in Nat
      /\ \A a \in Lives : run[a] \in Life
  BY DEF TypeOK, Lives
<1>2. \A a \in Lives : ul[a] \in Seq(UpMsg)
  BY <1>1 DEF Lives
<1>3. QED BY <1>1, <1>2

LEMMA TakenFacts ==
    ASSUME TypeOK, NEW a \in Lives, ul[a] # <<>>, ul' = [ul EXCEPT ![a] = Tail(@)]
    PROVE  Taken(a) /\ Len(ul[a]) >= 1 /\ Head(ul[a]) = ul[a][1] /\ ul[a][1] \in UpMsg
<1>1. ul \in Seq(Seq(UpMsg)) /\ Len(ul) = Len(run) /\ ul[a] \in Seq(UpMsg)
  BY UlType
<1> DEFINE q == Tail(ul[a])
<1>2. /\ Len(ul[a]) >= 1 /\ Head(ul[a]) = ul[a][1] /\ Head(ul[a]) \in UpMsg /\ q \in Seq(UpMsg)
      /\ Len(q) = Len(ul[a]) - 1
      /\ \A i \in 1..Len(ul[a]) - 1 : q[i] = ul[a][i + 1]
  BY <1>1, Rest
<1>3. ul' = [ul EXCEPT ![a] = q]
  OBVIOUS
<1> HIDE DEF q
<1>4. /\ ul' \in Seq(Seq(UpMsg)) /\ Len(ul') = Len(ul) /\ ul'[a] = q
      /\ \A b \in 1..Len(ul) : b # a => ul'[b] = ul[b]
  BY <1>1, <1>2, <1>3, SetAt DEF Lives
<1>5. QED BY <1>1, <1>2, <1>4 DEF Taken, Lives

LEMMA SentFacts ==
    ASSUME TypeOK, NEW a \in Lives, NEW m \in UpMsg, ul' = [ul EXCEPT ![a] = Append(@, m)]
    PROVE  Sent(a, m)
<1>1. ul \in Seq(Seq(UpMsg)) /\ Len(ul) = Len(run) /\ ul[a] \in Seq(UpMsg)
  BY UlType
<1> DEFINE q == Append(ul[a], m)
<1>2. /\ q \in Seq(UpMsg) /\ Len(q) = Len(ul[a]) + 1 /\ q[Len(ul[a]) + 1] = m
      /\ \A i \in 1..Len(ul[a]) : q[i] = ul[a][i]
  BY <1>1, Added
<1>3. ul' = [ul EXCEPT ![a] = q]
  OBVIOUS
<1> HIDE DEF q
<1>4. /\ ul' \in Seq(Seq(UpMsg)) /\ Len(ul') = Len(ul) /\ ul'[a] = q
      /\ \A b \in 1..Len(ul) : b # a => ul'[b] = ul[b]
  BY <1>1, <1>2, <1>3, SetAt DEF Lives
<1>5. QED BY <1>1, <1>2, <1>4 DEF Sent, Lives

LEMMA JoinEffect ==
    ASSUME TypeOK, NEW g \in Gnb, NEW m \in UpMsg, InitialUEMessage(g, m)
    PROVE  Joins(g, m)
<1> DEFINE u == [id |-> Len(ues) + 1, ran |-> m.ran, msin |-> m.msin,
                 state |-> "AuthenticationInitiated", sm |-> [s \in Sess |-> "none"]]
<1>1. [NewUE(m.ran, m.msin) EXCEPT !.state = SendEvent(UeFsm, "RegistrationRequest", @)] = u
  BY UeEvents DEF NewUE, getAmfUeId
<1>2. ues \in Seq(UeContext) /\ Len(ues) \in Nat
  BY DEF TypeOK
<1>3. u \in UeContext
  <2>1. [s \in Sess |-> "none"] \in [Sess -> SmStates]
    BY DEF SmStates
  <2>2. QED BY <1>2, <2>1 DEF UeContext, UpMsg, UeStates
<1>4. Down("authRequest", g, u, 0) =
        [type |-> "authRequest", gnb |-> g, ran |-> m.ran, amf |-> Len(ues) + 1, s |-> 0]
  BY DEF Down
<1>5. ues' = Append(ues, u) /\ dl' = dl \cup {Down("authRequest", g, u, 0)} /\ UNCHANGED <<hung, fate>>
  BY <1>1 DEF InitialUEMessage
<1> DEFINE v == u
<1> HIDE DEF v
<1>6. /\ ues' \in Seq(UeContext) /\ Len(ues') = Len(ues) + 1 /\ ues'[Len(ues) + 1] = v
      /\ \A d \in Contexts : ues'[d] = ues[d]
  BY <1>2, <1>3, <1>5, Added DEF v, Contexts
<1>7. QED BY <1>4, <1>5, <1>6 DEF v, Joins, Quietly

LEMMA ConfirmEffect ==
    ASSUME TypeOK, NEW m, ConfirmPDUSessionRelease(m)
    PROVE  Confirms(m)
<1> DEFINE C == FindUEById(m.amf)
           none == [s \in Sess |-> "none"]
           q == [c \in 1..Len(ues) |-> IF c \in C THEN [ues[c] EXCEPT !.sm = none] ELSE ues[c]]
<1>1. CASE C = FindUEByRanId(m.ran) /\ \E c \in C : ues[c].sm[m.s] # "none"
  <2>1. ues' = q /\ dl' = dl /\ Quietly
    BY <1>1 DEF ConfirmPDUSessionRelease, Quietly
  <2>2. none \in [Sess -> SmStates]
    BY DEF SmStates
  <2> HIDE DEF none, C
  <2>3. \A c \in Contexts : ues[c] \in UeContext
    BY ContextType
  <2>4. \A w \in UeContext : /\ [w EXCEPT !.sm = none] \in UeContext
                             /\ [w EXCEPT !.sm = none].sm = none
                             /\ [w EXCEPT !.sm = none].state = w.state
                             /\ [w EXCEPT !.sm = none].id = w.id
                             /\ [w EXCEPT !.sm = none].ran = w.ran
                             /\ [w EXCEPT !.sm = none].msin = w.msin
    BY <2>2 DEF UeContext
  <2>5. q \in [1..Len(ues) -> UeContext] /\ Len(ues) \in Nat
    <3>1. \A c \in 1..Len(ues) :
             (IF c \in C THEN [ues[c] EXCEPT !.sm = none] ELSE ues[c]) \in UeContext
      BY <2>3, <2>4 DEF Contexts
    <3>2. QED BY <3>1, UlType
  <2>6. q \in Seq(UeContext) /\ Len(q) = Len(ues)
    BY <2>5
  <2>7. /\ \A c \in Contexts : c \in C => q[c] = [ues[c] EXCEPT !.sm = none]
        /\ \A c \in Contexts : c \notin C => q[c] = ues[c]
    BY DEF Contexts
  <2> HIDE DEF q
  <2>8. SameIds(q) /\ SameState(q)
    BY <2>3, <2>4, <2>6, <2>7 DEF SameIds, SameState
  <2>9. /\ \A d \in C \cap Contexts : q[d].sm = none
        /\ \A d \in Contexts \ C : q[d].sm = ues[d].sm
    <3>1. ASSUME NEW d \in Contexts, d \in C PROVE q[d].sm = none
      <4>1. q[d] = [ues[d] EXCEPT !.sm = none] /\ ues[d] \in UeContext
        BY <2>3, <2>7, <3>1
      <4>2. QED BY <2>4, <4>1
    <3>2. QED BY <2>7, <3>1
  <2>10. QED BY <2>1, <2>6, <2>8, <2>9 DEF Confirms, C, none
<1>2. CASE ~(C = FindUEByRanId(m.ran) /\ \E c \in C : ues[c].sm[m.s] # "none")
  <2>1. ues' = ues /\ dl' = dl /\ Quietly
    BY <1>2 DEF ConfirmPDUSessionRelease, Ignore, coreVars, Quietly
  <2>2. ues \in Seq(UeContext)
    BY DEF TypeOK
  <2>3. QED BY <1>2, <2>1, <2>2 DEF Confirms, SameIds, SameState
<1>3. QED BY <1>1, <1>2

\* What Dispatch does with the first message of life a.
LEMMA DispatchEffect ==
    ASSUME TypeOK, NEW g \in Gnb, NEW a \in Lives, Dispatch(g, a)
    PROVE  /\ fate = "running" /\ g = run[a].gnb
           /\ Len(ul[a]) >= 1 /\ ul[a][1] \in UpMsg /\ Taken(a) /\ run' = run /\ nreq' = nreq
           /\ "late" \in Races \/ \A b \in 1..a - 1 : run[b].msin = run[a].msin => ul[b] = <<>>
           /\ \/ ul[a][1].type = "initial" /\ Joins(g, ul[a][1])
              \/ ul[a][1].type = "relResponse" /\ Confirms(ul[a][1])
              \/ ul[a][1].type \notin {"initial", "relResponse"} /\ Dies(ul[a][1])
              \/ /\ ul[a][1].type \notin {"initial", "relResponse"}
                 /\ \E c \in FindUEById(ul[a][1].amf) :
                       /\ c \in Contexts /\ FindUEById(ul[a][1].amf) = FindUEByRanId(ul[a][1].ran)
                       /\ \/ NasAuth(g, c, ul[a][1]) \/ NasOk(g, c, ul[a][1])
                          \/ NasReg(g, c, ul[a][1]) \/ NasReq(g, c, ul[a][1])
                          \/ NasRel(g, c, ul[a][1]) \/ NasHang(g, c, ul[a][1])
                          \/ NasDereg(g, c, ul[a][1]) \/ NasIgnore(g, c, ul[a][1])
<1> DEFINE m == Head(ul[a])
<1>1. /\ fate = "running" /\ g = run[a].gnb /\ ul[a] # <<>> /\ run' = run /\ nreq' = nreq
      /\ "late" \in Races \/ \A b \in 1..a - 1 : run[b].msin = run[a].msin => ul[b] = <<>>
      /\ ul' = [ul EXCEPT ![a] = Tail(@)]
      /\ \/ m.type = "initial" /\ InitialUEMessage(g, m)
         \/ m.type = "relResponse" /\ ConfirmPDUSessionRelease(m)
         \/ m.type \notin {"initial", "relResponse"} /\ UplinkNASTransport(g, m)
  BY DEF Dispatch
<1>2. Taken(a) /\ Len(ul[a]) >= 1 /\ m = ul[a][1] /\ m \in UpMsg
  BY <1>1, TakenFacts
<1> HIDE DEF m
<1>3. CASE m.type = "initial" /\ InitialUEMessage(g, m)
  BY <1>1, <1>2, <1>3, JoinEffect
<1>4. CASE m.type = "relResponse" /\ ConfirmPDUSessionRelease(m)
  BY <1>1, <1>2, <1>4, ConfirmEffect
<1>5. CASE m.type \notin {"initial", "relResponse"} /\ UplinkNASTransport(g, m)
  <2>1. CASE FindUEById(m.amf) = {} \/ FindUEById(m.amf) # FindUEByRanId(m.ran)
    BY <1>1, <1>2, <1>5, <2>1 DEF UplinkNASTransport, Dies, coreVars
  <2>2. CASE ~(FindUEById(m.amf) = {} \/ FindUEById(m.amf) # FindUEByRanId(m.ran))
    <3>1. PICK c \in FindUEById(m.amf) : NasDispatch(g, c, m)
      BY <1>5, <2>2 DEF UplinkNASTransport
    <3>2. c \in Contexts
      BY DEF FindUEById, First, Contexts
    <3>3. \/ NasAuth(g, c, m) \/ NasOk(g, c, m) \/ NasReg(g, c, m) \/ NasReq(g, c, m)
          \/ NasRel(g, c, m) \/ NasHang(g, c, m) \/ NasDereg(g, c, m) \/ NasIgnore(g, c, m)
      BY <1>2, <3>1, <3>2, NasEffect
    <3>4. QED BY <1>1, <1>2, <1>5, <2>2, <3>2, <3>3
  <2>3. QED BY <2>1, <2>2
<1>6. QED BY <1>1, <1>3, <1>4, <1>5

-----------------------------------------------------------------------------
(* And for the UEs and gNodeBs.                                            *)

\* Life a changes, but for what it was started with; the others do not.
LifeStep(a) ==
    /\ run' \in Seq(Life) /\ Len(run') = Len(run)
    /\ \A b \in Lives \ {a} : run'[b] = run[b]
    /\ run'[a].msin = run[a].msin /\ run'[a].gnb = run[a].gnb /\ run'[a].ran = run[a].ran
SetSt(a, x) ==
    /\ LifeStep(a) /\ run'[a].st = x
    /\ run'[a].amf = run[a].amf /\ run'[a].ctx = run[a].ctx /\ run'[a].sess = run[a].sess
SetSess(a, s, x) ==
    /\ LifeStep(a) /\ run'[a].sess = [run[a].sess EXCEPT ![s] = x]
    /\ run'[a].amf = run[a].amf /\ run'[a].ctx = run[a].ctx /\ run'[a].st = run[a].st
SetCtx(a) ==
    /\ LifeStep(a) /\ run'[a].ctx = FALSE
    /\ run'[a].amf = run[a].amf /\ run'[a].sess = run[a].sess /\ run'[a].st = run[a].st
SetAmf(a, k, x) ==
    /\ LifeStep(a) /\ run'[a].amf = k /\ run'[a].st = x
    /\ run'[a].ctx = run[a].ctx /\ run'[a].sess = run[a].sess

LifeSt == {"started", "registered", "stopping", "left", "killed"}
LifeSess == {"none", "asked", "active", "releasing"}

LEMMA LifeFacts ==
    ASSUME TypeOK, NEW a \in Lives, NEW l \in Life, run' = [run EXCEPT ![a] = l],
           l.msin = run[a].msin, l.gnb = run[a].gnb, l.ran = run[a].ran
    PROVE  LifeStep(a) /\ run'[a] = l
<1>1. run \in Seq(Life)
  BY DEF TypeOK
<1>2. QED BY <1>1, SetAt DEF LifeStep, Lives
LEMMA StFacts ==
    ASSUME TypeOK, NEW a \in Lives, NEW x \in LifeSt, run' = [run EXCEPT ![a].st = x]
    PROVE  SetSt(a, x)
<1> DEFINE l == [run[a] EXCEPT !.st = x]
<1>1. run[a] \in Life
  BY UlType
<1>2. /\ l \in Life /\ l.msin = run[a].msin /\ l.gnb = run[a].gnb /\ l.ran = run[a].ran
      /\ l.st = x /\ l.amf = run[a].amf /\ l.ctx = run[a].ctx /\ l.sess = run[a].sess
  BY <1>1 DEF Life, LifeSt
<1>3. run' = [run EXCEPT ![a] = l]
  OBVIOUS
<1> HIDE DEF l
<1>4. QED BY <1>2, <1>3, LifeFacts DEF SetSt
LEMMA SessFacts ==
    ASSUME TypeOK, NEW a \in Lives, NEW s, NEW x, s \in Sess => x \in LifeSess,
           run' = [run EXCEPT ![a].sess[s] = x]
    PROVE  SetSess(a, s, x)
<1> DEFINE l == [run[a] EXCEPT !.sess[s] = x]
<1>1. run[a] \in Life
  BY UlType
<1>2. /\ l \in Life /\ l.msin = run[a].msin /\ l.gnb = run[a].gnb /\ l.ran = run[a].ran
      /\ l.st = run[a].st /\ l.amf = run[a].amf /\ l.ctx = run[a].ctx
      /\ l.sess = [run[a].sess EXCEPT ![s] = x]
  BY <1>1 DEF Life, LifeSess
<1>3. run' = [run EXCEPT ![a] = l]
  OBVIOUS
<1> HIDE DEF l
<1>4. QED BY <1>2, <1>3, LifeFacts DEF SetSess
LEMMA CtxFacts ==
    ASSUME TypeOK, NEW a \in Lives, run' = [run EXCEPT ![a].ctx = FALSE]
    PROVE  SetCtx(a)
<1> DEFINE l == [run[a] EXCEPT !.ctx = FALSE]
<1>1. run[a] \in Life
  BY UlType
<1>2. /\ l \in Life /\ l.msin = run[a].msin /\ l.gnb = run[a].gnb /\ l.ran = run[a].ran
      /\ l.st = run[a].st /\ l.amf = run[a].amf /\ l.ctx = FALSE /\ l.sess = run[a].sess
  BY <1>1 DEF Life
<1>3. run' = [run EXCEPT ![a] = l]
  OBVIOUS
<1> HIDE DEF l
<1>4. QED BY <1>2, <1>3, LifeFacts DEF SetCtx
LEMMA AmfFacts ==
    ASSUME TypeOK, NEW a \in Lives, NEW k \in Nat, NEW x \in LifeSt,
           run' = [run EXCEPT ![a].amf = k, ![a].st = x]
    PROVE  SetAmf(a, k, x)
<1> DEFINE l == [[run[a] EXCEPT !.amf = k] EXCEPT !.st = x]
<1>1. run[a] \in Life /\ run \in Seq(Life)
  BY UlType DEF TypeOK
<1>2. /\ l \in Life /\ l.msin = run[a].msin /\ l.gnb = run[a].gnb /\ l.ran = run[a].ran
      /\ l.st = x /\ l.amf = k /\ l.ctx = run[a].ctx /\ l.sess = run[a].sess
  BY <1>1 DEF Life, LifeSt
<1>3. run' = [run EXCEPT ![a] = l]
  BY <1>1 DEF Lives
<1> HIDE DEF l
<1>4. QED BY <1>2, <1>3, LifeFacts DEF SetAmf

Addressed(m) == {a \in Lives : run[a].gnb = m.gnb /\ run[a].ran = m.ran /\ run[a].ctx}
\* The disjuncts of Deliver(m) for life a.
DelReply(a, m) ==
    /\ m.type \in DOMAIN Reply
    /\ \/ run[a].st = "started" /\ Sent(a, Up(Reply[m.type], run[a].ran, m.amf, run[a].msin, 0))
       \/ run[a].st # "started" /\ ul' = ul
    /\ SetAmf(a, m.amf, IF run[a].st = "started" /\ m.type = "registrationAccept"
                        THEN "registered" ELSE run[a].st)
DelAccept(a, m) ==
    /\ m.type = "sessAccept" /\ ul' = ul
    /\ SetSess(a, m.s, IF run[a].st = "registered" THEN "active" ELSE run[a].sess[m.s])
DelRelease(a, m) ==
    /\ m.type = "sessRelease" /\ Sent(a, Up("relResponse", run[a].ran, m.amf, run[a].msin, m.s))
    /\ SetSess(a, m.s, IF run[a].st = "registered" THEN "none" ELSE run[a].sess[m.s])
DelCtx(a, m) == m.type = "ctxRelease" /\ ul' = ul /\ SetCtx(a)

LEMMA UpType ==
    ASSUME TypeOK, NEW a \in Lives, NEW k \in Nat, NEW s \in Sess \cup {0},
           NEW t \in DOMAIN Expected \cup {"relResponse"}
    PROVE  Up(t, run[a].ran, k, run[a].msin, s) \in UpMsg
<1>1. run[a] \in Life
  BY UlType
<1>2. run[a].ran \in Nat \ {0} /\ run[a].msin \in Msin
  BY <1>1 DEF Life
<1>3. QED BY <1>2 DEF Up, UpMsg

LEMMA DeliverEffect ==
    ASSUME TypeOK, NEW m \in dl, Deliver(m)
    PROVE  /\ fate = "running" /\ dl' = dl \ {m} /\ UNCHANGED <<ues, hung, nreq, fate>> /\ m \in DownMsg
           /\ \/ Addressed(m) = {} /\ UNCHANGED <<run, ul>>
              \/ \E a \in Addressed(m) : DelReply(a, m) \/ DelAccept(a, m) \/ DelRelease(a, m) \/ DelCtx(a, m)
<1>1. /\ fate = "running" /\ dl' = dl \ {m} /\ UNCHANGED <<ues, hung, nreq, fate>> /\ m \in DownMsg
  BY DEF Deliver, coreVars, TypeOK
<1>2. m.amf \in Nat /\ m.s \in Sess \cup {0}
  BY <1>1 DEF DownMsg
<1> DEFINE A == {a \in 1..Len(run) : run[a].gnb = m.gnb /\ run[a].ran = m.ran /\ run[a].ctx}
<1>3. A = Addressed(m) /\ A \subseteq Lives
  BY DEF Addressed, Lives
<1>4. \A a \in Lives : run[a].st \in LifeSt /\ run[a].sess \in [Sess -> LifeSess]
  <2>1. \A l \in Life : l.st \in LifeSt /\ l.sess \in [Sess -> LifeSess]
    BY DEF Life, LifeSt, LifeSess
  <2>2. QED BY <2>1, UlType
<1>5. CASE A = {} /\ UNCHANGED <<run, ul>>
  BY <1>1, <1>3, <1>5
<1>6. ASSUME NEW a \in A, m.type \in DOMAIN Reply,
             IF run[a].st = "started" THEN Send(a, Reply[m.type], m.amf, 0) ELSE UNCHANGED ul,
             run' = [run EXCEPT ![a].amf = m.amf, ![a].st =
                 IF @ = "started" /\ m.type = "registrationAccept" THEN "registered" ELSE @]
      PROVE  DelReply(a, m)
  <2> DEFINE x == IF run[a].st = "started" /\ m.type = "registrationAccept" THEN "registered" ELSE run[a].st
             k == m.amf
  <2>1. x \in LifeSt /\ a \in Lives /\ k \in Nat
    BY <1>2, <1>3, <1>4 DEF LifeSt
  <2>2. run' = [run EXCEPT ![a].amf = k, ![a].st = x]
    <3>1. run[a] \in Life /\ run \in Seq(Life)
      BY <2>1, UlType DEF TypeOK
    <3>2. [run EXCEPT ![a].amf = k][a].st = run[a].st
      BY <2>1, <3>1 DEF Life, Lives
    <3>3. QED BY <1>6, <3>2
  <2> HIDE DEF x, k
  <2>3. SetAmf(a, k, x)
    BY <2>1, <2>2, AmfFacts
  <2>4. \A t \in DOMAIN Reply : Reply[t] \in DOMAIN Expected
    BY DEF Reply, Expected
  <2>5. Up(Reply[m.type], run[a].ran, m.amf, run[a].msin, 0) \in UpMsg
    BY <1>2, <1>6, <2>1, <2>4, UpType
  <2>6. CASE run[a].st = "started"
    <3>1. ul' = [ul EXCEPT ![a] = Append(@, Up(Reply[m.type], run[a].ran, m.amf, run[a].msin, 0))]
      BY <1>6, <2>6 DEF Send
    <3>2. Sent(a, Up(Reply[m.type], run[a].ran, m.amf, run[a].msin, 0))
      BY <2>1, <2>5, <3>1, SentFacts
    <3>3. QED BY <1>6, <2>3, <2>6, <3>2 DEF DelReply, x, k
  <2>7. CASE run[a].st # "started"
    BY <1>6, <2>3, <2>7 DEF DelReply, x, k
  <2>8. QED BY <2>6, <2>7
<1>7. ASSUME NEW a \in A, m.type = "sessAccept", UNCHANGED ul,
             run' = [run EXCEPT ![a].sess[m.s] = IF run[a].st = "registered" THEN "active" ELSE @]
      PROVE  DelAccept(a, m)
  <2> DEFINE x == IF run[a].st = "registered" THEN "active" ELSE run[a].sess[m.s]
             s == m.s
  <2>1. (s \in Sess => x \in LifeSess) /\ a \in Lives
    BY <1>3, <1>4 DEF LifeSess
  <2>2. run' = [run EXCEPT ![a].sess[s] = x]
    BY <1>7
  <2> HIDE DEF x, s
  <2>3. SetSess(a, s, x)
    BY <2>1, <2>2, SessFacts
  <2>4. QED BY <1>7, <2>3 DEF DelAccept, x, s
<1>8. ASSUME NEW a \in A, m.type = "sessRelease", Send(a, "relResponse", m.amf, m.s),
             run' = [run EXCEPT ![a].sess[m.s] = IF run[a].st = "registered" THEN "none" ELSE @]
      PROVE  DelRelease(a, m)
  <2> DEFINE x == IF run[a].st = "registered" THEN "none" ELSE run[a].sess[m.s]
             s == m.s
  <2>1. (s \in Sess => x \in LifeSess) /\ a \in Lives
    BY <1>3, <1>4 DEF LifeSess
  <2>2. run' = [run EXCEPT ![a].sess[s] = x]
    BY <1>8
  <2> HIDE DEF x, s
  <2>3. SetSess(a, s, x)
    BY <2>1, <2>2, SessFacts
  <2>4. Up("relResponse", run[a].ran, m.amf, run[a].msin, m.s) \in UpMsg
    BY <1>2, <2>1, UpType
  <2>5. ul' = [ul EXCEPT ![a] = Append(@, Up("relResponse", run[a].ran, m.amf, run[a].msin, m.s))]
    BY <1>8 DEF Send
  <2>6. Sent(a, Up("relResponse", run[a].ran, m.amf, run[a].msin, m.s))
    BY <2>1, <2>4, <2>5, SentFacts
  <2>7. QED BY <1>8, <2>3, <2>6 DEF DelRelease, x, s
<1>9. ASSUME NEW a \in A, m.type = "ctxRelease", UNCHANGED ul, run' = [run EXCEPT ![a].ctx = FALSE]
      PROVE  DelCtx(a, m)
  BY <1>3, <1>9, CtxFacts DEF DelCtx
<1> HIDE DEF A
<1>10. \/ A = {} /\ UNCHANGED <<run, ul>>
       \/ \E a \in A : DelReply(a, m) \/ DelAccept(a, m) \/ DelRelease(a, m) \/ DelCtx(a, m)
  BY <1>6, <1>7, <1>8, <1>9 DEF Deliver, A
<1>11. QED BY <1>1, <1>3, <1>10

\* The steps of a UE of its own.
LEMMA UeEffect ==
    ASSUME TypeOK, NEW a \in Lives, UeNext(a)
    PROVE  /\ fate = "running" /\ UNCHANGED <<ues, hung, dl, fate>> /\ nreq' \in 0..MaxReq
           /\ \/ /\ run[a].st = "registered" /\ SetSt(a, "stopping") /\ ul' = ul
                 /\ "early" \in Races \/ \A s \in Sess : run[a].sess[s] # "asked"
              \/ /\ run[a].st = "stopping" /\ SetSt(a, "left")
                 /\ \A s \in Sess : run[a].sess[s] # "active"
                 /\ "timeout" \in Races \/ Quiet(a)
                 /\ Sent(a, Up("dereg", run[a].ran, run[a].amf, run[a].msin, 0))
              \/ run[a].st \in {"started", "registered"} /\ SetSt(a, "killed") /\ ul' = ul
              \/ \E s \in Sess :
                    /\ run[a].st = "registered" /\ run[a].sess[s] = "none" /\ SetSess(a, s, "asked")
                    /\ Sent(a, Up("sessReq", run[a].ran, run[a].amf, run[a].msin, s))
              \/ \E s \in Sess :
                    /\ run[a].st \in {"registered", "stopping"} /\ run[a].sess[s] = "active"
                    /\ SetSess(a, s, "releasing")
                    /\ Sent(a, Up("sessRel", run[a].ran, run[a].amf, run[a].msin, s))
<1>1. run[a].amf \in Nat
  <2>1. run[a] \in Life
    BY UlType
  <2>2. QED BY <2>1 DEF Life
<1>2. {"stopping", "left", "killed"} \subseteq LifeSt /\ {"asked", "releasing"} \subseteq LifeSess
  BY DEF LifeSt, LifeSess
<1>3. nreq \in 0..MaxReq
  BY DEF TypeOK
<1>4. \A t \in {"dereg", "sessReq", "sessRel"}, s \in Sess \cup {0} :
         Up(t, run[a].ran, run[a].amf, run[a].msin, s) \in UpMsg
  BY <1>1, UpType DEF Expected
<1>5. CASE Stop(a)
  <2>1. run' = [run EXCEPT ![a].st = "stopping"]
    BY <1>5 DEF Stop
  <2>2. SetSt(a, "stopping")
    BY <1>2, <2>1, StFacts
  <2>3. QED BY <1>3, <1>5, <2>2 DEF Stop, coreVars
<1>6. CASE Leave(a)
  <2>1. /\ run' = [run EXCEPT ![a].st = "left"]
        /\ ul' = [ul EXCEPT ![a] = Append(@, Up("dereg", run[a].ran, run[a].amf, run[a].msin, 0))]
    BY <1>6 DEF Leave, Send
  <2>2. SetSt(a, "left")
    BY <1>2, <2>1, StFacts
  <2>3. Sent(a, Up("dereg", run[a].ran, run[a].amf, run[a].msin, 0))
    BY <1>4, <2>1, SentFacts
  <2>4. QED BY <1>3, <1>6, <2>2, <2>3 DEF Leave, coreVars
<1>7. CASE Kill(a)
  <2>1. run' = [run EXCEPT ![a].st = "killed"]
    BY <1>7 DEF Kill
  <2>2. SetSt(a, "killed")
    BY <1>2, <2>1, StFacts
  <2>3. QED BY <1>3, <1>7, <2>2 DEF Kill, coreVars
<1>8. ASSUME NEW s \in Sess, NewSession(a, s)
      PROVE  /\ fate = "running" /\ UNCHANGED <<ues, hung, dl, fate>> /\ nreq' \in 0..MaxReq
             /\ run[a].st = "registered" /\ run[a].sess[s] = "none" /\ SetSess(a, s, "asked")
             /\ Sent(a, Up("sessReq", run[a].ran, run[a].amf, run[a].msin, s))
  <2>1. /\ run' = [run EXCEPT ![a].sess[s] = "asked"]
        /\ ul' = [ul EXCEPT ![a] = Append(@, Up("sessReq", run[a].ran, run[a].amf, run[a].msin, s))]
    BY <1>8 DEF NewSession, Send
  <2>2. SetSess(a, s, "asked")
    BY <1>2, <2>1, SessFacts
  <2>3. Sent(a, Up("sessReq", run[a].ran, run[a].amf, run[a].msin, s))
    BY <1>4, <2>1, SentFacts
  <2>4. nreq' \in 0..MaxReq
    BY <1>3, <1>8, BoundAssumption DEF NewSession
  <2>5. QED BY <1>8, <2>2, <2>3, <2>4 DEF NewSession, coreVars
<1>9. ASSUME NEW s \in Sess, Release(a, s)
      PROVE  /\ fate = "running" /\ UNCHANGED <<ues, hung, dl, fate>> /\ nreq' \in 0..MaxReq
             /\ run[a].st \in {"registered", "stopping"} /\ run[a].sess[s] = "active"
             /\ SetSess(a, s, "releasing")
             /\ Sent(a, Up("sessRel", run[a].ran, run[a].amf, run[a].msin, s))
  <2>1. /\ run' = [run EXCEPT ![a].sess[s] = "releasing"]
        /\ ul' = [ul EXCEPT ![a] = Append(@, Up("sessRel", run[a].ran, run[a].amf, run[a].msin, s))]
    BY <1>9 DEF Release, Send
  <2>2. SetSess(a, s, "releasing")
    BY <1>2, <2>1, SessFacts
  <2>3. Sent(a, Up("sessRel", run[a].ran, run[a].amf, run[a].msin, s))
    BY <1>4, <2>1, SentFacts
  <2>4. QED BY <1>3, <1>9, <2>2, <2>3 DEF Release, coreVars
<1>10. QED BY <1>5, <1>6, <1>7, <1>8, <1>9 DEF UeNext

\* A UE that starts.
Starts(m, g, r) ==
    /\ run' \in Seq(Life) /\ Len(run') = Len(run) + 1
    /\ \A b \in Lives : run'[b] = run[b]
    /\ run'[Len(run) + 1] = [msin |-> m, gnb |-> g, ran |-> r, amf |-> 0, st |-> "started",
                             ctx |-> TRUE, sess |-> [s \in Sess |-> "none"]]
    /\ ul' \in Seq(Seq(UpMsg)) /\ Len(ul') = Len(run) + 1
    /\ \A b \in Lives : ul'[b] = ul[b]
    /\ ul'[Len(run) + 1] = <<Up("initial", r, 0, m, 0)>>
    /\ UNCHANGED <<ues, hung, dl, nreq, fate>>

LEMMA StartEffect ==
    ASSUME TypeOK, NEW m \in Msin, NEW g \in Gnb, Start(m, g)
    PROVE  /\ fate = "running" /\ \A a \in Lives : run[a].msin = m => Ended(a)
           /\ \E r \in Nat \ {0} : Starts(m, g, r) /\ (OneGnb => r = Len(run) + 1)
<1> DEFINE G == {a \in 1..Len(run) : run[a].gnb = g}
           r == Cardinality(G) + 1
           l == [msin |-> m, gnb |-> g, ran |-> r, amf |-> 0, st |-> "started",
                 ctx |-> TRUE, sess |-> [s \in Sess |-> "none"]]
           q == <<Up("initial", r, 0, m, 0)>>
<1>1. /\ fate = "running" /\ \A a \in Lives : run[a].msin = m => Ended(a)
      /\ run' = Append(run, l) /\ ul' = Append(ul, q) /\ UNCHANGED <<ues, hung, dl, nreq, fate>>
  BY DEF Start, Lives, Ended, coreVars
<1>2. /\ run \in Seq(Life) /\ Len(run) \in Nat /\ ul \in Seq(Seq(UpMsg)) /\ Len(ul) = Len(run)
      /\ \A a \in Lives : run[a] \in Life
  BY UlType DEF TypeOK
<1>3. r \in Nat \ {0} /\ (OneGnb => r = Len(run) + 1)
  <2>1. IsFiniteSet(1..Len(run)) /\ Cardinality(1..Len(run)) = Len(run)
    <3>1. 1 \in Int /\ Len(run) \in Int
      BY <1>2
    <3>2. IsFiniteSet(1..Len(run)) /\ Cardinality(1..Len(run)) = IF 1 > Len(run) THEN 0 ELSE Len(run) - 1 + 1
      BY <3>1, FS_Interval
    <3>3. QED BY <1>2, <3>2
  <2>2. G \in SUBSET (1..Len(run))
    OBVIOUS
  <2>3. Cardinality(G) \in Nat
    BY <2>1, <2>2, FS_Subset, FS_CardinalityType
  <2>4. OneGnb => G = 1..Len(run)
    <3>1. \A a \in 1..Len(run) : run[a].gnb \in Gnb
      BY <1>2 DEF Lives, Life
    <3>2. OneGnb => \A a \in 1..Len(run) : run[a].gnb = g
      BY <3>1 DEF OneGnb
    <3>3. QED BY <3>2
  <2> HIDE DEF G
  <2>5. QED BY <2>1, <2>3, <2>4
<1> HIDE DEF r
<1>4. l \in Life
  <2>1. [s \in Sess |-> "none"] \in [Sess -> {"none", "asked", "active", "releasing"}]
    OBVIOUS
  <2>2. QED BY <1>3, <2>1 DEF Life
<1>5. q \in Seq(UpMsg)
  <2>1. Up("initial", r, 0, m, 0) \in UpMsg
    BY <1>3 DEF Up, UpMsg
  <2>2. QED BY <2>1
<1> DEFINE k == l
<1> HIDE DEF k, q
<1>6. /\ run' \in Seq(Life) /\ Len(run') = Len(run) + 1 /\ run'[Len(run) + 1] = k
      /\ \A b \in Lives : run'[b] = run[b]
  BY <1>1, <1>2, <1>4, Added DEF k, Lives
<1>7. /\ ul' \in Seq(Seq(UpMsg)) /\ Len(ul') = Len(run) + 1 /\ ul'[Len(run) + 1] = q
      /\ \A b \in Lives : ul'[b] = ul[b]
  BY <1>1, <1>2, <1>5, Added DEF Lives
<1>8. Starts(m, g, r)
  BY <1>1, <1>6, <1>7 DEF Starts, k, q
<1>9. QED BY <1>1, <1>3, <1>8

-----------------------------------------------------------------------------
(* Type correctness, for any constants.                                    *)

LEMMA DownType ==
    ASSUME TypeOK, NEW c \in Contexts, NEW g \in Gnb, NEW s \in Sess \cup {0},
           NEW t \in {"authRequest", "securityModeCommand", "registrationAccept", "sessAccept",
                      "sessRelease", "ctxRelease"}
    PROVE  Down(t, g, ues[c], s) \in DownMsg
<1>1. ues[c] \in UeContext
  BY ContextType
<1>2. ues[c].id \in Nat \ {0} /\ ues[c].ran \in Nat \ {0}
  BY <1>1 DEF UeContext
<1>3. QED BY <1>2 DEF Down, DownMsg

LEMMA NasType ==
    ASSUME TypeOK, NEW c \in Contexts, NEW g \in Gnb, NEW m \in UpMsg,
           \/ NasAuth(g, c, m) \/ NasOk(g, c, m) \/ NasReg(g, c, m) \/ NasReq(g, c, m)
           \/ NasRel(g, c, m) \/ NasHang(g, c, m) \/ NasDereg(g, c, m) \/ NasIgnore(g, c, m)
    PROVE  /\ ues' \in Seq(UeContext) /\ dl' \subseteq DownMsg /\ hung' \subseteq Gnb /\ fate' = fate
           /\ SameIds(ues')
<1>1. ues \in Seq(UeContext) /\ dl \subseteq DownMsg /\ hung \subseteq Gnb
  BY DEF TypeOK
<1>2. m.s \in Sess \cup {0}
  BY DEF UpMsg
<1>3. ues' = ues => SameIds(ues')
  BY DEF SameIds
<1>4. CASE NasAuth(g, c, m)
  <2> DEFINE R == FindRegisteredUEByMsin(ues[c].msin)
  <2>1. {Down("ctxRelease", g, ues[o], 0) : o \in R} \subseteq DownMsg
    BY DownType, RegisteredFacts
  <2>2. Down("securityModeCommand", g, ues[c], 0) \in DownMsg
    BY DownType
  <2>3. QED BY <1>1, <1>4, <2>1, <2>2 DEF NasAuth, Quietly
<1>5. CASE NasOk(g, c, m)
  BY <1>1, <1>3, <1>5, DownType DEF NasOk, Quietly
<1>6. CASE NasReg(g, c, m)
  BY <1>1, <1>6 DEF NasReg, Quietly
<1>7. CASE NasReq(g, c, m)
  BY <1>1, <1>2, <1>7, DownType DEF NasReq, Quietly
<1>8. CASE NasRel(g, c, m)
  BY <1>1, <1>2, <1>8, DownType DEF NasRel, Quietly
<1>9. CASE NasHang(g, c, m)
  BY <1>1, <1>9 DEF NasHang
<1>10. CASE NasDereg(g, c, m)
  BY <1>1, <1>10, DownType DEF NasDereg, Quietly
<1>11. CASE NasIgnore(g, c, m)
  BY <1>1, <1>3, <1>11 DEF NasIgnore, Quietly
<1>12. QED BY <1>4, <1>5, <1>6, <1>7, <1>8, <1>9, <1>10, <1>11

LEMMA TypeStep == TypeOK /\ [Next]_vars => TypeOK'
<1> SUFFICES ASSUME TypeOK, [Next]_vars PROVE TypeOK'
  OBVIOUS
<1>1. /\ hung \subseteq Gnb /\ fate \in {"running", "fatal"} /\ ues \in Seq(UeContext)
      /\ run \in Seq(Life) /\ ul \in Seq(Seq(UpMsg)) /\ dl \subseteq DownMsg /\ nreq \in 0..MaxReq
      /\ Len(ul) = Len(run) /\ Len(run) \in Nat
  BY UlType DEF TypeOK
<1>2. ASSUME NEW m \in Msin, NEW g \in Gnb, Start(m, g) PROVE TypeOK'
  <2>1. PICK r \in Nat \ {0} : Starts(m, g, r)
    BY <1>2, StartEffect
  <2>2. QED BY <1>1, <2>1 DEF Starts, TypeOK
<1>3. ASSUME NEW m \in dl, Deliver(m) PROVE TypeOK'
  <2>1. /\ dl' = dl \ {m} /\ UNCHANGED <<ues, hung, nreq, fate>>
        /\ \/ Addressed(m) = {} /\ UNCHANGED <<run, ul>>
           \/ \E a \in Addressed(m) : DelReply(a, m) \/ DelAccept(a, m) \/ DelRelease(a, m) \/ DelCtx(a, m)
    BY <1>3, DeliverEffect
  <2>2. run' \in Seq(Life) /\ Len(run') = Len(run) /\ ul' \in Seq(Seq(UpMsg)) /\ Len(ul') = Len(ul)
    BY <1>1, <2>1 DEF DelReply, DelAccept, DelRelease, DelCtx, SetAmf, SetSess, SetCtx, LifeStep, Sent
  <2>3. QED BY <1>1, <2>1, <2>2 DEF TypeOK
<1>4. ASSUME NEW a \in Lives, UeNext(a) PROVE TypeOK'
  <2>1. UNCHANGED <<ues, hung, dl, fate>> /\ nreq' \in 0..MaxReq
    BY <1>4, UeEffect
  <2>2. run' \in Seq(Life) /\ Len(run') = Len(run) /\ ul' \in Seq(Seq(UpMsg)) /\ Len(ul') = Len(ul)
    <3>1. \/ \E x \in LifeSt : SetSt(a, x) /\ (ul' = ul \/ \E m \in UpMsg : Sent(a, m))
          \/ \E s \in Sess, x \in LifeSess, m \in UpMsg : SetSess(a, s, x) /\ Sent(a, m)
      BY <1>4, UeEffect DEF LifeSt, LifeSess, Sent
    <3>2. QED BY <1>1, <3>1 DEF SetSt, SetSess, LifeStep, Sent
  <2>3. QED BY <1>1, <2>1, <2>2 DEF TypeOK
<1>5. ASSUME NEW g \in Gnb, NEW a \in Lives, Dispatch(g, a) PROVE TypeOK'
  <2> DEFINE m == ul[a][1]
  <2>1. m \in UpMsg /\ ul' \in Seq(Seq(UpMsg)) /\ Len(ul') = Len(ul) /\ run' = run /\ nreq' = nreq
    BY <1>5, DispatchEffect DEF Taken
  <2>2. ues' \in Seq(UeContext) /\ dl' \subseteq DownMsg /\ hung' \subseteq Gnb /\ fate' \in {"running", "fatal"}
    <3> HIDE DEF m
    <3>1. CASE Joins(g, m)
      <4>1. [type |-> "authRequest", gnb |-> g, ran |-> m.ran, amf |-> Len(ues) + 1, s |-> 0] \in DownMsg
        BY <1>1, <2>1 DEF DownMsg, UpMsg
      <4>2. QED BY <1>1, <3>1, <4>1 DEF Joins, Quietly
    <3>2. CASE Confirms(m)
      BY <1>1, <3>2 DEF Confirms, Quietly
    <3>3. CASE Dies(m)
      BY <1>1, <3>3 DEF Dies
    <3>4. ASSUME NEW c \in Contexts,
                 \/ NasAuth(g, c, m) \/ NasOk(g, c, m) \/ NasReg(g, c, m) \/ NasReq(g, c, m)
                 \/ NasRel(g, c, m) \/ NasHang(g, c, m) \/ NasDereg(g, c, m) \/ NasIgnore(g, c, m)
          PROVE  /\ ues' \in Seq(UeContext) /\ dl' \subseteq DownMsg /\ hung' \subseteq Gnb
                 /\ fate' \in {"running", "fatal"}
      BY <1>1, <2>1, <3>4, NasType
    <3>5. \/ Joins(g, m) \/ Confirms(m) \/ Dies(m)
          \/ \E c \in Contexts :
                \/ NasAuth(g, c, m) \/ NasOk(g, c, m) \/ NasReg(g, c, m) \/ NasReq(g, c, m)
                \/ NasRel(g, c, m) \/ NasHang(g, c, m) \/ NasDereg(g, c, m) \/ NasIgnore(g, c, m)
      BY <1>5, DispatchEffect DEF m
    <3>6. QED BY <3>1, <3>2, <3>3, <3>4, <3>5
  <2>3. QED BY <1>1, <2>1, <2>2 DEF TypeOK
<1>6. CASE UNCHANGED vars
  BY <1>6 DEF vars, coreVars, TypeOK
<1>7. QED BY <1>2, <1>3, <1>4, <1>5, <1>6 DEF Next, Lives

\* Contexts, messages and lives of UEs stay of their types, and no handler leaves a
\* context half deregistered, for any gNodeBs, subscribers, sessions and races.
THEOREM TypeCorrect == Spec => []TypeOK
<1>1. Init => TypeOK
  <2>1. 0 \in 0..MaxReq
    BY BoundAssumption
  <2>2. QED BY <2>1 DEF Init, TypeOK
<1>2. QED BY <1>1, TypeStep, PTL DEF Spec

-----------------------------------------------------------------------------
(* With one gNodeB every message finds the context of its UE.              *)

LEMMA Found ==
    ASSUME IdInv, NEW c \in Contexts
    PROVE  FindUEById(c) = {c} /\ FindUEByRanId(ues[c].ran) = {c}
<1>1. /\ \A d \in Contexts : ues[d].id = c <=> d = c
      /\ \A d \in Contexts : ues[d].ran = ues[c].ran <=> d = c
  BY DEF IdInv, UeIds
<1>2. c \in Int
  BY UlType DEF IdInv, Contexts
<1>3. QED BY <1>1, <1>2 DEF FindUEById, FindUEByRanId, First, Contexts

\* The sessions of context c are deleted, or there is none of id s.
Forgets(c, s) ==
    /\ ues' \in Seq(UeContext) /\ SameIds(ues') /\ SameState(ues') /\ dl' = dl /\ Quietly
    /\ \A d \in Contexts \ {c} : ues'[d].sm = ues[d].sm
    /\ \/ ues'[c].sm = [t \in Sess |-> "none"]
       \/ ues[c].sm[s] = "none" /\ ues'[c].sm = ues[c].sm

\* A message other than the first is about the context of its life.
NasOwn(g, a, c, m) ==
    /\ Owns(c, a) /\ m.type # "initial"
    /\ m.type \in {"sessReq", "sessRel", "relResponse"} => m.s \in Sess
    /\ \/ m.type = "relResponse" /\ Forgets(c, m.s)
       \/ NasAuth(g, c, m) \/ NasOk(g, c, m) \/ NasReg(g, c, m) \/ NasReq(g, c, m)
       \/ NasRel(g, c, m) \/ NasHang(g, c, m) \/ NasDereg(g, c, m)
       \/ m.type # "relResponse" /\ NasIgnore(g, c, m)
JoinsOwn(g, a, m) ==
    /\ m.type = "initial" /\ Joins(g, m) /\ m.ran = a /\ m.msin = run[a].msin
    /\ \A c \in Contexts : ues[c].ran # a

LEMMA OwnEffect ==
    ASSUME IdInv, NEW g \in Gnb, NEW a \in Lives, Dispatch(g, a)
    PROVE  /\ Len(ul[a]) >= 1 /\ ul[a][1] \in UpMsg /\ Taken(a) /\ run' = run /\ g = run[a].gnb
           /\ fate' = fate
           /\ "late" \in Races \/ \A b \in 1..a - 1 : run[b].msin = run[a].msin => ul[b] = <<>>
           /\ JoinsOwn(g, a, ul[a][1]) \/ NasOwn(g, a, ul[a][1].amf, ul[a][1])
<1> DEFINE m == ul[a][1]
           c == m.amf
<1>1. TypeOK /\ Len(ul[a]) \in Nat
  BY UlType DEF IdInv
<1>2. /\ Len(ul[a]) >= 1 /\ m \in UpMsg /\ Taken(a) /\ run' = run /\ g = run[a].gnb
      /\ "late" \in Races \/ \A b \in 1..a - 1 : run[b].msin = run[a].msin => ul[b] = <<>>
      /\ \/ m.type = "initial" /\ Joins(g, m)
         \/ m.type = "relResponse" /\ Confirms(m)
         \/ m.type \notin {"initial", "relResponse"} /\ Dies(m)
         \/ /\ m.type \notin {"initial", "relResponse"}
            /\ \E d \in FindUEById(m.amf) :
                  /\ d \in Contexts
                  /\ \/ NasAuth(g, d, m) \/ NasOk(g, d, m) \/ NasReg(g, d, m) \/ NasReq(g, d, m)
                     \/ NasRel(g, d, m) \/ NasHang(g, d, m) \/ NasDereg(g, d, m) \/ NasIgnore(g, d, m)
  BY <1>1, DispatchEffect
<1>3. /\ m.ran = a /\ m.msin = run[a].msin
      /\ m.type = "initial" => \A d \in Contexts : ues[d].ran # a
      /\ m.type # "initial" => Owns(c, a)
      /\ m.type \in {"sessReq", "sessRel", "relResponse"} => m.s \in Sess
  BY <1>1, <1>2 DEF IdInv, UlIds, UlId
<1> HIDE DEF m
<1>4. CASE m.type = "initial"
  BY <1>2, <1>3, <1>4 DEF JoinsOwn, Joins, Quietly, m
<1>5. CASE m.type # "initial"
  <2>1. c \in Contexts /\ ues[c].ran = a /\ FindUEById(c) = {c} /\ FindUEByRanId(m.ran) = {c}
    BY <1>3, <1>5, Found DEF Owns
  <2> HIDE DEF c
  <2>2. ~Dies(m)
    BY <2>1 DEF Dies, c
  <2>3. CASE m.type = "relResponse" /\ Confirms(m)
    <3>1. Forgets(c, m.s)
      BY <2>1, <2>3 DEF Confirms, Forgets, c
    <3>2. QED BY <1>2, <1>3, <1>5, <2>3, <3>1 DEF NasOwn, Forgets, Quietly, m, c
  <2>4. CASE /\ m.type # "relResponse"
             /\ \/ NasAuth(g, c, m) \/ NasOk(g, c, m) \/ NasReg(g, c, m) \/ NasReq(g, c, m)
                \/ NasRel(g, c, m) \/ NasHang(g, c, m) \/ NasDereg(g, c, m) \/ NasIgnore(g, c, m)
    <3>1. fate' = fate
      BY <1>1, <1>2, <2>1, <2>4, NasType
    <3>2. NasOwn(g, a, c, m)
      BY <1>3, <1>5, <2>4 DEF NasOwn
    <3>3. QED BY <1>2, <3>1, <3>2 DEF m, c
  <2>5. m.type # "relResponse" =>
          \/ NasAuth(g, c, m) \/ NasOk(g, c, m) \/ NasReg(g, c, m) \/ NasReq(g, c, m)
          \/ NasRel(g, c, m) \/ NasHang(g, c, m) \/ NasDereg(g, c, m) \/ NasIgnore(g, c, m)
    BY <1>2, <1>5, <2>1, <2>2 DEF c
  <2>6. QED BY <1>2, <1>5, <2>2, <2>3, <2>4, <2>5
<1>6. QED BY <1>4, <1>5

\* The messages a handler adds are about the context of the life, or about one that
\* is replaced.
LEMMA OwnFrame ==
    ASSUME IdInv, NEW g \in Gnb, NEW a \in Lives, NEW m \in UpMsg, NEW c, NasOwn(g, a, c, m)
    PROVE  /\ SameIds(ues') /\ fate' = fate
           /\ \A x \in dl' \ dl : /\ Owns(x.amf, x.ran) /\ x.type # "authRequest"
                                  /\ x.type \in {"sessAccept", "sessRelease"} => x.s \in Sess
<1>1. TypeOK /\ c \in Contexts /\ \A d \in Contexts : ues[d].id = d
  BY DEF IdInv, NasOwn, Owns, UeIds
<1>2. SameIds(ues') /\ fate' = fate
  BY <1>1, NasType DEF NasOwn, Forgets, Quietly
<1>3. \A d \in Contexts : \A t, s :  /\ Down(t, g, ues[d], s).amf = d
                                      /\ Down(t, g, ues[d], s).ran = ues[d].ran
                                      /\ Down(t, g, ues[d], s).type = t /\ Down(t, g, ues[d], s).s = s
  BY <1>1 DEF Down
<1>4. ASSUME NEW x \in dl' \ dl
      PROVE  \E d \in Contexts : \/ x = Down("securityModeCommand", g, ues[d], 0)
                                 \/ x = Down("registrationAccept", g, ues[d], 0)
                                 \/ x = Down("ctxRelease", g, ues[d], 0)
                                 \/ x = Down("sessAccept", g, ues[d], m.s) /\ m.s \in Sess
                                 \/ x = Down("sessRelease", g, ues[d], m.s) /\ m.s \in Sess
  <2>1. FindRegisteredUEByMsin(ues[c].msin) \subseteq Contexts
    BY RegisteredFacts
  <2>2. QED BY <1>1, <1>4, <2>1 DEF NasOwn, Forgets, NasAuth, NasOk, NasReg, NasReq, NasRel, NasHang,
           NasDereg, NasIgnore
<1>5. QED BY <1>2, <1>3, <1>4 DEF Owns

\* The messages of all lives once one of life a is read, or x is sent.
LEMMA TakenAll ==
    ASSUME NEW a \in Lives, Taken(a), Len(ul[a]) \in Nat
    PROVE  \A b \in Lives : \A i \in 1..Len(ul'[b]) :
              \/ b # a /\ i \in 1..Len(ul[b]) /\ ul'[b][i] = ul[b][i]
              \/ b = a /\ i \in Nat /\ i > 0 /\ i + 1 \in 1..Len(ul[a]) /\ ul'[b][i] = ul[a][i + 1]
<1>1. ASSUME NEW b \in Lives, b # a
      PROVE  ul'[b] = ul[b]
  BY <1>1 DEF Taken
<1>2. PICK n \in Nat : n = Len(ul[a])
  OBVIOUS
<1>3. Len(ul'[a]) = n - 1 /\ \A i \in 1..(n - 1) : ul'[a][i] = ul[a][i + 1]
  BY <1>2 DEF Taken
<1>4. ASSUME NEW i \in 1..Len(ul'[a])
      PROVE  i \in Nat /\ i > 0 /\ i + 1 \in 1..Len(ul[a]) /\ ul'[a][i] = ul[a][i + 1]
  <2>1. i \in 1..(n - 1)
    BY <1>3, <1>4
  <2>2. ul'[a][i] = ul[a][i + 1]
    BY <1>3, <2>1
  <2>3. i \in Nat /\ i > 0 /\ i + 1 \in 1..n
    BY ONLY <2>1, n \in Nat
  <2>4. QED BY <1>2, <2>2, <2>3
<1>5. QED BY <1>1, <1>4
LEMMA SentAll ==
    ASSUME NEW a \in Lives, NEW x, Sent(a, x), Len(ul[a]) \in Nat
    PROVE  \A b \in Lives : \A i \in 1..Len(ul'[b]) :
              \/ i \in 1..Len(ul[b]) /\ ul'[b][i] = ul[b][i]
              \/ b = a /\ i = Len(ul[a]) + 1 /\ ul'[b][i] = x
<1>1. ASSUME NEW b \in Lives, b # a
      PROVE  ul'[b] = ul[b]
  BY <1>1 DEF Sent
<1>2. PICK n \in Nat : n = Len(ul[a])
  OBVIOUS
<1>3. ASSUME NEW i \in 1..Len(ul'[a])
      PROVE  \/ i \in 1..Len(ul[a]) /\ ul'[a][i] = ul[a][i]
             \/ i = Len(ul[a]) + 1 /\ ul'[a][i] = x
  BY <1>2, <1>3 DEF Sent
<1>4. QED BY <1>1, <1>3

LEMMA IdDispatch ==
    ASSUME IdInv, TypeOK', NEW g \in Gnb, NEW a \in Lives, Dispatch(g, a)
    PROVE  IdInv'
<1> DEFINE m == ul[a][1]
           c == m.amf
<1>1. /\ Len(ul[a]) >= 1 /\ m \in UpMsg /\ Taken(a) /\ run' = run /\ fate' = fate
      /\ JoinsOwn(g, a, m) \/ NasOwn(g, a, c, m)
  BY OwnEffect
<1>2. Lives' = Lives /\ \A b \in Lives : Len(ul[b]) \in Nat
  BY <1>1, UlType DEF IdInv, Lives
<1>3. /\ Len(ues) \in Nat /\ \A b \in Lives : run[b] \in Life
      /\ \A x \in dl : x.amf \in Nat \ {0}
  <2>1. \A x \in DownMsg : x.amf \in Nat \ {0}
    BY DEF DownMsg
  <2>2. QED BY <2>1, UlType DEF IdInv, TypeOK
<1> HIDE DEF m, c
<1>4. CASE NasOwn(g, a, c, m)
  <2>1. /\ SameIds(ues') /\ fate' = fate /\ Contexts' = Contexts
        /\ \A x \in dl' \ dl : /\ Owns(x.amf, x.ran)
                               /\ x.type \in {"sessAccept", "sessRelease"} => x.s \in Sess
    BY <1>1, <1>4, OwnFrame DEF SameIds, Contexts
  <2>2. \A d, b : Owns(d, b)' <=> Owns(d, b)
    BY <2>1 DEF SameIds, Owns
  <2>3. RunIds' /\ StartIds'
    BY <1>1, <1>2, <2>2 DEF IdInv, RunIds, StartIds
  <2>4. UeIds'
    BY <1>1, <1>2, <2>1 DEF IdInv, UeIds, SameIds
  <2>5. UlIds'
    <3> SUFFICES ASSUME NEW b \in Lives, NEW i \in 1..Len(ul'[b]) PROVE UlId(b, i, ul[b][i])'
      BY <1>2 DEF UlIds
    <3>1. PICK j \in 1..Len(ul[b]) : ul'[b][i] = ul[b][j] /\ (j = 1 => i = 1)
      BY <1>1, <1>2, TakenAll
    <3>2. UlId(b, j, ul[b][j])
      BY DEF IdInv, UlIds
    <3>3. QED BY <1>1, <2>1, <2>2, <3>1, <3>2 DEF UlId, SameIds
  <2>6. DlIds'
    BY <2>1, <2>2 DEF IdInv, DlIds
  <2>7. QED BY <1>1, <2>3, <2>4, <2>5, <2>6 DEF IdInv, NoFatal
<1>5. CASE JoinsOwn(g, a, m)
  <2> DEFINE n == Len(ues) + 1
  <2>1. /\ Contexts' = Contexts \cup {n} /\ n \notin Contexts /\ \A d \in Contexts : ues'[d] = ues[d]
        /\ ues'[n].id = n /\ ues'[n].ran = a /\ ues'[n].msin = run[a].msin
        /\ \A d \in Contexts : ues[d].ran # a
    BY <1>3, <1>5 DEF JoinsOwn, Joins, Contexts
  <2>2. \A d, b : Owns(d, b)' <=> Owns(d, b) \/ (d = n /\ b = a)
    BY <2>1 DEF Owns
  <2>3. \A x \in dl' : x \in dl \/ (x.amf = n /\ x.ran = a /\ x.type = "authRequest")
    BY <1>5 DEF JoinsOwn, Joins
  <2> HIDE DEF n
  <2>4. RunIds' /\ StartIds'
    BY <1>1, <1>2, <2>2 DEF IdInv, RunIds, StartIds
  <2>5. UeIds'
    BY <1>1, <1>2, <2>1 DEF IdInv, UeIds
  <2>6. UlIds'
    <3> SUFFICES ASSUME NEW b \in Lives, NEW i \in 1..Len(ul'[b]) PROVE UlId(b, i, ul[b][i])'
      BY <1>2 DEF UlIds
    <3>1. PICK j \in 1..Len(ul[b]) : /\ ul'[b][i] = ul[b][j] /\ (j = 1 => i = 1)
                                     /\ (b = a => j # 1)
      BY <1>1, <1>2, TakenAll
    <3>2. UlId(b, j, ul[b][j])
      BY DEF IdInv, UlIds
    <3>3. QED BY <1>1, <2>1, <2>2, <3>1, <3>2 DEF UlId
  <2>7. DlIds'
    BY <2>2, <2>3 DEF IdInv, DlIds
  <2>8. QED BY <1>1, <2>4, <2>5, <2>6, <2>7 DEF IdInv, NoFatal
<1>6. QED BY <1>1, <1>4, <1>5

\* A life sends a message about its own context.
LEMMA SentIds ==
    ASSUME IdInv, NEW a \in Lives, NEW x, Sent(a, x), LifeStep(a), ues' = ues,
           x.ran = a, x.msin = run[a].msin, x.type # "initial", Owns(x.amf, a),
           x.type \in {"sessReq", "sessRel", "relResponse"} => x.s \in Sess
    PROVE  UlIds'
<1>1. Lives' = Lives /\ Contexts' = Contexts /\ \A b \in Lives : Len(ul[b]) \in Nat
  BY UlType DEF IdInv, Lives, Contexts, LifeStep
<1>2. \A d, b : Owns(d, b)' <=> Owns(d, b)
  BY <1>1 DEF Owns
<1>3. \A b \in Lives : run'[b].msin = run[b].msin
  BY DEF LifeStep
<1> SUFFICES ASSUME NEW b \in Lives, NEW i \in 1..Len(ul'[b]) PROVE UlId(b, i, ul[b][i])'
  BY <1>1 DEF UlIds
<1>4. CASE i \in 1..Len(ul[b]) /\ ul'[b][i] = ul[b][i]
  <2>1. UlId(b, i, ul[b][i])
    BY <1>4 DEF IdInv, UlIds
  <2>2. QED BY <1>1, <1>2, <1>3, <1>4, <2>1 DEF UlId
<1>5. CASE b = a /\ ul'[b][i] = x
  BY <1>2, <1>3, <1>5 DEF UlId
<1>6. QED BY <1>1, <1>4, <1>5, SentAll

\* What a change of a life and of the messages leaves.
LEMMA LifeIds ==
    ASSUME IdInv, NEW a \in Lives, LifeStep(a), ues' = ues, fate' = fate, dl' \subseteq dl,
           run'[a].amf = 0 \/ Owns(run'[a].amf, a),
           run'[a].st \in {"registered", "stopping", "left"} => run'[a].amf # 0
    PROVE  RunIds' /\ StartIds' /\ UeIds' /\ DlIds' /\ NoFatal' /\ (ul' = ul => UlIds')
<1>1. Lives' = Lives /\ Contexts' = Contexts
  BY DEF Lives, Contexts, LifeStep
<1>2. \A d, b : Owns(d, b)' <=> Owns(d, b)
  BY <1>1 DEF Owns
<1>3. \A b \in Lives : run'[b].msin = run[b].msin /\ run'[b].ran = run[b].ran
  BY DEF LifeStep
<1>4. RunIds' /\ StartIds'
  BY <1>1, <1>2 DEF IdInv, RunIds, StartIds, LifeStep
<1>5. UeIds' /\ DlIds' /\ NoFatal'
  BY <1>1, <1>2, <1>3 DEF IdInv, UeIds, DlIds, NoFatal
<1>6. ul' = ul => UlIds'
  BY <1>1, <1>2, <1>3 DEF IdInv, UlIds, UlId
<1>7. QED BY <1>4, <1>5, <1>6

LEMMA UpFields ==
    \A t, r, k, m, s : LET x == Up(t, r, k, m, s) IN
        x.type = t /\ x.ran = r /\ x.amf = k /\ x.msin = m /\ x.s = s
  BY DEF Up
LEMMA ReplyTypes ==
    \A t \in DOMAIN Reply : /\ Reply[t] \in {"authResponse", "smComplete", "regComplete"}
                            /\ t \in {"authRequest", "securityModeCommand", "registrationAccept"}
  BY DEF Reply

\* The life a message of the core is for has the context it is about.
LEMMA Target ==
    ASSUME IdInv, NEW m \in dl, NEW a \in Addressed(m)
    PROVE  /\ a \in Lives /\ m.ran = a /\ run[a].ran = a /\ Owns(m.amf, a) /\ m.amf # 0
           /\ m.type \in {"sessAccept", "sessRelease"} => m.s \in Sess
  BY DEF IdInv, DlIds, RunIds, Addressed, Owns, Contexts

LEMMA IdFrame ==
    ASSUME IdInv, TypeOK', ues' = ues, ul' = ul, dl' \subseteq dl, run' = run, fate' = fate
    PROVE  IdInv'
<1>1. Lives' = Lives /\ Contexts' = Contexts /\ \A d, b : Owns(d, b)' <=> Owns(d, b)
  BY DEF Lives, Contexts, Owns
<1>2. RunIds' /\ StartIds' /\ UeIds' /\ DlIds' /\ NoFatal'
  BY <1>1 DEF IdInv, RunIds, StartIds, UeIds, DlIds, NoFatal
<1>3. UlIds'
  BY <1>1 DEF IdInv, UlIds, UlId
<1>4. QED BY <1>2, <1>3 DEF IdInv

LEMMA IdDeliver ==
    ASSUME IdInv, TypeOK', NEW m \in dl, Deliver(m)
    PROVE  IdInv'
<1>1. /\ dl' = dl \ {m} /\ UNCHANGED <<ues, hung, nreq, fate>>
      /\ \/ Addressed(m) = {} /\ UNCHANGED <<run, ul>>
         \/ \E a \in Addressed(m) : DelReply(a, m) \/ DelAccept(a, m) \/ DelRelease(a, m) \/ DelCtx(a, m)
  BY DeliverEffect DEF IdInv
<1>2. CASE UNCHANGED <<run, ul>>
  BY <1>1, <1>2, IdFrame
<1>3. ASSUME NEW a \in Addressed(m),
             DelReply(a, m) \/ DelAccept(a, m) \/ DelRelease(a, m) \/ DelCtx(a, m)
      PROVE  IdInv'
  <2>1. /\ a \in Lives /\ m.ran = a /\ run[a].ran = a /\ Owns(m.amf, a) /\ m.amf # 0
        /\ m.type \in {"sessAccept", "sessRelease"} => m.s \in Sess
    BY <1>3, Target
  <2>2. /\ LifeStep(a) /\ run'[a].amf \in {run[a].amf, m.amf}
        /\ run'[a].st = run[a].st \/ run'[a].amf = m.amf
    BY <1>3 DEF DelReply, DelAccept, DelRelease, DelCtx, SetAmf, SetSess, SetCtx
  <2>3. RunIds' /\ StartIds' /\ UeIds' /\ DlIds' /\ NoFatal' /\ (ul' = ul => UlIds')
    <3>1. run[a].amf = 0 \/ Owns(run[a].amf, a)
      BY <2>1 DEF IdInv, RunIds
    <3>2. run[a].st \in {"registered", "stopping", "left"} => run[a].amf # 0
      BY <2>1 DEF IdInv, StartIds
    <3>3. QED BY <1>1, <2>1, <2>2, <3>1, <3>2, LifeIds
  <2>4. UlIds'
    <3>1. \/ ul' = ul
          \/ /\ m.type \in DOMAIN Reply
             /\ Sent(a, Up(Reply[m.type], run[a].ran, m.amf, run[a].msin, 0))
          \/ /\ m.type = "sessRelease"
             /\ Sent(a, Up("relResponse", run[a].ran, m.amf, run[a].msin, m.s))
      BY <1>3 DEF DelReply, DelAccept, DelRelease, DelCtx
    <3>2. CASE /\ m.type \in DOMAIN Reply
               /\ Sent(a, Up(Reply[m.type], run[a].ran, m.amf, run[a].msin, 0))
      <4> DEFINE x == Up(Reply[m.type], run[a].ran, m.amf, run[a].msin, 0)
      <4>1. /\ x.ran = a /\ x.msin = run[a].msin /\ x.amf = m.amf
            /\ x.type \in {"authResponse", "smComplete", "regComplete"}
        BY <2>1, <3>2, UpFields, ReplyTypes
      <4> HIDE DEF x
      <4>2. Sent(a, x)
        BY <3>2 DEF x
      <4>3. QED BY <1>1, <2>1, <2>2, <4>1, <4>2, SentIds
    <3>3. CASE /\ m.type = "sessRelease"
               /\ Sent(a, Up("relResponse", run[a].ran, m.amf, run[a].msin, m.s))
      <4> DEFINE x == Up("relResponse", run[a].ran, m.amf, run[a].msin, m.s)
      <4>1. x.ran = a /\ x.msin = run[a].msin /\ x.amf = m.amf /\ x.type = "relResponse" /\ x.s \in Sess
        BY <2>1, <3>3, UpFields
      <4> HIDE DEF x
      <4>2. Sent(a, x)
        BY <3>3 DEF x
      <4>3. QED BY <1>1, <2>1, <2>2, <4>1, <4>2, SentIds
    <3>4. QED BY <2>3, <3>1, <3>2, <3>3
  <2>5. QED BY <2>3, <2>4 DEF IdInv
<1>4. QED BY <1>1, <1>2, <1>3

LEMMA IdUe ==
    ASSUME IdInv, TypeOK', NEW a \in Lives, UeNext(a)
    PROVE  IdInv'
<1>1. UNCHANGED <<ues, hung, dl, fate>>
  BY UeEffect DEF IdInv
<1>2. \/ \E x \in LifeSt : SetSt(a, x) /\ (x = "killed" \/ run[a].st \in {"registered", "stopping"}) /\ ul' = ul
      \/ /\ run[a].st = "stopping" /\ SetSt(a, "left")
         /\ Sent(a, Up("dereg", run[a].ran, run[a].amf, run[a].msin, 0))
      \/ \E s \in Sess, x \in LifeSess, t \in {"sessReq", "sessRel"} :
            /\ run[a].st \in {"registered", "stopping"} /\ SetSess(a, s, x)
            /\ Sent(a, Up(t, run[a].ran, run[a].amf, run[a].msin, s))
  BY UeEffect DEF IdInv, LifeSt, LifeSess
<1>3. /\ run[a].ran = a /\ (run[a].amf = 0 \/ Owns(run[a].amf, a))
      /\ run[a].st \in {"registered", "stopping"} => run[a].amf # 0
  BY DEF IdInv, RunIds, StartIds
<1>4. LifeStep(a) /\ run'[a].amf = run[a].amf
  BY <1>2 DEF SetSt, SetSess
<1>5. run'[a].st \in {"registered", "stopping", "left"} => run'[a].amf # 0
  BY <1>2, <1>3 DEF SetSt, SetSess
<1>6. RunIds' /\ StartIds' /\ UeIds' /\ DlIds' /\ NoFatal' /\ (ul' = ul => UlIds')
  BY <1>1, <1>3, <1>4, <1>5, LifeIds
<1>7. UlIds'
  <2>1. ASSUME NEW t \in {"dereg", "sessReq", "sessRel"}, NEW s, t # "dereg" => s \in Sess,
               run[a].st \in {"registered", "stopping"},
               Sent(a, Up(t, run[a].ran, run[a].amf, run[a].msin, s))
        PROVE  UlIds'
    <3> DEFINE x == Up(t, run[a].ran, run[a].amf, run[a].msin, s)
    <3>1. x.ran = a /\ x.msin = run[a].msin /\ x.amf = run[a].amf /\ x.type = t /\ x.s = s
      BY <1>3 DEF Up
    <3> HIDE DEF x
    <3>2. Sent(a, x)
      BY <2>1 DEF x
    <3>3. x.type # "initial" /\ Owns(x.amf, a) /\ (x.type \in {"sessReq", "sessRel", "relResponse"} => x.s \in Sess)
      BY <1>3, <2>1, <3>1
    <3>4. QED BY <1>1, <1>4, <3>1, <3>2, <3>3, SentIds
  <2>2. QED BY <1>2, <1>6, <2>1
<1>8. QED BY <1>6, <1>7 DEF IdInv

LEMMA IdStart ==
    ASSUME IdInv, TypeOK', OneGnb, NEW m \in Msin, NEW g \in Gnb, Start(m, g)
    PROVE  IdInv'
<1> DEFINE n == Len(run) + 1
           q == <<Up("initial", n, 0, m, 0)>>
<1>1. Starts(m, g, n)
  BY StartEffect DEF IdInv
<1>2. /\ Len(run) \in Nat /\ Lives' = Lives \cup {n} /\ n \notin Lives /\ Contexts' = Contexts
      /\ ues' = ues /\ dl' = dl /\ fate' = fate
  BY <1>1, UlType DEF IdInv, Lives, Contexts, Starts
<1>3. /\ \A b \in Lives : run'[b] = run[b] /\ ul'[b] = ul[b]
      /\ run'[n].ran = n /\ run'[n].amf = 0 /\ run'[n].st = "started" /\ run'[n].msin = m
  BY <1>1 DEF Starts
<1>4. /\ Len(ul'[n]) = 1 /\ ul'[n][1].ran = n /\ ul'[n][1].msin = m /\ ul'[n][1].type = "initial"
  <2>1. ul'[n] = q
    BY <1>1 DEF Starts
  <2>2. Len(q) = 1 /\ q[1] = Up("initial", n, 0, m, 0)
    OBVIOUS
  <2>3. QED BY <2>1, <2>2, UpFields
<1> HIDE DEF n
<1>5. \A d, b : Owns(d, b)' <=> Owns(d, b)
  BY <1>2 DEF Owns
<1>6. RunIds' /\ StartIds'
  BY <1>2, <1>3, <1>5 DEF IdInv, RunIds, StartIds
<1>7. UeIds' /\ DlIds' /\ NoFatal'
  BY <1>2, <1>3, <1>5 DEF IdInv, UeIds, DlIds, NoFatal
<1>8. UlIds'
  <2>1. \A d \in Contexts : ues[d].ran # n
    BY <1>2 DEF IdInv, UeIds
  <2> SUFFICES ASSUME NEW b \in Lives', NEW i \in 1..Len(ul'[b]) PROVE UlId(b, i, ul[b][i])'
    BY DEF UlIds
  <2>2. CASE b = n
    <3>1. i = 1
      <4>1. Len(ul'[b]) = 1
        BY <1>4, <2>2
      <4>2. QED BY <4>1
    <3>2. QED BY <1>2, <1>3, <1>4, <2>1, <2>2, <3>1 DEF UlId
  <2>3. CASE b \in Lives
    <3>1. ul'[b] = ul[b] /\ UlId(b, i, ul[b][i])
      BY <1>3, <2>3 DEF IdInv, UlIds
    <3>2. QED BY <1>2, <1>3, <1>5, <2>3, <3>1 DEF UlId
  <2>4. QED BY <1>2, <2>2, <2>3
<1>9. QED BY <1>6, <1>7, <1>8 DEF IdInv

LEMMA InitType == Init => TypeOK
<1>1. 0 \in 0..MaxReq
  BY BoundAssumption
<1>2. QED BY <1>1 DEF Init, TypeOK
LEMMA IdInit == Init => IdInv
<1> SUFFICES ASSUME Init PROVE IdInv
  OBVIOUS
<1>1. Lives = {} /\ Contexts = {} /\ dl = {}
  BY DEF Init, Lives, Contexts
<1>2. QED BY <1>1, InitType DEF Init, IdInv, RunIds, StartIds, UeIds, UlIds, DlIds, NoFatal

LEMMA IdStep == OneGnb /\ IdInv /\ [Next]_vars => IdInv'
<1> SUFFICES ASSUME OneGnb, IdInv, [Next]_vars PROVE IdInv'
  OBVIOUS
<1>1. TypeOK'
  BY TypeStep DEF IdInv
<1>2. ASSUME NEW m \in Msin, NEW g \in Gnb, Start(m, g) PROVE IdInv'
  BY <1>1, <1>2, IdStart
<1>3. ASSUME NEW m \in dl, Deliver(m) PROVE IdInv'
  BY <1>1, <1>3, IdDeliver
<1>4. ASSUME NEW a \in Lives, UeNext(a) PROVE IdInv'
  BY <1>1, <1>4, IdUe
<1>5. ASSUME NEW g \in Gnb, NEW a \in Lives, Dispatch(g, a) PROVE IdInv'
  BY <1>1, <1>5, IdDispatch
<1>6. CASE UNCHANGED vars
  <2>1. ues' = ues /\ ul' = ul /\ dl' = dl /\ run' = run /\ fate' = fate
    BY <1>6 DEF vars, coreVars
  <2>2. QED BY <1>1, <2>1, IdFrame
<1>7. QED BY <1>2, <1>3, <1>4, <1>5, <1>6 DEF Next, Lives

\* With one gNodeB, whose RAN ids are unique, the core never ends itself: every NAS
\* message is found by both its ids, and a context that is released can be.  However
\* slow the messages, and for any number of lives, subscribers and sessions.
THEOREM CoreSurvives == ASSUME OneGnb PROVE Spec => []NoFatal
<1>1. IdInv /\ [Next]_vars => IdInv'
  BY IdStep
<1>2. IdInv => NoFatal
  BY DEF IdInv
<1>3. QED BY IdInit, <1>1, <1>2, PTL DEF Spec

-----------------------------------------------------------------------------
(* A subscriber has one registered context.                                *)

LEMMA RegDispatch ==
    ASSUME RegInv, IdInv', "late" \notin Races, NEW g \in Gnb, NEW a \in Lives, Dispatch(g, a)
    PROVE  RegInv'
<1> DEFINE m == ul[a][1]
           c == m.amf
<1>1. /\ Len(ul[a]) >= 1 /\ m \in UpMsg /\ Taken(a) /\ run' = run /\ IdInv
      /\ \A b \in 1..a - 1 : run[b].msin = run[a].msin => ul[b] = <<>>
      /\ JoinsOwn(g, a, m) \/ NasOwn(g, a, c, m)
  BY OwnEffect DEF RegInv
<1>2. /\ Lives' = Lives /\ Len(ues) \in Nat /\ \A b \in Lives : Len(ul[b]) \in Nat /\ b \in Nat /\ b > 0
  BY <1>1, UlType DEF IdInv, Lives
<1>3. LivesInTurn'
  BY <1>1, <1>2 DEF RegInv, LivesInTurn, Ended
<1>4. \A b \in Lives : \A i \in 1..Len(ul'[b]) : \E j \in 1..Len(ul[b]) : ul'[b][i] = ul[b][j]
  <2> SUFFICES ASSUME NEW b \in Lives, NEW i \in 1..Len(ul'[b])
               PROVE  \E j \in 1..Len(ul[b]) : ul'[b][i] = ul[b][j]
    OBVIOUS
  <2>1. \/ i \in 1..Len(ul[b]) /\ ul'[b][i] = ul[b][i]
        \/ b = a /\ i + 1 \in 1..Len(ul[a]) /\ ul'[b][i] = ul[a][i + 1]
    BY <1>1, <1>2, TakenAll
  <2>2. QED BY <2>1
<1>5. 1 \in 1..Len(ul[a])
  BY <1>1, <1>2
<1>6. \A d \in Contexts : ues[d].ran \in Lives /\ ues[d].msin = run[ues[d].ran].msin
  BY <1>1 DEF IdInv, UeIds
<1> HIDE DEF m, c
<1>7. CASE NasOwn(g, a, c, m)
  <2>1. SameIds(ues') /\ Contexts' = Contexts
    BY <1>1, <1>7, OwnFrame DEF SameIds, Contexts
  <2>2. ReadInTurn'
    <3> SUFFICES ASSUME NEW p \in Lives, NEW b \in Lives, p < b, run[p].msin = run[b].msin,
                        NEW d \in Contexts, ues[d].ran = b, NEW i \in 1..Len(ul'[p])
                 PROVE  ul'[p][i].type = "relResponse"
      BY <1>1, <1>2, <2>1 DEF ReadInTurn, Owns, SameIds
    <3>1. \A j \in 1..Len(ul[p]) : ul[p][j].type = "relResponse"
      BY DEF RegInv, ReadInTurn, Owns
    <3>2. PICK j \in 1..Len(ul[p]) : ul'[p][i] = ul[p][j]
      BY <1>4
    <3>3. QED BY <3>1, <3>2
  <2>3. c \in Contexts /\ ues[c].ran = a
    BY <1>7 DEF NasOwn, Owns
  \* A life with a later context of the subscriber has nothing but responses unread.
  <2>4. m.type # "relResponse" =>
          \A d \in Contexts : ~(ues[d].msin = ues[c].msin /\ ues[c].ran < ues[d].ran)
    <3>1. SUFFICES ASSUME m.type # "relResponse", NEW d \in Contexts, ues[d].msin = ues[c].msin,
                          ues[c].ran < ues[d].ran
                   PROVE  FALSE
      OBVIOUS
    <3>2. \A j \in 1..Len(ul[a]) : ul[a][j].type = "relResponse"
      BY <1>6, <2>3, <3>1 DEF RegInv, ReadInTurn, Owns
    <3>3. QED BY <1>5, <3>1, <3>2 DEF m
  <2>5. Replaced'
    <3> SUFFICES ASSUME NEW d \in Contexts, NEW e \in Contexts, ues[d].msin = ues[e].msin,
                        ues[d].ran < ues[e].ran, ues'[e].state \in {"Authenticated", "Registered"}
                 PROVE  ues'[d].state # "Registered"
      BY <2>1 DEF Replaced, SameIds
    <3>1. ues[e].state \in {"Authenticated", "Registered"} => ues[d].state # "Registered"
      BY DEF RegInv, Replaced
    <3>2. d # e
      BY <1>2, <1>6
    <3>3. CASE NasAuth(g, c, m)
      <4>1. m.type = "authResponse" /\ d # c
        BY <2>4, <3>3 DEF NasAuth
      <4>2. CASE e # c
        <5>1. ues[e].state \in {"Authenticated", "Registered"}
          BY <3>3, <4>2 DEF NasAuth
        <5>2. QED BY <3>1, <3>3, <4>1, <5>1 DEF NasAuth
      <4>3. CASE e = c /\ ues[d].state = "Registered"
        <5> DEFINE R == {x \in Contexts : ues[x].msin = ues[c].msin /\ ues[x].state = "Registered"}
        <5>1. \A x \in R : x = d
          <6> SUFFICES ASSUME NEW x \in R, x # d PROVE FALSE
            OBVIOUS
          <6>1. ues[x].ran # ues[d].ran /\ ues[x].ran \in Nat /\ ues[d].ran \in Nat
            BY <1>1, <1>2, <1>6 DEF IdInv, UeIds
          <6>2. ues[x].ran < ues[d].ran \/ ues[d].ran < ues[x].ran
            BY <6>1
          <6>3. QED BY <4>3, <6>2 DEF RegInv, Replaced
        <5>2. d \in FindRegisteredUEByMsin(ues[c].msin)
          <6>1. d \in R /\ d \in Nat
            BY <1>2, <4>3 DEF Contexts
          <6>2. FindRegisteredUEByMsin(ues[c].msin) = First(R)
            BY DEF FindRegisteredUEByMsin, Contexts
          <6> HIDE DEF R
          <6>3. QED BY <5>1, <6>1, <6>2 DEF First
        <5>3. QED BY <3>3, <4>1, <5>2 DEF NasAuth
      <4>4. CASE e = c /\ ues[d].state # "Registered"
        BY <3>3, <4>1, <4>4 DEF NasAuth
      <4>5. QED BY <4>2, <4>3, <4>4
    <3>4. CASE NasReg(g, c, m)
      <4>1. m.type = "regComplete" /\ d # c
        BY <2>4, <3>4 DEF NasReg
      <4>2. ues[e].state \in {"Authenticated", "Registered"}
        BY <3>4 DEF NasReg
      <4>3. QED BY <3>1, <3>4, <4>1, <4>2 DEF NasReg
    <3>5. CASE NasDereg(g, c, m)
      BY <3>1, <3>5 DEF NasDereg
    <3>6. CASE SameState(ues') \/ ues' = ues
      BY <3>1, <3>6 DEF SameState
    <3>7. QED
      <4>1. \/ NasAuth(g, c, m) \/ NasReg(g, c, m) \/ NasDereg(g, c, m) \/ SameState(ues') \/ ues' = ues
        BY <1>7 DEF NasOwn, Forgets, NasOk, NasReq, NasRel, NasHang, NasIgnore
      <4>2. QED BY <3>3, <3>4, <3>5, <3>6, <4>1
  <2>6. QED BY <1>3, <2>2, <2>5 DEF RegInv
<1>8. CASE JoinsOwn(g, a, m)
  <2> DEFINE n == Len(ues) + 1
  <2>1. /\ Contexts' = Contexts \cup {n} /\ n \notin Contexts /\ \A d \in Contexts : ues'[d] = ues[d]
        /\ ues'[n].ran = a /\ ues'[n].msin = run[a].msin
        /\ ues'[n].state = "AuthenticationInitiated"
    BY <1>2, <1>8 DEF JoinsOwn, Joins, Contexts
  <2> HIDE DEF n
  <2>2. ReadInTurn'
    <3> SUFFICES ASSUME NEW p \in Lives, NEW b \in Lives, p < b, run[p].msin = run[b].msin,
                        NEW d \in Contexts', ues'[d].ran = b, NEW i \in 1..Len(ul'[p])
                 PROVE  ul'[p][i].type = "relResponse"
      BY <1>1, <1>2 DEF ReadInTurn, Owns
    <3>1. CASE d \in Contexts
      <4>1. \A j \in 1..Len(ul[p]) : ul[p][j].type = "relResponse"
        BY <2>1, <3>1 DEF RegInv, ReadInTurn, Owns
      <4>2. QED BY <1>4, <4>1
    <3>2. CASE d = n
      <4>1. b = a /\ p \in 1..a - 1
        BY <1>2, <2>1, <3>2
      <4>2. ul[p] = <<>>
        BY <1>1, <4>1
      <4>3. QED BY <1>4, <4>2
    <3>3. QED BY <2>1, <3>1, <3>2
  <2>3. Replaced'
    BY <2>1 DEF RegInv, Replaced
  <2>4. QED BY <1>3, <2>2, <2>3 DEF RegInv
<1>9. QED BY <1>1, <1>7, <1>8

\* A life that goes on, or sends a response: the contexts do not change.
LEMMA RegLife ==
    ASSUME RegInv, IdInv', ues' = ues, NEW a \in Lives, LifeStep(a), Ended(a) => Ended(a)',
           ul' = ul \/ \E x : Sent(a, x) /\ (~Ended(a) \/ x.type = "relResponse")
    PROVE  RegInv'
<1>1. Lives' = Lives /\ Contexts' = Contexts
  BY DEF LifeStep, Lives, Contexts
<1>2. \A b \in Lives : run'[b].msin = run[b].msin /\ (Ended(b) => Ended(b)')
  BY DEF LifeStep, Ended
<1>3. LivesInTurn'
  BY <1>1, <1>2 DEF RegInv, LivesInTurn, Ended
<1>4. Replaced'
  BY <1>1 DEF RegInv, Replaced
<1>5. ReadInTurn'
  <2> SUFFICES ASSUME NEW p \in Lives, NEW b \in Lives, p < b, run[p].msin = run[b].msin,
                      NEW d \in Contexts, ues[d].ran = b, NEW i \in 1..Len(ul'[p])
               PROVE  ul'[p][i].type = "relResponse"
    BY <1>1, <1>2 DEF ReadInTurn, Owns
  <2>1. Ended(p) /\ \A j \in 1..Len(ul[p]) : ul[p][j].type = "relResponse"
    BY DEF RegInv, ReadInTurn, LivesInTurn, Owns
  <2>2. CASE ul' = ul
    BY <2>1, <2>2
  <2>3. ASSUME NEW x, Sent(a, x), ~Ended(a) \/ x.type = "relResponse"
        PROVE  ul'[p][i].type = "relResponse"
    <3>1. Len(ul[a]) \in Nat
      BY UlType DEF RegInv, IdInv
    <3>2. \/ i \in 1..Len(ul[p]) /\ ul'[p][i] = ul[p][i]
          \/ p = a /\ ul'[p][i] = x
      BY <2>3, <3>1, SentAll
    <3>3. QED BY <2>1, <2>3, <3>2
  <2>4. QED BY <2>2, <2>3
<1>6. QED BY <1>3, <1>4, <1>5 DEF RegInv

LEMMA RegDeliver ==
    ASSUME RegInv, IdInv', NEW m \in dl, Deliver(m)
    PROVE  RegInv'
<1>1. /\ UNCHANGED <<ues, hung, nreq, fate>> /\ IdInv
      /\ \/ Addressed(m) = {} /\ UNCHANGED <<run, ul>>
         \/ \E a \in Addressed(m) : DelReply(a, m) \/ DelAccept(a, m) \/ DelRelease(a, m) \/ DelCtx(a, m)
  BY DeliverEffect DEF RegInv, IdInv
<1>2. CASE UNCHANGED <<run, ul>>
  BY <1>1, <1>2 DEF RegInv, LivesInTurn, ReadInTurn, Replaced, Ended, Owns, Lives, Contexts
<1>3. ASSUME NEW a \in Addressed(m),
             DelReply(a, m) \/ DelAccept(a, m) \/ DelRelease(a, m) \/ DelCtx(a, m)
      PROVE  RegInv'
  <2>1. a \in Lives
    BY DEF Addressed
  <2>2. LifeStep(a) /\ (run'[a].st = run[a].st \/ run[a].st = "started")
    BY <1>3 DEF DelReply, DelAccept, DelRelease, DelCtx, SetAmf, SetSess, SetCtx
  <2>3. ul' = ul \/ \E x : Sent(a, x) /\ (~Ended(a) \/ x.type = "relResponse")
    BY <1>3, UpFields DEF DelReply, DelAccept, DelRelease, DelCtx, Ended
  <2>4. QED BY <1>1, <2>1, <2>2, <2>3, RegLife DEF Ended
<1>4. QED BY <1>1, <1>2, <1>3

LEMMA RegUe ==
    ASSUME RegInv, IdInv', NEW a \in Lives, UeNext(a)
    PROVE  RegInv'
<1>1. ues' = ues /\ ~Ended(a)
  BY UeEffect DEF RegInv, IdInv, Ended
<1>2. LifeStep(a)
  BY UeEffect DEF RegInv, IdInv, SetSt, SetSess
<1>3. ul' = ul \/ \E x : Sent(a, x)
  BY UeEffect DEF RegInv, IdInv
<1>4. QED BY <1>1, <1>2, <1>3, RegLife

LEMMA RegStart ==
    ASSUME RegInv, IdInv', NEW m \in Msin, NEW g \in Gnb, Start(m, g)
    PROVE  RegInv'
<1> DEFINE n == Len(run) + 1
<1>1. PICK r \in Nat \ {0} : Starts(m, g, r)
  BY StartEffect DEF RegInv, IdInv
<1>2. /\ Len(run) \in Nat /\ Lives' = Lives \cup {n} /\ Contexts' = Contexts /\ ues' = ues
      /\ \A a \in Lives : a \in Nat /\ a < n
  BY <1>1, UlType DEF RegInv, IdInv, Lives, Contexts, Starts
<1>3. /\ \A b \in Lives : run'[b] = run[b] /\ ul'[b] = ul[b]
      /\ run'[n].msin = m /\ \A b \in Lives : run[b].msin = m => Ended(b)
  BY <1>1, StartEffect DEF Starts, RegInv, IdInv
<1>4. n \in Nat /\ \A d \in Contexts : ues[d].ran \in Lives
  BY <1>2 DEF RegInv, IdInv, UeIds
<1> HIDE DEF n
<1>5. LivesInTurn'
  <2> SUFFICES ASSUME NEW a \in Lives', NEW b \in Lives', a < b, run'[a].msin = run'[b].msin
               PROVE  Ended(a)'
    BY DEF LivesInTurn
  <2>1. a \in Lives
    BY <1>2, <1>4
  <2>2. Ended(a)
    BY <1>2, <1>3, <2>1 DEF RegInv, LivesInTurn
  <2>3. QED BY <1>3, <2>1, <2>2 DEF Ended
<1>6. ReadInTurn'
  <2> SUFFICES ASSUME NEW p \in Lives', NEW b \in Lives', p < b, run'[p].msin = run'[b].msin,
                      NEW d \in Contexts, ues[d].ran = b, NEW i \in 1..Len(ul'[p])
               PROVE  ul'[p][i].type = "relResponse"
    BY <1>2 DEF ReadInTurn, Owns
  <2>1. p \in Lives /\ b \in Lives
    BY <1>2, <1>4
  <2>2. QED BY <1>3, <2>1 DEF RegInv, ReadInTurn, Owns
<1>7. Replaced'
  BY <1>2 DEF RegInv, Replaced
<1>8. QED BY <1>5, <1>6, <1>7 DEF RegInv

LEMMA RegStep == OneGnb /\ "late" \notin Races /\ RegInv /\ [Next]_vars => RegInv'
<1> SUFFICES ASSUME OneGnb, "late" \notin Races, RegInv, [Next]_vars PROVE RegInv'
  OBVIOUS
<1>1. IdInv'
  BY IdStep DEF RegInv
<1>2. ASSUME NEW m \in Msin, NEW g \in Gnb, Start(m, g) PROVE RegInv'
  BY <1>1, <1>2, RegStart
<1>3. ASSUME NEW m \in dl, Deliver(m) PROVE RegInv'
  BY <1>1, <1>3, RegDeliver
<1>4. ASSUME NEW a \in Lives, UeNext(a) PROVE RegInv'
  BY <1>1, <1>4, RegUe
<1>5. ASSUME NEW g \in Gnb, NEW a \in Lives, Dispatch(g, a) PROVE RegInv'
  BY <1>1, <1>5, RegDispatch
<1>6. CASE UNCHANGED vars
  BY <1>1, <1>6 DEF vars, coreVars, RegInv, LivesInTurn, ReadInTurn, Replaced, Ended, Owns, Lives,
     Contexts
<1>7. QED BY <1>2, <1>3, <1>4, <1>5, <1>6 DEF Next, Lives
LEMMA RegInit == Init => RegInv
<1> SUFFICES ASSUME Init PROVE RegInv
  OBVIOUS
<1>1. Lives = {} /\ Contexts = {}
  BY DEF Init, Lives, Contexts
<1>2. QED BY <1>1, IdInit DEF RegInv, LivesInTurn, ReadInTurn, Replaced

\* A subscriber never has two registered contexts, however often its UE is killed and
\* started again, if the core reads the messages of a life before those of the next.
THEOREM UniqueRegistration ==
    ASSUME OneGnb, "late" \notin Races PROVE Spec => []OneRegistered
<1>1. RegInv /\ [Next]_vars => RegInv'
  BY RegStep
<1>2. ASSUME RegInv PROVE OneRegistered
  <2> SUFFICES ASSUME NEW c \in Contexts, NEW d \in Contexts, ues[c].msin = ues[d].msin,
                      ues[c].state = "Registered", ues[d].state = "Registered", c # d
               PROVE  FALSE
    BY DEF OneRegistered, Contexts
  <2>1. ues[c].ran # ues[d].ran /\ ues[c].ran \in Lives /\ ues[d].ran \in Lives
    BY <1>2 DEF RegInv, IdInv, UeIds
  <2>2. ues[c].ran < ues[d].ran \/ ues[d].ran < ues[c].ran
    BY <1>2, <2>1, UlType DEF RegInv, IdInv, Lives
  <2>3. QED BY <1>2, <2>2 DEF RegInv, Replaced
<1>3. RegInv => OneRegistered
  BY <1>2
<1>4. QED BY RegInit, <1>1, <1>3, PTL DEF Spec

-----------------------------------------------------------------------------
(* No association hangs: the sessions of a UE and of its context.          *)

LEMMA TakenAsking ==
    ASSUME TypeOK, NEW a \in Lives, Taken(a), Len(ul[a]) >= 1
    PROVE  \A t, s : /\ Asking(a, t, s)' => Asking(a, t, s)
                     /\ Asking(a, t, s) => Asking(a, t, s)' \/ (ul[a][1].type = t /\ ul[a][1].s = s)
                     /\ Once(a, t, s) => Once(a, t, s)'
                     /\ Once(a, t, s) /\ ul[a][1].type = t /\ ul[a][1].s = s => ~Asking(a, t, s)'
<1> DEFINE n == Len(ul[a])
<1>1. /\ n \in Nat /\ n >= 1 /\ Len(ul'[a]) = n - 1
      /\ \A i \in 1..n - 1 : ul'[a][i] = ul[a][i + 1]
  BY UlType DEF Taken
<1> HIDE DEF n
<1>a. Len(ul[a]) = n
  BY DEF n
<1> TAKE t, s
<1>2. Asking(a, t, s)' => Asking(a, t, s)
  <2> SUFFICES ASSUME NEW i \in 1..n - 1, ul'[a][i].type = t, ul'[a][i].s = s PROVE Asking(a, t, s)
    BY <1>1 DEF Asking
  <2>1. i + 1 \in 1..n /\ ul[a][i + 1].type = t /\ ul[a][i + 1].s = s
    BY <1>1
  <2>2. QED BY <1>a, <2>1 DEF Asking
<1>3. Asking(a, t, s) => Asking(a, t, s)' \/ (ul[a][1].type = t /\ ul[a][1].s = s)
  <2> SUFFICES ASSUME NEW i \in 1..n, ul[a][i].type = t, ul[a][i].s = s, i # 1 PROVE Asking(a, t, s)'
    BY <1>a DEF Asking
  <2>1. i - 1 \in 1..n - 1 /\ ul'[a][i - 1] = ul[a][i]
    BY <1>1
  <2>2. QED BY <1>1, <2>1 DEF Asking
<1>4. Once(a, t, s) => Once(a, t, s)'
  <2> SUFFICES ASSUME Once(a, t, s), NEW i \in 1..n - 1, NEW j \in 1..n - 1,
                      ul'[a][i].type = t, ul'[a][i].s = s, ul'[a][j].type = t, ul'[a][j].s = s
               PROVE  i = j
    BY <1>1 DEF Once
  <2>1. /\ i + 1 \in 1..n /\ ul[a][i + 1].type = t /\ ul[a][i + 1].s = s
        /\ j + 1 \in 1..n /\ ul[a][j + 1].type = t /\ ul[a][j + 1].s = s
    BY <1>1
  <2>2. i + 1 = j + 1
    BY <1>a, <2>1 DEF Once
  <2>3. QED BY <1>1, <2>2
<1>5. Once(a, t, s) /\ ul[a][1].type = t /\ ul[a][1].s = s => ~Asking(a, t, s)'
  <2> SUFFICES ASSUME Once(a, t, s), ul[a][1].type = t, ul[a][1].s = s,
                      NEW i \in 1..n - 1, ul'[a][i].type = t, ul'[a][i].s = s
               PROVE  FALSE
    BY <1>1 DEF Asking
  <2>1. i + 1 \in 1..n /\ ul[a][i + 1].type = t /\ ul[a][i + 1].s = s /\ 1 \in 1..n
    BY <1>1
  <2>2. i + 1 = 1
    BY <1>a, <2>1 DEF Once
  <2>3. QED BY <1>1, <2>2
<1>6. QED BY <1>2, <1>3, <1>4, <1>5

LEMMA SentAsking ==
    ASSUME TypeOK, NEW a \in Lives, NEW x, Sent(a, x)
    PROVE  \A t, s : /\ Asking(a, t, s)' <=> Asking(a, t, s) \/ (x.type = t /\ x.s = s)
                     /\ Once(a, t, s) /\ ~(x.type = t /\ x.s = s /\ Asking(a, t, s)) => Once(a, t, s)'
<1> DEFINE n == Len(ul[a])
<1>1. /\ n \in Nat /\ Len(ul'[a]) = n + 1 /\ ul'[a][n + 1] = x
      /\ \A i \in 1..n : ul'[a][i] = ul[a][i]
  BY UlType DEF Sent
<1> HIDE DEF n
<1>a. Len(ul[a]) = n
  BY DEF n
<1> TAKE t, s
<1>2. Asking(a, t, s)' => Asking(a, t, s) \/ (x.type = t /\ x.s = s)
  <2> SUFFICES ASSUME NEW i \in 1..n + 1, ul'[a][i].type = t, ul'[a][i].s = s, i # n + 1
               PROVE  Asking(a, t, s)
    BY <1>1 DEF Asking
  <2>1. i \in 1..n /\ ul[a][i].type = t /\ ul[a][i].s = s
    BY <1>1
  <2>2. QED BY <1>a, <2>1 DEF Asking
<1>3. Asking(a, t, s) \/ (x.type = t /\ x.s = s) => Asking(a, t, s)'
  <2>1. \A i \in 1..n : i \in 1..n + 1
    BY <1>1
  <2>2. n + 1 \in 1..n + 1
    BY <1>1
  <2>3. QED BY <1>1, <1>a, <2>1, <2>2 DEF Asking
<1>4. Once(a, t, s) /\ ~(x.type = t /\ x.s = s /\ Asking(a, t, s)) => Once(a, t, s)'
  <2> SUFFICES ASSUME Once(a, t, s), ~(x.type = t /\ x.s = s /\ Asking(a, t, s)),
                      NEW i \in 1..n + 1, NEW j \in 1..n + 1,
                      ul'[a][i].type = t, ul'[a][i].s = s, ul'[a][j].type = t, ul'[a][j].s = s
               PROVE  i = j
    BY <1>1 DEF Once
  <2>1. \A k \in 1..n + 1 : k # n + 1 => k \in 1..n /\ ul'[a][k] = ul[a][k]
    BY <1>1
  <2>2. CASE i = n + 1 \/ j = n + 1
    BY <1>1, <1>a, <2>1, <2>2 DEF Asking
  <2>3. CASE i # n + 1 /\ j # n + 1
    BY <1>a, <2>1, <2>3 DEF Once
  <2>4. QED BY <2>2, <2>3
<1>5. QED BY <1>2, <1>3, <1>4

\* Two messages of the core about one session of a life are the same.
LEMMA DlUnique ==
    ASSUME OneGnb, IdInv, NEW x \in dl, NEW y \in dl, x.ran = y.ran, x.type = y.type, x.s = y.s
    PROVE  x = y
<1>1. x \in DownMsg /\ y \in DownMsg
  BY DEF IdInv, TypeOK
<1>2. x.amf = y.amf
  BY DEF IdInv, DlIds, UeIds, Owns
<1>3. x.gnb = y.gnb
  BY <1>1 DEF OneGnb, DownMsg
<1>4. QED BY <1>1, <1>2, <1>3 DEF DownMsg

LEMMA DlGrows ==
    ASSUME NEW x, dl' = dl \cup {x}
    PROVE  \A a, t, s : Answering(a, t, s)' <=> Answering(a, t, s) \/ (x.ran = a /\ x.type = t /\ x.s = s)
  BY DEF Answering
LEMMA DlShrinks ==
    ASSUME OneGnb, IdInv, NEW m \in dl, dl' = dl \ {m}
    PROVE  \A a, t, s : Answering(a, t, s)' <=> Answering(a, t, s) /\ ~(m.ran = a /\ m.type = t /\ m.s = s)
<1> TAKE a, t, s
<1>1. ASSUME m.ran = a, m.type = t, m.s = s PROVE ~Answering(a, t, s)'
  BY <1>1, DlUnique DEF Answering
<1>2. ASSUME ~(m.ran = a /\ m.type = t /\ m.s = s) PROVE Answering(a, t, s)' <=> Answering(a, t, s)
  BY <1>2 DEF Answering
<1>3. QED BY <1>1, <1>2 DEF Answering

\* A life that a step does not concern; it may be replaced once it has ended.
Untouched(b) ==
    /\ run'[b] = run[b] /\ ul'[b] = ul[b]
    /\ \A x \in dl : x.ran = b => x \in dl'
    /\ \A x \in dl' : x.ran = b => x \in dl \/ (x.type = "ctxRelease" /\ Ended(b))
    /\ \A c : Owns(c, b)' <=> Owns(c, b)
    /\ \A c : Owns(c, b) => ues'[c].sm = ues[c].sm /\ (Ended(b) \/ ues'[c].state = ues[c].state)
LEMMA UntouchedOk ==
    ASSUME NEW b, LifeOk(b), Untouched(b)
    PROVE  LifeOk(b)'
<1>1. \A t, s : Asking(b, t, s)' <=> Asking(b, t, s)
  BY DEF Untouched, Asking
<1>2. \A t, s : Once(b, t, s)' <=> Once(b, t, s)
  BY DEF Untouched, Once
<1>3. \A t, s : t # "ctxRelease" => (Answering(b, t, s)' <=> Answering(b, t, s))
  BY DEF Untouched, Answering
<1>4. Ended(b)' <=> Ended(b)
  BY DEF Untouched, Ended
<1>5. Reachable(b)'
  BY <1>4 DEF LifeOk, Reachable, Untouched
<1>6. Timely(b)'
  BY DEF LifeOk, Timely, Untouched
<1>7. Gone(b)'
  <2>1. \A i \in 1..Len(ul'[b]) : ul'[b][i].type = "dereg" => run'[b].st = "left"
    BY DEF LifeOk, Gone, Untouched
  <2>2. ASSUME run'[b].st = "left" PROVE \A i \in 1..Len(ul'[b]) : ul'[b][i].type = "dereg"
    BY <2>2 DEF LifeOk, Gone, Untouched
  <2>3. ASSUME run'[b].st = "left" PROVE \A m \in dl' : m.ran = b => m.type = "ctxRelease"
    BY <2>3 DEF LifeOk, Gone, Untouched
  <2>4. ASSUME run'[b].st = "left", NEW c \in Contexts', Owns(c, b)'
        PROVE  \A s \in Sess : ues'[c].sm[s] = "none"
    BY <2>4 DEF LifeOk, Gone, Untouched, Owns
  <2>5. QED BY <2>1, <2>2, <2>3, <2>4 DEF Gone
<1>8. ASSUME ~Ended(b)', NEW s \in Sess PROVE Requests(b, s)'
  <2>1. Requests(b, s)
    BY <1>4, <1>8 DEF LifeOk
  <2>2. QED BY <1>1, <1>2, <1>3, <2>1 DEF Requests, Untouched
<1>9. ASSUME ~Ended(b)', NEW s \in Sess, NEW c \in Contexts', Owns(c, b)' PROVE Held(b, s, c)'
  <2>1. Held(b, s, c) /\ ues'[c].sm = ues[c].sm /\ ues'[c].state = ues[c].state
    BY <1>4, <1>9 DEF LifeOk, Untouched, Owns
  <2>2. QED BY <1>1, <1>3, <2>1 DEF Held, Untouched
<1>10. QED BY <1>5, <1>6, <1>7, <1>8, <1>9 DEF LifeOk

\* A handler of the core, for the life whose message it is.
LEMMA CoreOk ==
    ASSUME SessInv, NEW g \in Gnb, NEW a \in Lives, NEW c, NEW m, m = ul[a][1], m \in UpMsg,
           NasOwn(g, a, c, m), Taken(a), Len(ul[a]) >= 1, run' = run
    PROVE  LifeOk(a)' /\ hung' = {}
<1>1. /\ IdInv /\ TypeOK /\ LifeOk(a) /\ hung = {} /\ Len(ul[a]) \in Nat /\ 1 \in 1..Len(ul[a])
      /\ c \in Contexts /\ ues[c].ran = a
  BY UlType DEF SessInv, RegInv, IdInv, NasOwn, Owns, AssociationsServed
<1>2. /\ \A d : Owns(d, a) <=> d = c
      /\ SameIds(ues') /\ Contexts' = Contexts /\ \A d : Owns(d, a)' <=> d = c
  <2>1. \A d : Owns(d, a) <=> d = c
    BY <1>1 DEF IdInv, UeIds, Owns
  <2>2. SameIds(ues') /\ Contexts' = Contexts
    BY <1>1, OwnFrame DEF SameIds, Contexts
  <2>3. QED BY <2>1, <2>2 DEF Owns, SameIds
<1>3. \A t, s : /\ Asking(a, t, s)' => Asking(a, t, s)
                /\ Asking(a, t, s) => Asking(a, t, s)' \/ (m.type = t /\ m.s = s)
                /\ Once(a, t, s) => Once(a, t, s)'
                /\ Once(a, t, s) /\ m.type = t /\ m.s = s => ~Asking(a, t, s)'
  BY <1>1, TakenAsking
<1>4. Asking(a, m.type, m.s)
  BY <1>1 DEF Asking
<1>5. (Ended(a)' <=> Ended(a)) /\ run'[a] = run[a]
  BY DEF Ended
<1>6. \A d \in Contexts : \A t, s : /\ Down(t, g, ues[d], s).ran = ues[d].ran
                                     /\ Down(t, g, ues[d], s).type = t /\ Down(t, g, ues[d], s).s = s
  BY DEF Down
\* What the handler adds for this life.
<1>7. /\ \A x \in dl : x \in dl'
      /\ \A x \in dl' \ dl : x.ran = a =>
            \/ x.type \in {"securityModeCommand", "registrationAccept"}
            \/ x.type = "ctxRelease" /\ NasDereg(g, c, m)
            \/ x.type = "sessAccept" /\ NasReq(g, c, m) /\ x.s = m.s
            \/ x.type = "sessRelease" /\ NasRel(g, c, m) /\ x.s = m.s
  <2>1. CASE NasAuth(g, c, m)
    <3> DEFINE R == FindRegisteredUEByMsin(ues[c].msin)
    <3>1. R \subseteq Contexts /\ c \notin R
      BY <2>1, RegisteredFacts DEF NasAuth
    <3>2. \A o \in R : ues[o].ran # a
      BY <1>1, <3>1 DEF IdInv, UeIds
    <3> HIDE DEF R
    <3>3. \A o \in R : Down("ctxRelease", g, ues[o], 0).ran # a
      BY <1>6, <3>1, <3>2
    <3>4. dl' = (dl \cup {Down("securityModeCommand", g, ues[c], 0)})
                \cup {Down("ctxRelease", g, ues[o], 0) : o \in R}
      BY <2>1 DEF NasAuth, R
    <3>5. QED BY <1>1, <1>6, <3>3, <3>4
  <2>2. CASE ~NasAuth(g, c, m)
    <3>1. \/ dl' = dl
          \/ dl' = dl \cup {Down("registrationAccept", g, ues[c], 0)}
          \/ NasDereg(g, c, m) /\ dl' = dl \cup {Down("ctxRelease", g, ues[c], 0)}
          \/ NasReq(g, c, m) /\ dl' = dl \cup {Down("sessAccept", g, ues[c], m.s)}
          \/ NasRel(g, c, m) /\ dl' = dl \cup {Down("sessRelease", g, ues[c], m.s)}
      BY <2>2 DEF NasOwn, Forgets, NasOk, NasReg, NasReq, NasRel, NasHang, NasDereg, NasIgnore
    <3>2. ASSUME NEW t, NEW s, dl' = dl \cup {Down(t, g, ues[c], s)}
          PROVE  (\A x \in dl : x \in dl') /\ \A x \in dl' \ dl : x.type = t /\ x.s = s
      BY <1>1, <1>6, <3>2
    <3>3. CASE dl' = dl
      BY <3>3
    <3>4. CASE dl' = dl \cup {Down("registrationAccept", g, ues[c], 0)}
      BY <3>2, <3>4
    <3>5. CASE NasDereg(g, c, m) /\ dl' = dl \cup {Down("ctxRelease", g, ues[c], 0)}
      BY <3>2, <3>5
    <3>6. CASE NasReq(g, c, m) /\ dl' = dl \cup {Down("sessAccept", g, ues[c], m.s)}
      BY <3>2, <3>6
    <3>7. CASE NasRel(g, c, m) /\ dl' = dl \cup {Down("sessRelease", g, ues[c], m.s)}
      BY <3>2, <3>7
    <3>8. QED BY <3>1, <3>3, <3>4, <3>5, <3>6, <3>7
  <2>3. QED BY <2>1, <2>2
<1>8. \A t, s : /\ Answering(a, t, s) => Answering(a, t, s)'
                /\ Answering(a, "sessAccept", s)' =>
                      Answering(a, "sessAccept", s) \/ (NasReq(g, c, m) /\ s = m.s)
                /\ Answering(a, "sessRelease", s)' =>
                      Answering(a, "sessRelease", s) \/ (NasRel(g, c, m) /\ s = m.s)
  BY <1>7 DEF Answering
<1>9. m.type = "dereg" => run[a].st = "left"
  BY <1>1 DEF LifeOk, Gone
<1>10. run[a].st = "left" => /\ m.type = "dereg" /\ \A s \in Sess : ues[c].sm[s] = "none"
  BY <1>1, <1>2 DEF LifeOk, Gone
<1>11. ~NasHang(g, c, m)
  BY <1>9, <1>10 DEF NasHang
<1>12. hung' = {} /\ (ues'[c].sm = ues[c].sm \/ m.type \in {"sessReq", "sessRel", "relResponse"})
  BY <1>1, <1>11 DEF NasOwn, Forgets, NasAuth, NasOk, NasReg, NasReq, NasRel, NasDereg, NasIgnore,
     Quietly, SameSm
<1>13. Reachable(a)'
  <2>1. ASSUME NEW x \in dl', x.ran = a, x.type = "ctxRelease" PROVE Ended(a)
    <3>1. CASE x \in dl
      BY <1>1, <2>1, <3>1 DEF LifeOk, Reachable
    <3>2. CASE x \notin dl
      <4>1. m.type = "dereg"
        BY <1>7, <2>1, <3>2 DEF NasDereg
      <4>2. QED BY <1>9, <4>1 DEF Ended
    <3>3. QED BY <3>1, <3>2
  <2>2. QED BY <1>1, <1>5, <2>1 DEF LifeOk, Reachable
<1>14. Timely(a)'
  BY <1>1, <1>5 DEF LifeOk, Timely
<1>15. Gone(a)'
  <2>1. \A i \in 1..Len(ul'[a]) : \E j \in 1..Len(ul[a]) : ul'[a][i] = ul[a][j]
    <3> SUFFICES ASSUME NEW i \in 1..Len(ul'[a]) PROVE \E j \in 1..Len(ul[a]) : ul'[a][i] = ul[a][j]
      OBVIOUS
    <3>1. i + 1 \in 1..Len(ul[a]) /\ ul'[a][i] = ul[a][i + 1]
      BY <1>1 DEF Taken
    <3>2. QED BY <3>1
  <2>2. \A i \in 1..Len(ul'[a]) : ul'[a][i].type = "dereg" => run'[a].st = "left"
    BY <1>1, <1>5, <2>1 DEF LifeOk, Gone
  <2>3. ASSUME run'[a].st = "left"
        PROVE  /\ \A i \in 1..Len(ul'[a]) : ul'[a][i].type = "dereg"
               /\ \A x \in dl' : x.ran = a => x.type = "ctxRelease"
               /\ \A d \in Contexts' : Owns(d, a)' => \A s \in Sess : ues'[d].sm[s] = "none"
    <3>1. run[a].st = "left" /\ m.type = "dereg" /\ \A s \in Sess : ues[c].sm[s] = "none"
      BY <1>5, <1>10, <2>3
    <3>2. \A i \in 1..Len(ul'[a]) : ul'[a][i].type = "dereg"
      BY <1>1, <2>1, <3>1 DEF LifeOk, Gone
    <3>3. NasDereg(g, c, m) \/ NasIgnore(g, c, m)
      BY <1>11, <3>1 DEF NasOwn, NasAuth, NasOk, NasReg, NasReq, NasRel
    <3>4. \A x \in dl' : x.ran = a => x.type = "ctxRelease"
      <4>1. \A x \in dl : x.ran = a => x.type = "ctxRelease"
        BY <1>1, <3>1 DEF LifeOk, Gone
      <4>2. QED BY <1>1, <1>6, <3>3, <4>1 DEF NasDereg, NasIgnore
    <3>5. ues'[c].sm = ues[c].sm
      BY <1>12, <3>1
    <3>6. QED BY <1>2, <3>1, <3>2, <3>4, <3>5
  <2>4. QED BY <2>2, <2>3 DEF Gone
<1>16. ASSUME ~Ended(a), NEW s \in Sess PROVE Requests(a, s)' /\ Held(a, s, c)'
  <2>1. Requests(a, s) /\ Held(a, s, c) /\ ues[c].sm \in [Sess -> SmStates]
    BY <1>1, <1>2, <1>16, ContextType DEF LifeOk
  <2>2. m.type # "dereg"
    BY <1>9, <1>16 DEF Ended
  <2>3. Requests(a, s)'
    <3>1. Once(a, "sessReq", s)' /\ Once(a, "sessRel", s)'
      BY <1>3, <2>1 DEF Requests
    <3>2. CASE NasReq(g, c, m) /\ s = m.s
      <4>1. ~Asking(a, "sessReq", s)' /\ run[a].sess[s] = "asked"
        BY <1>3, <1>4, <2>1, <3>2 DEF Requests, NasReq
      <4>2. ~NasRel(g, c, m)
        BY <3>2 DEF NasReq, NasRel
      <4>3. QED BY <1>3, <1>5, <1>8, <2>1, <3>1, <4>1, <4>2 DEF Requests
    <3>3. CASE NasRel(g, c, m) /\ s = m.s
      <4>1. ~Asking(a, "sessRel", s)' /\ run[a].sess[s] = "releasing"
        BY <1>3, <1>4, <2>1, <3>3 DEF Requests, NasRel
      <4>2. ~NasReq(g, c, m)
        BY <3>3 DEF NasReq, NasRel
      <4>3. QED BY <1>3, <1>5, <1>8, <2>1, <3>1, <4>1, <4>2 DEF Requests
    <3>4. CASE ~(NasReq(g, c, m) /\ s = m.s) /\ ~(NasRel(g, c, m) /\ s = m.s)
      BY <1>3, <1>5, <1>8, <2>1, <3>1, <3>4 DEF Requests
    <3>5. QED BY <3>2, <3>3, <3>4
  <2>4. Held(a, s, c)'
    <3>1. CASE m.type = "relResponse" /\ Forgets(c, m.s)
      <4>1. ues'[c].state = ues[c].state
        BY <1>1, <3>1 DEF Forgets, SameState
      <4>2. CASE ues'[c].sm = [t \in Sess |-> "none"]
        BY <4>1, <4>2 DEF Held
      <4>3. CASE ues[c].sm[m.s] = "none" /\ ues'[c].sm = ues[c].sm
        BY <1>3, <1>5, <1>8, <2>1, <3>1, <4>1, <4>3 DEF Held
      <4>4. QED BY <3>1, <4>2, <4>3 DEF Forgets
    <3>2. CASE NasAuth(g, c, m)
      <4>1. ues[c].sm[s] = "none" /\ ues'[c].sm = ues[c].sm
        BY <1>1, <2>1, <3>2 DEF NasAuth, Held, SameSm
      <4>2. QED BY <4>1 DEF Held
    <3>3. CASE NasOk(g, c, m)
      BY <1>3, <1>5, <1>8, <2>1, <3>3 DEF NasOk, Held
    <3>4. CASE NasReg(g, c, m)
      <4>1. ues[c].sm[s] = "none" /\ ues'[c].sm = ues[c].sm
        BY <1>1, <2>1, <3>4 DEF NasReg, Held, SameSm
      <4>2. QED BY <4>1 DEF Held
    <3>5. CASE NasReq(g, c, m)
      <4>1. m.type = "sessReq" /\ ues'[c].state = ues[c].state /\ ues[c].state = "Registered"
        BY <1>1, <3>5 DEF NasReq, SameState
      <4>2. CASE s = m.s
        <5>1. ues'[c].sm[s] = "Active" /\ run[a].sess[s] = "asked"
          BY <1>4, <2>1, <3>5, <4>2 DEF NasReq, Requests
        <5>2. Answering(a, "sessAccept", s)'
          <6>1. Down("sessAccept", g, ues[c], m.s) \in dl'
            BY <3>5 DEF NasReq
          <6>2. QED BY <1>1, <1>6, <4>2, <6>1 DEF Answering
        <5>3. QED BY <1>5, <4>1, <5>1, <5>2 DEF Held
      <4>3. CASE s # m.s
        <5>1. ues'[c].sm[s] = ues[c].sm[s]
          BY <2>1, <3>5, <4>3 DEF NasReq
        <5>2. QED BY <1>3, <1>5, <1>8, <2>1, <4>1, <5>1 DEF Held
      <4>4. QED BY <4>2, <4>3
    <3>6. CASE NasRel(g, c, m)
      <4>1. m.type = "sessRel" /\ ues'[c].state = ues[c].state /\ ues[c].state = "Registered"
        BY <1>1, <3>6 DEF NasRel, SameState
      <4>2. CASE s = m.s
        <5>1. ues'[c].sm[s] = "InactivePending"
          BY <2>1, <3>6, <4>2 DEF NasRel
        <5>2. Answering(a, "sessRelease", s)'
          <6>1. Down("sessRelease", g, ues[c], m.s) \in dl'
            BY <3>6 DEF NasRel
          <6>2. QED BY <1>1, <1>6, <4>2, <6>1 DEF Answering
        <5>3. QED BY <4>1, <5>1, <5>2 DEF Held
      <4>3. CASE s # m.s
        <5>1. ues'[c].sm[s] = ues[c].sm[s]
          BY <2>1, <3>6, <4>3 DEF NasRel
        <5>2. QED BY <1>3, <1>5, <1>8, <2>1, <4>1, <4>3, <5>1 DEF Held
      <4>4. QED BY <4>2, <4>3
    <3>7. CASE NasIgnore(g, c, m) /\ m.type # "relResponse"
      <4>1. ues' = ues /\ (m.type = "sessRel" => ues[c].state # "Registered" \/ ues[c].sm[m.s] # "Active")
        BY <3>7 DEF NasIgnore
      <4>2. QED BY <1>3, <1>5, <1>8, <2>1, <3>7, <4>1 DEF Held
    <3>8. QED BY <1>11, <2>2, <3>1, <3>2, <3>3, <3>4, <3>5, <3>6, <3>7 DEF NasOwn, NasDereg
  <2>5. QED BY <2>3, <2>4
<1>17. QED BY <1>2, <1>5, <1>12, <1>13, <1>14, <1>15, <1>16 DEF LifeOk

\* A handler leaves the other lives alone, but for those it replaces.
LEMMA CoreOthers ==
    ASSUME SessInv, NEW g \in Gnb, NEW a \in Lives, NEW c, NEW m, m = ul[a][1], m \in UpMsg,
           NasOwn(g, a, c, m), Taken(a), Len(ul[a]) >= 1, run' = run, NEW b \in Lives, b # a
    PROVE  Untouched(b)
<1>1. /\ IdInv /\ RegInv /\ TypeOK /\ Len(ul[a]) \in Nat /\ 1 \in 1..Len(ul[a])
      /\ c \in Contexts /\ ues[c].ran = a
  BY UlType DEF SessInv, RegInv, IdInv, NasOwn, Owns
<1>2. /\ SameIds(ues') /\ Contexts' = Contexts /\ \A d : Owns(d, b)' <=> Owns(d, b)
  BY <1>1, OwnFrame DEF SameIds, Contexts, Owns
<1>3. run'[b] = run[b] /\ ul'[b] = ul[b]
  BY DEF Taken
<1>4. \A d \in Contexts : \A t, s : Down(t, g, ues[d], s).ran = ues[d].ran /\ Down(t, g, ues[d], s).type = t
  BY DEF Down
<1>5. CASE NasAuth(g, c, m)
  <2> DEFINE R == FindRegisteredUEByMsin(ues[c].msin)
  <2>1. R \subseteq Contexts /\ \A o \in R : ues[o].msin = ues[c].msin /\ ues[o].state = "Registered"
    BY RegisteredFacts
  \* A replaced context is that of an earlier life of the subscriber, which has ended.
  <2>2. ASSUME NEW o \in R PROVE Ended(ues[o].ran)
    <3>1. o \in Contexts /\ o # c /\ ues[o].msin = ues[c].msin
      BY <1>5, <2>1 DEF NasAuth
    <3>2. /\ ues[o].ran # a /\ ues[o].ran \in Lives /\ ues[o].msin = run[ues[o].ran].msin
          /\ ues[c].msin = run[a].msin
      BY <1>1, <3>1 DEF IdInv, UeIds
    <3>3. ~(a < ues[o].ran)
      <4> SUFFICES ASSUME a < ues[o].ran PROVE FALSE
        OBVIOUS
      <4>1. \A i \in 1..Len(ul[a]) : ul[a][i].type = "relResponse"
        BY <1>1, <3>1, <3>2 DEF RegInv, ReadInTurn, Owns
      <4>2. QED BY <1>1, <1>5, <4>1 DEF NasAuth
    <3>4. ues[o].ran < a
      BY <1>1, <3>2, <3>3, UlType DEF Lives
    <3>5. QED BY <1>1, <3>1, <3>2, <3>4 DEF RegInv, LivesInTurn
  <2>3. /\ dl' = (dl \cup {Down("securityModeCommand", g, ues[c], 0)})
                 \cup {Down("ctxRelease", g, ues[o], 0) : o \in R}
        /\ SameSm(ues')
        /\ \A d \in Contexts \ {c} : ues'[d].state = IF d \in R THEN "Deregistered" ELSE ues[d].state
    BY <1>5 DEF NasAuth
  <2> HIDE DEF R
  <2>4. \A x \in dl' : x.ran = b => x \in dl \/ (x.type = "ctxRelease" /\ Ended(b))
    <3> SUFFICES ASSUME NEW x \in dl', x.ran = b, x \notin dl PROVE x.type = "ctxRelease" /\ Ended(b)
      OBVIOUS
    <3>1. x # Down("securityModeCommand", g, ues[c], 0)
      BY <1>1, <1>4
    <3>2. PICK o \in R : x = Down("ctxRelease", g, ues[o], 0)
      BY <2>3, <3>1
    <3>3. ues[o].ran = b /\ x.type = "ctxRelease"
      BY <1>4, <2>1, <3>2
    <3>4. QED BY <2>2, <3>3
  <2>5. \A d : Owns(d, b) => ues'[d].sm = ues[d].sm /\ (Ended(b) \/ ues'[d].state = ues[d].state)
    <3> SUFFICES ASSUME NEW d \in Contexts, ues[d].ran = b
                 PROVE  ues'[d].sm = ues[d].sm /\ (Ended(b) \/ ues'[d].state = ues[d].state)
      BY DEF Owns
    <3>1. d # c
      BY <1>1
    <3>2. QED BY <2>2, <2>3, <3>1 DEF SameSm
  <2>6. \A x \in dl : x \in dl'
    BY <2>3
  <2>7. QED BY <1>2, <1>3, <2>4, <2>5, <2>6 DEF Untouched
<1>6. CASE ~NasAuth(g, c, m)
  <2>1. dl' = dl \/ \E t, s : dl' = dl \cup {Down(t, g, ues[c], s)}
    BY <1>6 DEF NasOwn, Forgets, NasOk, NasReg, NasReq, NasRel, NasHang, NasDereg, NasIgnore
  <2>2. (\A x \in dl : x \in dl') /\ \A x \in dl' : x.ran = b => x \in dl
    BY <1>1, <1>4, <2>1
  <2>3. \A d \in Contexts \ {c} : ues'[d].state = ues[d].state
    BY <1>6 DEF NasOwn, Forgets, NasOk, NasReg, NasReq, NasRel, NasHang, NasDereg, NasIgnore, SameState
  <2>4. ~NasHang(g, c, m)
    BY <1>1, CoreOk DEF NasHang, SessInv, AssociationsServed
  <2>5. \A d \in Contexts \ {c} : ues'[d].sm = ues[d].sm
    BY <1>6, <2>4 DEF NasOwn, Forgets, NasOk, NasReg, NasReq, NasRel, NasDereg, NasIgnore, SameSm
  <2>6. \A d : Owns(d, b) => d \in Contexts \ {c}
    BY <1>1 DEF Owns
  <2>7. QED BY <1>2, <1>3, <2>2, <2>3, <2>5, <2>6 DEF Untouched
<1>7. QED BY <1>5, <1>6

LEMMA JoinOk ==
    ASSUME SessInv, NEW g \in Gnb, NEW a \in Lives, NEW m, m = ul[a][1],
           JoinsOwn(g, a, m), Taken(a), Len(ul[a]) >= 1, run' = run, NEW b \in Lives
    PROVE  LifeOk(b)'
<1> DEFINE n == Len(ues) + 1
<1>1. /\ IdInv /\ TypeOK /\ LifeOk(b) /\ LifeOk(a) /\ Len(ul[a]) \in Nat /\ 1 \in 1..Len(ul[a])
      /\ Len(ues) \in Nat
  BY UlType DEF SessInv, RegInv, IdInv
<1>2. /\ Contexts' = Contexts \cup {n} /\ n \notin Contexts /\ \A d \in Contexts : ues'[d] = ues[d]
      /\ ues'[n].ran = a /\ ues'[n].state = "AuthenticationInitiated"
      /\ ues'[n].sm = [s \in Sess |-> "none"]
      /\ \A d \in Contexts : ues[d].ran # a
  BY <1>1 DEF JoinsOwn, Joins, Contexts
<1>3. \A d, p : Owns(d, p)' <=> Owns(d, p) \/ (d = n /\ p = a)
  BY <1>2 DEF Owns
<1>4. /\ \A x \in dl : x \in dl'
      /\ \A x \in dl' : x \in dl \/ (x.ran = a /\ x.type = "authRequest")
  BY DEF JoinsOwn, Joins
<1> HIDE DEF n
<1>5. CASE b # a
  <2>1. Untouched(b)
    <3>1. run'[b] = run[b] /\ ul'[b] = ul[b]
      BY <1>5 DEF Taken
    <3>2. \A d : Owns(d, b) => ues'[d] = ues[d]
      BY <1>2 DEF Owns
    <3>3. QED BY <1>3, <1>4, <1>5, <3>1, <3>2 DEF Untouched
  <2>2. QED BY <1>1, <2>1, UntouchedOk
<1>6. CASE b = a
  <2>1. run[a].st # "left" /\ m.type = "initial"
    BY <1>1 DEF LifeOk, Gone, JoinsOwn
  <2>2. \A t, s : /\ Asking(a, t, s)' => Asking(a, t, s)
                  /\ Asking(a, t, s) => Asking(a, t, s)' \/ m.type = t
                  /\ Once(a, t, s) => Once(a, t, s)'
    BY <1>1, TakenAsking
  <2>3. \A t, s : t # "authRequest" => (Answering(a, t, s)' <=> Answering(a, t, s))
    BY <1>4 DEF Answering
  <2>4. Reachable(a)' /\ Timely(a)'
    BY <1>1, <1>4 DEF LifeOk, Reachable, Timely, Ended
  <2>5. Gone(a)'
    <3>1. \A i \in 1..Len(ul'[a]) : ul'[a][i].type # "dereg"
      <4> SUFFICES ASSUME NEW i \in 1..Len(ul'[a]) PROVE ul'[a][i].type # "dereg"
        OBVIOUS
      <4>1. i + 1 \in 1..Len(ul[a]) /\ ul'[a][i] = ul[a][i + 1]
        BY <1>1 DEF Taken
      <4>2. QED BY <1>1, <2>1, <4>1 DEF LifeOk, Gone
    <3>2. QED BY <2>1, <3>1 DEF Gone
  <2>6. ASSUME ~Ended(a), NEW s \in Sess PROVE Requests(a, s)'
    <3>1. Requests(a, s)
      BY <1>1, <2>6 DEF LifeOk
    <3>2. Requests(a, s)'
      <4>1. /\ Asking(a, "sessReq", s)' => Asking(a, "sessReq", s)
            /\ Asking(a, "sessRel", s)' => Asking(a, "sessRel", s)
            /\ Once(a, "sessReq", s) => Once(a, "sessReq", s)'
            /\ Once(a, "sessRel", s) => Once(a, "sessRel", s)'
        BY <2>2
      <4>2. /\ Answering(a, "sessAccept", s)' <=> Answering(a, "sessAccept", s)
            /\ Answering(a, "sessRelease", s)' <=> Answering(a, "sessRelease", s)
        BY <2>3
      <4>3. run'[a] = run[a]
        OBVIOUS
      <4>4. QED BY <3>1, <4>1, <4>2, <4>3 DEF Requests
    <3>3. QED BY <3>2
  <2>7. ASSUME NEW s \in Sess, NEW d \in Contexts', Owns(d, a)' PROVE Held(a, s, d)'
    <3>1. d = n
      BY <1>2, <1>3, <2>7 DEF Owns
    <3>2. ues'[d].sm[s] = "none"
      BY <1>2, <3>1
    <3>3. QED BY <3>2 DEF Held
  <2>8. Ended(a)' <=> Ended(a)
    BY DEF Ended
  <2>9. LifeOk(a)'
    BY <2>4, <2>5, <2>6, <2>7, <2>8 DEF LifeOk
  <2>10. QED BY <1>6, <2>9
<1>7. QED BY <1>5, <1>6

LEMMA SessDispatch ==
    ASSUME SessInv, RegInv', NEW g \in Gnb, NEW a \in Lives, Dispatch(g, a)
    PROVE  SessInv'
<1> DEFINE m == ul[a][1]
           c == m.amf
<1>1. /\ Len(ul[a]) >= 1 /\ m \in UpMsg /\ Taken(a) /\ run' = run
      /\ JoinsOwn(g, a, m) \/ NasOwn(g, a, c, m)
  BY OwnEffect DEF SessInv, RegInv
<1>2. Lives' = Lives /\ hung = {}
  BY <1>1 DEF Lives, SessInv, AssociationsServed
<1> HIDE DEF c
<1>3. CASE NasOwn(g, a, c, m)
  <2>1. LifeOk(a)' /\ hung' = {}
    BY <1>1, <1>3, CoreOk
  <2>2. ASSUME NEW b \in Lives, b # a PROVE LifeOk(b)'
    <3>1. Untouched(b)
      BY <1>1, <1>3, <2>2, CoreOthers
    <3>2. QED BY <3>1, UntouchedOk DEF SessInv
  <2>3. \A b \in Lives : LifeOk(b)'
    BY <2>1, <2>2
  <2>4. QED BY <1>2, <2>1, <2>3 DEF SessInv, AssociationsServed
<1>4. CASE JoinsOwn(g, a, m)
  <2>1. \A b \in Lives : LifeOk(b)'
    BY <1>1, <1>4, JoinOk
  <2>2. hung' = {}
    BY <1>2, <1>4 DEF JoinsOwn, Joins, Quietly
  <2>3. QED BY <1>2, <2>1, <2>2 DEF SessInv, AssociationsServed
<1>5. QED BY <1>1, <1>3, <1>4

\* A step of life a, which may take a message of the core and may send one.
Moves(a) ==
    /\ ues' = ues /\ hung' = hung /\ LifeStep(a)
    /\ ul' = ul \/ \E x : Sent(a, x)
    /\ dl' = dl \/ \E m \in dl : m.ran = a /\ dl' = dl \ {m}
LEMMA MoveOk ==
    ASSUME SessInv, RegInv', NEW a \in Lives, Moves(a), LifeOk(a)'
    PROVE  SessInv'
<1>1. /\ Lives' = Lives /\ Contexts' = Contexts /\ hung' = {}
      /\ \A d, b : Owns(d, b)' <=> Owns(d, b)
  BY DEF Moves, LifeStep, Lives, Contexts, Owns, SessInv, AssociationsServed
<1>2. ASSUME NEW b \in Lives, b # a PROVE LifeOk(b)'
  <2>1. run'[b] = run[b] /\ ul'[b] = ul[b]
    BY <1>2 DEF Moves, LifeStep, Sent
  <2>2. (\A x \in dl : x.ran = b => x \in dl') /\ \A x \in dl' : x \in dl
    BY <1>2 DEF Moves
  <2>3. Untouched(b)
    BY <1>1, <2>1, <2>2 DEF Untouched, Moves
  <2>4. QED BY <2>3, UntouchedOk DEF SessInv
<1>3. \A b \in Lives : LifeOk(b)'
  BY <1>2
<1>4. QED BY <1>1, <1>3 DEF SessInv, AssociationsServed

\* What a life that has not left, and does not, keeps of Gone.
LEMMA StillHere ==
    ASSUME TypeOK, NEW a \in Lives, Gone(a), run[a].st # "left", run'[a].st # "left",
           ul' = ul \/ \E x : Sent(a, x) /\ x.type # "dereg"
    PROVE  Gone(a)'
<1>1. \A i \in 1..Len(ul[a]) : ul[a][i].type # "dereg"
  BY DEF Gone
<1>2. \A i \in 1..Len(ul'[a]) : ul'[a][i].type # "dereg"
  <2>1. CASE ul' = ul
    BY <1>1, <2>1
  <2>2. ASSUME NEW x, Sent(a, x), x.type # "dereg"
        PROVE  \A i \in 1..Len(ul'[a]) : ul'[a][i].type # "dereg"
    <3>1. Len(ul[a]) \in Nat
      BY UlType
    <3>2. QED BY <1>1, <2>2, <3>1, SentAll
  <2>3. QED BY <2>1, <2>2
<1>3. QED BY <1>2 DEF Gone

LEMMA SessDeliver ==
    ASSUME OneGnb, SessInv, RegInv', NEW m \in dl, Deliver(m)
    PROVE  SessInv'
<1> DEFINE a == m.ran
<1>1. /\ IdInv /\ TypeOK /\ dl' = dl \ {m} /\ UNCHANGED <<ues, hung>> /\ m \in DownMsg
      /\ \/ Addressed(m) = {} /\ UNCHANGED <<run, ul>>
         \/ \E b \in Addressed(m) : DelReply(b, m) \/ DelAccept(b, m) \/ DelRelease(b, m) \/ DelCtx(b, m)
  BY DeliverEffect DEF SessInv, RegInv, IdInv
<1>2. /\ a \in Lives /\ run[a].ran = a /\ run[a] \in Life
      /\ m.type \in {"sessAccept", "sessRelease"} => m.s \in Sess
  BY <1>1, UlType DEF IdInv, DlIds, UeIds, RunIds, Owns
<1>3. LifeOk(a)
  BY <1>2 DEF SessInv
<1>4. \A t, s : Answering(a, t, s)' <=> Answering(a, t, s) /\ ~(m.type = t /\ m.s = s)
  BY <1>1, DlShrinks
<1>5. Answering(a, m.type, m.s)
  BY DEF Answering
<1>6. \A d : (d \in Contexts' <=> d \in Contexts) /\ (Owns(d, a)' <=> Owns(d, a))
  BY <1>1 DEF Contexts, Owns
<1>7. run[a].st = "left" => m.type = "ctxRelease"
  BY <1>3 DEF LifeOk, Gone
<1>8. \A b \in Addressed(m) : b = a
  BY <1>1, Target
<1> HIDE DEF a
<1>9. CASE Addressed(m) = {} /\ UNCHANGED <<run, ul>>
  <2>1. run[a].gnb = m.gnb
    BY <1>1, <1>2 DEF OneGnb, Life, DownMsg
  <2>2. ~run[a].ctx
    BY <1>2, <1>9, <2>1 DEF Addressed, a
  <2>3. Ended(a) /\ Ended(a)'
    BY <1>3, <1>9, <2>2 DEF LifeOk, Reachable, Ended
  <2>4. Reachable(a)' /\ Timely(a)'
    BY <1>1, <1>3, <1>9, <2>3 DEF LifeOk, Reachable, Timely
  <2>5. Gone(a)'
    <3>1. Gone(a)
      BY <1>3 DEF LifeOk
    <3>2. QED BY <1>1, <1>6, <1>9, <3>1 DEF Gone
  <2>6. LifeOk(a)'
    BY <2>3, <2>4, <2>5 DEF LifeOk
  <2>7. Moves(a)
    <3>1. LifeStep(a)
      BY <1>1, <1>9 DEF LifeStep, TypeOK
    <3>2. QED BY <1>1, <1>9, <3>1 DEF Moves, a
  <2>8. QED BY <1>2, <2>6, <2>7, MoveOk
<1>10. ASSUME NEW b \in Addressed(m), DelReply(b, m) \/ DelAccept(b, m) \/ DelRelease(b, m) \/ DelCtx(b, m)
       PROVE  SessInv'
  <2>1. DelReply(a, m) \/ DelAccept(a, m) \/ DelRelease(a, m) \/ DelCtx(a, m)
    BY <1>8, <1>10
  <2>2. Moves(a)
    <3>1. LifeStep(a)
      BY <2>1 DEF DelReply, DelAccept, DelRelease, DelCtx, SetAmf, SetSess, SetCtx
    <3>2. ul' = ul \/ \E x : Sent(a, x)
      BY <2>1 DEF DelReply, DelAccept, DelRelease, DelCtx
    <3>3. QED BY <1>1, <3>1, <3>2 DEF Moves, a
  <2>3. CASE DelReply(a, m)
    <3>1. /\ m.type \in {"authRequest", "securityModeCommand", "registrationAccept"}
          /\ run'[a].sess = run[a].sess /\ run'[a].ctx = run[a].ctx
          /\ run'[a].st = run[a].st \/ (run[a].st = "started" /\ run'[a].st = "registered")
      BY <2>3, ReplyTypes DEF DelReply, SetAmf
    <3>2. ul' = ul \/ \E x : Sent(a, x) /\ x.type \in {"authResponse", "smComplete", "regComplete"}
      BY <2>3, ReplyTypes, UpFields DEF DelReply
    <3>3. \A t \in {"sessReq", "sessRel", "relResponse"}, s \in Sess :
             (Asking(a, t, s)' <=> Asking(a, t, s)) /\ (Once(a, t, s) => Once(a, t, s)')
      <4>1. CASE ul' = ul
        BY <4>1 DEF Asking, Once
      <4>2. ASSUME NEW x, Sent(a, x), x.type \in {"authResponse", "smComplete", "regComplete"}
            PROVE  \A t \in {"sessReq", "sessRel", "relResponse"}, s \in Sess :
                     (Asking(a, t, s)' <=> Asking(a, t, s)) /\ (Once(a, t, s) => Once(a, t, s)')
        BY <1>1, <1>2, <4>2, SentAsking
      <4>3. QED BY <3>2, <4>1, <4>2
    <3>4. \A s : /\ Answering(a, "sessAccept", s)' <=> Answering(a, "sessAccept", s)
                 /\ Answering(a, "sessRelease", s)' <=> Answering(a, "sessRelease", s)
      BY <1>4, <3>1
    <3>5. Ended(a)' <=> Ended(a)
      BY <3>1 DEF Ended
    <3>6. Reachable(a)' /\ Timely(a)'
      BY <1>1, <1>3, <3>1, <3>5 DEF LifeOk, Reachable, Timely
    <3>7. Gone(a)'
      <4>1. run[a].st # "left" /\ run'[a].st # "left" /\ Gone(a)
        BY <1>3, <1>7, <3>1 DEF LifeOk
      <4>2. QED BY <1>1, <1>2, <3>2, <4>1, StillHere
    <3>8. ASSUME ~Ended(a), NEW s \in Sess PROVE Requests(a, s)'
      <4>1. Requests(a, s)
        BY <1>3, <3>8 DEF LifeOk
      <4>2. QED BY <3>1, <3>3, <3>4, <4>1 DEF Requests
    <3>9. ASSUME ~Ended(a), NEW s \in Sess, NEW d \in Contexts', Owns(d, a)' PROVE Held(a, s, d)'
      <4>1. Held(a, s, d)
        BY <1>3, <1>6, <3>9 DEF LifeOk
      <4>2. QED BY <1>1, <3>1, <3>3, <3>4, <4>1 DEF Held
    <3>10. LifeOk(a)'
      BY <3>5, <3>6, <3>7, <3>8, <3>9 DEF LifeOk
    <3>11. QED BY <1>2, <2>2, <3>10, MoveOk
  <2>4. CASE DelAccept(a, m) \/ DelRelease(a, m)
    <3> DEFINE s0 == m.s
    <3>1. /\ m.type \in {"sessAccept", "sessRelease"} /\ s0 \in Sess
          /\ run'[a].ctx = run[a].ctx /\ run'[a].st = run[a].st
          /\ \A s \in Sess : s # s0 => run'[a].sess[s] = run[a].sess[s]
          /\ run'[a].sess[s0] = IF run[a].st # "registered" THEN run[a].sess[s0]
                                ELSE IF m.type = "sessAccept" THEN "active" ELSE "none"
      BY <1>2, <2>4 DEF DelAccept, DelRelease, SetSess, Life
    <3>2. /\ m.type = "sessAccept" => ul' = ul
          /\ m.type = "sessRelease" => \E x : Sent(a, x) /\ x.type = "relResponse" /\ x.s = s0
      BY <2>4, UpFields DEF DelAccept, DelRelease
    <3>3. \A t, s : /\ t # "relResponse" => (Asking(a, t, s)' <=> Asking(a, t, s))
                    /\ Asking(a, t, s) => Asking(a, t, s)'
                    /\ t # "relResponse" /\ Once(a, t, s) => Once(a, t, s)'
                    /\ m.type = "sessRelease" => Asking(a, "relResponse", s0)'
      <4>1. CASE m.type = "sessAccept"
        BY <3>2, <4>1 DEF Asking, Once
      <4>2. CASE m.type = "sessRelease"
        <5>1. PICK x : Sent(a, x) /\ x.type = "relResponse" /\ x.s = s0
          BY <3>2, <4>2
        <5>2. QED BY <1>1, <1>2, <5>1, SentAsking
      <4>3. QED BY <3>1, <4>1, <4>2
    <3>4. \A t, s : /\ s # s0 \/ t # m.type => (Answering(a, t, s)' <=> Answering(a, t, s))
                    /\ ~Answering(a, m.type, s0)'
      BY <1>4
    <3>5. Ended(a)' <=> Ended(a)
      BY <3>1 DEF Ended
    <3>6. run[a].st # "left"
      BY <1>7, <3>1
    \* The life that is answered has asked: it is registered, or stopping and releasing.
    <3>7. ~Ended(a) =>
            /\ m.type = "sessAccept" => run[a].sess[s0] = "asked" /\ run[a].st = "registered"
            /\ m.type = "sessRelease" =>
                  run[a].sess[s0] = "releasing" /\ run[a].st \in {"registered", "stopping"}
            /\ ~Asking(a, "sessReq", s0) /\ ~Asking(a, "sessRel", s0)
            /\ m.type = "sessAccept" => ~Answering(a, "sessRelease", s0)
            /\ m.type = "sessRelease" => ~Answering(a, "sessAccept", s0)
      <4> SUFFICES ASSUME ~Ended(a)
                   PROVE  /\ m.type = "sessAccept" => run[a].sess[s0] = "asked" /\ run[a].st = "registered"
                          /\ m.type = "sessRelease" =>
                                run[a].sess[s0] = "releasing" /\ run[a].st \in {"registered", "stopping"}
                          /\ ~Asking(a, "sessReq", s0) /\ ~Asking(a, "sessRel", s0)
                          /\ m.type = "sessAccept" => ~Answering(a, "sessRelease", s0)
                          /\ m.type = "sessRelease" => ~Answering(a, "sessAccept", s0)
        OBVIOUS
      <4>1. Requests(a, s0) /\ Timely(a) /\ Answering(a, m.type, s0)
        BY <1>3, <1>5, <3>1 DEF LifeOk
      <4>2. run[a].st \in {"started", "registered", "stopping"}
        BY <1>2 DEF Ended, Life
      <4>3. CASE m.type = "sessAccept"
        <5>1. run[a].sess[s0] = "asked"
          BY <4>1, <4>3 DEF Requests
        <5>2. run[a].st = "registered"
          BY <3>1, <4>1, <4>2, <5>1 DEF Timely
        <5>3. QED BY <4>1, <4>3, <5>1, <5>2 DEF Requests
      <4>4. CASE m.type = "sessRelease"
        <5>1. run[a].sess[s0] = "releasing"
          BY <4>1, <4>4 DEF Requests
        <5>2. run[a].st \in {"registered", "stopping"}
          BY <3>1, <4>1, <4>2, <5>1 DEF Timely
        <5>3. QED BY <4>1, <4>4, <5>1, <5>2 DEF Requests
      <4>5. QED BY <3>1, <4>3, <4>4
    <3> HIDE DEF s0
    <3>8. Reachable(a)'
      BY <1>1, <1>3, <3>1, <3>5 DEF LifeOk, Reachable
    <3>9. Timely(a)'
      <4>1. Timely(a)
        BY <1>3 DEF LifeOk
      <4>2. run'[a].st = "started" => run'[a].sess[s0] = run[a].sess[s0]
        BY <3>1
      <4>3. run'[a].st = "stopping" => run'[a].sess[s0] = run[a].sess[s0]
        BY <3>1
      <4>4. QED BY <3>1, <4>1, <4>2, <4>3 DEF Timely
    <3>10. Gone(a)'
      <4>1. run'[a].st # "left" /\ Gone(a)
        BY <1>3, <3>1, <3>6 DEF LifeOk
      <4>2. ul' = ul \/ \E x : Sent(a, x) /\ x.type # "dereg"
        BY <3>1, <3>2
      <4>3. QED BY <1>1, <1>2, <3>6, <4>1, <4>2, StillHere
    <3>11. ASSUME ~Ended(a), NEW s \in Sess PROVE Requests(a, s)'
      <4>1. Requests(a, s)
        BY <1>3, <3>11 DEF LifeOk
      <4>2. CASE s = s0
        <5>1. ~Asking(a, "sessReq", s)' /\ ~Asking(a, "sessRel", s)'
          <6>1. ~Asking(a, "sessReq", s) /\ ~Asking(a, "sessRel", s)
            BY <3>7, <3>11, <4>2
          <6>2. QED BY <3>3, <6>1
        <5>2. ~Answering(a, "sessAccept", s)' /\ ~Answering(a, "sessRelease", s)'
          <6>1. CASE m.type = "sessAccept"
            BY <3>4, <3>7, <3>11, <4>2, <6>1
          <6>2. CASE m.type = "sessRelease"
            BY <3>4, <3>7, <3>11, <4>2, <6>2
          <6>3. QED BY <3>1, <6>1, <6>2
        <5>3. QED BY <3>3, <4>1, <5>1, <5>2 DEF Requests
      <4>3. CASE s # s0
        <5>1. /\ Answering(a, "sessAccept", s)' <=> Answering(a, "sessAccept", s)
              /\ Answering(a, "sessRelease", s)' <=> Answering(a, "sessRelease", s)
              /\ run'[a].sess[s] = run[a].sess[s]
          BY <3>1, <3>4, <4>3
        <5>2. QED BY <3>3, <4>1, <5>1 DEF Requests
      <4>4. QED BY <4>2, <4>3
    <3>12. ASSUME ~Ended(a), NEW s \in Sess, NEW d \in Contexts', Owns(d, a)' PROVE Held(a, s, d)'
      <4>1. Held(a, s, d) /\ ues' = ues
        BY <1>1, <1>3, <1>6, <3>12 DEF LifeOk
      <4>2. CASE s = s0 /\ m.type = "sessAccept"
        <5>1. run'[a].sess[s] = "active"
          BY <3>1, <3>7, <3>12, <4>2
        <5>2. Answering(a, "sessRelease", s)' <=> Answering(a, "sessRelease", s)
          BY <3>4, <4>2
        <5>3. Asking(a, "relResponse", s) => Asking(a, "relResponse", s)'
          BY <3>3
        <5>4. QED BY <4>1, <5>1, <5>2, <5>3 DEF Held
      <4>3. CASE s = s0 /\ m.type = "sessRelease"
        <5>1. Asking(a, "relResponse", s)'
          BY <3>3, <4>3
        <5>2. run[a].sess[s] = "releasing" /\ ~Asking(a, "sessRel", s)
          BY <3>7, <3>12, <4>3
        <5>3. ues[d].sm[s] # "Active"
          BY <4>1, <5>2 DEF Held
        <5>4. QED BY <4>1, <5>1, <5>3 DEF Held
      <4>4. CASE s # s0
        <5>1. /\ Answering(a, "sessAccept", s)' <=> Answering(a, "sessAccept", s)
              /\ Answering(a, "sessRelease", s)' <=> Answering(a, "sessRelease", s)
              /\ run'[a].sess[s] = run[a].sess[s]
          BY <3>1, <3>4, <4>4
        <5>2. /\ Asking(a, "relResponse", s) => Asking(a, "relResponse", s)'
              /\ Asking(a, "sessRel", s) => Asking(a, "sessRel", s)'
          BY <3>3
        <5>3. QED BY <4>1, <5>1, <5>2 DEF Held
      <4>5. QED BY <3>1, <4>2, <4>3, <4>4
    <3>13. LifeOk(a)'
      BY <3>5, <3>8, <3>9, <3>10, <3>11, <3>12 DEF LifeOk
    <3>14. QED BY <1>2, <2>2, <3>13, MoveOk
  <2>5. CASE DelCtx(a, m)
    <3>1. /\ m.type = "ctxRelease" /\ ul' = ul /\ run'[a].st = run[a].st
          /\ run'[a].sess = run[a].sess
      BY <2>5 DEF DelCtx, SetCtx
    <3>2. Ended(a) /\ Ended(a)'
      BY <1>3, <3>1 DEF LifeOk, Reachable, Ended, a
    <3>3. Reachable(a)' /\ Timely(a)'
      BY <1>3, <3>1, <3>2 DEF LifeOk, Reachable, Timely
    <3>4. Gone(a)'
      <4>1. Gone(a)
        BY <1>3 DEF LifeOk
      <4>2. QED BY <1>1, <1>6, <3>1, <4>1 DEF Gone
    <3>5. LifeOk(a)'
      BY <3>2, <3>3, <3>4 DEF LifeOk
    <3>6. QED BY <1>2, <2>2, <3>5, MoveOk
  <2>6. QED BY <2>1, <2>3, <2>4, <2>5
<1>11. QED BY <1>1, <1>9, <1>10

LEMMA SessUe ==
    ASSUME OneGnb, Races = {}, SessInv, RegInv', NEW a \in Lives, UeNext(a)
    PROVE  SessInv'
<1>1. /\ IdInv /\ TypeOK /\ UNCHANGED <<ues, hung, dl>> /\ LifeOk(a)
      /\ run[a] \in Life /\ run[a].ran = a
      /\ \A s \in Sess : run[a].sess[s] \in LifeSess
  <2>1. IdInv /\ TypeOK /\ LifeOk(a) /\ run[a] \in Life /\ run[a].ran = a
    BY UlType DEF SessInv, RegInv, IdInv, RunIds
  <2>2. UNCHANGED <<ues, hung, dl>>
    BY <2>1, UeEffect
  <2>3. QED BY <2>1, <2>2 DEF Life, LifeSess
<1>2. /\ \A t, s : Answering(a, t, s)' <=> Answering(a, t, s)
      /\ \A d : (d \in Contexts' <=> d \in Contexts) /\ (Owns(d, a)' <=> Owns(d, a))
  BY <1>1 DEF Answering, Contexts, Owns
<1>3. ASSUME Moves(a), LifeOk(a)' PROVE SessInv'
  BY <1>3, MoveOk
\* The UE is stopped or killed.
<1>4. ASSUME NEW x \in {"stopping", "killed"}, SetSt(a, x), ul' = ul,
             run[a].st \in {"started", "registered"},
             x = "stopping" => \A s \in Sess : run[a].sess[s] # "asked"
      PROVE  SessInv'
  <2>1. run'[a].st = x /\ run'[a].ctx = run[a].ctx /\ run'[a].sess = run[a].sess /\ LifeStep(a)
    BY <1>4 DEF SetSt
  <2>2. Moves(a)
    BY <1>1, <1>4, <2>1 DEF Moves
  <2>3. ~Ended(a)
    BY <1>4 DEF Ended
  <2>4. Reachable(a)'
    BY <1>1, <2>1, <2>3 DEF LifeOk, Reachable
  <2>5. Timely(a)'
    BY <1>4, <2>1 DEF Timely
  <2>6. Gone(a)'
    BY <1>1, <1>4, <2>1, StillHere DEF LifeOk
  <2>7. \A t, s : (Asking(a, t, s)' <=> Asking(a, t, s)) /\ (Once(a, t, s)' <=> Once(a, t, s))
    BY <1>4 DEF Asking, Once
  <2>8. ASSUME NEW s \in Sess PROVE Requests(a, s)'
    <3>1. Requests(a, s)
      BY <1>1, <2>3 DEF LifeOk
    <3>2. QED BY <1>2, <2>1, <2>7, <3>1 DEF Requests
  <2>9. ASSUME NEW s \in Sess, NEW d \in Contexts', Owns(d, a)' PROVE Held(a, s, d)'
    <3>1. Held(a, s, d)
      BY <1>1, <1>2, <2>3, <2>9 DEF LifeOk
    <3>2. QED BY <1>1, <1>2, <2>1, <2>7, <3>1 DEF Held
  <2>10. LifeOk(a)'
    BY <2>4, <2>5, <2>6, <2>8, <2>9 DEF LifeOk
  <2>11. QED BY <1>3, <2>2, <2>10
\* The UE deregisters: nothing is under way, so that no session is left in the core.
<1>5. ASSUME run[a].st = "stopping", SetSt(a, "left"), \A s \in Sess : run[a].sess[s] # "active",
             Quiet(a), NEW x, x.type = "dereg", Sent(a, x)
      PROVE  SessInv'
  <2>1. run'[a].st = "left" /\ run'[a].ctx = run[a].ctx /\ run'[a].sess = run[a].sess /\ LifeStep(a)
    BY <1>5 DEF SetSt
  <2>2. Moves(a)
    BY <1>1, <1>5, <2>1 DEF Moves
  <2>3. ~Ended(a) /\ Ended(a)'
    BY <1>5, <2>1 DEF Ended
  <2>4. Reachable(a)' /\ Timely(a)'
    BY <1>1, <2>1, <2>3 DEF LifeOk, Reachable, Timely
  <2>5. Len(ul[a]) = 0
    BY <1>5 DEF Quiet
  <2>6. \A m \in dl : m.ran # a
    <3> SUFFICES ASSUME NEW m \in dl, m.ran = a PROVE FALSE
      OBVIOUS
    <3>1. <<m.gnb, m.ran>> # <<run[a].gnb, run[a].ran>>
      BY <1>5 DEF Quiet
    <3>2. m.gnb = run[a].gnb
      BY <1>1, UlType DEF OneGnb, Life, TypeOK, DownMsg
    <3>3. QED BY <1>1, <3>1, <3>2
  <2>7. Len(ul'[a]) = 1 /\ ul'[a][1] = x
    BY <1>5, <2>5 DEF Sent
  <2>8. \A i \in 1..Len(ul'[a]) : ul'[a][i].type = "dereg"
    BY <1>5, <2>7
  <2>9. ASSUME NEW d \in Contexts, Owns(d, a), NEW s \in Sess PROVE ues[d].sm[s] = "none"
    <3>1. ~Asking(a, "sessRel", s) /\ ~Asking(a, "relResponse", s)
      BY <2>5 DEF Asking
    <3>2. ~Answering(a, "sessRelease", s) /\ ~Answering(a, "sessAccept", s)
      BY <2>6 DEF Answering
    <3>3. Held(a, s, d)
      BY <1>1, <2>3, <2>9 DEF LifeOk
    <3>4. ues[d].sm[s] \in SmStates
      BY <1>1, ContextType
    <3>5. QED BY <1>5, <3>1, <3>2, <3>3, <3>4 DEF Held, SmStates
  <2>10. Gone(a)'
    BY <1>1, <1>2, <2>1, <2>6, <2>8, <2>9 DEF Gone
  <2>11. LifeOk(a)'
    BY <2>3, <2>4, <2>10 DEF LifeOk
  <2>12. QED BY <1>3, <2>2, <2>11
\* It asks for a session or for its release.
<1>6. ASSUME NEW s0 \in Sess, NEW x, Sent(a, x), x.s = s0, NEW y, SetSess(a, s0, y),
             \/ /\ run[a].st = "registered" /\ x.type = "sessReq" /\ y = "asked"
                /\ run[a].sess[s0] = "none"
             \/ /\ run[a].st \in {"registered", "stopping"} /\ x.type = "sessRel" /\ y = "releasing"
                /\ run[a].sess[s0] = "active"
      PROVE  SessInv'
  <2>1. /\ run'[a].st = run[a].st /\ run'[a].ctx = run[a].ctx /\ LifeStep(a)
        /\ run'[a].sess[s0] = y /\ \A s \in Sess : s # s0 => run'[a].sess[s] = run[a].sess[s]
        /\ run[a].st # "started"
    BY <1>1, <1>6 DEF SetSess, Life
  <2>2. Moves(a)
    BY <1>1, <1>6, <2>1 DEF Moves
  <2>3. ~Ended(a) /\ ~Ended(a)'
    BY <1>6, <2>1 DEF Ended
  <2>4. Reachable(a)'
    BY <1>1, <2>1, <2>3 DEF LifeOk, Reachable
  <2>5. Timely(a)'
    <3>1. Timely(a)
      BY <1>1 DEF LifeOk
    <3>2. run[a].st = "stopping" => y # "asked"
      BY <1>6
    <3>3. QED BY <2>1, <3>1, <3>2 DEF Timely
  <2>6. Gone(a)'
    <3>1. Gone(a) /\ run[a].st # "left" /\ x.type # "dereg"
      BY <1>1, <1>6 DEF LifeOk
    <3>2. QED BY <1>1, <1>6, <2>1, <3>1, StillHere
  <2>7. \A t, s : /\ Asking(a, t, s)' <=> Asking(a, t, s) \/ (x.type = t /\ s0 = s)
                  /\ Once(a, t, s) /\ ~(x.type = t /\ s0 = s /\ Asking(a, t, s)) => Once(a, t, s)'
    BY <1>1, <1>6, SentAsking
  <2>8. ASSUME NEW s \in Sess PROVE Requests(a, s)'
    <3>1. Requests(a, s)
      BY <1>1, <2>3 DEF LifeOk
    <3>2. CASE s # s0
      <4>1. run'[a].sess[s] = run[a].sess[s]
        BY <2>1, <3>2
      <4>2. /\ Asking(a, "sessReq", s)' <=> Asking(a, "sessReq", s)
            /\ Asking(a, "sessRel", s)' <=> Asking(a, "sessRel", s)
            /\ Once(a, "sessReq", s) => Once(a, "sessReq", s)'
            /\ Once(a, "sessRel", s) => Once(a, "sessRel", s)'
        BY <2>7, <3>2
      <4>3. QED BY <1>2, <3>1, <4>1, <4>2 DEF Requests
    <3>3. CASE s = s0
      <4>1. /\ ~Asking(a, "sessReq", s) /\ ~Asking(a, "sessRel", s)
            /\ ~Answering(a, "sessAccept", s) /\ ~Answering(a, "sessRelease", s)
        BY <1>6, <3>1, <3>3 DEF Requests
      <4>2. Once(a, "sessReq", s)' /\ Once(a, "sessRel", s)'
        BY <2>7, <3>1, <4>1 DEF Requests
      <4>3. ~Answering(a, "sessAccept", s)' /\ ~Answering(a, "sessRelease", s)'
        BY <1>2, <4>1
      <4>4. /\ Asking(a, "sessReq", s)' => x.type = "sessReq"
            /\ Asking(a, "sessRel", s)' => x.type = "sessRel"
        BY <2>7, <4>1
      <4>5. /\ x.type = "sessReq" => run'[a].sess[s] = "asked"
            /\ x.type = "sessRel" => run'[a].sess[s] = "releasing"
        BY <1>6, <2>1, <3>3
      <4>6. QED BY <4>2, <4>3, <4>4, <4>5 DEF Requests
    <3>4. QED BY <3>2, <3>3
  <2>9. ASSUME NEW s \in Sess, NEW d \in Contexts', Owns(d, a)' PROVE Held(a, s, d)'
    <3>1. Held(a, s, d) /\ Requests(a, s) /\ ues' = ues
      BY <1>1, <1>2, <2>3, <2>9 DEF LifeOk
    <3>2. /\ Asking(a, "relResponse", s) => Asking(a, "relResponse", s)'
          /\ Asking(a, "sessRel", s) => Asking(a, "sessRel", s)'
          /\ Answering(a, "sessAccept", s) => Answering(a, "sessAccept", s)'
          /\ Answering(a, "sessRelease", s) => Answering(a, "sessRelease", s)'
      BY <1>2, <2>7
    <3>3. CASE s # s0
      <4>1. run'[a].sess[s] = run[a].sess[s]
        BY <2>1, <3>3
      <4>2. QED BY <3>1, <3>2, <4>1 DEF Held
    <3>4. CASE s = s0 /\ x.type = "sessReq"
      <4>1. ues[d].sm[s] # "Active"
        BY <1>6, <3>1, <3>4 DEF Held
      <4>2. QED BY <3>1, <3>2, <4>1 DEF Held
    <3>5. CASE s = s0 /\ x.type = "sessRel"
      <4>1. Asking(a, "sessRel", s)' /\ run'[a].sess[s] = "releasing"
        BY <1>6, <2>1, <2>7, <3>5
      <4>2. QED BY <3>1, <3>2, <4>1 DEF Held
    <3>6. QED BY <1>6, <3>3, <3>4, <3>5
  <2>10. LifeOk(a)'
    BY <2>4, <2>5, <2>6, <2>8, <2>9 DEF LifeOk
  <2>11. QED BY <1>3, <2>2, <2>10
<1>7. \A t, s : Up(t, run[a].ran, run[a].amf, run[a].msin, s).type = t
                /\ Up(t, run[a].ran, run[a].amf, run[a].msin, s).s = s
  BY UpFields
<1>8. CASE run[a].st = "registered" /\ SetSt(a, "stopping") /\ ul' = ul
           /\ ("early" \in Races \/ \A s \in Sess : run[a].sess[s] # "asked")
  BY <1>4, <1>8
<1>9. CASE /\ run[a].st = "stopping" /\ SetSt(a, "left") /\ \A s \in Sess : run[a].sess[s] # "active"
           /\ "timeout" \in Races \/ Quiet(a)
           /\ Sent(a, Up("dereg", run[a].ran, run[a].amf, run[a].msin, 0))
  BY <1>5, <1>7, <1>9
<1>10. CASE run[a].st \in {"started", "registered"} /\ SetSt(a, "killed") /\ ul' = ul
  BY <1>4, <1>10
<1>11. ASSUME NEW s \in Sess, run[a].st = "registered", run[a].sess[s] = "none", SetSess(a, s, "asked"),
              Sent(a, Up("sessReq", run[a].ran, run[a].amf, run[a].msin, s))
       PROVE  SessInv'
  BY <1>6, <1>7, <1>11
<1>12. ASSUME NEW s \in Sess, run[a].st \in {"registered", "stopping"}, run[a].sess[s] = "active",
              SetSess(a, s, "releasing"),
              Sent(a, Up("sessRel", run[a].ran, run[a].amf, run[a].msin, s))
       PROVE  SessInv'
  BY <1>6, <1>7, <1>12
<1>13. QED BY <1>1, <1>8, <1>9, <1>10, <1>11, <1>12, UeEffect

LEMMA SessStart ==
    ASSUME OneGnb, SessInv, RegInv', NEW m \in Msin, NEW g \in Gnb, Start(m, g)
    PROVE  SessInv'
<1>1. IdInv /\ TypeOK /\ Len(run) \in Nat
  BY UlType DEF SessInv, RegInv, IdInv
<1>n. PICK n \in Nat : n = Len(run) + 1
  BY <1>1
<1>2. PICK r \in Nat \ {0} : Starts(m, g, r)
  BY <1>1, StartEffect
<1>3. /\ Lives' = Lives \cup {n} /\ n \notin Lives /\ Contexts' = Contexts
      /\ UNCHANGED <<ues, hung, dl>> /\ \A b \in Lives : run'[b] = run[b] /\ ul'[b] = ul[b]
      /\ \A d, b : Owns(d, b)' <=> Owns(d, b)
  BY <1>1, <1>2, <1>n DEF Starts, Lives, Contexts, Owns
<1>4. ASSUME NEW b \in Lives PROVE LifeOk(b)'
  <2>1. Untouched(b)
    BY <1>3 DEF Untouched
  <2>2. QED BY <2>1, UntouchedOk DEF SessInv
<1>5. /\ run'[n].st = "started" /\ run'[n].ctx /\ run'[n].sess = [s \in Sess |-> "none"]
      /\ Len(ul'[n]) = 1 /\ ul'[n][1].type = "initial"
  <2>1. run'[n] = [msin |-> m, gnb |-> g, ran |-> r, amf |-> 0, st |-> "started",
                   ctx |-> TRUE, sess |-> [s \in Sess |-> "none"]]
    BY <1>2, <1>n DEF Starts
  <2>2. ul'[n] = <<Up("initial", r, 0, m, 0)>>
    BY <1>2, <1>n DEF Starts
  <2>3. Len(ul'[n]) = 1 /\ ul'[n][1] = Up("initial", r, 0, m, 0)
    BY <2>2
  <2>4. QED BY <2>1, <2>3, UpFields
<1>6. /\ \A d \in Contexts : ~Owns(d, n)
      /\ \A x \in dl : x.ran # n
  BY <1>1, <1>3 DEF IdInv, UeIds, DlIds, Owns
<1>7. /\ \A t \in {"sessReq", "sessRel"} : \A s : ~Asking(n, t, s)' /\ Once(n, t, s)'
      /\ \A t, s : ~Answering(n, t, s)'
  BY <1>3, <1>5, <1>6 DEF Asking, Once, Answering
<1>8. Reachable(n)' /\ Timely(n)' /\ Gone(n)'
  <2>1. Reachable(n)'
    BY <1>3, <1>5, <1>6 DEF Reachable, Ended
  <2>2. Timely(n)'
    BY <1>5 DEF Timely
  <2>3. Gone(n)'
    BY <1>5 DEF Gone
  <2>4. QED BY <2>1, <2>2, <2>3
<1>9. \A s \in Sess : Requests(n, s)'
  BY <1>7 DEF Requests
<1>10. LifeOk(n)'
  BY <1>3, <1>6, <1>8, <1>9 DEF LifeOk
<1>11. QED BY <1>3, <1>4, <1>10 DEF SessInv, AssociationsServed

LEMMA SessStep == OneGnb /\ Races = {} /\ SessInv /\ [Next]_vars => SessInv'
<1> SUFFICES ASSUME OneGnb, Races = {}, SessInv, [Next]_vars PROVE SessInv'
  OBVIOUS
<1>1. RegInv'
  BY RegStep DEF SessInv
<1>2. ASSUME NEW m \in Msin, NEW g \in Gnb, Start(m, g) PROVE SessInv'
  BY <1>1, <1>2, SessStart
<1>3. ASSUME NEW m \in dl, Deliver(m) PROVE SessInv'
  BY <1>1, <1>3, SessDeliver
<1>4. ASSUME NEW a \in Lives, UeNext(a) PROVE SessInv'
  BY <1>1, <1>4, SessUe
<1>5. ASSUME NEW g \in Gnb, NEW a \in Lives, Dispatch(g, a) PROVE SessInv'
  BY <1>1, <1>5, SessDispatch
<1>6. CASE UNCHANGED vars
  <2>1. UNCHANGED <<ues, hung, ul, dl, run>>
    BY <1>6 DEF vars, coreVars
  <2>2. Lives' = Lives /\ \A b : Untouched(b)
    BY <2>1 DEF Lives, Untouched, Owns, Contexts
  <2>3. \A b \in Lives : LifeOk(b)'
    BY <2>2, UntouchedOk DEF SessInv
  <2>4. QED BY <1>1, <2>1, <2>2, <2>3 DEF SessInv, AssociationsServed
<1>7. QED BY <1>2, <1>3, <1>4, <1>5, <1>6 DEF Next, Lives
LEMMA SessInit == Init => SessInv
<1> SUFFICES ASSUME Init PROVE SessInv
  OBVIOUS
<1>1. Lives = {}
  BY DEF Init, Lives
<1>2. QED BY <1>1, RegInit DEF Init, SessInv, AssociationsServed

\* The goroutine of an association never waits for a mutex it holds itself, whatever
\* sessions the UEs use: a UE that deregisters has none left in the core.  It takes
\* one gNodeB and no race.
THEOREM AssociationsStayServed ==
    ASSUME OneGnb, Races = {} PROVE Spec => []AssociationsServed
<1>1. SessInv /\ [Next]_vars => SessInv'
  BY SessStep
<1>2. SessInv => AssociationsServed
  BY DEF SessInv
<1>3. QED BY SessInit, <1>1, <1>2, PTL DEF Spec

-----------------------------------------------------------------------------
(* A running UE and the core agree on a session.                           *)

LEMMA TakenOrdered ==
    ASSUME TypeOK, NEW a \in Lives, NEW s, Taken(a), Len(ul[a]) >= 1, run'[a] = run[a], Ordered(a, s)
    PROVE  Ordered(a, s)'
<1> DEFINE n == Len(ul[a])
<1>1. /\ n \in Nat /\ n >= 1 /\ Len(ul'[a]) = n - 1
      /\ \A i \in 1..n - 1 : ul'[a][i] = ul[a][i + 1]
  BY UlType DEF Taken
<1>2. \A i \in 1..n : ul[a][i].type = "relResponse" =>
        /\ run[a].sess[s] # "active"
        /\ run[a].sess[s] = "asked" => \E j \in i+1..n : ul[a][j].type = "sessReq" /\ ul[a][j].s = s
  BY DEF Ordered
<1> HIDE DEF n
<1> SUFFICES ASSUME NEW i \in 1..n - 1, ul'[a][i].type = "relResponse"
             PROVE  /\ run[a].sess[s] # "active"
                    /\ run[a].sess[s] = "asked" =>
                          \E j \in i+1..n - 1 : ul'[a][j].type = "sessReq" /\ ul'[a][j].s = s
  BY <1>1 DEF Ordered
<1>3. i + 1 \in 1..n /\ ul[a][i + 1].type = "relResponse"
  BY <1>1
<1>4. ASSUME run[a].sess[s] = "asked"
      PROVE  \E j \in i+1..n - 1 : ul'[a][j].type = "sessReq" /\ ul'[a][j].s = s
  <2>1. PICK j \in (i + 1) + 1..n : ul[a][j].type = "sessReq" /\ ul[a][j].s = s
    BY <1>2, <1>3, <1>4
  <2>2. j - 1 \in i+1..n - 1 /\ ul'[a][j - 1] = ul[a][j]
    <3>1. j - 1 \in 1..n - 1 /\ (j - 1) + 1 = j /\ j - 1 \in i+1..n - 1
      BY <1>1
    <3>2. QED BY <1>1, <3>1
  <2>3. QED BY <2>1, <2>2
<1>5. QED BY <1>2, <1>3, <1>4

\* A message is sent: a response once the session is released, a request after it.
LEMMA SentOrdered ==
    ASSUME TypeOK, NEW a \in Lives, NEW s, NEW x, Sent(a, x), Ordered(a, s),
           \/ run'[a].sess[s] = run[a].sess[s] /\ x.type # "relResponse"
           \/ run'[a].sess[s] \in {"none", "releasing"}
           \/ run'[a].sess[s] = "asked" /\ x.type = "sessReq" /\ x.s = s
    PROVE  Ordered(a, s)'
<1> DEFINE n == Len(ul[a])
<1>1. /\ n \in Nat /\ Len(ul'[a]) = n + 1 /\ ul'[a][n + 1] = x
      /\ \A i \in 1..n : ul'[a][i] = ul[a][i]
  BY UlType DEF Sent
<1>2. \A i \in 1..n : ul[a][i].type = "relResponse" =>
        /\ run[a].sess[s] # "active"
        /\ run[a].sess[s] = "asked" => \E j \in i+1..n : ul[a][j].type = "sessReq" /\ ul[a][j].s = s
  BY DEF Ordered
<1> HIDE DEF n
<1> SUFFICES ASSUME NEW i \in 1..n + 1, ul'[a][i].type = "relResponse"
             PROVE  /\ run'[a].sess[s] # "active"
                    /\ run'[a].sess[s] = "asked" =>
                          \E j \in i+1..n + 1 : ul'[a][j].type = "sessReq" /\ ul'[a][j].s = s
  BY <1>1 DEF Ordered
<1>3. CASE run'[a].sess[s] = run[a].sess[s] /\ x.type # "relResponse"
  <2>1. i \in 1..n /\ ul[a][i].type = "relResponse"
    BY <1>1, <1>3
  <2>2. ASSUME run[a].sess[s] = "asked"
        PROVE  \E j \in i+1..n + 1 : ul'[a][j].type = "sessReq" /\ ul'[a][j].s = s
    <3>1. PICK j \in i+1..n : ul[a][j].type = "sessReq" /\ ul[a][j].s = s
      BY <1>2, <2>1, <2>2
    <3>2. j \in i+1..n + 1 /\ ul'[a][j] = ul[a][j]
      <4>1. j \in 1..n /\ j \in i+1..n + 1
        BY <1>1
      <4>2. QED BY <1>1, <4>1
    <3>3. QED BY <3>1, <3>2
  <2>3. QED BY <1>2, <1>3, <2>1, <2>2
<1>4. CASE run'[a].sess[s] \in {"none", "releasing"}
  BY <1>4
<1>5. CASE run'[a].sess[s] = "asked" /\ x.type = "sessReq" /\ x.s = s
  <2>1. i \in 1..n /\ n + 1 \in i+1..n + 1
    BY <1>1, <1>5
  <2>2. QED BY <1>1, <1>5, <2>1
<1>6. QED BY <1>3, <1>4, <1>5

LEMMA UntouchedKnown ==
    ASSUME NEW b, NEW s, Untouched(b), Kept(b, s), Ordered(b, s)
    PROVE  Kept(b, s)' /\ Ordered(b, s)'
<1>1. Answering(b, "sessAccept", s)' => Answering(b, "sessAccept", s)
  BY DEF Untouched, Answering
<1>2. Kept(b, s)'
  BY <1>1 DEF Untouched, Kept, Owns
<1>3. Ordered(b, s)'
  BY DEF Untouched, Ordered
<1>4. QED BY <1>2, <1>3

LEMMA KnownDispatch ==
    ASSUME OneSess, KnownInv, SessInv', NEW g \in Gnb, NEW a \in Lives, Dispatch(g, a)
    PROVE  KnownInv'
<1> DEFINE m == ul[a][1]
           c == m.amf
<1>1. /\ IdInv /\ TypeOK /\ Len(ul[a]) >= 1 /\ m \in UpMsg /\ Taken(a) /\ run' = run
      /\ JoinsOwn(g, a, m) \/ NasOwn(g, a, c, m)
  BY OwnEffect DEF KnownInv, SessInv, RegInv, IdInv
<1>2. Lives' = Lives /\ SessInv /\ Len(ul[a]) \in Nat /\ 1 \in 1..Len(ul[a]) /\ LifeOk(a)
  BY <1>1, UlType DEF Lives, KnownInv, SessInv
<1>3. \A b : Ended(b)' <=> Ended(b)
  BY <1>1 DEF Ended
<1> HIDE DEF c
<1> SUFFICES ASSUME NEW b \in Lives, NEW s \in Sess, ~Ended(b)
             PROVE  Kept(b, s)' /\ Ordered(b, s)'
  BY <1>2, <1>3 DEF KnownInv
<1>4. Kept(b, s) /\ Ordered(b, s) /\ run'[b] = run[b]
  BY <1>1 DEF KnownInv
<1>5. CASE b # a /\ NasOwn(g, a, c, m)
  <2>1. Untouched(b)
    BY <1>1, <1>2, <1>5, CoreOthers
  <2>2. QED BY <1>4, <2>1, UntouchedKnown
<1>6. CASE b # a /\ JoinsOwn(g, a, m)
  <2>1. ul'[b] = ul[b]
    BY <1>1, <1>6 DEF Taken
  <2>2. Len(ues) \in Nat
    BY <1>1, UlType
  <2>3. \A d \in Contexts' : Owns(d, b)' => d \in Contexts /\ Owns(d, b) /\ ues'[d] = ues[d]
    BY <1>6, <2>2 DEF JoinsOwn, Joins, Owns, Contexts
  <2>4. Answering(b, "sessAccept", s)' => Answering(b, "sessAccept", s)
    BY <1>6 DEF JoinsOwn, Joins, Answering
  <2>5. Kept(b, s)'
    BY <1>4, <2>3, <2>4 DEF Kept
  <2>6. Ordered(b, s)'
    BY <1>4, <2>1 DEF Ordered
  <2>7. QED BY <2>5, <2>6
<1>7. CASE b = a
  <2> USE <1>7
  <2>1. Ordered(a, s)'
    BY <1>1, <1>2, <1>4, TakenOrdered
  <2>2. CASE JoinsOwn(g, a, m)
    <3>1. \A d : ~Owns(d, a)
      BY <2>2 DEF JoinsOwn, Owns
    <3>2. run[a].st = "started" /\ run[a].sess[s] = "none"
      <4>1. run[a].st \notin {"registered", "stopping", "left"}
        BY <1>1, <3>1 DEF IdInv, StartIds, RunIds
      <4>2. run[a] \in Life
        BY <1>1, UlType
      <4>3. run[a].st = "started"
        BY <4>1, <4>2 DEF Ended, Life
      <4>4. QED BY <1>2, <4>3 DEF LifeOk, Timely
    <3>3. ~Answering(a, "sessAccept", s)'
      <4>1. \A x \in dl : x.ran # a
        BY <1>1, <3>1 DEF IdInv, DlIds
      <4>2. QED BY <2>2, <4>1 DEF JoinsOwn, Joins, Answering
    <3>4. Kept(a, s)'
      BY <1>4, <3>2, <3>3 DEF Kept
    <3>5. QED BY <2>1, <3>4
  <2>3. CASE NasOwn(g, a, c, m)
    <3>1. /\ c \in Contexts /\ ues[c].ran = a /\ ues[c].sm \in [Sess -> SmStates]
          /\ \A d : Owns(d, a) <=> d = c
      BY <1>1, <2>3, ContextType DEF NasOwn, Owns, IdInv, UeIds
    <3>2. \A d \in Contexts' : Owns(d, a)' => d = c
      <4>1. SameIds(ues') /\ Contexts' = Contexts
        BY <1>1, <2>3, <3>1, OwnFrame DEF SameIds, Contexts
      <4>2. QED BY <3>1, <4>1 DEF Owns, SameIds
    <3>3. Requests(a, s)
      BY <1>2 DEF LifeOk
    <3>4. /\ Asking(a, m.type, m.s)
          /\ m.type \in {"sessReq", "sessRel", "relResponse"} => m.s = s
      BY <1>2, <2>3 DEF Asking, NasOwn, OneSess
    <3>5. CASE NasReq(g, c, m)
      <4>1. ues'[c].sm[s] = "Active"
        BY <3>1, <3>4, <3>5 DEF NasReq
      <4>2. Kept(a, s)'
        BY <3>2, <4>1 DEF Kept
      <4>3. QED BY <2>1, <4>2
    <3>6. CASE ~NasReq(g, c, m)
      <4>1. Answering(a, "sessAccept", s)' => Answering(a, "sessAccept", s)
        <5> SUFFICES ASSUME NEW x \in dl', x.type = "sessAccept" PROVE x \in dl
          BY DEF Answering
        <5>1. \A t, e, k : Down(t, g, ues[e], k).type = t
          BY DEF Down
        <5>2. CASE NasAuth(g, c, m)
          <6> DEFINE R == FindRegisteredUEByMsin(ues[c].msin)
          <6>1. \/ x \in dl \/ x = Down("securityModeCommand", g, ues[c], 0)
                \/ \E o \in R : x = Down("ctxRelease", g, ues[o], 0)
            BY <5>2 DEF NasAuth
          <6> HIDE DEF R
          <6>2. QED BY <5>1, <6>1
        <5>3. CASE dl' = dl
          BY <5>3
        <5>4. CASE NasOk(g, c, m) \/ NasRel(g, c, m) \/ NasDereg(g, c, m)
          <6>1. PICK t \in {"registrationAccept", "sessRelease", "ctxRelease"}, k \in {0, m.s} :
                   dl' = dl \cup {Down(t, g, ues[c], k)}
            BY <5>4 DEF NasOk, NasRel, NasDereg
          <6>2. Down(t, g, ues[c], k).type = t
            BY <5>1
          <6>3. QED BY <6>1, <6>2
        <5>5. QED BY <2>3, <3>6, <5>2, <5>3, <5>4 DEF NasOwn, Forgets, NasReg, NasHang, NasIgnore
      <4>2. ASSUME run[a].sess[s] = "active" \/ Answering(a, "sessAccept", s)
            PROVE  ues'[c].sm[s] = "Active"
        <5>1. ues[c].sm[s] = "Active"
          BY <1>4, <3>1, <4>2 DEF Kept
        <5>2. run[a].sess[s] \in {"active", "asked"} /\ ~Asking(a, "sessRel", s)
          BY <3>3, <4>2 DEF Requests
        <5>3. ~NasRel(g, c, m)
          BY <3>4, <5>2 DEF NasRel
        <5>4. m.type # "relResponse"
          <6> SUFFICES ASSUME m.type = "relResponse" PROVE FALSE
            OBVIOUS
          <6>1. run[a].sess[s] = "asked" /\ Answering(a, "sessAccept", s)
            BY <1>2, <1>4, <4>2, <5>2 DEF Ordered
          <6>2. \E j \in 1+1..Len(ul[a]) : ul[a][j].type = "sessReq" /\ ul[a][j].s = s
            BY <1>2, <1>4, <6>1 DEF Ordered
          <6>3. Asking(a, "sessReq", s)
            <7>1. PICK j \in 1+1..Len(ul[a]) : ul[a][j].type = "sessReq" /\ ul[a][j].s = s
              BY <6>2
            <7>2. j \in 1..Len(ul[a])
              BY <1>2
            <7>3. QED BY <7>1, <7>2 DEF Asking
          <6>4. QED BY <3>3, <6>1, <6>3 DEF Requests
        <5>5. ~NasHang(g, c, m)
          <6>1. m.type = "dereg" => Ended(a)
            BY <1>2 DEF LifeOk, Gone, Ended
          <6>2. QED BY <6>1 DEF NasHang
        <5>6. ues'[c].sm = ues[c].sm
          BY <2>3, <3>1, <3>6, <5>3, <5>4, <5>5 DEF NasOwn, NasAuth, NasOk, NasReg, NasDereg, NasIgnore,
             SameSm
        <5>7. QED BY <5>1, <5>6
      <4>3. Kept(a, s)'
        BY <1>4, <3>2, <4>1, <4>2 DEF Kept
      <4>4. QED BY <2>1, <4>3
    <3>7. QED BY <3>5, <3>6
  <2>4. QED BY <1>1, <2>2, <2>3
<1>8. QED BY <1>1, <1>5, <1>6, <1>7

\* The lives that do not move.
LEMMA KnownMove ==
    ASSUME KnownInv, SessInv', NEW a \in Lives, Moves(a),
           ~Ended(a)' => \A s \in Sess : Kept(a, s)' /\ Ordered(a, s)'
    PROVE  KnownInv'
<1>1. /\ Lives' = Lives /\ Contexts' = Contexts /\ \A d, b : Owns(d, b)' <=> Owns(d, b)
  BY DEF Moves, LifeStep, Lives, Contexts, Owns
<1>2. ASSUME NEW b \in Lives, NEW s \in Sess, b # a, ~Ended(b)' PROVE Kept(b, s)' /\ Ordered(b, s)'
  <2>1. run'[b] = run[b] /\ ul'[b] = ul[b]
    BY <1>2 DEF Moves, LifeStep, Sent
  <2>2. (\A x \in dl : x.ran = b => x \in dl') /\ \A x \in dl' : x \in dl
    BY <1>2 DEF Moves
  <2>3. Untouched(b)
    BY <1>1, <2>1, <2>2 DEF Untouched, Moves
  <2>4. ~Ended(b)
    BY <1>2, <2>1 DEF Ended
  <2>5. Kept(b, s) /\ Ordered(b, s)
    BY <2>4 DEF KnownInv
  <2>6. QED BY <2>3, <2>5, UntouchedKnown
<1>3. \A b \in Lives, s \in Sess : ~Ended(b)' => Kept(b, s)' /\ Ordered(b, s)'
  BY <1>2
<1>4. QED BY <1>1, <1>3 DEF KnownInv

LEMMA KnownDeliver ==
    ASSUME OneGnb, OneSess, KnownInv, SessInv', NEW m \in dl, Deliver(m)
    PROVE  KnownInv'
<1> DEFINE a == m.ran
<1>1. /\ IdInv /\ TypeOK /\ dl' = dl \ {m} /\ UNCHANGED <<ues, hung>> /\ m \in DownMsg
      /\ \/ Addressed(m) = {} /\ UNCHANGED <<run, ul>>
         \/ \E b \in Addressed(m) : DelReply(b, m) \/ DelAccept(b, m) \/ DelRelease(b, m) \/ DelCtx(b, m)
  BY DeliverEffect DEF KnownInv, SessInv, RegInv, IdInv
<1>2. /\ a \in Lives /\ run[a] \in Life /\ SessInv /\ LifeOk(a) /\ Len(ul[a]) \in Nat
      /\ m.type \in {"sessAccept", "sessRelease"} => m.s \in Sess
  BY <1>1, UlType DEF KnownInv, SessInv, IdInv, DlIds, UeIds, Owns
<1>3. \A t, s : Answering(a, t, s)' => Answering(a, t, s)
  BY <1>1 DEF Answering
<1>4. Answering(a, m.type, m.s)
  BY DEF Answering
<1>5. \A d : (d \in Contexts' <=> d \in Contexts) /\ (Owns(d, a)' <=> Owns(d, a))
  BY <1>1 DEF Contexts, Owns
<1>6. \A b \in Addressed(m) : b = a
  BY <1>1, Target
<1> HIDE DEF a
<1>7. CASE Addressed(m) = {} /\ UNCHANGED <<run, ul>>
  <2>1. Moves(a)
    <3>1. LifeStep(a)
      BY <1>1, <1>7 DEF LifeStep, TypeOK
    <3>2. QED BY <1>1, <1>7, <3>1 DEF Moves, a
  <2>2. ASSUME ~Ended(a)', NEW s \in Sess PROVE Kept(a, s)' /\ Ordered(a, s)'
    <3>1. Kept(a, s) /\ Ordered(a, s)
      BY <1>2, <1>7, <2>2 DEF KnownInv, Ended
    <3>2. Kept(a, s)'
      BY <1>1, <1>3, <1>5, <1>7, <3>1 DEF Kept
    <3>3. Ordered(a, s)'
      BY <1>7, <3>1 DEF Ordered
    <3>4. QED BY <3>2, <3>3
  <2>3. QED BY <1>2, <2>1, <2>2, KnownMove
<1>8. ASSUME NEW b \in Addressed(m), DelReply(b, m) \/ DelAccept(b, m) \/ DelRelease(b, m) \/ DelCtx(b, m)
      PROVE  KnownInv'
  <2>1. DelReply(a, m) \/ DelAccept(a, m) \/ DelRelease(a, m) \/ DelCtx(a, m)
    BY <1>6, <1>8
  <2>2. Moves(a)
    <3>1. LifeStep(a)
      BY <2>1 DEF DelReply, DelAccept, DelRelease, DelCtx, SetAmf, SetSess, SetCtx
    <3>2. ul' = ul \/ \E x : Sent(a, x)
      BY <2>1 DEF DelReply, DelAccept, DelRelease, DelCtx
    <3>3. QED BY <1>1, <3>1, <3>2 DEF Moves, a
  <2>3. ASSUME ~Ended(a)', NEW s \in Sess PROVE Kept(a, s)' /\ Ordered(a, s)'
    <3>1. ~Ended(a)
      BY <2>1, <2>3 DEF DelReply, DelAccept, DelRelease, DelCtx, SetAmf, SetSess, SetCtx, Ended
    <3>2. Kept(a, s) /\ Ordered(a, s) /\ Requests(a, s) /\ Timely(a)
      BY <1>2, <3>1 DEF KnownInv, LifeOk
    <3>3. m.type \in {"sessAccept", "sessRelease"} => m.s = s
      BY <1>2 DEF OneSess
    <3>4. CASE DelReply(a, m)
      <4>1. run'[a].sess = run[a].sess
        BY <3>4 DEF DelReply, SetAmf
      <4>2. ul' = ul \/ \E x : Sent(a, x) /\ x.type # "relResponse"
        BY <3>4, ReplyTypes, UpFields DEF DelReply
      <4>3. Kept(a, s)'
        BY <1>1, <1>3, <1>5, <3>2, <4>1 DEF Kept
      <4>4. Ordered(a, s)'
        <5>1. CASE ul' = ul
          BY <3>2, <4>1, <5>1 DEF Ordered
        <5>2. ASSUME NEW x, Sent(a, x), x.type # "relResponse" PROVE Ordered(a, s)'
          BY <1>1, <1>2, <3>2, <4>1, <5>2, SentOrdered
        <5>3. QED BY <4>2, <5>1, <5>2
      <4>5. QED BY <4>3, <4>4
    <3>5. CASE DelAccept(a, m)
      <4>1. m.s = s /\ Answering(a, "sessAccept", s) /\ ul' = ul
        BY <1>4, <3>3, <3>5 DEF DelAccept
      <4>2. run[a].sess[s] = "asked" /\ ~Asking(a, "sessReq", s)
        BY <3>2, <4>1 DEF Requests
      <4>3. \A i \in 1..Len(ul[a]) : ul[a][i].type # "relResponse"
        <5> SUFFICES ASSUME NEW i \in 1..Len(ul[a]), ul[a][i].type = "relResponse" PROVE FALSE
          OBVIOUS
        <5>1. PICK j \in i+1..Len(ul[a]) : ul[a][j].type = "sessReq" /\ ul[a][j].s = s
          BY <3>2, <4>2 DEF Ordered
        <5>2. j \in 1..Len(ul[a])
          BY <1>2
        <5>3. QED BY <4>2, <5>1, <5>2 DEF Asking
      <4>4. Kept(a, s)'
        BY <1>1, <1>5, <3>2, <4>1 DEF Kept
      <4>5. Ordered(a, s)'
        BY <4>1, <4>3 DEF Ordered
      <4>6. QED BY <4>4, <4>5
    <3>6. CASE DelRelease(a, m)
      <4>1. m.s = s /\ Answering(a, "sessRelease", s)
        BY <1>4, <3>3, <3>6 DEF DelRelease
      <4>2. run[a].sess[s] = "releasing" /\ ~Answering(a, "sessAccept", s)
        BY <3>2, <4>1 DEF Requests
      <4>3. run'[a].sess[s] \in {"none", "releasing"}
        BY <1>2, <2>3, <3>6, <4>1, <4>2 DEF DelRelease, SetSess, Life
      <4>4. Kept(a, s)'
        BY <1>3, <4>2, <4>3 DEF Kept
      <4>5. Ordered(a, s)'
        <5>1. PICK x : Sent(a, x)
          BY <3>6 DEF DelRelease
        <5>2. QED BY <1>1, <1>2, <3>2, <4>3, <5>1, SentOrdered
      <4>6. QED BY <4>4, <4>5
    <3>7. CASE DelCtx(a, m)
      <4>1. run'[a].sess = run[a].sess /\ ul' = ul
        BY <3>7 DEF DelCtx, SetCtx
      <4>2. Kept(a, s)'
        BY <1>1, <1>3, <1>5, <3>2, <4>1 DEF Kept
      <4>3. Ordered(a, s)'
        BY <3>2, <4>1 DEF Ordered
      <4>4. QED BY <4>2, <4>3
    <3>8. QED BY <2>1, <3>4, <3>5, <3>6, <3>7
  <2>4. QED BY <1>2, <2>2, <2>3, KnownMove
<1>9. QED BY <1>1, <1>7, <1>8

LEMMA KnownUe ==
    ASSUME OneSess, KnownInv, SessInv', NEW a \in Lives, UeNext(a)
    PROVE  KnownInv'
<1>1. /\ IdInv /\ TypeOK /\ UNCHANGED <<ues, hung, dl>> /\ LifeOk(a) /\ run[a] \in Life
  <2>1. IdInv /\ TypeOK /\ LifeOk(a) /\ run[a] \in Life
    BY UlType DEF KnownInv, SessInv, RegInv, IdInv
  <2>2. QED BY <2>1, UeEffect
<1>2. LifeStep(a) /\ (ul' = ul \/ \E x : Sent(a, x)) /\ ~Ended(a)
  <2>1. ~Ended(a)
    BY <1>1, UeEffect DEF Ended
  <2>2. LifeStep(a)
    BY <1>1, UeEffect DEF SetSt, SetSess
  <2>3. ul' = ul \/ \E x : Sent(a, x)
    BY <1>1, UeEffect
  <2>4. QED BY <2>1, <2>2, <2>3
<1>3. Moves(a)
  BY <1>1, <1>2 DEF Moves
<1>4. ASSUME ~Ended(a)', NEW s \in Sess PROVE Kept(a, s)' /\ Ordered(a, s)'
  <2>1. /\ Kept(a, s) /\ Ordered(a, s) /\ Requests(a, s)
        /\ Answering(a, "sessAccept", s)' <=> Answering(a, "sessAccept", s)
        /\ \A d : (d \in Contexts' <=> d \in Contexts) /\ (Owns(d, a)' <=> Owns(d, a))
    BY <1>1, <1>2 DEF KnownInv, LifeOk, Answering, Contexts, Owns
  <2>2. CASE SetSt(a, "stopping") /\ ul' = ul
    <3>1. run'[a].sess = run[a].sess
      BY <2>2 DEF SetSt
    <3>2. Kept(a, s)'
      BY <1>1, <2>1, <3>1 DEF Kept
    <3>3. Ordered(a, s)'
      BY <2>1, <2>2, <3>1 DEF Ordered
    <3>4. QED BY <3>2, <3>3
  <2>3. CASE SetSt(a, "left") \/ SetSt(a, "killed")
    BY <1>4, <2>3 DEF SetSt, Ended
  <2>4. ASSUME NEW x, Sent(a, x), x.s = s,
               \/ run[a].sess[s] = "none" /\ SetSess(a, s, "asked") /\ x.type = "sessReq"
               \/ run[a].sess[s] = "active" /\ SetSess(a, s, "releasing")
        PROVE  Kept(a, s)' /\ Ordered(a, s)'
    <3>1. \/ run'[a].sess[s] = "asked" /\ x.type = "sessReq"
          \/ run'[a].sess[s] = "releasing"
      BY <1>1, <2>4 DEF SetSess, Life
    <3>2. ~Answering(a, "sessAccept", s)
      BY <2>1, <2>4 DEF Requests
    <3>3. Kept(a, s)'
      BY <2>1, <3>1, <3>2 DEF Kept
    <3>4. Ordered(a, s)'
      BY <1>1, <2>1, <2>4, <3>1, SentOrdered
    <3>5. QED BY <3>3, <3>4
  <2>5. ASSUME NEW t \in Sess, run[a].sess[t] = "none", SetSess(a, t, "asked"),
               Sent(a, Up("sessReq", run[a].ran, run[a].amf, run[a].msin, t))
        PROVE  Kept(a, s)' /\ Ordered(a, s)'
    <3>1. t = s
      BY DEF OneSess
    <3>2. QED BY <2>4, <2>5, <3>1, UpFields
  <2>6. ASSUME NEW t \in Sess, run[a].sess[t] = "active", SetSess(a, t, "releasing"),
               Sent(a, Up("sessRel", run[a].ran, run[a].amf, run[a].msin, t))
        PROVE  Kept(a, s)' /\ Ordered(a, s)'
    <3>1. t = s
      BY DEF OneSess
    <3>2. QED BY <2>4, <2>6, <3>1, UpFields
  <2>7. QED BY <1>1, <2>2, <2>3, <2>5, <2>6, UeEffect
<1>5. QED BY <1>3, <1>4, KnownMove

LEMMA KnownStart ==
    ASSUME KnownInv, SessInv', NEW m \in Msin, NEW g \in Gnb, Start(m, g)
    PROVE  KnownInv'
<1>1. IdInv /\ TypeOK /\ Len(run) \in Nat
  BY UlType DEF KnownInv, SessInv, RegInv, IdInv
<1>n. PICK n \in Nat : n = Len(run) + 1
  BY <1>1
<1>2. PICK r \in Nat \ {0} : Starts(m, g, r)
  BY <1>1, StartEffect
<1>3. /\ Lives' = Lives \cup {n} /\ n \notin Lives /\ UNCHANGED <<ues, dl>>
      /\ \A b \in Lives : run'[b] = run[b] /\ ul'[b] = ul[b]
      /\ \A d, b : Owns(d, b)' <=> Owns(d, b)
  BY <1>1, <1>2, <1>n DEF Starts, Lives, Contexts, Owns
<1>4. ASSUME NEW b \in Lives, NEW s \in Sess, ~Ended(b)' PROVE Kept(b, s)' /\ Ordered(b, s)'
  <2>1. Untouched(b)
    BY <1>3 DEF Untouched
  <2>2. ~Ended(b)
    BY <1>3, <1>4 DEF Ended
  <2>3. QED BY <2>1, <2>2, UntouchedKnown DEF KnownInv
<1>5. \A x \in dl : x.ran # n
  BY <1>1, <1>3 DEF IdInv, UeIds, DlIds, Owns
<1>6. ASSUME NEW s \in Sess PROVE Kept(n, s)' /\ Ordered(n, s)'
  <2>1. run'[n] = [msin |-> m, gnb |-> g, ran |-> r, amf |-> 0, st |-> "started",
                   ctx |-> TRUE, sess |-> [t \in Sess |-> "none"]]
    BY <1>2, <1>n DEF Starts
  <2>2. ul'[n] = <<Up("initial", r, 0, m, 0)>>
    BY <1>2, <1>n DEF Starts
  <2>3. Len(ul'[n]) = 1 /\ ul'[n][1] = Up("initial", r, 0, m, 0)
    BY <2>2
  <2>4. run'[n].sess[s] = "none" /\ ul'[n][1].type = "initial"
    BY <2>1, <2>3, UpFields
  <2>5. ~Answering(n, "sessAccept", s)'
    BY <1>3, <1>5 DEF Answering
  <2>6. Kept(n, s)'
    BY <2>4, <2>5 DEF Kept
  <2>7. Ordered(n, s)'
    BY <2>4 DEF Ordered
  <2>8. QED BY <2>6, <2>7
<1>7. QED BY <1>3, <1>4, <1>6 DEF KnownInv

LEMMA KnownStep == OneGnb /\ OneSess /\ Races = {} /\ KnownInv /\ [Next]_vars => KnownInv'
<1> SUFFICES ASSUME OneGnb, OneSess, Races = {}, KnownInv, [Next]_vars PROVE KnownInv'
  OBVIOUS
<1>1. SessInv'
  BY SessStep DEF KnownInv
<1>2. ASSUME NEW m \in Msin, NEW g \in Gnb, Start(m, g) PROVE KnownInv'
  BY <1>1, <1>2, KnownStart
<1>3. ASSUME NEW m \in dl, Deliver(m) PROVE KnownInv'
  BY <1>1, <1>3, KnownDeliver
<1>4. ASSUME NEW a \in Lives, UeNext(a) PROVE KnownInv'
  BY <1>1, <1>4, KnownUe
<1>5. ASSUME NEW g \in Gnb, NEW a \in Lives, Dispatch(g, a) PROVE KnownInv'
  BY <1>1, <1>5, KnownDispatch
<1>6. CASE UNCHANGED vars
  <2>1. UNCHANGED <<ues, ul, dl, run>>
    BY <1>6 DEF vars, coreVars
  <2>2. Lives' = Lives /\ \A b : Untouched(b) /\ (Ended(b)' <=> Ended(b))
    BY <2>1 DEF Lives, Untouched, Owns, Contexts, Ended
  <2>3. \A b \in Lives, s \in Sess : ~Ended(b)' => Kept(b, s)' /\ Ordered(b, s)'
    BY <2>2, UntouchedKnown DEF KnownInv
  <2>4. QED BY <1>1, <2>2, <2>3 DEF KnownInv
<1>7. QED BY <1>2, <1>3, <1>4, <1>5, <1>6 DEF Next, Lives

\* A session that a running UE holds active is active in its registered context, however
\* often it was released and requested again.  It takes one session id: the response to
\* one release deletes all sessions of the context.
THEOREM SessionsAreKnown ==
    ASSUME OneGnb, OneSess, Races = {} PROVE Spec => []SessionsKnown
<1>1. KnownInv /\ [Next]_vars => KnownInv'
  BY KnownStep
<1>2. Init => KnownInv
  <2> SUFFICES ASSUME Init PROVE KnownInv
    OBVIOUS
  <2>1. Lives = {}
    BY DEF Init, Lives
  <2>2. QED BY <2>1, SessInit DEF KnownInv
<1>3. ASSUME KnownInv PROVE SessionsKnown
  <2> SUFFICES ASSUME NEW a \in Lives, NEW s \in Sess, run[a].st = "registered",
                      run[a].sess[s] = "active"
               PROVE  \E c \in FindUEById(run[a].amf) :
                         ues[c].state = "Registered" /\ ues[c].msin = run[a].msin /\ ues[c].sm[s] = "Active"
    BY DEF SessionsKnown, Lives
  <2> DEFINE c == run[a].amf
  <2>1. IdInv /\ LifeOk(a) /\ ~Ended(a) /\ Kept(a, s)
    BY <1>3 DEF KnownInv, SessInv, RegInv, Ended
  <2>2. Owns(c, a)
    BY <2>1 DEF IdInv, StartIds, RunIds
  <2>3. ues[c].sm[s] = "Active" /\ Held(a, s, c)
    BY <2>1, <2>2 DEF Kept, LifeOk, Owns
  <2>4. ues[c].state = "Registered" /\ ues[c].msin = run[a].msin
    BY <2>1, <2>2, <2>3 DEF Held, IdInv, UeIds, Owns
  <2>5. FindUEById(c) = {c}
    <3>1. c \in Contexts
      BY <2>2 DEF Owns
    <3> HIDE DEF c
    <3>2. QED BY <2>1, <3>1, Found
  <2>6. QED BY <2>3, <2>4, <2>5
<1>4. KnownInv => SessionsKnown
  BY <1>3
<1>5. QED BY <1>1, <1>2, <1>4, PTL DEF Spec

=============================================================================
